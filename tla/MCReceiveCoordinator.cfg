CONSTANTS
  a = a
  b = b
  r1 = r1
  r2 = r2
  Capsules = {a, b}
  Requests = {r1, r2}
  None = None
SPECIFICATION LiveSpec
INVARIANT ManualIsPolled
PROPERTIES EveryRequestAnswered PollsInForeground
