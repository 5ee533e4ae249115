CONSTANTS
  a = a
  b = b
  f = f
  g = g
  Capsules = {a, b}
  Facts = {f}
  Askers = {a}
  Several = {a}
  Kinds = {"establish", "break", "peer's break", "invitation"}
  InboxCapacity = 1
  CheckpointLimit = 1
  Faults = {"give up"}
  MaxChanges = 0
  MaxFaults = 1
SPECIFICATION LiveSpec
CHECK_DEADLOCK FALSE
PROPERTIES AnswersEnd
