CONSTANTS
  a = a
  b = b
  Capsules = {a, b}
  Messages = {1, 2}
  To <- AllForA
  Strangers = {}
  HandoffCapacity = 1
  TombstoneCapacity = 1
  DeferredCapacity = 1
  TimelineCapacity = 2
  MaxReplays = 1
  MaxSwitches = 1
  MaxChanges = 1
  MaxFaults = 1
SPECIFICATION LiveSpec
INVARIANTS TypeOK NothingLost
PROPERTIES StaysConsumed EventuallyProjected
