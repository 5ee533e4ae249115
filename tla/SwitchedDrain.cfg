CONSTANTS
  a = a
  b = b
  Capsules = {a, b}
  Messages = {1}
  To <- AllForA
  Strangers = {}
  HandoffCapacity = 1
  TombstoneCapacity = 1
  DeferredCapacity = 1
  TimelineCapacity = 1
  MaxReplays = 0
  MaxSwitches = 1
  MaxChanges = 1
  MaxFaults = 0
SPECIFICATION Spec
INVARIANTS OwnMessagesOnly
