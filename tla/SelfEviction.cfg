CONSTANTS
  a = a
  b = b
  Capsules = {a}
  Messages = {1, 2}
  To <- AllForA
  Strangers = {}
  HandoffCapacity = 1
  TombstoneCapacity = 1
  DeferredCapacity = 1
  TimelineCapacity = 1
  MaxReplays = 0
  MaxSwitches = 0
  MaxChanges = 0
  MaxFaults = 0
SPECIFICATION Spec
PROPERTIES NewRecordIsHandedOver
