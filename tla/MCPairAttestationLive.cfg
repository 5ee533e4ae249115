CONSTANTS
  a = a
  b = b
  f = f
  g = g
  Capsules = {a, b}
  Facts = {f}
  Askers = {a}
  Several = {a}
  Kinds = {"establish", "break", "invitation"}
  InboxCapacity = 1
  CheckpointLimit = 1
  Faults = {"crash", "restore", "send", "timeout"}
  MaxChanges = 1
  MaxFaults = 1
SPECIFICATION LiveSpec
PROPERTIES AskerBecomesReady
