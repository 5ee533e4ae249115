CONSTANTS
  a = a
  b = b
  f = f
  g = g
  Capsules = {a, b}
  Facts = {f}
  Askers = {a}
  Several = {a}
  Kinds = {"establish", "break", "peer's break", "invitation"}
  InboxCapacity = 1
  CheckpointLimit = 1
  Faults = {}
  MaxChanges = 2
  MaxFaults = 0
SPECIFICATION Spec
PROPERTIES OldEvidenceInapplicable
