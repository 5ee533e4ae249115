CONSTANTS
  a = a
  b = b
  f = f
  g = g
  Capsules = {a, b}
  Facts = {f, g}
  Askers = {a}
  Several = {a}
  Kinds = {"establish", "break", "peer's break"}
  InboxCapacity = 1
  CheckpointLimit = 1
  Faults = {"crash", "restore", "send", "timeout", "switch", "give up"}
  MaxChanges = 1
  MaxFaults = 1
SPECIFICATION Spec
SYMMETRY PairSymmetry
CHECK_DEADLOCK FALSE
INVARIANTS OneAnswerPerWindow ReadyIsMutual
