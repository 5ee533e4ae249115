CONSTANTS
  a = a
  b = b
  i1 = i1
  i2 = i2
  k1 = k1
  k2 = k2
  None = None
  Capsules = {a, b}
  Relays = {a}
  Senders = {a, b}
  Invitations = {i1, i2, i3, i4}
  Kinds <- MCKinds
  NumSlots = 1
  MaxQueue = 1
  MaxCrashes = 0
SPECIFICATION Spec
SYMMETRY MCSymmetry
INVARIANT PendingIsLocked
CHECK_DEADLOCK FALSE
