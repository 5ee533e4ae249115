CONSTANTS
  a = a
  b = b
  i1 = i1
  i2 = i2
  k1 = k1
  k2 = k2
  None = None
  Capsules = {a, b}
  Relays = {a}
  Senders = {a}
  Invitations = {i1, i2}
  Kinds <- MCKinds
  NumSlots = 2
  MaxQueue = 1
  MaxCrashes = 0
SPECIFICATION Spec
SYMMETRY MCSymmetry
INVARIANTS
  TypeOK AcceptanceAgreed RelationshipMirrored LocksMatchPending
  StartersAccounted BurnIsEarned
CHECK_DEADLOCK FALSE
