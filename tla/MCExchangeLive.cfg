CONSTANTS
  a = a
  b = b
  i1 = i1
  i2 = i2
  k1 = k1
  k2 = k2
  None = None
  Capsules = {a, b}
  Relays = {a, b}
  Senders = {a}
  Invitations = {i1}
  Kinds <- MCKinds
  NumSlots = 1
  MaxQueue = 2
  MaxCrashes = 2
SPECIFICATION FairSpec
PROPERTIES ImplementsProtocol AnswerReachesSender RevokeReachesRecipient
CHECK_DEADLOCK FALSE
