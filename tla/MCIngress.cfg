SPECIFICATION LiveSpec
CONSTANTS
  r1 = r1
  r2 = r2
  c1 = c1
  a1 = a1
  Relays = {r1, r2}
  Core = {c1}
  Chat = {}
  Attestation = {a1}
  Invalid = {}
  SeenCapacity = 2
  FetchLimit = 2
  Lookback = 2
  FutureSkew = 1
  InboxCapacity = 1
  Behind = 1
  Ahead = 1
  MaxNow = 2
  MaxFaults = 1
INVARIANTS
  TypeOK
  SkippedIsDurable
  RecoveredIsStored
PROPERTY EventuallyHandled
