CONSTANTS
  a = a
  b = b
  Capsules = {a, b}
  Peer <- PeerOf
  Offers <- Twice
  Skew <- Synchronised
  Offsets = {0}
  Elsewhere = {}
  MaxBreaks = 2
  MaxEnds = 0
  MaxFaults = 0
SPECIFICATION Spec
\* The users' actions are bounded.
CHECK_DEADLOCK FALSE
INVARIANTS OldBreakHarmless
