\* Two statements, both violated: run with -continue to see both.
CONSTANTS
  a = a
  b = b
  Capsules = {a, b}
  Peer <- PeerOf
  Offers <- Once
  Skew <- AheadByThree
  Offsets = {0}
  Elsewhere = {0}
  MaxBreaks = 1
  MaxEnds = 1
  MaxFaults = 1
SPECIFICATION Spec
\* The users' actions are bounded.
CHECK_DEADLOCK FALSE
INVARIANTS RevokedIsNoRelationship LocallyBroken
