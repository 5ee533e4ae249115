CONSTANTS
  a = a
  b = b
  Capsules = {a, b}
  Peer <- PeerOf
  Offers <- Twice
  Skew <- AheadByThree
  Offsets = {0}
  Elsewhere = {0}
  MaxBreaks = 2
  MaxEnds = 1
  MaxFaults = 1
SPECIFICATION LiveSpec
\* The users' actions are bounded.
CHECK_DEADLOCK FALSE
INVARIANTS ReadersAgree RetriesOnlyBroken
PROPERTIES ReopensWithNewEpisode BreakConverges
