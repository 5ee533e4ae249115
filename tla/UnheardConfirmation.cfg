CONSTANTS
  a = a
  b = b
  Capsules = {a, b}
  Peer <- PeerOf
  Offers <- Once
  Skew <- Synchronised
  Offsets = {0}
  Elsewhere = {}
  MaxBreaks = 2
  MaxEnds = 0
  MaxFaults = 0
SPECIFICATION LiveSpec
\* The users' actions are bounded.
CHECK_DEADLOCK FALSE
PROPERTIES AcknowledgementCounts
