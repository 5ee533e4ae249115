CONSTANTS
  Items = {terminal, offer}
  Terminals = {terminal}
  NoItem = NoItem
  MaxCrashes = 1
SPECIFICATION FairSpec
INVARIANT EvidenceIsReal
PROPERTY TerminalReachesRelay
