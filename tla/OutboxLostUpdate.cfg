CONSTANTS
  Items = {offer, break}
  Terminals = {}
  NoItem = NoItem
  MaxCrashes = 0
SPECIFICATION Spec
INVARIANT ObligationKept
