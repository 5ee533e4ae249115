CONSTANTS
  Owner = owner
  Remote = {peer}
  Birth = birth
  Starter = starter
  Facts = {starter, fact}
  MaxEvents = 4
  MaxTs = 3
SPECIFICATION Spec
INVARIANTS TypeOK AlwaysImportable NoFactTwice HeadIdentifiesHistory
PROPERTY StoredHistoryOnlyGrows
