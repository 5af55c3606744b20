SPECIFICATION Spec
CONSTANTS
  w1 = w1
  w2 = w2
  w3 = w3
  docA = docA
  docB = docB
  nobody = nobody
  Docs = {docA, docB}
  Tokens = {1, 2, 3, 4, 5, 6}
  NoTokens = NoTokens
  Torn = Torn
  MaxEnded = 1
  NoThread = nobody
  NoRow = NoRow
  Configs <- MCConfigs
  Lookups = 1
INVARIANTS
  RefusedTokenNotReused
  AbsenceRestsOnAnswer
  LocksInOrder
CHECK_DEADLOCK FALSE
PROPERTIES
  LookupsEnd
