SPECIFICATION FairSpec
CONSTANTS
  w1 = w1
  w2 = w2
  w3 = w3
  docA = docA
  docB = docB
  nobody = nobody
  Threads <- MCThreads
  Clients = {docA, docB}
  ClientOf <- TwoDocuments
  NoThread <- nobody
  MaxAttempts = 3
  MaxCalls = 1
INVARIANTS
  WaitsLeadOn
  NoRequestWhilePaused
  SingleFlightProbe
  PoolHeldByOthersOnly
PROPERTIES
  NetworkErrorsNeverPause
  CallsLeadOn
  LooksLikeOneCaller
  AllCallsReturn
