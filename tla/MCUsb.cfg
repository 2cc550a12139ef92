SPECIFICATION FairSpec
CONSTANTS
  QueueLength = 8
  MaxChunk = 2
  ConfigureAnytime = FALSE
  Lockstep = TRUE
  MaxGeneration = 2
  MaxRequests = 3
  MaxDue = 1
INVARIANT TypeOK
INVARIANT ExchangeInOrder
INVARIANT NothingStale
PROPERTY AllAnswered
