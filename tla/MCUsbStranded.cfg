SPECIFICATION Spec
CONSTANTS
  QueueLength = 8
  MaxChunk = 2
  ConfigureAnytime = FALSE
  Lockstep = TRUE
  MaxGeneration = 1
  MaxRequests = 3
  MaxDue = 1
INVARIANT OutNotStranded
