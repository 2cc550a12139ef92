SPECIFICATION GateSpec
CONSTANTS
  RequestSequences = {1, 2, 3}
  Requests <- MCRequests
  NReplay = 2
  Retention = 1
  MaxTick = 3
  MaxGeneration = 3
INVARIANT GateTypeOK
INVARIANT ExecutesOnce
