SPECIFICATION Spec
CONSTANTS
  Window = 8
  HsPacket = 4
  FsPacket = 2
  Cases <- MCCases
  Runs <- MCRuns
  FaultKinds = {"metadata", "timeout", "corrupt", "descriptors", "keeps", "deaf", "stuck", "slow", "unplug", "disk", "stdout", "interrupt"}
  MaxFaults = 3
INVARIANTS TypeOK PassMeansVerified HealthyPasses
PROPERTY Concludes
CHECK_DEADLOCK FALSE
