SPECIFICATION Spec
CONSTANTS
  Runs <- MCRuns
  Qualifying = 5
  MaxAge = 1
  Period = 2
  FaultKinds = {"elf", "server", "gdb", "reset", "voter", "health", "traffic", "rerun", "device", "disk", "interrupt"}
  MaxFaults = 2
  MaxTime = 2
  MaxBusy = 1
  MaxHil = 2
INVARIANTS TypeOK PassMeansMeasured HealthyFailures
PROPERTY Concludes
CHECK_DEADLOCK FALSE
