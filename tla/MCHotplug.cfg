SPECIFICATION Spec
CONSTANTS
  Cycles = 2
  Poll = 1
  MinAbsent = 3
  Recovery = 2
  Overall = 10
  SmokeTimes = {1, 2}
  Identities = {"A", "B"}
  FaultKinds = {"executable", "second", "serial", "node", "smoke", "hang", "swap", "disk", "interrupt"}
  MaxFaults = 1
  MaxOutages = 3
INVARIANTS TypeOK CyclesAreOutages PassMeansRecovered
PROPERTY Concludes
CHECK_DEADLOCK FALSE
