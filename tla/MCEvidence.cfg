CONSTANTS
  Modulus = 16
  Starts = {14}
  KnownTarget = "known"
  PinnedTool = "pinned"
  PinnedRuns <- MCPinnedRuns
  Inputs <- MCInputs
  Edits <- MCEdits
  MaxEdits = 1
  MaxRuns = 2
  MaxCrashes = 1
SPECIFICATION Spec
INVARIANTS AcceptedSound PackagedIsAccepted RerunReproduces ReconcileExact
PROPERTY StatusCovers
CHECK_DEADLOCK FALSE
