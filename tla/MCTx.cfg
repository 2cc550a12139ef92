SPECIFICATION Spec
CONSTANTS
  t1 = t1
  t2 = t2
  Tags <- MCTags
  NSlots = 2
  Deadlines = {0, 2}
  Guard = 1
  ArmTimeout = 2
  TickHz = 2
  Fill <- MCFill
  Capacity <- MCCapacity
  MaxTick = 3
  MaxEpoch = 3
  MaxAccept = 2
SYMMETRY MCSymmetry
INVARIANT TypeOK
INVARIANT PendingAuthorised
INVARIANT AcceptedAnswered
INVARIANT RateBound
PROPERTY ResultStable
CHECK_DEADLOCK TRUE
