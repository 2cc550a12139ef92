SPECIFICATION FairSpec
CONSTANTS
  CriticalCap <- Two
  DataCap <- OneOfEach
  StateCap <- OneOfEach
  NAcc <- Two
  NSlots <- Two
  RxBudget = 1
  ControlBudget = 3
INVARIANT ResultExactlyOnce
INVARIANT EdgeOrder
PROPERTY Drained
