SPECIFICATION Spec
CONSTANTS
  CriticalCap <- OneOfEach
  DataCap <- OneOfEach
  StateCap <- OneOfEach
  NAcc <- Two
  NSlots <- Two
  RxBudget = 4
  ControlBudget = 1
INVARIANT TypeOK
INVARIANT EventOrder
INVARIANT EveryGapExplained
PROPERTY ImplementsStream
