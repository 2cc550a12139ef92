SPECIFICATION FairSpec
CONSTANTS
  QueueLength = 1
  RingCapacity = 1
  EdgeCapacity = 1
  UsbQueueLength = 1
  LongFrames = {3}
  Started = FALSE
  MaxInputs = 3
INVARIANT TypeOK
INVARIANT FramesAccounted
INVARIANT NoLostWakeup
INVARIANT EdgesReachSession
PROPERTY Settles
