CONSTANTS
  Pbufs = 3
  Inpkts = 2
  MboxSize = 2
  RingSize = 2
  MaxFrames = 4
  MaxOther = 2
  MaxSends = 1
SPECIFICATION Spec
INVARIANTS
  NothingRefersToFreed
CHECK_DEADLOCK FALSE
