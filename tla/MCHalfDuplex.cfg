CONSTANTS
  Thresh = 3
  FrameUnits = 3
  MaxFrames = 2
  MaxHeard = 1
SPECIFICATION FairSpec
INVARIANTS
  ChannelShared
PROPERTIES
  TurnComes
  StopCompletes
