CONSTANTS
  t1 = t1
  t2 = t2
  t3 = t3
  NoThread = NoThread
  Threads <- MCThreads
  InitCount = 0
SPECIFICATION FairSpec
INVARIANTS
  NoLostWakeup
PROPERTIES
  Refinement
  TokenIsTaken
