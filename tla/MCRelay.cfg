CONSTANTS
  c1 = c1
  Conns = {c1}
  NoConn = NoConn
  FirstAgent = "native"
  BufLen = 2
  MaxBytes <- MCMaxBytes
SPECIFICATION FairSpec
INVARIANTS
  ConnsAccounted
  StreamsKept
PROPERTIES
  ConnCollected
CHECK_DEADLOCK FALSE
