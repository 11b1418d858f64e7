CONSTANTS
  SeqSpace = 64
  Iss <- MCIss
  TCP_MSS = 2
  TCP_WND = 4
  TCP_SND_BUF = 4
  TCP_SND_QUEUELEN = 8
  TCP_MAXRTX = 2
  TCP_SYNMAXRTX = 2
  TCP_KEEPCNT = 1
  MaxCwnd = 12
  Mbox = 1
  Bytes <- MCBytes
  Chunks = {2}
  Keepalive = {"b"}
  Closers = {"b"}
  MaxFaults = 1
SPECIFICATION Spec
CHECK_DEADLOCK FALSE
INVARIANTS
  StreamInOrder
  QueuesCoherent
  NoStall
PROPERTIES
  WindowNeverShrinks
