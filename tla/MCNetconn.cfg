CONSTANTS
  c1 = c1
  c2 = c2
  p1 = p1
  l1 = l1
  t1 = t1
  None = None
  Conns = {c1, c2}
  Pcbs = {p1}
  ListenPcbs = {l1}
  Threads = {t1}
  RecvMbox = 1
  AcceptMbox = 1
  SndBuf = 1
  SndLowat = 0
  Wnd = 3
  Lens = {2}
  Shuts <- MCShuts
  Timeouts = {"RCV"}
SPECIFICATION MCSpec
SYMMETRY Symm
CHECK_DEADLOCK FALSE
INVARIANTS
  CallsAnswered
  PcbBound
  NobodyStranded
