CONSTANTS
  Threads = {"app", "sel", "sel2"}
  NUM_SOCKETS = 2
  Netconns = {1, 2, 3}
  MboxSize = 2
  Plans <- MCPlans
  Shared = FALSE
  SegLen = 2
SPECIFICATION Spec
CHECK_DEADLOCK FALSE
INVARIANTS
  CountsTrue
  BytesInOrder
  SelectNotForgotten
PROPERTIES
  SelectReturns
