CONSTANTS
  p1 = p1
  p2 = p2
  m1 = m1
  Fetcher = fetcher
  NoMsg = NoMsg
  Posters <- MCPosters
  Msgs = {m1}
  Size = 3
  IntMax = 6
  MaxMsgs = 3
SPECIFICATION FairSpec
INVARIANTS
  FetcherNotForgotten
  PosterNotForgotten
PROPERTIES
  Refinement
  PostCompletes
CHECK_DEADLOCK FALSE
