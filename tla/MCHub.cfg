CONSTANTS
  Clients = {c1, c2}
  Pairs <- MCPairs
  ClientBuffer = 1
  MaxVersion = 2
SPECIFICATION FairSpec
INVARIANTS InMapOrTold
PROPERTIES NoLoopLeaks BroadcastEnds ShowsLatest
