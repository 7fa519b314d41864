CONSTANTS
  Tokens <- MCTokens
  Graphs <- MCGraphs
  AmountOut <- MCAmountOut
  MaxAmount = 80
  MaxHops = 3
  Sizes = {0, 3, 12}
  ProbeSets <- MCProbeSets
  Bps = 20
  ProbeDivisor = 4
SPECIFICATION Spec
INVARIANTS TableIsExecutable RouteExecutes BestOfTwoHops CyclesGain CyclesUsePoolsOnce
