SPECIFICATION Spec
CONSTANTS
  Q = 64
  Bps = 10
  PipsPerBp = 10
  Ratio <- MCRatio
  Pools <- MCPools
  Inputs = {0, 1, 2, 3, 4, 5, 6, 7, 8, 9, 10, 11, 12, 14, 17, 20, 25, 30, 40}
  One = 32768
  Low = 512
  MaxTick = 7
  Fees = {0, 1, 3, 10}
INVARIANTS
  NeverOvershoots
  InputAccounted
  LiquidityIsInForce
  RefusedOnlyAtWindowEnd
  RoundTripLoses
CHECK_DEADLOCK FALSE
