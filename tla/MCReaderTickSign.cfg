SPECIFICATION Spec
CONSTANTS
  Tokens = {1, 2, 3}
  FeeTiers <- MCFeeTiers
  BatchSize = 4
  TickWindow = 1
  TickStride = 2
  DefaultSpacing = 3
  MinTick <- MCMinTick
  MaxTick = 7
  WordMod = 256
  TickMod = 32
  NetMod = 16
  Chains <- MCChains
  MaxFailed = 1
INVARIANT TickNetsAreTrue
