SPECIFICATION PageSpec
CONSTANTS
  Sourced <- MCSourced
  Route <- MCRoute
  Decimals = 1
  Amounts <- MCAmounts
  MaxGen = 3
  MaxCrashes = 1
  HopLimits = {1, 2}
  Opening <- MCOpening
  Inputs <- MCInputs
  MaxEdits = 1
  MaxPoints = 4
  SeedPoints = 2
  SeedInterval = 2
  AttemptCap = 2
  Slots = {s1, s2}
  Times = {1, 2, 4}
  MaxVersion = 3
  MaxRuns = 2
INVARIANTS
  ShownMatchesInputs
  DemoDataIsLabelled
  OneLifeline
  SeriesAdvances
PROPERTIES
  QuoteSettles
  StreamReconnects
  StatusSettles
CHECK_DEADLOCK FALSE
