CONSTANTS
  Sources = {uni, sushi}
  TTL = 3
  StaleAfter = 1
  MaxAge = 2
  SaveLag = 0
SPECIFICATION Spec
INVARIANT OkMeansFresh
