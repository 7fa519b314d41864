CONSTANTS
  Sources = {uni, sushi}
  TTL = 3
  StaleAfter = 1
  MaxAge = 2
  SaveLag = 1
SPECIFICATION FairSpec
INVARIANTS LiveAgeIsHonest StatusMatchesSnapshot
PROPERTIES DataNeverRegresses OutageKeepsSnapshot AlwaysRefreshesAgain
