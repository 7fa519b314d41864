CONSTANTS
  Callers = {c1, c2}
  Unit = 7
  Rate = 2
  Burst = 2
  MinDelay = 2
  Deadlines = {1, 3}
SPECIFICATION FairSpec
INVARIANTS RateBound NoTokenWhileTimerRuns
PROPERTIES ImplementsBucket RefusedOnlyIfHopeless WaitersProgress
