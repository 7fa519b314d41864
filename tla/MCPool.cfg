CONSTANTS
  Callers = {c1, c2, c3}
  Workers = 2
  MaxRetries = 1
  Cancellable = {c3}
  MaxCalls = 3
  Threshold = 2
  Cooldown = 1
SPECIFICATION FairSpec
INVARIANTS SlotsAccounted OpenEpisodeBounded HalfOpenHasProbe CallsAccounted
PROPERTIES OneProbePerEpisode EveryCallReturns
CHECK_DEADLOCK FALSE
