SPECIFICATION FairSpec
CONSTANTS
  Hosts = {h1}
  Timeout = 3
  Interval = 2
  Lags <- LagsBoth
  MaxLag = 1
  MaxDelay = 1
  MaxFlight = 2
  MaxFalls = 2
  MaxBoots = 1
INVARIANTS AlertsAreTransitions BoundedStaleness
PROPERTIES OfflineAfterSilence DeadGoesOffline
CHECK_DEADLOCK FALSE
