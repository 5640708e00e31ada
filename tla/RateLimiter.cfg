SPECIFICATION LimiterSpec
CONSTANTS
  HostIDs = {h1, h2}
  Max = 2
  Window = 2
INVARIANTS TwiceTheLimit RefusalJustified
