SPECIFICATION FairSpec
CONSTANTS
  Savers = {p1, p2}
  Subsystems = {docker}
  Intervals = {1, 2}
  MinInterval = 1
  DefaultInterval = 2
  MaxSaves = 2
INVARIANTS
  TickerIsFastest
  OverridesStick
PROPERTY TickerSettles
