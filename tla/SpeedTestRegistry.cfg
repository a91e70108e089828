SPECIFICATION FairSpec
CONSTANT MaxTests = 3
INVARIANTS
  DoneMeansRecorded
  GaugeNotStuck
  RefusedMeansRecorded
PROPERTIES
  CancelDuringRunSticks
  ImplementsService
CHECK_DEADLOCK FALSE
