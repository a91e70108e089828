SPECIFICATION FairSpec
CONSTANTS
  Main = main
  Triggers = {api1, api2}
  Subsystems = {smart, docker}
  MaxScans = 3
  MaxPanics = 1
  MaxErrors = 1
  MaxRestarts = 1
INVARIANTS
  OneScan
  ServedIsStored
  StampIsDataTime
PROPERTIES
  DataNeverRegresses
  ScanEnds
CHECK_DEADLOCK FALSE
