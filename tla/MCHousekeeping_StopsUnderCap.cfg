SPECIFICATION HouseSpec
CONSTANTS
  disk1 = disk1
  a = a
  Slots = {disk1}
  Drives = {a, b, c}
  NoDrive = none
  SmartEvery = 2
  SmartMaxAge = 2
  Retain = 6
  MaxSwaps = 2
  MaxNotes = 1
  MaxDriveFaults = 1
  Scanner = scanner
  Request = request
  Interval = 2
  KeepCount = 3
  MaxTime = 6
  MaxClashes = 1
  MaxBackupFaults = 1
  First = {0, 1, 4, 6}
  MaxAge = 3
  KeepMin = 3
  Horizon = 2
  Cap = 7
  Floor = 2
  Batch = 2
  Rounds = 3
  MaxScans = 9
  MaxRows = 2
  MaxFaults = 1
PROPERTY StopsUnderCap
CHECK_DEADLOCK FALSE
