SPECIFICATION SpecAll
CONSTANTS
  one = one
  two = two
  photos = photos
  PHOTOS = PHOTOS
  smart = smart
  docker = docker
  k1 = k1
  k2 = k2
  web = web
  Subsystems <- MCSubsystems
  Interval <- MCInterval
  MaxDelay = 1
  MaxDuration = 4
  MaxTime = 30
  CheckList <- MCCheckList
  Loop = ticker
  Others = {scan}
  Savers = {save1, save2}
  CheckInterval = 1
  LastSecond = 2
  MaxRuns = 3
  MaxSaves = 1
  MaxFaults = 1
  Requests = {r1, r2}
  Stored <- OldBlobs
  Ages = {0, 3}
  Keeps = {1, 60}
  EnvHooks = {"env"}
  MaxPageSaves = 1
  MaxPatches = 1
  MaxRestarts = 1
  DayLength = 6
  Watched <- MCWatched
  Contents <- MCContents
  Slug <- MCSlug
  Reasons <- MCReasons
  Engines <- MCEngines
  LastUpdate = 2
  MaxTests = 1
  ReadingLevels <- HostLevels
  ReadingFocuses <- HostFocuses
  AlertRuleSet <- UserRules
  Growths = {0, 1, 3}
  FirstUsages = {0, 40, 88}
  ScanGaps = {1, 2, 5}
  MaxPoints = 6
  CheckConfigs <- UserChecks
  NetworkStates <- Networks
  WearLevels <- DriveLevels
  SmartctlOutputs = {"json", "text"}
  Tables = {"snapshots", "checks", "speedtests", "events", "log", "processes"}
  RowKeys = {k1, k2}
  LastSave = 3
  MostRows = 3
  PruneAges = {0, 1}
  ShownByDefault = 1
  ShownAtMost = 2
  DuplicacyEntries <- RepoEntries
  SnapshotSlots <- MCSlots
  StaleDefault = 2
  LastDay = 4
  MaxIncidents = 4
  BorgLists <- BorgEntryLists
  HostValues <- BorgValues
  FoundPaths <- MCFoundPaths
  MaxBroken = 2
PROPERTY OnlyMigrationsWrite
CHECK_DEADLOCK FALSE
