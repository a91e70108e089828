SPECIFICATION FairSpec
CONSTANTS
  disk = disk
  rule1 = rule1
  rule2 = rule2
  Findings <- MCFindings
  Synthetic = {}
  Alerting <- MCAlerting
  Cooldown = 1
  MaxTime = 2
  MaxAppear = 2
  MaxFaults = 1
  SnoozeFor = 1
INVARIANT AlertsAreSound
PROPERTIES
  AlertFollowsFinding
  FindingIsTold
CHECK_DEADLOCK FALSE
