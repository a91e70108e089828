SPECIFICATION FairSpec
CONSTANTS
  Clients = {c1, c2}
  MaxSamples = 3
  LiveBuffer = 2
  SubscribeBuffer = 1
INVARIANTS
  StreamIsFaithful
  SubscribersAreOpen
PROPERTY EveryStreamEnds
CHECK_DEADLOCK FALSE
