SPECIFICATION Spec
CONSTANTS
  nas = nas
  app = app
  Cycles = 4
  Buffer = 2
  Ids = {nas}
  Ticker = ticker
  Requests = {put1, put2}
  Lists <- MCLists
INVARIANT ResultComesLast
PROPERTIES
  NoStatusOutlivesItsServer
  EverythingSettles
CHECK_DEADLOCK FALSE
