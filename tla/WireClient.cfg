CONSTANTS
  Null = Null
  MaxCalls = 3
  MaxEvents = 2
  UpCap = 1
  DownCap = 2
SPECIFICATION FairSpec
CHECK_DEADLOCK FALSE
INVARIANTS
  OwnAnswer
  EventsAccounted
PROPERTIES
  EveryCallReturns
