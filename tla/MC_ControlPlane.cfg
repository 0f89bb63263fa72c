SPECIFICATION FairSpec
CONSTANTS
  Pollers = {p1, p2}
  Deleters = {d1}
  StatusEvents = {2}
  Endings = {2}
  PageSize = 1
  LastEvent = 2
  MaxStops = 1
INVARIANTS
  AppendsReachLedger
  DeletedIsOver
  CacheIsPrefix
PROPERTY EndIsSeen
