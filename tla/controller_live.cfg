SPECIFICATION FairSpec
CONSTANTS
  MaxAttempts = 1
  MaxQueue = 2
  MaxReconnects = 0
  MaxStops = 1
  Hazards <- LiveHazards
  Adopt = FALSE
  None = None
CHECK_DEADLOCK FALSE
INVARIANT RowClosed
PROPERTY WorkersFinish
PROPERTY StatusTellsTruth
PROPERTY BusyResolves
