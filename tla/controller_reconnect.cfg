SPECIFICATION Spec
CONSTANTS
  MaxAttempts = 1
  MaxQueue = 1
  MaxReconnects = 1
  MaxStops = 1
  Hazards <- NoHazards
  Adopt = FALSE
  None = None
CHECK_DEADLOCK FALSE
INVARIANT DropAnnounced
