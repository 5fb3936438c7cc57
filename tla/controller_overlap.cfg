SPECIFICATION Spec
CONSTANTS
  MaxAttempts = 2
  MaxQueue = 1
  MaxReconnects = 0
  MaxStops = 1
  Hazards <- OverlapHazards
  Adopt = FALSE
  None = None
CHECK_DEADLOCK FALSE
PROPERTY SupersededStaysQuiet
