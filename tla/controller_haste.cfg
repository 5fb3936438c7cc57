SPECIFICATION Spec
CONSTANTS
  MaxAttempts = 1
  MaxQueue = 1
  MaxReconnects = 0
  MaxStops = 1
  Hazards <- HasteHazards
  Adopt = FALSE
  None = None
CHECK_DEADLOCK FALSE
PROPERTY StoppedStaysStopped
