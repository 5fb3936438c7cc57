SPECIFICATION Spec
CONSTANTS
  MaxAttempts = 1
  MaxQueue = 1
  MaxReconnects = 1
  MaxStops = 1
  Hazards <- AdoptedHazards
  Adopt = TRUE
  None = None
CHECK_DEADLOCK FALSE
INVARIANT TypeOK
INVARIANT SecretGone
PROPERTY NeverDownUntold
