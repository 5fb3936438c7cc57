SPECIFICATION Spec
CONSTANTS
  MaxAttempts = 2
  MaxQueue = 2
  MaxReconnects = 0
  MaxStops = 2
  Hazards <- ContractHazards
  Adopt = FALSE
  None = None
CHECK_DEADLOCK FALSE
INVARIANT OwnCredential
INVARIANT DropAnnounced
PROPERTY OnlyOperatorStops
PROPERTY ImplementsAttemptLog
