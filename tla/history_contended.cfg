SPECIFICATION Spec
CONSTANTS
  Threads = {t1, t2}
  MaxSessions = 2
  MaxLines = 1
  FlushAt = 2
  Cap = 2
  Keep = 1
  Hazards <- ContendedHazards
  None = None
SYMMETRY ThreadSymmetry
CHECK_DEADLOCK FALSE
INVARIANT UnfinishedClosed
