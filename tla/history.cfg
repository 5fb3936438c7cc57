SPECIFICATION Spec
CONSTANTS
  Threads = {t1, t2}
  MaxSessions = 2
  MaxLines = 3
  FlushAt = 2
  Cap = 2
  Keep = 1
  Hazards <- EveryHazard
  None = None
SYMMETRY ThreadSymmetry
CHECK_DEADLOCK FALSE
INVARIANT TypeOK
INVARIANT OwnLines
INVARIANT NoLineTwice
INVARIANT OnlyLiveRowOpen
PROPERTY ClosedOnce
