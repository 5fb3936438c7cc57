SPECIFICATION Spec
CONSTANTS
  Callers = {serving}
  Dispatcher = dispatcher
  Nobody = nobody
  MaxCommands = 3
  MaxNotices = 1
INVARIANT TypeOK
INVARIANT RepliesMatch
PROPERTY EveryCommandAnswered
PROPERTY LossAnnounced
CHECK_DEADLOCK FALSE
