CONSTANTS
  Sockets = {s1, s2}
  Requests = {q1}
  Networks = {main}
  NoSocket = NoSocket
  Unknown = Unknown
  Configured = Unknown
  Trusted = FALSE
  Complete = TRUE
  Ctl = Ctl
  MaxLife = 2
  MaxDisconnects = 1
  MaxReconnects = 1
SPECIFICATION FairSpec
INVARIANTS NoLeak OneLiveLifecycle ReconnectsUntilSpent
PROPERTIES ImplementsLink RacedRequestsReturn CallsReturn
CHECK_DEADLOCK FALSE
