CONSTANTS
  Sockets = {s1, s2}
  Requests = {q1}
  Networks = {main}
  NoSocket = NoSocket
  Unknown = Unknown
  Configured = main
  Trusted = TRUE
  Complete = TRUE
  Ctl = Ctl
  MaxLife = 1
  MaxDisconnects = 1
  MaxReconnects = 1
SPECIFICATION FairSpec
PROPERTIES LostRequestsReturn
CHECK_DEADLOCK FALSE
