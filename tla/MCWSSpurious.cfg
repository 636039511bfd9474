CONSTANTS
  Sockets = {s1, s2, s3}
  Requests = {q1, q2}
  Networks = {main}
  NoSocket = NoSocket
  Unknown = Unknown
  Configured = main
  Trusted = TRUE
  Complete = TRUE
  Ctl = Ctl
  MaxLife = 2
  MaxDisconnects = 0
  MaxReconnects = 1
SPECIFICATION Spec
PROPERTIES NoSpuriousFailure
CHECK_DEADLOCK FALSE
