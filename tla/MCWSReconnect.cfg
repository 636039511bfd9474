CONSTANTS
  Sockets = {s1, s2}
  Requests = {q1, q2}
  Networks = {main, test}
  NoSocket = NoSocket
  Unknown = Unknown
  Configured = Unknown
  Trusted = FALSE
  Complete = TRUE
  Ctl = Ctl
  MaxLife = 1
  MaxDisconnects = 0
  MaxReconnects = 1
SPECIFICATION FairSpec
INVARIANTS RequestsOnPinnedNetwork
PROPERTIES NoSpuriousFailure AnswersArrive
CHECK_DEADLOCK FALSE
