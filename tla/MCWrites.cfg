CONSTANTS
  w1 = w1
  w2 = w2
  v1 = v1
  g1 = g1
  g2 = g2
  Callers <- MCCallers
  Writers <- MCWriters
  Bounded <- MCBounded
  Watcher <- MCWatcher
  NoWriter = NoWriter
  Sockets = {s1, s2}
  NoSocket = NoSocket
SPECIFICATION FairWritesSpec
INVARIANTS NoLeak DeadlineIsOwn HealthyWriteKeepsSocket
PROPERTIES WithdrawnByItsUsers AbandonedSocketsClose CancelledWritesReturn
CHECK_DEADLOCK FALSE
