SPECIFICATION FairSpec
CONSTANTS
  Main = Main
  Workers = {w1, w2, w3}
  NoThread = NoThread
  MaxAlive = 3
  MaxConnections = 3
  MaxSignals = 2
CHECK_DEADLOCK FALSE
INVARIANTS TypeOK CountIsExact PersistenceOutlivesThreads
  WaitersAreWoken CrashesAreExcused
PROPERTIES StopEnds
