SPECIFICATION FairSpec
CONSTANTS
  t1 = t1
  t2 = t2
  Threads = {t1, t2}
  Streams = {"file", "all"}
  Levels = {0, 1, 2}
  StreamLevel <- MCStreamLevel
  GlobalLevel = 1
  MaxMsgs = 2
  LateThreads = {t1}
CHECK_DEADLOCK FALSE
INVARIANTS
  LogSound
PROPERTY
  HeldIsWritten
