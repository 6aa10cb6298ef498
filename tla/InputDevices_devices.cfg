SPECIFICATION FairSpec
CONSTANTS
  o1 = o1
  o2 = o2
  o3 = o3
  t1 = t1
  t2 = t2
  None = None
  Objects = {o1, o2, o3}
  Names = {"TTY:a", "TCP:1"}
  Id <- MCId
  Handled = {"TTY:a"}
  Threads = {t1, t2}
  MaxInput = 1
CHECK_DEADLOCK FALSE
INVARIANTS
  ThreadsSound
  NoDeviceLeaked
PROPERTIES
  StoppedEnds
  RemovedIsDeleted
