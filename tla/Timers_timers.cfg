SPECIFICATION FairSpec
CONSTANTS
  t1 = t1
  t2 = t2
  Timers = {t1, t2}
  Periods = {0, 2}
  Timestamps = {1}
  Resolution = 1
  IdHalf = 1
INVARIANTS
  ListSound
  OneShotFiresOnce
PROPERTY
  ListedFires
