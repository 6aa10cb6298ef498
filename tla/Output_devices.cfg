SPECIFICATION FairSpec
CONSTANTS
  h0 = h0
  h1 = h1
  kStdout = kStdout
  kPlugin = kPlugin
  None = None
  t1 = t1
  t2 = t2
  Threads = {t1, t2}
  Ids <- MCIds
  Handlers <- MCHandlers
  Default = h0
  Keys <- MCKeys
  Key <- MCKey
  TypeOf <- MCTypeOf
  Stdout <- MCStdout
  Configs <- MCConfigs
CHECK_DEADLOCK FALSE
INVARIANTS
  ActiveSound
  PrintedOnActive
PROPERTIES
  ErasedIsInactive
  CallsEnd
