SPECIFICATION FairBusSpec
CONSTANTS
  Clients = {"get1", "get2", "delete"}
  Kinds = {"script", "deleted"}
  KindOf <- MCKindOf
  Priority <- MCDeleteFirst
  Raising = {"get2"}
  TimesOut = TRUE
  MaxRounds <- MCMaxRounds
CHECK_DEADLOCK FALSE
INVARIANTS
  WaitersRegistered
  ResultIsFresh
PROPERTIES
  RequestAnswered
