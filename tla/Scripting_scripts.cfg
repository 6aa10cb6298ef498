SPECIFICATION FairSpec
CONSTANTS
  Rows = {"a1", "a2", "b", "c"}
  NameOf <- MCNameOf
  Cron = {"a1"}
  Malformed = {"b"}
  Overriding = {"c"}
  Catching = {"a2"}
  Runs = 2
  DbMayFail = TRUE
  MaxRequests = 5
  MaxRestarts = 1
  NoRow = "none"
  NoEntry = NoEntry
CHECK_DEADLOCK FALSE
INVARIANTS
  CronScheduled
  OneTaskPerName
PROPERTY
  HandlerEnds
