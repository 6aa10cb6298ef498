SPECIFICATION FairSpec
CONSTANTS
  MayFail = {"log", "output", "event", "input", "agent", "cmd", "plugin"}
  Commands <- MCCommands
  MaxKills = 3
INVARIANTS
  FaultsHaveCause
  LeavesNothing
PROPERTY
  KillEnds
