SPECIFICATION Spec
CONSTANTS
  Plugins = {"example", "poet", "mime"}
  CoreNames <- MCCoreNames
  SetupNames <- MCSetupNames
  CommandsOf <- MCCommandsOf
  MayFail = {"init", "devices", "add", "quit", "close"}
  FreesAtQuit = {"example"}
CHECK_DEADLOCK FALSE
INVARIANTS
  QuitMatchesInit
  CommandOfEnabled
  KillStopsCleanly
