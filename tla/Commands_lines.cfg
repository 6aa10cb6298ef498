SPECIFICATION CommandsSpec
CONSTANTS
  MaxLine = 3
  MaxText = 3
  Chars <- MCChars
  Digits <- MCDigits
  Letters <- MCLetters
  AgentName <- MCAgentName
  UserTitle <- MCUserTitle
  Name <- MCName
  Title <- MCTitle
  PluginNames <- MCPluginNames
  Values <- MCValues
  Lines <- MCLines
  Startup <- MCStartup
  Texts <- MCTexts
  ECHO <- MCECHO
  HELP <- MCHELP
  KILL <- MCKILL
  TIMER <- MCTIMER
  Example <- MCExample
  PluginCommands <- MCPluginCommands
  MaxPending = 1
CHECK_DEADLOCK FALSE
INVARIANTS
  EchoedVerbatim
  OptionsAsHelpSays
  
