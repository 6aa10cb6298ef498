SPECIFICATION SettingsSpec
CONSTANTS
  MaxLines = 4
  NoIndex <- MCNoIndex
  BadIndex <- MCBadIndex
  Files <- MCFiles
  LOG = "LOG"
  EVENT = "EVENT"
  STREAM_TYPE = "TYPE"
  LOCATION = "LOCATION"
  LEVEL = "LEVEL"
  FORMAT = "FORMAT"
  OUTPUT = "OUTPUT"
  OPEN_MODE = "OPEN_MODE"
  GLOBAL_LEVEL = "GLOBAL_LEVEL"
  IDLE_SLEEP_TIME = "SLEEP"
  TICK_RESOLUTION = "TICK"
  Types <- MCTypes
  Levels <- MCLevels
  Formats <- MCFormats
  Modes <- MCModes
  AppendMode <- MCAppendMode
  Info <- MCInfo
  Xml <- MCXml
  Text <- MCText
  Writable <- MCWritable
  Digit <- MCDigit
  MinSleep = 1
  MaxSleep = 2
  DefaultTime = 1
  Garbage <- MCGarbage
CHECK_DEADLOCK FALSE
INVARIANTS
  LastAssignmentHolds
  SavedLoadsBack
  IndexedSettingOfStream
  TimesInRange
