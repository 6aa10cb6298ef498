------------------------------ MODULE Settings ------------------------------
(***************************************************************************)
(* What the modules make of the configuration when the agent starts: the   *)
(* streams of the log (src/log/log.cpp) and the times of the event thread  *)
(* (src/event/dispatch.cpp), through the getters of src/cfg/cfg.hpp.       *)
(***************************************************************************)
EXTENDS Config

CONSTANTS
  LOG, EVENT,          \* the names of the sections
  STREAM_TYPE, LOCATION, LEVEL, FORMAT, OUTPUT, OPEN_MODE, GLOBAL_LEVEL,  \* keys of LOG
  IDLE_SLEEP_TIME, TICK_RESOLUTION,                     \* keys of EVENT
  Types, Levels, Formats, Modes,  \* the values of enumerated keys
  Info, Xml, AppendMode, Text,    \* three defaults, and the format that needs an OUTPUT
  Writable,            \* the locations that can be opened
  Digit,               \* of each digit, its number
  MinSleep, MaxSleep,  \* 1 and 1000 ms
  DefaultTime,         \* 10 ms
  Garbage              \* what a variable may hold that was not initialized

ASSUME SettingsAssumption ==
  /\ Info \in Levels /\ {Xml, Text} \subseteq Formats /\ Xml # Text /\ AppendMode \in Modes
  /\ {MinSleep, MaxSleep, DefaultTime} \subseteq Nat
  /\ \A d \in DOMAIN Digit : Digit[d] \in Nat
  /\ MinSleep <= DefaultTime /\ DefaultTime <= MaxSleep
  /\ Garbage # {}

VARIABLES
  level,      \* ctx->level of the log
  streams,    \* ctx->streams, with the settings of each
  sleep, tick,\* sleep_time of the event context, tick_resolution of the timers
  started     \* "no", "logging", "yes", "failed", "aborts"

settingVars == <<level, streams, sleep, tick>>
startVars == <<loadVars, phase, settingVars, started>>

SettingsInit ==
  /\ ConfigInit
  /\ level = Info /\ streams = <<>>
  /\ sleep = DefaultTime /\ tick = DefaultTime
  /\ started = "no"

-----------------------------------------------------------------------------
(* The getters.                                                            *)

Has(sec, key) == key \in DOMAIN sec

\* get_all_as_enum() throws config_error if a value is none of the names.
AllNamed(sec, key, names) == ToSet(ValuesIn(sec, key)) \subseteq names

\* get_as<int>(): of a text that does not begin with a digit >> makes 0, and
\* of an empty one nothing at all.
GetAsInt(sec, key) ==
  LET text == Head(sec[key]) IN
    CASE text = Empty -> Garbage
      [] text # Empty /\ Head(text) \in DOMAIN Digit -> {Digit[Head(text)]}
      [] OTHER -> {0}

\* check_range(.., false) finds the key missing, or some value in the range.
CheckRange(sec, key, min) ==
  Has(sec, key) => \E n \in GetAsInt(sec, key) : n >= min /\ n <= MaxSleep

\* get_or() converts the text once more.
GetOr(sec, key) == IF Has(sec, key) THEN GetAsInt(sec, key) ELSE {DefaultTime}

-----------------------------------------------------------------------------
(* init() of the modules.                                                  *)

\* Bug: a stream takes the settings of the next one.
TakeNext(sec, key, i, default) ==
  IF Len(ValuesIn(sec, key)) > i THEN sec[key][i + 1] ELSE default

\* The lists of the keys go side by side; where one is too short there is a
\* default.
SettingOf(sec, key, i, default) ==
  IF Len(ValuesIn(sec, key)) >= i THEN sec[key][i] ELSE default

Stream(sec, i) ==
  [location |-> sec[LOCATION][i],
   level    |-> SettingOf(sec, LEVEL, i, Info),
   format   |-> SettingOf(sec, FORMAT, i, Xml),
   mode     |-> SettingOf(sec, OPEN_MODE, i, AppendMode)]

StreamCount(sec) == Min({Len(ValuesIn(sec, STREAM_TYPE)), Len(ValuesIn(sec, LOCATION))})

\* create_stream() throws if the file cannot be opened, read_config() if a
\* name is unknown or the text has no format: log::init() catches nothing.
LogAborts(sec) ==
  \/ Has(sec, GLOBAL_LEVEL) /\ Head(sec[GLOBAL_LEVEL]) \notin Levels
  \/ /\ Has(sec, STREAM_TYPE) /\ Has(sec, LOCATION)
     /\ \/ ~AllNamed(sec, STREAM_TYPE, Types) \/ ~AllNamed(sec, LEVEL, Levels)
        \/ ~AllNamed(sec, FORMAT, Formats) \/ ~AllNamed(sec, OPEN_MODE, Modes)
        \/ \E i \in 1 .. StreamCount(sec) :
             \/ Stream(sec, i).location \notin Writable
             \/ Stream(sec, i).format = Text /\ Len(ValuesIn(sec, OUTPUT)) < i

StartLog ==
  /\ phase = "loaded" /\ started = "no"
  /\ LET sec == Section(LOG) IN
       IF LogAborts(sec)
       THEN started' = "aborts" /\ UNCHANGED <<level, streams>>
       ELSE /\ started' = "logging"
            /\ level' = SettingOf(sec, GLOBAL_LEVEL, 1, Info)
            /\ streams' = [i \in 1 .. StreamCount(sec) |-> Stream(sec, i)]
  /\ UNCHANGED <<loadVars, phase, sleep, tick>>

\* Bug: the two times have the same range.
RangeOfSleep(sleepTime) == MinSleep

\* A tick is not shorter than the sleep between two looks at the queue.
LeastTick(sleepTime) == sleepTime

StartEvent ==
  /\ started = "logging"
  /\ LET sec == Section(EVENT) IN
       /\ CheckRange(sec, IDLE_SLEEP_TIME, MinSleep)
       /\ sleep' \in GetOr(sec, IDLE_SLEEP_TIME)
       /\ CheckRange(sec, TICK_RESOLUTION, LeastTick(sleep'))
       /\ tick' \in GetOr(sec, TICK_RESOLUTION)
  /\ started' = "yes"
  /\ UNCHANGED <<loadVars, phase, level, streams>>

OutOfRange(sec, key, min) ==
  Has(sec, key) /\ \E n \in GetAsInt(sec, key) : n < min \/ n > MaxSleep

\* init() catches the config_error, and the agent does not start.
StartEventFails ==
  /\ started = "logging"
  /\ LET sec == Section(EVENT) IN
       \/ OutOfRange(sec, IDLE_SLEEP_TIME, MinSleep)
       \/ \E n \in GetOr(sec, IDLE_SLEEP_TIME) :
            OutOfRange(sec, TICK_RESOLUTION, LeastTick(n))
  /\ started' = "failed"
  /\ UNCHANGED <<loadVars, phase, settingVars>>

SettingsNext ==
  \/ started = "no" /\ ConfigNext /\ UNCHANGED <<settingVars, started>>
  \/ StartLog \/ StartEvent \/ StartEventFails

SettingsSpec == SettingsInit /\ [][SettingsNext]_startVars

-----------------------------------------------------------------------------
(* Properties.                                                             *)

Running == started \in {"logging", "yes"}

\* A level, a location or a mode that the file gives to the stream of an index is
\* that stream's, however the other values of the section are written.
IndexedSettingOfStream ==
  Running /\ before = Empty => \A i \in 1 .. LinesRead :
    LET l == file[i] IN
      Indexed(i) /\ Lasts(i) /\ SectionAt(i) = LOG /\ l.index < Len(streams) =>
        /\ l.key = LEVEL => streams[l.index + 1].level = Unquote(Trim(l.value))
        /\ l.key = LOCATION => streams[l.index + 1].location = Unquote(Trim(l.value))
        /\ l.key = OPEN_MODE => streams[l.index + 1].mode = Unquote(Trim(l.value))

BlankTime ==
  LET sec == Section(EVENT) IN
    \E key \in {IDLE_SLEEP_TIME, TICK_RESOLUTION} : Has(sec, key) /\ Head(sec[key]) = Empty

\* check_range() "checks that the value of a key falls within the given range"
\* (cfg.hpp:61): the agent runs with times that are, a tick that is configured
\* being no shorter than the sleep; but for keys without a value.
TimesInRange ==
  started = "yes" /\ ~BlankTime =>
    /\ sleep \in MinSleep .. MaxSleep
    /\ Has(Section(EVENT), TICK_RESOLUTION) => tick \in sleep .. MaxSleep

\* The inductive invariant: the log's streams are those of the section.
SettingsInv ==
  /\ ConfigInv
  /\ TimesInRange
  /\ started \in {"no", "logging", "yes", "failed", "aborts"}
  /\ Running =>
       /\ phase = "loaded"
       /\ LET sec == Section(LOG)
          IN streams = [i \in 1 .. StreamCount(sec) |-> Stream(sec, i)]

\* For these too.  Not so.
BlankTimesInRange == started = "yes" => sleep \in MinSleep .. MaxSleep

\* For a tick that is not configured too.  Not so.
TickCoversSleep == started = "yes" /\ ~BlankTime => tick >= sleep

\* A configuration that is wrong is reported.  Not so.
NeverAborts == started # "aborts"
=============================================================================
