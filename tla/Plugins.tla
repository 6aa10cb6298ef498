------------------------------- MODULE Plugins -------------------------------
(***************************************************************************)
(* The plugin manager and the command registry: src/plugin/plugin.cpp,     *)
(* src/cmd/cmd.cpp, and the part of msa::stop() that ends both.  After     *)
(* start() has returned they are used by commands only, which run one at a *)
(* time on handler threads, so each command is one step.  What is hard is  *)
(* inside: every function of a plugin may fail or throw, an exception      *)
(* leaves the operations it passes through half done, and an operation may *)
(* be entered again by its own error path.  The operators below take the   *)
(* state as a record and return the state in which the C++ function        *)
(* returns or is left by an exception.                                     *)
(***************************************************************************)
EXTENDS Integers, Sequences, FiniteSets, SequencesExt

CONSTANTS
  Plugins,        \* the plugins of the autoload directory
  CoreNames,      \* the commands of cmd.cpp, a sequence
  SetupNames,     \* the commands plugin.cpp and dispatch.cpp set up, a sequence
  CommandsOf,     \* the commands a plugin adds, from Plugins to sequences
  MayFail,        \* what may fail: "init", "devices", "add", "quit", "close"
  FreesAtQuit     \* the plugins whose quit function frees their commands

Names ==
  (UNION {ToSet(CommandsOf[p]) : p \in Plugins})
    \cup ToSet(CoreNames) \cup ToSet(SetupNames)

ASSUME PluginsAssumption ==
  /\ IsFiniteSet(Plugins) /\ Plugins \cap {"cmd", "setup", "none"} = {}
  /\ {CoreNames, SetupNames} \subseteq Seq(STRING)
  /\ IsInjective(CoreNames) /\ IsInjective(SetupNames)
  /\ ToSet(CoreNames) \cap ToSet(SetupNames) = {}
  /\ \A p \in Plugins : CommandsOf[p] \in Seq(STRING)
  /\ MayFail \subseteq {"init", "devices", "add", "quit", "close"}
  /\ FreesAtQuit \subseteq Plugins

\* What entry->commands points to, or did.
Command == [name: Names, freed: BOOLEAN]

VARIABLES
  loaded, enabled,   \* the maps of the context, by plugin ID
  entry,             \* per plugin, entry->commands: records [name, freed]
  commands,          \* ctx->commands of cmd: who registered a name, or "none"
  inited,            \* init_func has succeeded and quit_func was not called
  touched,           \* a freed Command has been read
  context,           \* hdl->plugin: "live" or "null"
  start,             \* where main is: "load", "setup" or "up"
  killed, stopped,   \* KILL has been given; status is STOPPED
  faulted            \* a function of a plugin has failed, init apart

managerVars == <<loaded, enabled, entry, commands, inited, touched>>
vars == <<managerVars, context, start, killed, stopped, faulted>>

\* A command starts with no exception under way.
State == [loaded |-> loaded, enabled |-> enabled, entry |-> entry,
          commands |-> commands, inited |-> inited, touched |-> touched,
          thrown |-> FALSE]

\* The command ends in state m: parse_command() catches what it throws.
Become(m) ==
  /\ loaded' = m.loaded /\ enabled' = m.enabled /\ entry' = m.entry
  /\ commands' = m.commands /\ inited' = m.inited /\ touched' = m.touched

Throw(m) == [m EXCEPT !.thrown = TRUE]

\* What the functions of a plugin do when they are called.  The three add_*
\* functions for devices and properties, which are called the same way, count
\* as one; add_commands may fail before or after it has added its commands.
May(f, how) == {"ok"} \cup (IF f \in MayFail THEN how ELSE {})

EnableOutcomes ==
  [init: May("init", {"fail", "throw"}), devices: May("devices", {"fail", "throw"}),
   add: May("add", {"fail", "throw"}), added: BOOLEAN,
   quit: May("quit", {"fail"}), close: May("close", {"fail"})]

QuitOutcomes == [quit: May("quit", {"fail"}), close: May("close", {"fail"})]

Faulty(r) == \E f \in {"devices", "add", "quit"} \cap DOMAIN r : r[f] # "ok"

Init ==
  /\ loaded = {} /\ enabled = {} /\ inited = {}
  /\ entry = [p \in Plugins |-> <<>>]
  /\ commands = [n \in Names |-> IF n \in ToSet(CoreNames) THEN "cmd" ELSE "none"]
  /\ context = "live" /\ start = "load" /\ touched = FALSE
  /\ killed = FALSE /\ stopped = FALSE /\ faulted = FALSE

-----------------------------------------------------------------------------
(* The command registry.                                                   *)

\* unregister_command(), by name only; nothing follows an exception.
Unregister(m, n) ==
  CASE m.thrown                             -> m
    [] ~m.thrown /\ m.commands[n] = "none" -> Throw(m)
    [] OTHER -> [m EXCEPT !.commands[n] = "none"]

UnregisterAll(m, names) ==
  LET after[i \in 0 .. Len(names)] ==
        IF i = 0 THEN m ELSE Unregister(after[i - 1], names[i])
  IN after[Len(names)]

\* Bug: a command whose name is taken stays in the entry.
RegisterKeep(m, p, c) ==
  [m EXCEPT !.entry[p] = Append(@, c),
            !.commands[c.name] = IF @ = "none" THEN p ELSE @]

\* register_command() reads the Command; a command whose name is taken is
\* dropped from the entry.
Register(m, p, c) ==
  LET read == [m EXCEPT !.touched = @ \/ c.freed]
  IN IF m.commands[c.name] = "none"
     THEN [read EXCEPT !.commands[c.name] = p, !.entry[p] = Append(@, c)]
     ELSE read

RegisterAll(m, p, cs) ==
  LET after[i \in 0 .. Len(cs)] ==
        IF i = 0 THEN m ELSE Register(after[i - 1], p, cs[i])
  IN after[Len(cs)]

-----------------------------------------------------------------------------
(* The plugin manager.                                                     *)

\* Bug: the commands stay registered.
RemoveNothing(m, p) == m

\* remove_plugin_commands(): the entry keeps its commands.
RemovePluginCommands(m, p) ==
  LET mine == m.entry[p]
  IN UnregisterAll([m EXCEPT !.touched = @ \/ \E i \in DOMAIN mine : mine[i].freed],
                   [i \in DOMAIN mine |-> mine[i].name])

\* The end of unload(): the library is closed and the entry deleted; an entry
\* whose library cannot be closed is kept.
CloseLibrary(m, p, r) ==
  IF r.close = "ok"
  THEN [m EXCEPT !.loaded = @ \ {p}, !.entry[p] = <<>>]
  ELSE m

\* quit_func(), which may free the Command objects the entry points to.
QuitFunc(m, p) ==
  LET left(c) == [c EXCEPT !.freed = @ \/ p \in FreesAtQuit]
  IN [m EXCEPT !.inited = @ \ {p},
               !.entry[p] = [i \in DOMAIN @ |-> left(@[i])]]

\* disable() of an enabled plugin.  It unloads a plugin whose quit function
\* fails and throws.
Disable(m, p, r) ==
  LET removed == RemovePluginCommands(m, p)
      quit    == QuitFunc([removed EXCEPT !.enabled = @ \ {p}], p)
  IN CASE removed.thrown                     -> removed
       [] ~removed.thrown /\ r.quit = "ok"   -> quit
       [] ~removed.thrown /\ r.quit = "fail" -> Throw(CloseLibrary(quit, p, r))

\* Bug: unload() goes on after an exception of disable().
UnloadAnyway(m, p, r) ==
  CloseLibrary(IF p \in m.enabled THEN Disable(m, p, r) ELSE m, p, r)

Unload(m, p, r) ==
  LET off == IF p \in m.enabled THEN Disable(m, p, r) ELSE m
  IN IF off.thrown THEN off ELSE CloseLibrary(off, p, r)

\* call_plugin_add_commands(): its commands are put in the entry first and
\* registered when the function has succeeded.
AddCommands(m, p, r) ==
  LET new  == [i \in DOMAIN CommandsOf[p] |->
                 [name |-> CommandsOf[p][i], freed |-> FALSE]]
      kept == [m EXCEPT !.entry[p] = @ \o new]
      part == IF r.added THEN kept ELSE m
  IN CASE r.add = "throw" -> Throw(Unload(part, p, r))
       [] r.add = "fail"  -> Throw(part)
       [] OTHER           -> RegisterAll([kept EXCEPT !.entry[p] = <<>>], p,
                                         kept.entry[p])

\* enable() of a loaded plugin that is not enabled.
Enable(m, p, r) ==
  LET on == [m EXCEPT !.inited = @ \cup {p}, !.enabled = @ \cup {p}]
  IN CASE r.init = "throw" -> Throw(Unload(m, p, r))
       [] r.init = "fail"  -> Throw(m)
       [] r.init = "ok" /\ r.devices = "throw" -> Throw(Unload(on, p, r))
       [] r.init = "ok" /\ r.devices = "fail"  -> Throw(on)
       [] r.init = "ok" /\ r.devices = "ok"    -> AddCommands(on, p, r)

-----------------------------------------------------------------------------
(* The start, on the main thread.                                          *)

\* init() loads what the autoload directory has; a library that is no plugin,
\* or whose register function fails, is closed again.
Load(p) ==
  /\ start = "load"
  /\ loaded' = loaded \cup {p}
  /\ UNCHANGED <<enabled, entry, commands, inited, touched, context, start,
                 killed, stopped, faulted>>

Loaded ==
  /\ start = "load"
  /\ start' = "setup"
  /\ UNCHANGED <<managerVars, context, killed, stopped, faulted>>

\* setup() of the plugin manager and of the event module.
Setup ==
  /\ start = "setup"
  /\ commands' = [n \in Names |-> IF n \in ToSet(SetupNames) THEN "setup"
                                                             ELSE commands[n]]
  /\ start' = "up"
  /\ UNCHANGED <<loaded, enabled, entry, inited, touched, context, killed,
                 stopped, faulted>>

-----------------------------------------------------------------------------
(* The commands.  parse_command() refuses a name that is not registered,   *)
(* the commands a plugin that is not loaded, or on or off already.  What a *)
(* read of freed memory leads to is not modelled.                          *)

MayRun(n) ==
  start = "up" /\ context = "live" /\ ~touched /\ commands[n] # "none"

PluginEnable(p, r) ==
  /\ MayRun("PLUGINENABLE")
  /\ p \in loaded \ enabled
  /\ Become(Enable(State, p, r))
  /\ faulted' = (faulted \/ Faulty(r))
  /\ UNCHANGED <<context, start, killed, stopped>>

PluginDisable(p, r) ==
  /\ MayRun("PLUGINDISABLE")
  /\ p \in loaded \cap enabled
  /\ Become(Disable(State, p, r))
  /\ faulted' = (faulted \/ Faulty(r))
  /\ UNCHANGED <<context, start, killed, stopped>>

\* quit(): unloads the plugins that are loaded, in a fixed order; an exception
\* leaves it.
QuitManager(m, r) ==
  LET order == SetToSeq(m.loaded)
      after[i \in 0 .. Len(order)] ==
        IF i = 0 THEN m
        ELSE IF after[i - 1].thrown THEN after[i - 1]
             ELSE Unload(after[i - 1], order[i], r[order[i]])
  IN after[Len(order)]

\* teardown() of the plugin manager and of the event module, quit() of the
\* plugin manager.
StopManager(m, r) ==
  LET torn == UnregisterAll(m, SetupNames)
  IN IF torn.thrown THEN torn ELSE QuitManager(torn, r)

\* kill_func(): stop() quits the manager, then the commands, which no longer
\* receives text input.  parse_command() catches what stop() throws.
Kill(r) ==
  /\ MayRun("KILL")
  /\ LET manager == StopManager(State, r)
         end     == UnregisterAll(manager, CoreNames)
     IN /\ Become(end)
        /\ context' = IF manager.thrown THEN "live" ELSE "null"
        /\ stopped' = ~end.thrown
  /\ killed' = TRUE
  /\ faulted' = (faulted \/ \E p \in loaded : Faulty(r[p]))
  /\ UNCHANGED start

Next ==
  \/ \E p \in Plugins : Load(p)
  \/ Loaded \/ Setup
  \/ \E p \in Plugins, r \in EnableOutcomes : PluginEnable(p, r)
  \/ \E p \in Plugins, r \in QuitOutcomes : PluginDisable(p, r)
  \/ \E r \in [Plugins -> QuitOutcomes] : Kill(r)

Spec == Init /\ [][Next]_vars

-----------------------------------------------------------------------------
(* Properties.                                                             *)

\* Every variable ranges over the values the code can give it; an entry has
\* commands only while its plugin is loaded.
TypeOK ==
  /\ loaded \subseteq Plugins /\ enabled \subseteq Plugins
  /\ inited \subseteq Plugins
  /\ entry \in [Plugins -> Seq(Command)]
  /\ \A p \in Plugins \ loaded : entry[p] = <<>>
  /\ commands \in [Names -> Plugins \cup {"cmd", "setup", "none"}]
  /\ context \in {"live", "null"} /\ start \in {"load", "setup", "up"}
  /\ touched \in BOOLEAN /\ killed \in BOOLEAN /\ stopped \in BOOLEAN
  /\ faulted \in BOOLEAN

\* Whatever fails or throws on the way, a plugin is in enabled exactly while
\* its init function has succeeded and its quit function was not called: init
\* is not called twice, quit never without it, and the library is still open.
QuitMatchesInit == inited = enabled /\ enabled \subseteq loaded

\* A command of a plugin that can be given is one of an enabled plugin that
\* the plugin's entry still names, so that disabling finds it: no command of a
\* closed library can be called.
CommandOfEnabled ==
  \A n \in Names : commands[n] \in Plugins =>
    LET p == commands[n]
    IN p \in enabled /\ \E i \in DOMAIN entry[p] : entry[p][i].name = n

\* When stop() has succeeded every plugin has been quit, every library is
\* closed that could be, and no command is left.
CleanStop ==
  stopped => /\ enabled = {}
             /\ \A n \in Names : commands[n] = "none"
             /\ "close" \in MayFail \/ loaded = {}

\* While no function of a plugin but init has failed, a KILL command stops the
\* agent.
KillStopsUnlessFaulted == killed /\ ~faulted /\ ~touched => stopped

\* Both: KILL stops the agent unless a function other than init has failed, and
\* leaves nothing behind when it has.
KillStopsCleanly == KillStopsUnlessFaulted /\ CleanStop

\* The states that the operators take and return.
States ==
  [loaded: SUBSET Plugins, enabled: SUBSET Plugins, inited: SUBSET Plugins,
   entry: [Plugins -> Seq(Command)],
   commands: [Names -> Plugins \cup {"cmd", "setup", "none"}],
   touched: BOOLEAN, thrown: BOOLEAN]

\* p's entry names n.
Owns(m, p, n) == \E i \in DOMAIN m.entry[p] : m.entry[p][i].name = n

\* What every operation leaves as it found it, however it ends.
Sound(m) ==
  /\ m.inited = m.enabled /\ m.enabled \subseteq m.loaded
  /\ \A p \in Plugins \ m.loaded : m.entry[p] = <<>>
  /\ \A n \in Names :
       /\ m.commands[n] \in Plugins =>
            m.commands[n] \in m.enabled /\ Owns(m, m.commands[n], n)
       /\ m.commands[n] = "cmd" => n \in ToSet(CoreNames)
       /\ m.commands[n] = "setup" => n \in ToSet(SetupNames)

\* p's entry names only commands that p has registered, each once.
Finds(m, p) ==
  \A i \in DOMAIN m.entry[p] :
    /\ m.commands[m.entry[p][i].name] = p
    /\ \A j \in DOMAIN m.entry[p] : m.entry[p][i].name = m.entry[p][j].name => i = j

\* What they leave so while no function but init fails: disable() of an enabled
\* plugin finds every command to unregister.
Intact(m) == \A p \in m.enabled : Finds(m, p)

Registered(m, names, by) == \A i \in DOMAIN names : m.commands[names[i]] = by

\* The inductive invariant behind the three.
IndInv ==
  /\ TypeOK
  /\ Sound(State)
  /\ start # "up" => enabled = {} /\ ~killed /\ context = "live"
  /\ ~faulted /\ ~killed =>
       /\ Intact(State)
       /\ Registered(State, CoreNames, "cmd")
       /\ start = "up" => Registered(State, SetupNames, "setup")
  /\ killed /\ ~faulted => stopped
  /\ stopped => killed /\ context = "null"
  /\ CleanStop

\* "It shuts down this MSA instance" (cmd.cpp:43): so does KILL in general.
KillStops == killed /\ ~touched => stopped

\* "It turns on a plugin" (plugin.cpp:531): turning a plugin on, again or not,
\* reads only commands that exist.
EnableReadsLive == ~touched
=============================================================================
