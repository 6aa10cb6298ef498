# A verification development of the Moe Serifu Agent

This directory models the Moe Serifu Agent (MSA) in TLA+: the C++ agent under
`src/src` and the Python agent under `src/python`.  TLC checks the modules on
small instances; TLAPS proves for all values of the constants what is said of the
safety of event dispatch, the timers, the log, the input and output devices, the
plugins, the configuration, the start and the end of the agent, the event bus and the
scripts.  Paths are relative to the repository, and `dispatch.cpp:307` is line 307 of
`src/src/event/dispatch.cpp` and so on.

To check a run: `tlc -config EventDispatch_mixed.cfg MCEventDispatch.tla`; to
check the proofs of a module: `tlapm EventDispatchProofs.tla`, and so on for each
module whose name ends in `Proofs`.

## 1. The system

### 1.1 The C++ agent

| component | state it keeps | operations | talks to |
|---|---|---|---|
| lifecycle (`msa.cpp`, `main.cpp`) | `status`, one pointer per module | `start`, `stop`, `dispose`; `main` polls `status` | every module, in a fixed order |
| event dispatch (`event/dispatch.cpp`) | queue, handler map, current handler, stack of interrupted handlers | `generate`, `subscribe`, `quit`; the EDT loop; handler threads | cmd and plugins subscribe; input, cmd, timers generate |
| handler sync (`event/handler.cpp`) | `suspend_flag`, `in_wait_loop`, `syscall_origin`, a mutex and a condition variable | `suspend_handler`, `resume_handler`, `handler_suspended`, `HANDLER_INTERRUPT_POINT` | EDT and one handler thread |
| timers (`event/timer.cpp`) | map of timers, last tick | `schedule`, `delay`, `add_timer`, `remove_timer`, `check_timers`, the TIMER and DELTIMER commands | runs on the EDT; commands run on a handler thread |
| events and topics (`event/event.cpp`) | immutable events | `create`, `dispose`, priority | dispatch |
| input (`input/input.cpp`) | devices, handlers, one thread per enabled device | `add_device`, `enable_device`, `disable_device`, `remove_device` | generates TEXT_INPUT |
| output (`output/output.cpp`) | devices, handlers, the active device | `add_device`, `remove_device`, `switch_device`, `register_handler`, `unregister_handler`, `write` | called from any thread |
| log (`log/log.cpp`) | message queue, streams, writer thread | `check_and_push`, the writer loop, `quit` | called from every thread |
| commands (`cmd/cmd.cpp`) | command map, last status | `register_command`, `unregister_command`, `parse_command`, tokenizer, parameter list | event, agent, plugins |
| plugins (`plugin/plugin.cpp`) | loaded entries, enabled set, commands of each | `load`, `unload`, `enable`, `disable`, `load_all` | cmd, input, output, timers, dynamic libraries |
| agent and substitutions (`agent/agent.cpp`, `util/var.cpp`) | agent, variable table | `say`, `expand`, `register_*` | output |
| configuration (`cfg/cfg.cpp`) | sections of keys | `load`, `get_or`, `check_range` | every `init` |
| platform threads (`compat`) | pthread wrappers | `create`, `join`, mutexes, conditions | everything |

### 1.2 The Python agent

| component | state it keeps | operations |
|---|---|---|
| event bus (`python/msa/core/event_bus.py`) | priority queue, subscriptions | `subscribe`, `fire_event`, `listen`, `listen_for_result` |
| supervisor (`python/msa/core/supervisor.py`) | loop, handlers, coroutines | `init`, `start`, `startup_coroutine`, `exit` |
| scripting (`python/msa/builtins/scripting`) | running and scheduled scripts, script table | add, trigger, schedule, list, get, delete, shutdown |
| signals (`python/msa/builtins/signals`) | a bounded buffer of events | propagate, disburse |
| intents, conversation, notifications, RSS, server, API, CLI | small | handlers on the bus |

### 1.3 What is hard here

Handler threads are preempted cooperatively and share unlocked fields with the
EDT; a KILL command shuts the system down from inside a handler that the
shutdown itself has to wait for; every module may be called while another
thread is quitting it; devices, plugins, timers and log messages each have a
producer and an owner that may go away at different times; and the Python bus
runs one event at a time with callbacks that may raise, time out, or wait for
an event that only the same bus can deliver.  PROJECT.json lists each of these
hazards at its line.

### 1.4 What makes each component correct

| component | correct when |
|---|---|
| lifecycle | nothing uses a context that does not exist; a process that ends leaves none behind; a KILL ends it |
| event dispatch | one handler executes at a time; a handler is interrupted only by one of greater priority and resumes in order; every event is deleted, once; shutdown from inside a handler does not deadlock |
| timers | a listed timer is live and fires; a one-shot timer fires once; no ID names two timers |
| log | every accepted message reaches each stream of its level, in order, once, also across a shutdown |
| input | a device has one thread, which ends when it is disabled; no device is deleted under its thread, and none is leaked |
| plugins, commands | a command belongs to an enabled plugin; every enabled plugin is quit once; a KILL ends the process whatever plugins do |
| event bus | every request is answered by a result that is newer than the request; the bus lives on |
| scripting | no two tasks of one name run; every cron script is scheduled; a deleted script runs no more |
| output | while the agent runs a device is active and is there; a write prints on it; no call keeps the mutex |
| tokenizer, substitution | they end; what is quoted is said as it was typed; a command gets the options that HELP shows |
| configuration | every value of the file ends up where its line says, in a file that is saved as well |

## 2. Plan

Written, in order of weight: EventDispatch over HandlerStack, Timers, Log,
InputDevices, Plugins, EventBus, Scripting, Lifecycle, Output, Commands over Agent,
Settings over Config.  What could still be modelled:

1. `Supervisor`: init, the startup coroutine and exit of
   `core/supervisor.py:232-332`, and the ten-event buffer of the signals.
2. A composition of Lifecycle with the suspension protocol of EventDispatch, so
   that a KILL that throws is followed by another one under preemption.
3. The map that `compat/platform/thread/unix.cpp` keeps of threads without a lock.

## 3. The modules

### EventDispatch and HandlerStack

An element of `Events` stands for an Event object, the HandlerContext made for it
and the thread that handles it.  `edt` is the place of the EDT in its loop:

| code | actions |
|---|---|
| `edt_start`, `edt_run` | `EdtStart`, `EdtTest`, `EdtReap`, `EdtResume`, `EdtRestore` |
| `edt_poll_event_queue`, `edt_interrupt_handler` | `EdtPoll`, `EdtSuspend`, `EdtInterrupt` |
| `edt_dispatch_event`, `edt_spawn_handler` | `EdtLookup`, `EdtSpawn` |
| `edt_cleanup`, `dispose_handler_context` | `EdtCleanupCurrent`, `EdtMark`, `EdtOutlast`, `EdtUnwind`, `EdtDrain` |
| `event_start` on a handler thread | `HandlerStart`, `HandlerReturn`, `HandlerCheckReap`, `HandlerFinish` |
| `HANDLER_INTERRUPT_POINT` | `HandlerInterruptPoint`, `HandlerWake`, `SpuriousWake` |
| `kill_func`, `stop`, `quit` | `HandlerKill`, `HandlerCmdQuit`, `HandlerQuit`, `HandlerRequestStop`, `HandlerJoined` |
| `generate`, `subscribe`, `unsubscribe` | `Generate`, `Subscribe`, `Unsubscribe` |
| the end of `start`, the wait of `main` | `MainUp`, `MainExit` |

Each access of a field that is shared without a lock (`status`,
`current_handler`, `running`, `reap_in_handler`, the handlers map) whose order
another thread can observe is a step of its own; a region under a mutex is one
step.  The queue is ordered by address, as a `priority_queue` of pointers is.
`HandlerKill` is a KILL whose teardown succeeds; one that throws returns like any
handler and is the subject of Lifecycle.

HandlerStack is what dispatch promises: events wait, begin on top of what is
under way if their rank is greater, and only the one on top ends.  The refinement
mapping (`HPending`, `HStack`, `HFinished` at the end of EventDispatch) counts the
event in the EDT's hands as waiting, and a handler as finished when its thread has
left the handler function.

### Timers

`list` is the map from IDs to Timer objects and `left` what remains of each
period.  `Add` with its callers stands for `delay`, `schedule`, `add_timer` and
the TIMER command, `ReturnId` for what the caller does with its Timer pointer
after the unlock (timer.cpp:149), `RemoveTimer` and `SysRemoveTimer` for the two
removals, `CheckTimers` for a tick of the EDT and `ClearTimers` for its end.  IDs
are a signed type of `2 * IdHalf` values and wrap as the conversion of the map's
size does.

### Log

`TestRunning`/`Push` are the two halves of `check_and_push`: the test of `running`
comes before the mutex.  `WriterTest` .. `WriterDrain` are the writer's loop and its
last pass over the queue; `Quit`, `Join` and `Dispose` are `log::quit`.  A stream
has a level; the text of a message is its sender and number.

### InputDevices

`AddDevice`, `EnableDevice`, `DisableDevice`, `RemoveRunning` and `RemoveStopped` are the
operations.  `quit()` goes through the devices in the steps `QuitStarts`, `QuitDisposes`,
`QuitStops`, `QuitErases`, `QuitEnds`: between `QuitStops` and `QuitErases` it has told a
thread to delete the device whose ID it is about to read (input.cpp:331-334).  `ItStart`,
`ItHandler`, `ItTest`, `ItRead` and `ItCleanup` are the detached thread of a device,
`ItNoHandler` the error path of `it_get_handler` that ends the process, `ItFault` what a
thread may do with a device that was deleted under it.

The operations have no guard but their own: nothing in the code waits for an input
thread, and neither does the model.  `rushed` is a history variable that no action
reads.  It holds the devices on which an operation was called before their thread had
done what it was told last (`Settled`): before a created thread had set `running`, or
a stopped one had ended.  `ThreadsSound`, `StoppedEnds` and `RemovedIsDeleted` say that
being overtaken is the only thing that breaks a device and its thread, and that it
breaks no other device; `NoDeviceLeaked` has no such exception.  What happens to an
overtaken device is in the counterexamples of section 5.

### Plugins

The plugin manager and the command map.  After `start()` commands run one at a
time, so a command is one step, and the difficulty is in error paths that enter
the same functions again; the operators take the state as a record and return the
one in which the C++ function returns or throws.  The loops over commands and plugins
(`UnregisterAll`, `RegisterAll`, `QuitManager`) are recursive functions of the number
of rounds.  Every function of a plugin may fail or throw.

### Lifecycle

`start()` as it goes through `init()`, each of which may fail, and `setup()`;
`stop()` through `teardown()` and `quit()`, run by `main()` when a start fails and by
the handler of a KILL, which may be handled as soon as the commands are subscribed;
`dispose()`.  Of the EDT and the handlers only what a stop depends on is kept.  A
use of a context that is not there sets `fault` and ends the behaviour: what
undefined behaviour does next is not followed.

`reader` is the detached thread of an input device that the configuration may name, with
what it uses of other modules (`ReaderStarts`, `ReaderTests`, `ReaderReads`,
`ReaderGenerates`, `ReaderLeaves`): `hdl->input` and its handlers, `hdl->log` and
`hdl->event`.  Nobody joins it, so that it may use each of them after `input::quit()`, in
the course of a stop that is otherwise in order; `FaultsHaveCause` names this as a cause
of its own, and `LateKillIsClean` of section 5 is a run of it.  `KillEnds` therefore ends
in the exit of main() or in such a fault.

### EventBus

`fire_event` (`Fire`, `Put`), `listen` (`Dispatch`, `Handle`, `HandlerRaises`,
`Propagate`, `Gathered`) and `listen_for_result` (`Listen`, `ListenReturns`, `TimeOut`)
of `core/event_bus.py`, with the server's API as clients that fire a trigger and
wait for the type of its reply.  A step is what an asyncio task does between two
awaits.

### Scripting

Every handler of `scripting/handlers.py` up to each await (`AddFind`, `AddCreate`,
`TriggerFind`, `ListAll`, `GetFind`, `StartupAll`, `DeleteFind`, `DeleteJoin`,
`DeleteErase`), the task of a script (`Execute`, `CronNext`, `RecordFind`,
`RecordSave`, `Finish`, `Cancelled`), the function `__ex` that all scripts share, and
the death and restart of the process, which only the database survives.  `lost` is
a ghost: it becomes TRUE when a delete forgets a task it has not cancelled or a
script is run by hand before StartupEvent; what CronScheduled and OneTaskPerName
claim ends there.

### Output

Threads call the operations of `output.cpp`; a thread that waits for `state_mutex` is
at "lock", and what a call does with the mutex is one step unless it prints or
switches more than once with it:

| code | actions |
|---|---|
| `init`, `read_config`, `quit` | `Configure`, `InitReturns`, `Stop`, `Quit` |
| `write`, `write_text` | `CallWrite`, `BeginPrint`, `PrintReturns`, `PrintThrows` |
| `add_device`, `create_device` | `CallAdd`, `AddDevice`, `ReadsDisposed`, `ReportAdded`, `ReportsRemoved` |
| `remove_device`, `switch_device` | `CallOnDevice`, `RemoveDevice`, `SwitchDevice` |
| `get_devices`, `get_active_device` | `CallAsk`, `Ask` |
| `unregister_handler` | `CallUnregister`, `BeginUnregister`, `SwitchAway`, `EraseHandler` |
| `register_handler`, `create_handler`, `dispose_handler` | `Register`, `DisposeHandler` |

A plugin gets the hooks for writing, switching, listing and handlers' objects;
adding, removing and registering are the core's interface (`output.hpp`), which no
code of the repository calls after init but which other threads may be inside of.
`add_device` reads the ID of a device that it has deleted, when the ID is taken
(`ReadsDisposed`), or that another thread has removed meanwhile (`Dangling`,
`ReportsRemoved`): the process may end there, in the phase "crashed", or go on.
`Configure` has no case for an exception of `std::stoi` (output.cpp:339): `read_config` is
called by `init()` only, when the one handler that is registered is the default one, which
is a TTY's; an entry for TCP or UDP is an unknown handler, a `config_error` ten lines
before its ID is converted.
`Quit` comes when no thread is in a call: earlier ends are Lifecycle's subject.

### Agent and Commands

Agent holds `var.cpp` (which `$` starts a variable, how a `\` escapes, the table of
substitutions) and `say` of `agent.cpp`.  A text is a sequence of characters of `Chars`, of
which `Marks` are those that mean something.  `Say` returns the set of what may come of it: that
the text is written, that it throws or that it hangs.  It goes through
`output::write_text`, which rethrows what the handler of the active device throws and
writes nothing unless the agent is RUNNING; `faults` holds which of these two went wrong while
the line was handled, and each may go wrong at any text of it.

Commands is `parse_command` with everything it calls for one line: `Tokens`
(`shell_tokenize`), `ParamList`, the handlers `RunEcho`, `RunHelp`, `RunTimer`, `RunKill`
and `RunExample` (a plugin's), each with the exceptions that `say` may throw inside or
outside of the try block (the prompt and the apology in the catch block among them), and
`Fire`, by which TIMER and the startup command type a
line.  A hang or an exception that leaves the handler thread ends the behaviour.
HELP says what a plugin's command was declared with, its description and usage, which
are texts of the plugin's making.  A plugin's command may throw a std::exception, which is caught,
or something else ("other" of `faults`), which is not.  KILL stops the agent (`Stop`)
only if its own text can be said and no stop has failed before; a stop may fail
(`StopFails`), and the agent goes on without TIMER and the plugin's command.
Between lines a plugin registers its command with any of its declarations and changes
substitutions.  `phase` says how far a line has come.  Other plugins' commands and the
wording of what the core says are left out; a recurring timer's line is fired once, since
the first event frees the text that the second one would read.

### Config and Settings

Config is `load` line by line and `save`, with a line as a record of its parts (a
header, a pair with or without an index, or neither), its value as a sequence of
characters, and whether the identifier in it is one.  `SaveAndLoad` writes the
configuration and reads it back; the agent itself only loads.

Settings is what `log::init` and `event::init` make of the result: `LogAborts` and
`StartLog` are `read_config` and `create_stream` of `log.cpp`, with the level and the open
mode of each stream, an unknown one of which is a `config_error` that nothing catches, `StartEvent` and
`StartEventFails` those of `dispatch.cpp`, through the getters of `cfg.hpp`, of which
`get_as<int>` returns any value (`Garbage`) for a key without one.

## 4. The runs

| run | states | asks |
|---|---|---|
| dispatch_mixed | 307104 | preemption two deep with two KILLs: mutual exclusion, parking, memory, leaks, unlocked reads, refinement of HandlerStack |
| dispatch_text | 25728 | text input only, as without plugins: every event is deleted, a KILL ends main(), no deadlock |
| timers | 47807 | the list is sound, a one-shot timer fires once and every listed timer fires or leaves the list, with IDs that wrap |
| log_shutdown | 10617 | conservation and order of messages, across a shutdown |
| input_devices | 131540 | devices and their threads, any operation at any time, quit() in its steps |
| plugins_faults | 2511 | three plugins, everything may fail |
| bus_requests | 67596 | three clients, a handler that raises, timeouts |
| scripting_scripts | 182018 | four scripts under two names, five requests, a restart |
| lifecycle_starts | 11249 | each init() may fail, KILLs from the first moment, an input thread that nobody joins |
| output_devices | 170824 | two threads, three devices, two handlers, one of which throws; five configurations |
| commands_lines | 947460 | all short lines, texts in quotes, a plugin's command and substitutions, writes that fail |
| config_files | 282627 | files of up to four lines of twelve kinds; two streams; all small times |

Bounds, and why they are enough:

* EventDispatch: four events give two suspended handlers below a third and one
  more in the queue; a handler relates to others only through the current one and
  the one on top of the stack.  The priorities are the two of `topics.hpp` and one
  between, so that the stack grows; the first and the last address carry KILL.
* Timers: two timers under IDs -1 and 0 are enough for the wrap, for an ID that is
  taken again and for a list that is full of another timer; one has period 0, which
  is always ready.  `Timers_safe.cfg` checks the invariants, and the types, for three
  timers and IDs -2 .. 1 (364275 states).  `fired` counts to `FireCap` = 2.  Periods are
  relative, so that time needs no bound.
* Log: two threads with two messages each, one of which still logs when quit()
  begins, over two streams of different levels.
* InputDevices: three objects for two names and two threads: a device that is
  replaced under its name, or enabled twice, and reads next to another one.  One of
  the two types has no handler.
* Plugins: three plugins, one that frees its commands, two that claim one name.
* EventBus: two clients of one type and one of another, whose priority is ahead;
  one makes its handler raise.  `MaxRounds` lets one of them ask again.
* Scripting: `MaxRequests` = 5 suffices to add, trigger, delete and add again under
  one name; `Runs` = 2 tasks of one row tell whether a script runs next to itself.
* Lifecycle: two commands in each setup(), so that a KILL may come between them,
  and three KILLs: an early one, one that fails because of it, and one more.
* Output: three IDs, so that the loop of unregister_handler() takes two turns; the
  default handler prints on STDOUT only and a plugin's on all.  Two threads, since
  a third one would wait for the same mutex.
* Commands: four declarations of a plugin's command, with options of both kinds and with a
  `$`, a digit or a `\` in what HELP says of it; lines of up to `MaxLine` = 3 characters after the name of the command and
  texts of up to `MaxText` = 3, over a space, both quotes, `-`, `:`, `\`, `$`, a digit and
  letters: a rule of the tokenizer or the expander looks at two neighbours.
  `MaxPending` = 1 line waits for a timer.
* Settings: `MaxLines` = 4 is a header, two values and one that shifts, overwrites or
  drops them.  Times are 0 .. 3 with the range 1 .. 2.

Fairness.  Threads are scheduled (weak fairness of the EDT, of each handler
thread, of main, of the log writer, of a device's thread), since pthreads are; a
handler function returns, since every handler of the program does.  Nothing makes
a user enter text, a KILL be given or a device produce input.  Timers: the clock
moves and the EDT ticks.  EventBus: ready tasks of the asyncio loop run; a timeout
need not come.  Scripting: handlers and cancelled tasks go on, StartupEvent comes;
a script that nobody cancels may run for ever.  Output: a handler returns or throws,
and a thread that waits for the mutex gets it if it is free again and again (strong
fairness, the only one that is assumed): pthread mutexes do not starve a waiter for
ever on the schedulers the program is built for.

`CHECK_DEADLOCK FALSE` is set where the system may come to rest: no input, no
request, or a KILL that has ended everything.  dispatch_text, the timers and
Lifecycle are checked for deadlock.

Each module with a state has a type invariant: a `TypeOK` (`BusTypeOK`,
`CommandsTypeOK`), or in Settings the first part of the inductive invariant.  Each is
proved, as part of the inductive invariants.  Each inductive invariant (`IndInv`,
`BusInv`, `CommandsInv`, `SettingsInv`) holds in its run when it is added to the invariants,
which was checked before it was proved.

Deliberate bugs: an operator whose comment begins with "Bug:" is the form that a
definition after it would have with a plausible mistake; the runs find each of
these mistakes when it is put in place.

## 5. What the code does not promise

A configuration that is a run of section 4 ends in a counterexample when the property
of this table is put in place of its own; the others are there for it.  Each is a
disagreement between what the program does and what its documents, comments or
messages say.

| configuration | module | property | what happens, where |
|---|---|---|---|
| EventDispatch_hang | MCEventDispatch | InterruptCompletes | the EDT waits for a suspension that never comes (dispatch.cpp:307) |
| Plugins_faults | MCPlugins | KillStops | a fault in `disable` makes every later stop throw (plugin.cpp:274) |
| EventDispatch_priority | MCEventDispatch | GreaterPriorityInterrupts | the queue orders pointers (dispatch.cpp:41) |
| Timers_kept | MCTimers | AcceptedIsKept | a new timer takes the ID of one that waits (timer.cpp:145) |
| Timers_full | MCTimers | RefusedIsNotListed | a caller who is refused has added a timer |
| Timers_deltimer | MCTimers | DeltimerDeletes | DELTIMER refuses every timer of TIMER (timer.cpp:146) |
| Timers_freed | MCTimers | IdReadFromLive | the ID is read from a timer that fired meanwhile (timer.cpp:149) |
| Log_shutdown | MCLog | EmptyWhenEnded | a message is pushed after the writer's end (log.cpp:462) |
| InputDevices_devices | MCInputDevices | OneThreadPerDevice | a device enabled again has two threads (input.cpp:187) |
| InputDevices_devices | MCInputDevices | DeletedWithoutThread | a device is deleted before its thread starts (input.cpp:149) |
| InputDevices_devices | MCInputDevices | OvertakenEnds | a starting thread undoes the stop (input.cpp:353) |
| InputDevices_devices | MCInputDevices | QuitFindsDevice | quit() reads the ID of a device that its thread has deleted (input.cpp:334) |
| InputDevices_devices | MCInputDevices | HandlerIsThere | a thread reads with a handler that quit() has deleted (input.cpp:381) |
| Plugins_faults | MCPlugins | EnableReadsLive | a plugin enabled again has freed its commands (plugin.cpp:506) |
| EventBus_requests | MCEventBus | OwnReply | a client gets the reply to another one's request (event_bus.py:90) |
| EventBus_requests | MCEventBus | FiredIsHandled | an exception of one callback ends the bus (event_bus.py:87) |
| Scripting_delete | MCScripting | DeleteCancels | a deleted script that waits for its timer runs once more (handlers.py:254) |
| Scripting_refused | MCScripting | RefusedIsNotRun | for a script that exec() refuses another one's function runs (script_execution_manager.py:55) |
| Scripting_catching | MCScripting | HandlerEnds | a script that catches CancelledError stops the bus (handlers.py:263) |
| Lifecycle_starts | MCLifecycle | LaterKillEnds | a KILL during setup() makes every later one throw (msa.cpp:87) |
| Lifecycle_starts | MCLifecycle | LateKillIsClean | an input thread logs, reads or generates with what a stop has deleted (input.cpp:359-396) |
| Lifecycle_starts | MCLifecycle | FailedStartIsClean | quit() deletes the context of an EDT that is about to start, or reads a current handler that is NULL (dispatch.cpp:102-116) |
| Output_devices | MCOutput | HandlersLive | a device that is not active keeps the handler that was unregistered and deleted (output.cpp:287) |
| Output_devices | MCOutput | AddedIsListed | add_device() reads the ID of a device that was removed (output.cpp:170) |
| Output_devices | MCOutput | RunsOn | for an ID that is taken add_device() reads the ID of the device it has just deleted (output.cpp:160-162) |
| Output_devices | MCOutput | FailedUnregisterMovesNothing | an unregistration that throws has switched the active device (output.cpp:304) |
| Commands_lines | MCCommands | NeverHangs | a `$` before a digit hangs the handler (var.cpp:199) |
| Commands_lines | MCCommands | NeverAborts | a `\` in an unknown command's name, or an output handler that throws at it, ends the process (cmd.cpp:279) |
| Commands_lines | MCCommands | TimedAsGiven | TIMER's line has lost its quotes (timer.cpp:311) |
| Settings_files | MCSettings | AnySavedLoadsBack | a value that ends in a blank or has quotes is loaded as another one (cfg.cpp:244) |
| Settings_files | MCSettings | EveryLineCounts | the last line is dropped if no newline ends it (cfg.cpp:96) |
| Settings_files | MCSettings | BlankTimesInRange | an empty value passes check_range() by chance (cfg.hpp:115) |
| Settings_files | MCSettings | TickCoversSleep | the default tick is shorter than the configured sleep (dispatch.cpp:200) |
| Settings_files | MCSettings | NeverAborts | log::init() catches no config_error (log.cpp:88) |
| Lifecycle_starts | MCLifecycle | StartIsLogged | start() logs after a KILL has deleted the log (msa.cpp:93) |

## 6. What is proved

Every safety property of the runs, each for all values of its constants, and that
dispatch implements its abstract specification:

| module | theorem | states `Spec => []` of |
|---|---|---|
| EventDispatchProofs | TypeCorrect, MutualExclusion, Parking, MemorySafety, NoLeak, UnlockedReads | the types and the safety properties of dispatch_mixed |
| | StackOrder | the stack of interrupted handlers is strictly increasing in priority, the current one on top |
| | Refinement | (`Spec => ImplementsHandlerStack`) every step of dispatch is one of HandlerStack or changes nothing of it |
| CommandsProofs | QuotedIsSaid, HelpIsRight, FlawsStop | (of Commands: `CommandsSpec => []`) `EchoedVerbatim`, `OptionsAsHelpSays`, `OnlyFlawedLinesStop` |
| | Soundness, FiresOnce | (of Timers) `ListSound`, `OneShotFiresOnce` |
| LogProofs | Soundness, ShutdownLosesNone | `LogSound`, `LogComplete` |
| InputDevicesProofs | ThreadsAreSound, NoneIsLeaked, ActiveAreRead | `ThreadsSound`, `NoDeviceLeaked`, `ActiveIsRead` |
| OutputProofs | TypeCorrect, ActiveIsSound, PrintIsSound | `TypeOK`, `ActiveSound`, `PrintedOnActive` |
| | ErasedIsNotActive | (an action property) `ErasedIsInactive` |
| LifecycleProofs | Causes, NothingIsLeft | `FaultsHaveCause`, `LeavesNothing` |
| ScriptingProofs | NeverNextToItself, CronIsKept | `OneTaskPerName`, `CronScheduled` |
| | WaitersAreRegistered, ResultsAreFresh, AnswersAreOfKind | (of EventBus: `BusSpec => []`) `WaitersRegistered`, `ResultIsFresh`, `AnswerOfKind` |
| PluginsProofs | InitAndQuitInTurns, NoCommandOfClosed, StopsCleanly | `QuitMatchesInit`, `CommandOfEnabled`, `KillStopsCleanly` |
| | LastValueCounts, SavingKeepsValues, SettingsReachStreams, TimesAreChecked | (of Settings: `SettingsSpec => []`) `LastAssignmentHolds`, `SavedLoadsBack`, `IndexedSettingOfStream`, `TimesInRange` |

Each also has the theorem `Invariance` (`BusInvariance`, `CommandsInvariance`,
`SettingsInvariance`), that the inductive invariant `IndInv` (`BusInv`, `CommandsInv`,
`SettingsInv`) holds, from which the others follow.  Its proof has the same layout throughout: a lemma for the initial states, one
lemma for each action (or for each operation, where several actions share most of the
argument), and before them the laws of the operators that they use.  ScriptingProofs
holds the theorems about the bus that carries the scripts' events, PluginsProofs
those about the configuration, which need its laws of loops, and CommandsProofs those
about the timers that TIMER makes; the names in some of the modules they extend
differ for this reason (`BusInit`, `CommandsInit`, `SettingsInit`, and so on).

**Assumptions.**  The named assumptions on the constants give their types and say that
the values for "none" are none of the others.  Beyond that:

* EventDispatch: `KillersAreTop`, no event has a greater priority than a KILL.
  `topics.hpp` gives TEXT_INPUT the greatest priority there is, and KILL is text;
  without it a KILL handler could be suspended inside `stop()`, which no interrupt
  point allows but which the EDT would wait for.
* Output: a configured device has an ID and a key (`Configs`), and IDs are not the
  one that means no device.
* Plugins: there are finitely many, and no two of the commands that the core and its
  setup() register have one name.  Those of plugins may clash.
* Config: a line is one of the three kinds, its value a sequence of characters, and an
  index is a natural number (`Indices`), since cfg.cpp:170 refuses any other.  Settings: 10 ms is between the
  least and the greatest time.
* Agent and Commands: no letter or digit is a mark, identifiers are made of letters,
  and the five commands have different names, ECHO's being the `E` that quoted lines
  begin with.  Texts to be quoted have no `'`, which would end the quotes and which
  no escape keeps from doing so.  The name of the agent has no `\` (`NameAssumption`):
  say() removes it as it does any escape, and a name that ends in one escapes what
  follows.  Nothing in the code ensures that.
* Lifecycle: every `setup()` registers at least one command, as those of the plugin
  and the event module do; a KILL during `start()` finds it missing and throws.

**EventDispatch.**  None of the properties is inductive.  `IndInv` adds to the types:
where each event can be (`PlacesInv`: unborn, queued, in the EDT's hands, a context, or
gone, never two of them); what a context's fields say of its thread (`ContextInv`:
`running` is TRUE until the thread has left, `reap` is set only where the EDT has let
go); what an interrupted context looks like and how the stack is ordered
(`StackInv`); and what the EDT's place and `status` say of each other and of the
handler that asked for the stop (`EdtInv`).  The lemmas on sequences say what pushing
and popping do to the stack.  For the refinement, one lemma per group of actions
shows the step of HandlerStack that it maps to: a spawn begins an event on top of the
stack (`IndInv` gives that its priority is greater), the end of a handler function
ends the top one, and suspending, resuming and unwinding only move a handler between
`current` and `interrupted`, which the mapping does not tell apart; an event that is
dropped, without a subscriber or at the end, is one that HandlerStack discards.

**Timers.**  `ListSound` is not inductive, as an object that is new might be in the
list, and `OneShotFiresOnce` needs to know that a live one-shot timer has not fired:
`IndInv` says both.

**Log.**  `Conservation` is inductive once the phases of the writer and of `quit()` are
known (`PhasesInv`).  It rests on the laws of `For`, the filter by level, which is a recursive
function on the length of a sequence: that there is such a function, what it is of the
empty sequence, and what appending a message or removing the first one does to it.
These are inductions over Nat, which the provers can do when what is claimed is
membership of a set (lemma `Induction`) instead of an operator.

**InputDevices.**  `IndInv` adds that a listed device is not marked for deletion, but for
the one quit() is at (`DevicesKept`), and that a device which says it runs has a
thread in its loop (`RunningIsRead`): this is what lets a removal leave the deletion
to the thread, overtaken or not.  A device gets out of `rushed` never, and an operation on a device that is
not in it and does not get there finds its thread settled (`Note`, `Settled`): each of
the lemmas of the operations rests on this, and none on a caller's patience.  That no two
threads have one device is "two that do are the same" (`ThreadsApart`).

**Output.**  Besides `ActiveSound`, `IndInv` says which calls have the mutex and what they
remember (`CallsInv`): a handler that prints does so with the mutex, so that the
active device stays until it returns.  A call may also be left in the middle by a crash,
after which nothing moves.

**Lifecycle.**  `FaultsHaveCause` says nothing of which contexts there are.  `IndInv`
gives them exactly, while nothing has gone wrong, by two measures: how far `start()`
has come in its order (`Begun`), and how far the one thread that stops the modules has
come in the other order (`Passed`, `Quitted`).  A pointer is set for the modules that
have begun and are not passed; a context is live for those that have begun and are
not quit (`ContextInv`).  `HandlerInv` says why a KILL cannot reach the first `quit()`
before `start()` is done with every `init()`: the event module's commands have to be
there to be torn down.  The steps of a stop are proved once, for main() and for the
handler alike.  `ReaderInv` says that an input thread is created when INPUT, and with it
EVENT and LOG before it, has begun: while `input::quit()` has not deleted its context,
all that the thread uses is there, so its fault has that cause.

**EventBus.**  `ResultIsFresh` follows step by step once it is known that what is queued
comes of requests that were made and that the remembered result of a type is a reply
of it.

**Scripting.**  A handler remembers rows, tasks and names across an await, and
`HandlerInv` says what of it still holds afterwards, which is true because the bus runs
one handler at a time.  While the ghost `lost` is FALSE a task is alive exactly
under the entry of its name (`AliveListed`, `EntriesSound`), so that a second one is
not scheduled; `CronKept` says that a cron script has its entry until it is erased.

**Plugins.**  The three properties speak of what is left after any number of operations,
each of which may end in the middle.  `IndInv` says it in three parts: what every
operation keeps however it ends (`Sound`: the plugins whose init was not followed by
quit are the enabled ones, which are loaded; one that is not loaded has an empty entry;
a command of a plugin belongs to an enabled one whose entry names it); what holds while
no function but init has failed (`Intact`: each command in the entry of an enabled plugin
is registered to it and named once), without which a second round of `disable` would
throw; and when the commands of the core and of setup() are still registered, and what
`faulted` and a KILL say of `stopped` and the context.  Nothing is said of the entry of a
plugin that is loaded and disabled, which may hold anything.  For each
operator there is a law that gives both: the part of the state it may change, that it
keeps `Sound`, and that it neither throws nor breaks `Intact` when nothing fails.  The
laws of the loops are inductions over the rounds: `LoopExists` gives that a recursive
function of the rounds exists and has its equation, `Induction` that what one round
keeps all keep.

**Commands.**  The invariant `CommandsInv` is short: until the agent stops, the variable of
its name and the command ECHO are the ones that the core registered, because neither
`set_value` nor `unregister_internal` lets a plugin at the first, and a plugin's command
has another name; HELP and KILL are registered without options; a line that is quoted is the
one that was given; and only a line that is done has parameters.  What is hard is what
one line does, and each loop over characters or tokens is a recursive function:
`LoopExists` gives that it exists and has its equation, in either direction
(`DownwardExists`, for the two that look ahead), and an induction over the rounds what
its states have in common.

* `EchoedVerbatim`: in the quotes the tokenizer's current token grows by one character of
  the escaped text a round (`QuotedTokens`); after `--` the token is an argument and
  nothing else (`ParamDashes`, `QuotedParsed`).  A `\` escapes exactly if the one before it
  does not (`EscapedLaw`), hence, whatever precedes the text and escapes nothing, each
  character that Escape added escapes and no other does (`CharEscaped`, put together by
  `SoundBoth` to `TextEscaped`): so the expansion stops at the agent's own variable only
  (`NoStops`, `FullExpands`), and removing the escapes removes what was added
  (`Unescapes`).
* `OptionsAsHelpSays`: every option that ParamList takes is declared, in the form in which
  it takes it (`ParamListType`), and HELP shows every declared option in that form
  (`HelpShows`).
* `OnlyFlawedLinesStop`: all that is said of a line is made of its characters, or of some
  that have no part in a flaw (`OfLine`), through the change to capitals and the joining of
  arguments too, or of what HELP shows for it (`Shown`); `expand` hangs only at a `$` before a digit of the text (`ExpandHangs`),
  never of a value, since it goes on behind what it has put in; and without a `\` in the
  text or in a value, and unless a write throws, nothing throws (`NoEscapeNoThrow`).

**Config and Settings.**  `LastAssignmentHolds` speaks of a file that was read to its end;
`ConfigInv` says the same of the lines before `pos`, and that `section` is the section
of the line before (`SectionAtLaw`: it is that of the line before it but for a header).
One line changes one list or drops one section (`OneLineLaw`), and of a list it changes
one index or the end (`PutLaw`, also where the list is extended by empty values); a line
whose value is to last is of another list, another index or another section than
every line after it.  That what `save` writes is a file again (`WriteConfigLaw`) is an
induction over its sections and keys.  From `ConfigInv` follows what the streams of the
log are made of.  `TimesInRange` needs that the two conversions of a value which is not
blank give the same number (`GetAsIntLaw`); for a blank one they need not, see section 5.

`SavedLoadsBack` relates a file to the configuration that it was written from, which
no step keeps in one place: `SavedInv` says that what was saved has no empty list
(`Whole`, which every line keeps), that the file is still what `WriteConfig` made of it,
and that section and configuration are what `load` makes of its lines before `pos`,
whatever sequence of states that is (`Leads`).  That there is one, and that it ends in the
configuration that was saved, is the converse of writing, from the inside out: a value
(`WrittenIsRead`, through the quotes that a blank at its beginning needs), the list of a
key (`KeyReads`: each value is put behind those before it, with or without an index),
a section (`SectionReads`, key by key in whatever order they are written) and the file
(`ConfigReads`).  `FlattenReads` and `ReadsBoth` say that files one after another are read
one after another.

**Only model-checked.**

* Liveness (`KillEnds`, `EveryEventDeleted`, `ListedFires`, `HeldIsWritten`, `StoppedEnds`,
  `RemovedIsDeleted`, `RequestAnswered`, `HandlerEnds`, `CallsEnd`): the provers know
  neither fairness nor ENABLED.

## 7. What is not modelled

* The wording, formats and layout of messages (prompts, XML, log formats), the
  characters of a configuration line around its key, index and value, and the
  adapters to terminals, HTTP and dynamic libraries.
* `compat/platform`: `win32.cpp` and `android.hpp` are other platforms' wrappers;
  `thread/unix.cpp` is modelled by its use (create, join, mutex, condition), not its own
  table of thread names.
* `cfg::dump_conf` and `config_error`'s texts; `util.cpp`'s sleeping.
* What happens after undefined behaviour: a run in which a deleted object was used
  ends (Lifecycle, Output), or may end (InputDevices), or the use itself is the violation.
* Races on `std::map` and other containers as such: an access is one step, and what
  is modelled is its order among other accesses.
* The supervisor's init and exit, notifications, conversation, intents, RSS: each a
  callback around the bus.
* Shutdown of the scripting manager, which nothing calls.
