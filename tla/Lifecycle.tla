----------------------------- MODULE Lifecycle ------------------------------
(***************************************************************************)
(* start(), stop() and dispose() of src/msa.cpp and the main() that calls  *)
(* them: the modules are initialised in one order and quit in another, by  *)
(* main() when a start fails and by the handler of a KILL otherwise.  Each *)
(* init() may fail, and a KILL may be handled as soon as the commands are  *)
(* subscribed, while start() still goes on.                                *)
(*                                                                         *)
(* The event dispatch thread (EDT) and the handler are those of module     *)
(* EventDispatch, without their suspension; the contexts of the modules    *)
(* are what counts here: which exist, which pointer of hdl is set, and who *)
(* uses one that is gone.  A use of that kind ends the behaviour.  The     *)
(* detached thread of an input device is that of module InputDevices,      *)
(* without its device: nobody joins it.                                    *)
(***************************************************************************)
EXTENDS Integers, Sequences

CONSTANTS
  MayFail,        \* the modules whose init() may fail
  Commands,       \* Commands[m]: those that m's setup() registers, in order
  MaxKills        \* bound on the KILL commands

\* The modules in the order of init(), of setup() and teardown(), and of quit().
Starts == <<"log", "output", "event", "input", "agent", "cmd", "plugin">>
Setups == <<"plugin", "event">>

\* Bug: the log is quit before the output.
LogBeforeOutput == <<"plugin", "input", "agent", "cmd", "event", "log", "output">>

Quits == <<"plugin", "input", "agent", "cmd", "event", "output", "log">>

Modules == {Starts[i] : i \in DOMAIN Starts}
Contexts == Modules \cup {"timer"}

ASSUME LifecycleAssumption ==
  /\ MayFail \subseteq Modules
  /\ MaxKills \in Nat
  /\ DOMAIN Commands = {"plugin", "event"}
  /\ \A m \in {"plugin", "event"} :
       /\ Len(Commands[m]) \in Nat \ {0}
       /\ DOMAIN Commands[m] = 1 .. Len(Commands[m])

Names == UNION {{Commands[m][i] : i \in DOMAIN Commands[m]} : m \in DOMAIN Commands}

VARIABLES
  status,      \* hdl->status
  main,        \* where main() is: [at, n, i]
  handler,     \* where the handler under way is, likewise
  set,         \* the modules whose pointer in hdl is not NULL
  ctx,         \* the context of each module: "none", "live" or "deleted"
  edt,         \* "none", "created", "running" or "exited"
  commands,    \* the commands registered by setup()
  reader,      \* a detached input thread: "none", "started", "tests", "reads",
               \* "got" a chunk, "leaves" its loop or "ended"
  failedAt,    \* the module whose init() failed, or "none"
  early,       \* a KILL began before start() returned
  kills,       \* how many began
  fault        \* what used a context that is not there, or "none"

ghosts == <<failedAt, early, kills>>
vars == <<status, main, handler, set, ctx, edt, commands, reader, ghosts, fault>>

\* A thread's place: in its n-th module, and there at the i-th step.
Pos(at, n, i) == [at |-> at, n |-> n, i |-> i]

Init ==
  /\ status = "CREATED"
  /\ main = Pos("init", 1, 1)
  /\ handler = Pos("none", 1, 1)
  /\ set = {}
  /\ ctx = [m \in Contexts |-> "none"]
  /\ edt = "none"
  /\ commands = {}
  /\ reader = "none"
  /\ failedAt = "none"
  /\ early = FALSE
  /\ kills = 0
  /\ fault = "none"

\* The process is over, or has used what is not there.
Over == main.at \in {"exited", "failed"} \/ fault # "none"

\* The thread at pos, or the EDT, gets on from there.
At(pos, at) == ~Over /\ pos.at = at
EdtIs(s) == ~Over /\ edt = s

Live(ms) == \A m \in ms : ctx[m] = "live"

\* A use of the contexts ms, by what is named who.
Use(who, ms) == fault' = IF Live(ms) THEN "none" ELSE who

Deleted(ms) == [m \in Contexts |-> IF m \in ms THEN "deleted" ELSE ctx[m]]

-----------------------------------------------------------------------------
(* start().                                                                *)

\* The first half of an init(): the context is created and hdl points to it.
InitCreates ==
  LET m == Starts[main.n]
  IN /\ At(main, "init") /\ main.i = 1
     /\ set' = set \cup {m}
     /\ ctx' = [ctx EXCEPT ![m] = "live", !["timer"] = IF m = "event" THEN "live" ELSE @]
     /\ main' = [main EXCEPT !.i = 2]
     /\ UNCHANGED <<status, handler, edt, commands, reader, ghosts, fault>>

\* The second: event::init() creates the EDT, input::init() the thread of a
\* device that is configured, and start() goes on.
InitSucceeds ==
  LET m == Starts[main.n]
  IN /\ At(main, "init") /\ main.i = 2
     /\ edt' = IF m = "event" THEN "created" ELSE edt
     /\ reader' \in IF m = "input" THEN {"none", "started"} ELSE {reader}
     /\ main' = IF main.n < Len(Starts) THEN Pos("init", main.n + 1, 1)
                                        ELSE Pos("setup", 1, 1)
     /\ Use("start", {"log"})
     /\ UNCHANGED <<status, handler, set, ctx, commands, ghosts>>

\* Or it fails: log::init() deletes its context and leaves the pointer, the
\* others leave both to stop(), which logs first.
InitFails ==
  LET m == Starts[main.n]
  IN /\ At(main, "init") /\ main.i = 2
     /\ m \in MayFail
     /\ failedAt' = m
     /\ ctx' = IF m = "log" THEN Deleted({m}) ELSE ctx
     /\ main' = Pos("quit", 1, 1)
     /\ fault' = IF m = "log" THEN "stop" ELSE "none"
     /\ UNCHANGED <<status, handler, set, edt, commands, early, reader, kills>>

\* Bug: the last command is left out.
MoreThanOne(m, i) == i < Len(Commands[m])

MoreToRegister(m, i) == i <= Len(Commands[m])

\* setup() registers one command after the other.
Setup ==
  LET m == Setups[main.n]
  IN /\ At(main, "setup")
     /\ IF MoreToRegister(m, main.i)
        THEN /\ commands' = commands \cup {Commands[m][main.i]}
             /\ main' = [main EXCEPT !.i = @ + 1]
             /\ Use("start", {m, "cmd"})
        ELSE /\ main' = IF main.n < Len(Setups) THEN Pos("setup", main.n + 1, 1)
                                                ELSE Pos("ready", 1, 1)
             /\ Use("start", {"log"})
             /\ UNCHANGED commands
     /\ UNCHANGED <<status, handler, set, ctx, edt, reader, ghosts>>

\* "Finished initializing", and main() polls the status.
Ready ==
  /\ At(main, "ready")
  /\ main' = Pos("poll", 1, 1)
  /\ Use("start", {"log"})
  /\ UNCHANGED <<status, handler, set, ctx, edt, commands, reader, ghosts>>

\* main() sees STOPPED; dispose() deletes hdl.
Exit ==
  /\ At(main, "poll") /\ status = "STOPPED"
  /\ main' = Pos("exited", 1, 1)
  /\ UNCHANGED <<status, handler, set, ctx, edt, commands, reader, ghosts, fault>>

-----------------------------------------------------------------------------
(* stop(): by main(), when a start fails, and by the handler of a KILL.    *)

\* *mod = NULL, after the quit() of the module.
Clear(m) == set' = set \ {m}

\* What follows the n-th module of Quits; STOPPED after the last.
QuitNext(n) == IF n < Len(Quits) THEN Pos("quit", n + 1, 1) ELSE Pos("done", 1, 1)
StatusAfter(n) == IF n < Len(Quits) THEN status ELSE "STOPPED"

\* Bug: the timers are forgotten.
OwnedOnly(m) == {m}

\* What the module's quit() deletes.
Owned(m) == IF m = "event" THEN {"event", "timer"} ELSE {m}

\* quit_module(): a module without a pointer is passed over.
QuitSkips(pos, pos2) ==
  /\ At(pos, "quit") /\ pos.i = 1
  /\ Quits[pos.n] \notin set
  /\ pos2 = QuitNext(pos.n)
  /\ status' = StatusAfter(pos.n)
  /\ UNCHANGED <<set, ctx, edt, fault>>

\* quit() of a module other than EVENT.
QuitDeletes(pos, pos2) ==
  LET m == Quits[pos.n]
  IN /\ At(pos, "quit") /\ pos.i = 1
     /\ m \in set /\ m # "event"
     /\ ctx' = Deleted({m})
     /\ pos2 = [pos EXCEPT !.i = 2]
     /\ Use("stop", {m, "log"})
     /\ UNCHANGED <<status, set, edt>>

\* event::quit() while the status is CREATED: the context goes, the timers stay.
QuitCreated(pos, pos2) ==
  /\ At(pos, "quit") /\ pos.i = 1
  /\ Quits[pos.n] = "event" /\ "event" \in set
  /\ status = "CREATED"
  /\ ctx' = Deleted({"event"})
  /\ pos2 = [pos EXCEPT !.i = 2]
  /\ Use("stop", {"event", "log"})
  /\ UNCHANGED <<status, set, edt>>

\* Otherwise it reads current_handler->thread, whether there is one or not,
\* and asks the EDT to stop ...
QuitRequests(pos, pos2) ==
  /\ At(pos, "quit") /\ pos.i = 1
  /\ Quits[pos.n] = "event" /\ "event" \in set
  /\ status # "CREATED"
  /\ status' = "STOP_REQUESTED"
  /\ pos2 = [pos EXCEPT !.at = "join"]
  /\ fault' = IF handler.at = "none" THEN "current_handler" ELSE "none"
  /\ UNCHANGED <<set, ctx, edt>>

\* ... which it joins before it deletes the contexts.
QuitJoins(pos, pos2) ==
  /\ At(pos, "join") /\ edt = "exited"
  /\ ctx' = Deleted(Owned(Quits[pos.n]))
  /\ pos2 = [pos EXCEPT !.at = "quit", !.i = 2]
  /\ Use("stop", Owned(Quits[pos.n]))
  /\ UNCHANGED <<status, set, edt>>

QuitClears(pos, pos2) ==
  /\ At(pos, "quit") /\ pos.i = 2
  /\ Clear(Quits[pos.n])
  /\ pos2 = QuitNext(pos.n)
  /\ status' = StatusAfter(pos.n)
  /\ UNCHANGED <<ctx, edt, fault>>

QuitStep(pos, pos2) ==
  \/ QuitSkips(pos, pos2) \/ QuitDeletes(pos, pos2) \/ QuitCreated(pos, pos2)
  \/ QuitRequests(pos, pos2) \/ QuitJoins(pos, pos2) \/ QuitClears(pos, pos2)

\* A start that failed ends with a stop() that tears nothing down.
MainQuits ==
  /\ QuitStep(main, main')
  /\ UNCHANGED <<handler, commands, reader, ghosts>>

\* start() returns the error and main() a failure.
Fail ==
  /\ At(main, "done")
  /\ main' = Pos("failed", 1, 1)
  /\ UNCHANGED <<status, handler, set, ctx, edt, commands, reader, ghosts, fault>>

-----------------------------------------------------------------------------
(* The event dispatch thread and its handler.                              *)

\* The EDT starts, on whatever hdl->event is, and sets RUNNING.
EdtStart ==
  /\ EdtIs("created")
  /\ edt' = "running"
  /\ status' = "RUNNING"
  /\ Use("edt", {"event"})
  /\ UNCHANGED <<main, handler, set, ctx, commands, reader, ghosts>>

\* It spawns the handler of a command, parse_command(), which is subscribed
\* from cmd::init() to cmd::quit(): a KILL or any other.
Spawn(kill) ==
  /\ EdtIs("running") /\ status = "RUNNING"
  /\ At(handler, "none")
  /\ ctx["cmd"] = "live"
  /\ kill => kills < MaxKills
  /\ handler' = Pos(IF kill THEN "teardown" ELSE "command", 1, 1)
  /\ kills' = IF kill THEN kills + 1 ELSE kills
  /\ early' = (early \/ (kill /\ main.at # "poll"))
  /\ UNCHANGED <<status, main, set, ctx, edt, commands, reader, failedAt, fault>>

\* A command runs and its result is kept: it needs these all the time.
CommandEnds ==
  /\ At(handler, "command")
  /\ handler' = Pos("ended", 1, 1)
  /\ Use("handler", {"cmd", "agent", "log"})
  /\ UNCHANGED <<status, main, set, ctx, edt, commands, reader, ghosts>>

\* unregister_command() throws for a command that is not registered.
Missing(m, i) == Commands[m][i] \notin commands

\* The next module to tear down, or to quit.
TeardownNext(n) == IF n < Len(Setups) THEN Pos("teardown", n + 1, 1)
                                      ELSE Pos("quit", 1, 1)

\* teardown() of a module unregisters its commands; a module without a pointer
\* is passed over, and an exception ends the stop().
Teardown ==
  LET m == Setups[handler.n]
  IN /\ At(handler, "teardown")
     /\ \/ /\ \/ handler.i = 1 /\ m \notin set
              \/ handler.i > Len(Commands[m])
           /\ handler' = TeardownNext(handler.n)
           /\ UNCHANGED commands
        \/ /\ handler.i > 1 \/ m \in set
           /\ handler.i <= Len(Commands[m])
           /\ IF Missing(m, handler.i)
              THEN handler' = Pos("threw", 1, 1) /\ UNCHANGED commands
              ELSE /\ handler' = [handler EXCEPT !.i = @ + 1]
                   /\ commands' = commands \ {Commands[m][handler.i]}
     /\ Use("handler", {"cmd", "log"})
     /\ UNCHANGED <<status, main, set, ctx, edt, reader, ghosts>>

\* parse_command() catches it, logs and apologises.
Apologise ==
  /\ At(handler, "threw")
  /\ handler' = Pos("ended", 1, 1)
  /\ Use("handler", {"cmd", "agent", "log"})
  /\ UNCHANGED <<status, main, set, ctx, edt, commands, reader, ghosts>>

HandlerQuits ==
  /\ QuitStep(handler, handler')
  /\ UNCHANGED <<main, commands, reader, ghosts>>

\* The handler has ended, and the EDT sets current_handler to NULL.
Reap ==
  /\ EdtIs("running") /\ At(handler, "ended")
  /\ handler' = Pos("none", 1, 1)
  /\ UNCHANGED <<status, main, set, ctx, edt, commands, reader, ghosts, fault>>

\* edt_cleanup() waits for the handler, unless quit() marked it as its own
\* caller.
HandlerLetsGo == handler.at \in {"none", "ended", "join"}

EdtEnds ==
  /\ EdtIs("running") /\ status = "STOP_REQUESTED"
  /\ HandlerLetsGo
  /\ edt' = "exited"
  /\ handler' = IF handler.at = "ended" THEN Pos("none", 1, 1) ELSE handler
  /\ Use("edt", {"event", "timer"})
  /\ UNCHANGED <<status, main, set, ctx, commands, reader, ghosts>>

-----------------------------------------------------------------------------
(* The input thread, to which input::quit() only says that it is to stop.  *)

ReaderAt(from, to) ==
  /\ ~Over /\ reader = from
  /\ reader' \in to
  /\ UNCHANGED <<status, main, handler, set, ctx, edt, commands, ghosts>>

\* It gets its handler from hdl->input and logs.
ReaderStarts == ReaderAt("started", {"tests"}) /\ Use("reader", {"input", "log"})

\* Its device runs until input::quit().
ReaderTests ==
  /\ ReaderAt("tests", IF ctx["input"] = "live" THEN {"reads"} ELSE {"leaves"})
  /\ UNCHANGED fault

\* It reads with a handler that input::quit() deletes, and may get a chunk.
ReaderReads == ReaderAt("reads", {"tests", "got"}) /\ Use("reader", {"input"})

\* It logs and generates an event.
ReaderGenerates == ReaderAt("got", {"tests"}) /\ Use("reader", {"event", "log"})

\* "Stopped reading", it logs.
ReaderLeaves == ReaderAt("leaves", {"ended"}) /\ Use("reader", {"log"})

-----------------------------------------------------------------------------
MainStep == InitCreates \/ InitSucceeds \/ InitFails \/ Setup \/ Ready \/ Exit
            \/ MainQuits \/ Fail
HandlerStep == CommandEnds \/ Teardown \/ Apologise \/ HandlerQuits
EdtStep == EdtStart \/ Reap \/ EdtEnds
ReaderStep == ReaderStarts \/ ReaderTests \/ ReaderReads \/ ReaderGenerates \/ ReaderLeaves

Next ==
  \/ MainStep \/ HandlerStep \/ EdtStep \/ ReaderStep
  \/ \E kill \in BOOLEAN : Spawn(kill)
  \/ Over /\ UNCHANGED vars

Spec == Init /\ [][Next]_vars

\* The threads are scheduled, and a command that is not KILL ends.
FairSpec ==
  /\ Spec
  /\ WF_vars(MainStep)
  /\ WF_vars(HandlerStep)
  /\ WF_vars(EdtStep)

-----------------------------------------------------------------------------
Places == [at : {"none", "init", "setup", "ready", "poll", "exited", "quit",
                 "join", "done", "failed", "command", "teardown", "threw",
                 "ended"}, n : 1 .. 7, i : Nat]

TypeOK ==
  /\ status \in {"CREATED", "RUNNING", "STOP_REQUESTED", "STOPPED"}
  /\ main \in Places /\ handler \in Places
  /\ set \subseteq Modules
  /\ ctx \in [Contexts -> {"none", "live", "deleted"}]
  /\ edt \in {"none", "created", "running", "exited"}
  /\ commands \subseteq Names
  /\ reader \in {"none", "started", "tests", "reads", "got", "leaves", "ended"}
  /\ failedAt \in Modules \cup {"none"}
  /\ early \in BOOLEAN
  /\ kills \in 0 .. MaxKills
  /\ fault \in {"none", "start", "stop", "edt", "handler", "current_handler",
               "reader"}

\* When every module starts, or only OUTPUT or EVENT fails to, no context is
\* used that is not there, although a KILL may quit the modules that start() is
\* still working with: a KILL before the last setup() fails, because the
\* commands of that setup() are missing.  Only a KILL that is through before
\* start() has written its last lines leaves them without a log, and only an
\* input thread that outlives input::quit() misses its handler, EVENT or LOG.
FaultsHaveCause ==
  fault # "none" =>
    \/ failedAt \in Modules \ {"output", "event"}
    \/ early /\ fault = "start"
    \/ fault = "reader" /\ ctx["input"] = "deleted"

\* A process that ends without a fault has deleted every context and ended the
\* EDT, and dispose() finds no pointer set.  Only a start that fails may leave
\* the timers: when EVENT fails after it made them, and when quit() takes an EDT
\* that was created for one that was not.
LeavesNothing ==
  main.at \in {"exited", "failed"} =>
    /\ set = {}
    /\ \A m \in Modules : ctx[m] # "live"
    /\ edt # "running" /\ (main.at = "exited" => edt = "exited")
    /\ ctx["timer"] = "live" => edt = "created" \/ failedAt = "event"

\* Where a module comes in an order.
Rank(order, m) == CHOOSE k \in DOMAIN order : order[k] = m

\* The modules whose init() has begun: all up to the one that start() is at, or
\* that failed.
Begun ==
  CASE main.at = "init" -> main.n + main.i - 2
    [] main.at # "init" /\ failedAt # "none" -> Rank(Starts, failedAt)
    [] OTHER -> Len(Starts)
Up(m) == Rank(Starts, m) <= Begun

\* The thread at pos has let go of m's pointer, or has at least deleted m.
Passed(pos, m) ==
  \/ pos.at \in {"done", "failed"}
  \/ pos.at \in {"quit", "join"} /\ Rank(Quits, m) < pos.n
Quitted(pos, m) ==
  \/ Passed(pos, m)
  \/ pos.at = "quit" /\ pos.i = 2 /\ Quits[pos.n] = m

\* One thread at most stops the modules.
Stopper == IF failedAt = "none" THEN handler ELSE main

\* The places of main(): it starts, or it stops what failed to start.
Quitting(pos) ==
  pos.at \in {"quit", "join"} =>
    /\ pos.n \in DOMAIN Quits /\ pos.i \in {1, 2}
    /\ pos.at = "join" => Quits[pos.n] = "event"

MainInv ==
  /\ failedAt # "log"
  /\ IF failedAt = "none" THEN main.at \in {"init", "setup", "ready", "poll", "exited"}
                          ELSE main.at \in {"quit", "join", "done", "failed"}
  /\ main.at = "init" => main.n \in DOMAIN Starts /\ main.i \in {1, 2}
  /\ main.at = "setup" => main.n \in DOMAIN Setups /\ main.i >= 1
  /\ main.at = "exited" => status = "STOPPED"
  /\ Quitting(main)
  /\ commands # {} => main.at # "init" /\ failedAt = "none"

\* A handler tears down and stops nothing before the first setup(), and nothing
\* that main() stops.
HandlerInv ==
  /\ handler.at \in {"none", "command", "teardown", "threw", "ended", "quit", "join",
                     "done"}
  /\ Quitting(handler)
  /\ handler.at # "none" => edt \in {"running", "exited"} /\ Up("cmd")
  /\ handler.at = "teardown" =>
       /\ handler.n \in DOMAIN Setups /\ handler.i >= 1
       /\ handler.n = 2 /\ handler.i > 1 => main.at # "init" /\ failedAt = "none"
  /\ handler.at \in {"quit", "join", "done"} => main.at # "init" /\ failedAt = "none"
  /\ handler.at \in {"teardown", "quit", "join", "done"} =>
       early \/ main.at \in {"poll", "exited"}

\* The EDT, while it runs, has its context; it does not end under a handler.
EdtInv ==
  /\ edt = "none" <=> \/ main.at = "init" /\ main.n <= Rank(Starts, "event")
                      \/ failedAt \in {"log", "output", "event"}
  /\ edt \in {"none", "created"} => status = "CREATED" \/ main.at \in {"done", "failed"}
  /\ edt \in {"running", "exited"} => status # "CREATED"
  /\ edt = "running" => ~Quitted(Stopper, "event")
  /\ edt = "exited" => handler.at \in {"none", "quit", "join", "done"}
  /\ status = "STOPPED" => Stopper.at \in {"done", "failed"}

\* What there is of each module, and the timers, which go with EVENT unless
\* quit() finds the status CREATED.
ContextInv ==
  /\ \A m \in Modules :
       /\ m \in set <=> Up(m) /\ ~Passed(Stopper, m)
       /\ ctx[m] = IF ~Up(m) THEN "none"
                   ELSE IF Quitted(Stopper, m) THEN "deleted" ELSE "live"
  /\ ~Up("event") => ctx["timer"] = "none"
  /\ Up("event") /\ ~Quitted(Stopper, "event") => ctx["timer"] = "live"
  /\ Up("event") /\ Quitted(Stopper, "event") =>
       \/ edt = "exited" /\ ctx["timer"] = "deleted"
       \/ edt = "created" \/ failedAt = "event"

\* What an input thread uses has been there since before it was created.
ReaderInv == reader # "none" => Up("input")

\* The inductive invariant behind both: what holds of the modules, and of the
\* input thread.
ModulesInv ==
  /\ TypeOK /\ FaultsHaveCause
  /\ main.at \in {"exited", "failed"} => fault = "none"
  /\ fault = "none" => MainInv /\ HandlerInv /\ EdtInv /\ ContextInv

IndInv == ModulesInv /\ (fault = "none" => ReaderInv)

\* A KILL that begins after start() has returned ends main(), if none was tried
\* before that, unless an input thread finds a context deleted.
KillEnds ==
  (handler.at = "teardown" /\ ~early) ~> (main.at = "exited" \/ fault = "reader")

\* "It shuts down this MSA instance" (cmd.cpp:43): so does a KILL that begins
\* after start() has returned, whatever was tried before.
LaterKillEnds ==
  (handler.at = "teardown" /\ handler.i = 1 /\ main.at = "poll")
     ~> (main.at = "exited" \/ fault = "reader")

\* "We can just destroy the mutex and delete everything immediately"
\* (dispatch.cpp:106): a start that fails ends without a fault.
FailedStartIsClean == failedAt # "none" => fault = "none"

\* "Let input_thread take care of deleting it" (input.cpp:330): after a start
\* that succeeded and a KILL that begins then, that thread still finds what it
\* uses.
LateKillIsClean == failedAt = "none" /\ ~early => fault = "none"

\* "Finished initializing Moe Serifu Agent" (msa.cpp:93) is logged.
StartIsLogged == fault # "start"
=============================================================================
