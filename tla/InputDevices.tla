---------------------------- MODULE InputDevices ----------------------------
(***************************************************************************)
(* The devices of the input module and the detached threads that read      *)
(* them: src/input/input.cpp.  A device has no lock.  Its thread is told to*)
(* stop by clearing running, which the thread itself sets when it starts,  *)
(* and is told to delete the device by reap_in_runner.  The operations are *)
(* called by one thread at a time (init, a handler, quit) and wait for no  *)
(* input thread; each is a step but quit(), which takes one per device and *)
(* one more for what it does with a device after it has let go of it.      *)
(* rushed is a history variable: it only says which devices an operation   *)
(* was called on before their thread had done what it was told last.       *)
(***************************************************************************)
EXTENDS Integers, FiniteSets

CONSTANTS
  Objects,    \* the Device objects that may be created in a behaviour
  Names,      \* the IDs of devices
  Id,         \* dev->id: the ID that an object is created with
  Handled,    \* the IDs whose type has an entry in ctx->handlers
  Threads,    \* the input threads that may be created
  None,       \* no device
  MaxInput    \* bound on the events of a thread

ASSUME InputAssumption ==
  /\ None \notin Objects \cup Names
  /\ Id \in [Objects -> Names]
  /\ MaxInput \in Nat

VARIABLES
  devices,    \* ctx->devices: from Names to Objects, None for no entry
  active,     \* ctx->active
  object,     \* "new", "live" or "deleted"
  running, reap,   \* fields of a device: running, reap_in_runner
  pc,         \* per thread: "none", "created", "handler", "test", "read",
              \* "cleanup", "ended"
  dev,        \* the device of a thread
  inputs,     \* the events a thread has generated
  stage,      \* "calls", "quits" in dispose_input_context(), "gone" after it
  at,         \* the ID whose device quit() has just left to its thread, or None
  aborted,    \* std::terminate() or a fault of the process
  rushed      \* history: called upon while their thread was not done

devVars == <<devices, active, object, running, reap>>
quitVars == <<stage, at, aborted>>
vars == <<devVars, pc, dev, inputs, quitVars, rushed>>

Init ==
  /\ devices = [n \in Names |-> None]
  /\ active = {}
  /\ object = [o \in Objects |-> "new"]
  /\ running = [o \in Objects |-> FALSE]
  /\ reap = [o \in Objects |-> FALSE]
  /\ pc = [t \in Threads |-> "none"]
  /\ dev = [t \in Threads |-> None]
  /\ inputs = [t \in Threads |-> 0]
  /\ stage = "calls" /\ at = None /\ aborted = FALSE
  /\ rushed = {}

Alive(t) == pc[t] \notin {"none", "ended"}
ThreadsOf(o) == {t \in Threads : Alive(t) /\ dev[t] = o}

\* The thread of o has done as told: it reads if running, else it has ended.
Settled(o) ==
  IF running[o] THEN \A t \in ThreadsOf(o) : pc[t] \in {"handler", "test", "read"}
                ELSE ThreadsOf(o) = {}

\* The stage of the process as long as it has not ended.
In(s) == stage = s /\ ~aborted

Note(o) == rushed' = IF Settled(o) THEN rushed ELSE rushed \cup {o}

-----------------------------------------------------------------------------
(* The operations.                                                         *)

\* Throws if there is a device of that ID.
AddDevice(o) ==
  /\ In("calls")
  /\ devices[Id[o]] = None /\ object[o] = "new"
  /\ devices' = [devices EXCEPT ![Id[o]] = o]
  /\ object' = [object EXCEPT ![o] = "live"]
  /\ UNCHANGED <<active, running, reap, pc, dev, inputs, quitVars, rushed>>

\* Bug: a device may be enabled again.
NeverEnabled(n) == FALSE

\* "it's already active, leave it alone"
AlreadyEnabled(n) == n \in active

\* The arguments of the new thread.
PassDevice(n, t) == dev' = [dev EXCEPT ![t] = devices[n]]

\* Returns if the device is active, throws if there is none.
EnableDevice(n, t) ==
  /\ In("calls")
  /\ ~AlreadyEnabled(n) /\ devices[n] # None
  /\ pc[t] = "none"
  /\ pc' = [pc EXCEPT ![t] = "created"]
  /\ PassDevice(n, t)
  /\ active' = active \cup {n}
  /\ Note(devices[n])
  /\ UNCHANGED <<devices, object, running, reap, inputs, quitVars>>

\* Bug: the device is taken from the active ones and its thread not stopped.
StopNothing(n) == UNCHANGED running

StopThread(n) == running' = [running EXCEPT ![devices[n]] = FALSE]

\* Returns if the device is not active, throws if there is none.
DisableDevice(n) ==
  /\ In("calls")
  /\ n \in active /\ devices[n] # None
  /\ StopThread(n)
  /\ active' = active \ {n}
  /\ Note(devices[n])
  /\ UNCHANGED <<devices, object, reap, pc, dev, inputs, quitVars>>

\* Bug: nobody is told to delete the device.
ReapNothing(o) == UNCHANGED reap

\* "mark it as collectable by the calling thread"
MarkReap(o) == reap' = [reap EXCEPT ![o] = TRUE]

\* remove_device() of a running device: its thread deletes it; it is disabled
\* if it is active.
RemoveRunning(n) ==
  /\ In("calls")
  /\ devices[n] # None /\ running[devices[n]]
  /\ MarkReap(devices[n])
  /\ IF n \in active
     THEN StopThread(n) /\ active' = active \ {n}
     ELSE UNCHANGED <<running, active>>
  /\ devices' = [devices EXCEPT ![n] = None]
  /\ Note(devices[n])
  /\ UNCHANGED <<object, pc, dev, inputs, quitVars>>

\* The device is deleted by the caller.
DisposeDevice(n) ==
  /\ devices[n] # None /\ ~running[devices[n]]
  /\ object' = [object EXCEPT ![devices[n]] = "deleted"]
  /\ devices' = [devices EXCEPT ![n] = None]
  /\ Note(devices[n])
  /\ UNCHANGED <<active, running, reap, pc, dev, inputs, quitVars>>

\* remove_device() of any other.
RemoveStopped(n) == In("calls") /\ DisposeDevice(n)

-----------------------------------------------------------------------------
(* quit(): dispose_input_context() and destroy_static_resources().         *)

QuitStarts ==
  /\ In("calls")
  /\ stage' = "quits"
  /\ UNCHANGED <<devVars, pc, dev, inputs, at, aborted, rushed>>

\* A device that is not running.
QuitDisposes(n) == In("quits") /\ at = None /\ DisposeDevice(n)

\* "let input_thread take care of deleting it"
QuitStops(n) ==
  /\ In("quits") /\ at = None
  /\ devices[n] # None /\ running[devices[n]]
  /\ MarkReap(devices[n])
  /\ StopThread(n)
  /\ at' = n
  /\ Note(devices[n])
  /\ UNCHANGED <<devices, active, object, pc, dev, inputs, stage, aborted>>

\* Looks for dev->id, of a device that its thread may have deleted, and erases
\* what it finds: undefined when the device is deleted or not active.
QuitErases ==
  /\ In("quits") /\ at # None
  /\ IF object[devices[at]] = "live" /\ at \in active
     THEN active' = active \ {at} /\ UNCHANGED aborted
     ELSE active' \in {active, active \ {at}} /\ aborted' \in BOOLEAN
  /\ devices' = [devices EXCEPT ![at] = None]
  /\ at' = None
  /\ UNCHANGED <<object, running, reap, pc, dev, inputs, stage, rushed>>

\* delete ctx, and the handlers with the static resources.
QuitEnds ==
  /\ In("quits") /\ at = None /\ \A n \in Names : devices[n] = None
  /\ stage' = "gone"
  /\ UNCHANGED <<devVars, pc, dev, inputs, at, aborted, rushed>>

-----------------------------------------------------------------------------
(* The input threads.                                                      *)

\* A step of a thread whose device is there.
Step(t, from, to) ==
  /\ ~aborted
  /\ pc[t] = from /\ object[dev[t]] = "live"
  /\ pc' = [pc EXCEPT ![t] = to]
  /\ UNCHANGED <<devices, dev, stage, at, rushed>>

\* it_start()
ItStart(t) ==
  /\ Step(t, "created", "handler")
  /\ running' = [running EXCEPT ![dev[t]] = TRUE]
  /\ UNCHANGED <<active, object, reap, inputs, aborted>>

\* it_get_handler(): hdl->input is there and knows a handler for the type, or
\* is gone, which is undefined.
ItHandler(t) ==
  /\ Step(t, "handler", "test")
  /\ IF stage = "gone" THEN aborted' \in BOOLEAN
     ELSE Id[dev[t]] \in Handled /\ UNCHANGED aborted
  /\ UNCHANGED <<active, object, running, reap, inputs>>

\* The logic_error of it_get_handler() leaves the thread, after
\* disable_device(), or is the one that this throws: the process ends.
ItNoHandler(t) ==
  /\ Step(t, "handler", "handler")
  /\ stage # "gone" /\ Id[dev[t]] \notin Handled
  /\ running' = [running EXCEPT ![dev[t]] = FALSE]
  /\ active' = IF devices[Id[dev[t]]] # None THEN active \ {Id[dev[t]]} ELSE active
  /\ aborted' = TRUE
  /\ UNCHANGED <<object, reap, inputs>>

\* while (dev->running)
ItTest(t) ==
  /\ Step(t, "test", IF running[dev[t]] THEN "read" ELSE "cleanup")
  /\ UNCHANGED <<active, object, running, reap, inputs, aborted>>

\* is_ready(), get_input() and generate(); the handler is deleted with the
\* static resources.
ItRead(t) ==
  /\ Step(t, "read", "test")
  /\ inputs' \in {inputs, [inputs EXCEPT ![t] = IF @ < MaxInput THEN @ + 1 ELSE @]}
  /\ aborted' \in IF stage = "gone" THEN BOOLEAN ELSE {aborted}
  /\ UNCHANGED <<active, object, running, reap>>

\* it_cleanup()
ItCleanup(t) ==
  /\ Step(t, "cleanup", "ended")
  /\ IF reap[dev[t]]
     THEN object' = [object EXCEPT ![dev[t]] = "deleted"]
     ELSE UNCHANGED object
  /\ UNCHANGED <<active, running, reap, inputs, aborted>>

\* What a thread does with a deleted device is undefined; it may be a fault.
ItFault(t) ==
  /\ ~aborted /\ Alive(t) /\ object[dev[t]] = "deleted"
  /\ aborted' = TRUE
  /\ UNCHANGED <<devVars, pc, dev, inputs, stage, at, rushed>>

ItStep(t) ==
  \/ ItStart(t) \/ ItHandler(t) \/ ItNoHandler(t) \/ ItTest(t) \/ ItRead(t)
  \/ ItCleanup(t)

Next ==
  \/ \E o \in Objects : AddDevice(o)
  \/ \E n \in Names, t \in Threads : EnableDevice(n, t)
  \/ \E n \in Names : DisableDevice(n) \/ RemoveRunning(n) \/ RemoveStopped(n)
  \/ QuitStarts \/ QuitErases \/ QuitEnds
  \/ \E n \in Names : QuitDisposes(n) \/ QuitStops(n)
  \/ \E t \in Threads : ItStep(t) \/ ItFault(t)

Spec == Init /\ [][Next]_vars

\* Threads are scheduled; nobody has to call anything.
FairSpec == Spec /\ \A t \in Threads : WF_vars(ItStep(t))

-----------------------------------------------------------------------------
(* Properties.                                                             *)

\* Every variable ranges over the values the code can give it.
TypeOK ==
  /\ devices \in [Names -> Objects \cup {None}]
  /\ active \subseteq Names
  /\ object \in [Objects -> {"new", "live", "deleted"}]
  /\ running \in [Objects -> BOOLEAN]
  /\ reap \in [Objects -> BOOLEAN]
  /\ pc \in [Threads -> {"none", "created", "handler", "test", "read", "cleanup",
                         "ended"}]
  /\ dev \in [Threads -> Objects \cup {None}]
  /\ \A t \in Threads : pc[t] # "none" => dev[t] # None
  /\ inputs \in [Threads -> 0 .. MaxInput]
  /\ stage \in {"calls", "quits", "gone"}
  /\ at \in Names \cup {None}
  /\ aborted \in BOOLEAN
  /\ rushed \subseteq Objects

\* A thread that will touch its device again finds it alive, unless an
\* operation did not wait: a device is deleted by its thread, at its end, or
\* when it has none, and never twice.
NoDangling ==
  \A t \in Threads : Alive(t) /\ dev[t] \notin rushed => object[dev[t]] = "live"

\* No two threads read one device on which no operation was rushed.
ThreadsApart ==
  \A t, u \in Threads :
    Alive(t) /\ Alive(u) /\ dev[t] = dev[u] /\ dev[t] \notin rushed => t = u

\* A device is its thread's while there is one, and one thread's only, in
\* every behaviour in which no operation on it overtakes its thread.  What
\* breaks it is an overtaken thread and nothing else.
ThreadsSound == NoDangling /\ ThreadsApart

\* No device is leaked, whatever overtakes what: one that is out of the list,
\* or that quit() has let go of, has a thread that will find it marked.
NoDeviceLeaked ==
  \A o \in Objects : object[o] = "live" =>
    \/ devices[Id[o]] = o /\ Id[o] # at
    \/ reap[o] /\ \E t \in Threads :
                    dev[t] = o /\ pc[t] \in {"handler", "test", "read", "cleanup"}

\* A thread of the device reads or is about to.
IsRead(o) == \E t \in ThreadsOf(o) : pc[t] = "created" \/ running[o]

\* Of the listed devices that no operation overtook, those that are read are
\* active, and those that are active are read, once they have had a thread.
\* (A rushed removal leaves its ID active, for a device that is added later.)
ActiveIsRead ==
  ~aborted => \A o \in Objects \ rushed :
    devices[Id[o]] = o /\ Id[o] # at =>
      /\ IsRead(o) => Id[o] \in active
      /\ Id[o] \in active /\ (\E t \in Threads : dev[t] = o) => IsRead(o)

\* What is listed is a live device that nobody has marked for deletion, under
\* its ID; quit() alone leaves one listed that it has marked.
DevicesKept ==
  /\ \A n \in Names : devices[n] # None =>
       /\ Id[devices[n]] = n
       /\ object[devices[n]] # "new"
       /\ n # at => object[devices[n]] = "live" /\ ~reap[devices[n]]
       /\ n = at => reap[devices[n]]
  /\ at # None => devices[at] # None /\ stage = "quits"
  /\ \A o \in Objects : object[o] = "new" =>
       ~reap[o] /\ ~running[o] /\ \A t \in Threads : dev[t] # o

\* A device says it is running as long as a thread is in the loop that reads
\* it, or it is deleted.
RunningIsRead ==
  \A o \in Objects : running[o] /\ object[o] = "live" =>
    \E t \in Threads : dev[t] = o /\ pc[t] \in {"handler", "test", "read"}

\* The inductive invariant behind ThreadsSound and NoDeviceLeaked.
IndInv ==
  /\ TypeOK
  /\ NoDangling
  /\ ThreadsApart
  /\ DevicesKept
  /\ RunningIsRead
  /\ ActiveIsRead
  /\ NoDeviceLeaked

\* "Disabled input device" (input.cpp:216): the thread of a device that is not
\* active, because it was disabled or removed or the agent stops, ends, if no
\* operation overtook it, or the process does.
StoppedEnds ==
  \A t \in Threads :
    (Alive(t) /\ Id[dev[t]] \notin active) ~>
      (pc[t] = "ended" \/ aborted \/ dev[t] \in rushed)

\* A device that is removed, or is there when the agent stops, is deleted, if
\* no operation overtook its thread.
RemovedIsDeleted ==
  \A o \in Objects :
    (object[o] = "live" /\ devices[Id[o]] # o) ~>
      (object[o] = "deleted" \/ aborted \/ o \in rushed)

-----------------------------------------------------------------------------
(* What the code does not promise: TLC has a counterexample to each.       *)

\* "checks are done, we know it exists and is disabled" (input.cpp:178): no
\* two threads read one device, also when it is enabled again in haste.
OneThreadPerDevice == \A o \in Objects : Cardinality(ThreadsOf(o)) <= 1

\* "no input_thread to take care of it, delete it ourselves" (input.cpp:148):
\* a device that its thread does not delete has no thread when it is deleted.
DeletedWithoutThread ==
  \A t \in Threads : Alive(t) /\ ~reap[dev[t]] => object[dev[t]] = "live"

\* A thread that is told to stop before it has set running ends as well.
OvertakenEnds ==
  \A t \in Threads :
    (Alive(t) /\ Id[dev[t]] \notin active) ~>
      (pc[t] = "ended" \/ aborted \/ (Alive(t) /\ object[dev[t]] = "deleted"))

\* quit() reads dev->id (input.cpp:334) of a device that is there.
QuitFindsDevice == at # None => object[devices[at]] = "live"

\* A thread reads with a handler that is there (input.cpp:381): quit() has not
\* deleted it.
HandlerIsThere == \A t \in Threads : pc[t] = "read" => stage # "gone"
=============================================================================
