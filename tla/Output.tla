------------------------------- MODULE Output -------------------------------
(***************************************************************************)
(* The output module: src/output/output.cpp.  A map of devices, one of them*)
(* active, and a registry of the handlers that print on them, under one    *)
(* mutex.  Threads call the operations; a write prints with the mutex held,*)
(* so a call may find it taken for as long as a handler likes.  What a     *)
(* thread does between two accesses to shared state is one step.           *)
(***************************************************************************)
EXTENDS Integers, Sequences, FiniteSetsExt

CONSTANTS
  Threads,    \* the threads that call the module
  Ids,        \* the IDs of devices, numbers in the order of the map
  Handlers,   \* the OutputHandler objects
  Default,    \* default_stdout_handler
  Keys,       \* a type and a handler's name
  Key,        \* per handler, what it is registered as
  TypeOf,     \* of each ID and key: TTY, TCP, UDP
  Stdout,     \* the IDs the default handler can print to
  Configs,    \* the sequences of [id, key] that a configuration may list
  None

NoId == 0     \* active == ""

ASSUME OutputAssumption ==
  /\ Ids \subseteq Nat \ {NoId}
  /\ Default \in Handlers
  /\ Key \in [Handlers -> Keys]
  /\ Configs \subseteq Seq([id : Ids, key : Keys])
  /\ None \notin Threads \cup Handlers

VARIABLES
  phase,      \* "init", "up", "stopping", "down", "failed", "crashed"
  config,     \* the entries that read_config() has yet to add
  mutex,      \* the thread that holds state_mutex, or None
  devices,    \* ctx->devices: the handler of each device, None for no entry
  active,     \* ctx->active
  flagged,    \* the devices whose active field is set
  handlers,   \* ctx->handlers
  disposed,   \* the handlers that have been deleted
  pc,         \* per thread: "idle", "lock", "print", "added", "switch"
  call,       \* per thread: the operation and its arguments
  bad         \* per thread: bad_ids of unregister_handler()

deviceVars == <<devices, active, flagged>>
threadVars == <<pc, call, bad>>
vars == <<phase, config, mutex, deviceVars, handlers, disposed, threadVars>>

Listed == {i \in Ids : devices[i] # None}
RegisteredAs(k) == {h \in handlers : Key[h] = k}

NoCall == [op |-> "none", id |-> NoId, key |-> None, handler |-> None]

\* create_output_context() and create_default_handlers().
Init ==
  /\ phase = "init"
  /\ config \in Configs
  /\ mutex = None
  /\ devices = [i \in Ids |-> None]
  /\ active = NoId
  /\ flagged = {}
  /\ handlers = {Default}
  /\ disposed = {}
  /\ pc = [t \in Threads |-> "idle"]
  /\ call = [t \in Threads |-> NoCall]
  /\ bad = [t \in Threads |-> {}]

-----------------------------------------------------------------------------
(* What is done with the mutex held.                                       *)

\* Bug: the device that was active keeps its mark.
SwitchKeepingFlag(i, ids) == active' = i /\ flagged' = flagged \cup {i}

\* switch_device_internal(): throws, with nothing done, if i is not in ids.
SwitchTo(i, ids) ==
  IF i \in ids THEN active' = i /\ flagged' = (flagged \ {active}) \cup {i}
               ELSE UNCHANGED <<active, flagged>>

\* switch_to_next_device(): the first device that is not bad, or NoId, when it
\* throws and nothing is switched.
NextDevice(badIds) ==
  IF Listed \subseteq badIds THEN NoId ELSE Min(Listed \ badIds)

\* Adds a device that the checks of add_device() let through.
InsertDevice(i, h) ==
  /\ devices' = [devices EXCEPT ![i] = h]
  /\ IF active = NoId THEN SwitchTo(i, Ids) ELSE UNCHANGED <<active, flagged>>

MayAdd(i, k) == RegisteredAs(k) # {} /\ devices[i] = None

-----------------------------------------------------------------------------
(* init(): read_config() and its checks.                                   *)

\* One entry: an unknown handler is a config_error, which init() returns as -3;
\* a device listed twice throws what init() does not catch.  No other handler
\* than the default one is there yet, and it is a TTY's: an entry for TCP or UDP
\* is an unknown handler, and its ID never gets to std::stoi().
Configure ==
  /\ phase = "init" /\ config # <<>>
  /\ LET e == Head(config) IN
       CASE RegisteredAs(e.key) = {} ->
              phase' = "failed" /\ UNCHANGED deviceVars
         [] RegisteredAs(e.key) # {} /\ ~MayAdd(e.id, e.key) ->
              phase' = "crashed" /\ UNCHANGED deviceVars
         [] MayAdd(e.id, e.key) ->
              /\ InsertDevice(e.id, CHOOSE h \in RegisteredAs(e.key) : TRUE)
              /\ UNCHANGED phase
  /\ config' = Tail(config)
  /\ UNCHANGED <<mutex, handlers, disposed, threadVars>>

\* "has to be at least one device"
Started == IF active = NoId THEN "failed" ELSE "up"

InitReturns ==
  /\ phase = "init" /\ config = <<>>
  /\ phase' = Started
  /\ UNCHANGED <<config, mutex, deviceVars, handlers, disposed, threadVars>>

\* hdl->status leaves RUNNING.
Stop ==
  /\ phase = "up"
  /\ phase' = "stopping"
  /\ UNCHANGED <<config, mutex, deviceVars, handlers, disposed, threadVars>>

\* quit(), when the threads of the other modules have ended.
Quit ==
  /\ phase \in {"stopping", "failed"}
  /\ \A t \in Threads : pc[t] = "idle"
  /\ phase' = "down"
  /\ active' = NoId
  /\ flagged' = {}
  /\ devices' = [i \in Ids |-> None]
  /\ handlers' = handlers \ RegisteredAs(Key[Default])
  /\ disposed' = disposed \cup {Default}
  /\ UNCHANGED <<config, mutex, threadVars>>

-----------------------------------------------------------------------------
(* The calls.                                                              *)

Goto(t, label) == pc' = [pc EXCEPT ![t] = label]

Request(t, c) ==
  /\ phase \in {"up", "stopping"}
  /\ pc[t] = "idle"
  /\ Goto(t, "lock")
  /\ call' = [call EXCEPT ![t] = c]
  /\ UNCHANGED <<phase, config, mutex, deviceVars, handlers, disposed, bad>>

\* write() and write_text(): nothing is written unless the agent is RUNNING.
CallWrite(t) == phase = "up" /\ Request(t, [NoCall EXCEPT !.op = "write"])

CallOnDevice(t, op, i) == Request(t, [NoCall EXCEPT !.op = op, !.id = i])

\* get_devices() and get_active_device().
CallAsk(t) == Request(t, [NoCall EXCEPT !.op = "ask"])

CallAdd(t, i, k) ==
  /\ TypeOf[i] = TypeOf[k]
  /\ Request(t, [NoCall EXCEPT !.op = "add", !.id = i, !.key = k])

\* unregister_handler() returns if nothing is registered under that name.
CallUnregister(t, h) ==
  /\ RegisteredAs(Key[h]) # {}
  /\ h \notin disposed /\ h # Default
  /\ Request(t, [NoCall EXCEPT !.op = "unregister", !.handler = h])

\* register_handler() takes no lock and throws if the name is taken.
Register(t, h) ==
  /\ phase \in {"up", "stopping"}
  /\ pc[t] = "idle"
  /\ h \notin disposed /\ RegisteredAs(Key[h]) = {}
  /\ handlers' = handlers \cup {h}
  /\ UNCHANGED <<phase, config, mutex, deviceVars, disposed, threadVars>>

\* dispose_handler(), by the owner of a handler that is not registered.
DisposeHandler(h) ==
  /\ phase \in {"up", "stopping"}
  /\ h \notin handlers \cup disposed \cup {Default}
  /\ \A t \in Threads : call[t].handler # h
  /\ disposed' = disposed \cup {h}
  /\ UNCHANGED <<phase, config, mutex, deviceVars, handlers, threadVars>>

\* What has been deleted is read: the process may end.
Crash ==
  /\ phase' = "crashed"
  /\ UNCHANGED <<config, mutex, deviceVars, handlers, disposed, threadVars>>

\* The call of t is over, with the mutex free.
Return(t) ==
  /\ Goto(t, "idle")
  /\ call' = [call EXCEPT ![t] = NoCall]
  /\ mutex' = None

Locks(t, op) ==
  /\ pc[t] = "lock" /\ call[t].op = op
  /\ mutex = None
  /\ UNCHANGED <<phase, config, handlers, disposed>>

\* The device that is active is the one that is printed on.
BeginPrint(t) ==
  /\ Locks(t, "write")
  /\ mutex' = t
  /\ Goto(t, "print")
  /\ call' = [call EXCEPT ![t].id = active]
  /\ UNCHANGED <<deviceVars, bad>>

\* dispose_device(dev), and then dev->id is read, when the ID is taken.
ReadsDisposed(t) ==
  /\ pc[t] = "lock" /\ call[t].op = "add" /\ mutex = None
  /\ RegisteredAs(call[t].key) # {} /\ devices[call[t].id] # None
  /\ Crash

\* Both an unknown handler and an ID that is taken are thrown to the caller, if
\* what ReadsDisposed reads does no harm.
AddDevice(t) ==
  /\ Locks(t, "add")
  /\ LET c == call[t] IN
       IF MayAdd(c.id, c.key)
       THEN /\ InsertDevice(c.id, CHOOSE h \in RegisteredAs(c.key) : TRUE)
            /\ Goto(t, "added")
            /\ UNCHANGED <<call, mutex>>
       ELSE UNCHANGED deviceVars /\ Return(t)
  /\ UNCHANGED bad

\* "Added output device ": id is read from the device, without the mutex.  The
\* device may have been removed, which leaves the call NoId.
ReportsRemoved(t) == pc[t] = "added" /\ call[t].id = NoId /\ Crash

ReportAdded(t) ==
  /\ pc[t] = "added"
  /\ Goto(t, "idle")
  /\ call' = [call EXCEPT ![t] = NoCall]
  /\ UNCHANGED <<phase, config, mutex, deviceVars, handlers, disposed, bad>>

\* Bug: a device is removed under a write.
RemovesAnyTime(t) == pc[t] = "lock" /\ call[t].op = "remove"
                     /\ UNCHANGED <<phase, config, handlers, disposed>>

LocksToRemove(t) == Locks(t, "remove")

\* The device i is deleted under a thread that has added it.
Dangling(i) ==
  [u \in Threads |-> IF pc[u] = "added" /\ call[u].id = i
                     THEN [call[u] EXCEPT !.id = NoId] ELSE call[u]]

\* The active device is switched away from first; if there is no other it
\* stays.
RemoveDevice(t) ==
  /\ LocksToRemove(t)
  /\ LET i    == call[t].id
         next == NextDevice({i})
     IN IF devices[i] = None \/ (active = i /\ next = NoId)
        THEN UNCHANGED deviceVars /\ Return(t)
        ELSE /\ devices' = [devices EXCEPT ![i] = None]
             /\ IF active = i THEN SwitchTo(next, Listed)
                              ELSE UNCHANGED <<active, flagged>>
             /\ Goto(t, "idle")
             /\ call' = [Dangling(i) EXCEPT ![t] = NoCall]
             /\ mutex' = None
  /\ UNCHANGED bad

SwitchDevice(t) ==
  /\ Locks(t, "switch")
  /\ SwitchTo(call[t].id, Listed)
  /\ Return(t)
  /\ UNCHANGED <<devices, bad>>

Ask(t) == Locks(t, "ask") /\ Return(t) /\ UNCHANGED <<deviceVars, bad>>

BeginUnregister(t) ==
  /\ Locks(t, "unregister")
  /\ mutex' = t
  /\ Goto(t, "switch")
  /\ bad' = [bad EXCEPT ![t] = {}]
  /\ UNCHANGED <<deviceVars, call>>

\* Threads run while the process does.
Up == phase \in {"up", "stopping"}

Lock(t) ==
  /\ Up
  /\ \/ BeginPrint(t) \/ AddDevice(t) \/ ReadsDisposed(t) \/ RemoveDevice(t)
     \/ SwitchDevice(t) \/ Ask(t) \/ BeginUnregister(t)

-----------------------------------------------------------------------------
(* A write and unregister_handler(), with the mutex held.                  *)

\* print_to_stdout() throws unless it is given STDOUT; another handler may.
PrintReturns(t) ==
  /\ pc[t] = "print"
  /\ devices[call[t].id] = Default => call[t].id \in Stdout
  /\ Return(t)
  /\ UNCHANGED <<phase, config, deviceVars, handlers, disposed, bad>>

\* Bug: the mutex is not given back when the handler throws.
KeepMutex(t) ==
  Goto(t, "idle") /\ call' = [call EXCEPT ![t] = NoCall] /\ UNCHANGED mutex

Rethrow(t) == Return(t)

PrintThrows(t) ==
  /\ pc[t] = "print"
  /\ devices[call[t].id] = Default => call[t].id \notin Stdout
  /\ Rethrow(t)
  /\ UNCHANGED <<phase, config, deviceVars, handlers, disposed, bad>>

\* Bug: one switch is thought to be enough.
SwitchesOnce(t) == bad[t] = {} /\ Key[devices[active]] = Key[call[t].handler]

\* The active device is one of the handler's.
MustSwitch(t) == active # NoId /\ Key[devices[active]] = Key[call[t].handler]

\* One turn of the loop; when every device is bad it throws, the last one
\* being active and the handler still registered.
SwitchAway(t) ==
  /\ pc[t] = "switch" /\ MustSwitch(t)
  /\ LET badIds == bad[t] \cup {active}
         next   == NextDevice(badIds)
     IN /\ SwitchTo(next, Listed)
        /\ IF next = NoId
           THEN Return(t) /\ bad' = [bad EXCEPT ![t] = {}]
           ELSE bad' = [bad EXCEPT ![t] = badIds] /\ UNCHANGED <<pc, call, mutex>>
  /\ UNCHANGED <<phase, config, devices, handlers, disposed>>

\* The loop is left: whatever has the name is erased.
EraseHandler(t) ==
  /\ pc[t] = "switch" /\ ~MustSwitch(t)
  /\ handlers' = handlers \ RegisteredAs(Key[call[t].handler])
  /\ Return(t)
  /\ bad' = [bad EXCEPT ![t] = {}]
  /\ UNCHANGED <<phase, config, deviceVars, disposed>>

Continue(t) ==
  /\ Up
  /\ \/ PrintReturns(t) \/ PrintThrows(t) \/ ReportAdded(t) \/ ReportsRemoved(t)
     \/ SwitchAway(t) \/ EraseHandler(t)

Calls(t) ==
  \/ CallWrite(t) \/ CallAsk(t)
  \/ \E i \in Ids : CallOnDevice(t, "remove", i) \/ CallOnDevice(t, "switch", i)
  \/ \E i \in Ids, k \in Keys : CallAdd(t, i, k)
  \/ \E h \in Handlers : CallUnregister(t, h) \/ Register(t, h)

Next ==
  \/ Configure \/ InitReturns \/ Stop \/ Quit
  \/ \E t \in Threads : Calls(t) \/ Lock(t) \/ Continue(t)
  \/ \E h \in Handlers : DisposeHandler(h)

Spec == Init /\ [][Next]_vars

\* Threads and handlers run, and a thread that waits for a mutex which is free
\* again and again gets it.
FairSpec ==
  Spec /\ \A t \in Threads : WF_vars(Continue(t)) /\ SF_vars(Lock(t))

-----------------------------------------------------------------------------
(* Properties.                                                             *)

Ops == {"write", "ask", "add", "remove", "switch", "unregister"}
CallRecords == [op : Ops \cup {"none"}, id : Ids \cup {NoId},
                key : Keys \cup {None}, handler : Handlers \cup {None}]

\* Every variable ranges over the values the code can give it.
TypeOK ==
  /\ phase \in {"init", "up", "stopping", "down", "failed", "crashed"}
  /\ mutex \in Threads \cup {None}
  /\ devices \in [Ids -> Handlers \cup {None}]
  /\ active \in Ids \cup {NoId}
  /\ flagged \subseteq Ids
  /\ handlers \subseteq Handlers /\ disposed \subseteq Handlers
  /\ config \in Seq([id : Ids, key : Keys])
  /\ pc \in [Threads -> {"idle", "lock", "print", "added", "switch"}]
  /\ call \in [Threads -> CallRecords]
  /\ bad \in [Threads -> SUBSET Ids]

\* "has to be at least one device" (output.cpp:91): while the agent runs the
\* active device is there, it alone is marked, and so write() never makes an
\* entry of NULL with devices[active].
ActiveSound ==
  /\ Up => active \in Listed
  /\ flagged = (IF active = NoId THEN {} ELSE {active})

\* The device that is printed on is there, and the active one, until the
\* handler returns: no remove_device() or switch_device() gets in between.
PrintedOnActive ==
  \A t \in Threads : pc[t] = "print" =>
    /\ mutex = t
    /\ call[t].id = active
    /\ devices[active] # None

\* unregister_handler() has switched away from the handler, through as many
\* devices as it takes, before the name is erased.
ErasedIsInactive ==
  [][\A h \in Handlers : h \in handlers \ handlers' /\ Up' =>
       Key[devices[active]] # Key[h]]_vars

\* A call ends, whatever the handlers of others throw, or the process has read
\* what was deleted.
CallsEnd == \A t \in Threads : pc[t] # "idle" ~> pc[t] = "idle" \/ phase = "crashed"

\* The device that is active, if any, is listed; there is one while the agent runs.
ActiveIsListed ==
  /\ active # NoId => active \in Listed
  /\ Up => active # NoId

\* A call is under way only while the agent runs, or when it crashes; one that
\* prints or switches has the mutex.
CallsInv ==
  \A t \in Threads :
    /\ pc[t] # "idle" => Up \/ phase = "crashed"
    /\ pc[t] \in {"print", "switch"} => mutex = t
    /\ pc[t] = "print" => call[t].id = active /\ active # NoId
    /\ pc[t] = "lock" /\ call[t].op \in {"add", "remove", "switch"} =>
         call[t].id \in Ids

\* The inductive invariant behind ActiveSound, PrintedOnActive and
\* ErasedIsInactive.
IndInv == TypeOK /\ ActiveSound /\ ActiveIsListed /\ CallsInv

\* What unregister_handler() leaves behind: a device of the handler that is not
\* active keeps a pointer to it.  Not so.
HandlersLive == Up => \A i \in Listed : devices[i] \notin disposed

\* add_device() reads the ID of a device that is still there, on its last line.
\* Not so.
AddedIsListed == \A t \in Threads : pc[t] = "added" => call[t].id # NoId

\* add_device() that finds a device twice throws, and no more.  Not so.
RunsOn == [][Up => phase' # "crashed"]_vars

\* unregister_handler() that throws has done nothing.  Not so.
FailedUnregisterMovesNothing ==
  [][\A t \in Threads : pc[t] = "switch" /\ pc'[t] = "idle" /\ handlers' = handlers
       => bad[t] = {}]_vars
=============================================================================
