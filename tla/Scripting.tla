----------------------------- MODULE Scripting ------------------------------
(***************************************************************************)
(* The scripts of the Python agent: handlers.py and                        *)
(* script_execution_manager.py of msa/builtins/scripting.                  *)
(*                                                                         *)
(* The event bus hands one event at a time to the handlers (module         *)
(* EventBus), so one handler runs at a time, next to the task of every     *)
(* scheduled script.  A step goes from one await to the next; the awaits   *)
(* are the database, the cron timer, the script itself and, in a delete,   *)
(* the cancelled task.  The process may be killed and started again; only  *)
(* the database survives.                                                  *)
(***************************************************************************)
EXTENDS Naturals, FiniteSets

CONSTANTS
  Rows,          \* the ScriptEntity objects that may be created
  NameOf,        \* the name of each
  Cron,          \* those with a crontab
  Malformed,     \* those whose contents exec() refuses
  Overriding,    \* those that assign a global variable
  Catching,      \* those that catch CancelledError and go on
  Runs,          \* how many tasks of one row may be alive at a time
  DbMayFail,     \* deleting a row from the database may fail
  MaxRequests, MaxRestarts,   \* bounds on the events and the restarts
  NoRow, NoEntry

Names == {NameOf[r] : r \in Rows}
Tasks == Rows \X (1 .. Runs)
Entries == [task : Tasks, cron : BOOLEAN]
Ops == {"add", "trigger", "list", "get", "delete"}

ASSUME ScriptAssumption ==
  /\ NoRow \notin Rows /\ NoEntry \notin Entries
  /\ Cron \subseteq Rows /\ Malformed \subseteq Rows
  /\ Overriding \subseteq Rows /\ Catching \subseteq Rows
  /\ DbMayFail \in BOOLEAN
  /\ {Runs, MaxRequests, MaxRestarts} \subseteq Nat

VARIABLES
  row,           \* "new", "stored" or "deleted": the row in the database
  ran,           \* its last_run is set
  scheduled,     \* scheduled_scripts: name -> [task, cron] or NoEntry
  running,       \* running_scripts
  pc, found,     \* the await a task is at; the row it is to save
  looping,       \* the tasks in the cron branch of run_script()
  prepared,      \* whose function self.locals["__ex"] is
  code,          \* whose function a task executes
  handler,       \* the handler that runs: op, name, row, await, cancelled task
  bus,           \* "live", or "dead" after an exception of a handler
  startup,       \* StartupEvent: "pending" or "done"
  lost,          \* the manager has lost track of a script (see Forget)
  requests, restarts

dbVars == <<row, ran>>
manVars == <<scheduled, running, prepared>>
taskVars == <<pc, found, looping, code>>
busVars == <<handler, bus, startup, lost>>
counters == <<requests, restarts>>
vars == <<dbVars, manVars, taskVars, busVars, counters>>

Idle == [op |-> "idle", name |-> NoEntry, row |-> NoRow, at |-> "", task |-> NoEntry]

Alive(t) == pc[t] \in {"next", "find", "save", "exec", "cancelling"}
NameOfTask(t) == NameOf[t[1]]
Stored(n) == {r \in Rows : row[r] = "stored" /\ NameOf[r] = n}

\* The state of a process that has just started.
Volatile ==
  [scheduled |-> [n \in Names |-> NoEntry], pc |-> [t \in Tasks |-> "none"],
   found |-> [t \in Tasks |-> NoRow], code |-> [t \in Tasks |-> NoRow]]

Init ==
  /\ row = [r \in Rows |-> "new"]
  /\ ran = [r \in Rows |-> FALSE]
  /\ scheduled = Volatile.scheduled
  /\ running = {}
  /\ pc = Volatile.pc
  /\ found = Volatile.found
  /\ looping = {}
  /\ prepared = NoRow
  /\ code = Volatile.code
  /\ handler = Idle
  /\ bus = "live"
  /\ startup = "pending"
  /\ lost = FALSE
  /\ requests = 0
  /\ restarts = 0

-----------------------------------------------------------------------------
(* ScriptExecutionManager.schedule_script().                               *)

\* The new task of r is one that has ended and that no entry names.
FreeRuns(r) ==
  {k \in 1 .. Runs :
     /\ ~Alive(<<r, k>>)
     /\ \A n \in Names : scheduled[n] # NoEntry => scheduled[n].task # <<r, k>>}
NewTask(r) == <<r, CHOOSE k \in FreeRuns(r) : TRUE>>

\* Bug: the scripts are scheduled whatever the table says.
ScheduleAll(rs) == rs

\* A script whose name is in the table already is not scheduled.
NotScheduled(rs) == {r \in rs : scheduled[NameOf[r]] = NoEntry}

\* Schedules each row of rs, with its crontab or to run once.  Each task runs
\* to its first await before any other await can end.
Schedule(rs, cron) ==
  LET news == NotScheduled(rs)
      ts   == {NewTask(r) : r \in news}
      At(n) == {t \in ts : NameOfTask(t) = n}
  IN /\ scheduled' = [n \in Names |->
          IF At(n) = {} THEN scheduled[n]
          ELSE [task |-> CHOOSE t \in At(n) : TRUE, cron |-> cron]]
     /\ pc' = [t \in Tasks |-> IF t \notin ts THEN pc[t]
                               ELSE IF cron THEN "next" ELSE "find"]
     /\ looping' = IF cron THEN looping \cup ts ELSE looping \ ts
     /\ UNCHANGED <<found, code>>

-----------------------------------------------------------------------------
(* The handlers, up to their last await and the reply that they fire.      *)

\* listen() waits for an event; Runs bounds the tasks that handlers may make.
Ready == bus = "live" /\ handler = Idle /\ \A r \in Rows : FreeRuns(r) # {}

\* It hands the event to its handler, which at its first await asks the database.
Receive(op, n, r) ==
  /\ Ready
  /\ requests < MaxRequests
  /\ requests' = requests + 1
  /\ handler' = [Idle EXCEPT !.op = op, !.name = n, !.row = r, !.at = "find"]
  /\ UNCHANGED <<dbVars, manVars, taskVars, bus, startup, lost, restarts>>

RequestAdd(r) == row[r] = "new" /\ Receive("add", NameOf[r], r)
Request(op, n) == Receive(op, n, NoRow)

\* StartupEvent is fired a second after the handlers are ready.
StartupFires ==
  /\ Ready /\ startup = "pending"
  /\ handler' = [Idle EXCEPT !.op = "startup", !.at = "find"]
  /\ UNCHANGED <<dbVars, manVars, taskVars, bus, startup, lost, counters>>

At(op, at) == bus = "live" /\ handler.op = op /\ handler.at = at

\* The handler returns; an exception of it ends listen().
Return == handler' = Idle /\ UNCHANGED bus
Raise  == handler' = Idle /\ bus' = "dead"
Reply  == Return /\ UNCHANGED <<dbVars, manVars, taskVars, startup, lost>>

AddFind ==
  /\ At("add", "find")
  /\ IF Stored(handler.name) # {}
     THEN Reply
     ELSE /\ handler' = [handler EXCEPT !.at = "create"]
          /\ UNCHANGED <<dbVars, manVars, taskVars, bus, startup, lost>>
  /\ UNCHANGED counters

AddCreate ==
  /\ At("add", "create")
  /\ row' = [row EXCEPT ![handler.row] = "stored"]
  /\ Schedule({handler.row} \cap Cron, TRUE)
  /\ Return
  /\ UNCHANGED <<ran, running, prepared, startup, lost, counters>>

\* A script that is scheduled is not run, and nothing says so.
TriggerFind ==
  /\ At("trigger", "find")
  /\ Schedule(Stored(handler.name), FALSE)
  /\ Return
  /\ UNCHANGED <<dbVars, running, prepared, startup, lost, counters>>

\* A script that is to run once has no aiocron_instance to read.
NoTimer(n) == scheduled[n] # NoEntry /\ ~scheduled[n].cron

ListAll ==
  /\ At("list", "find")
  /\ IF \E n \in Names : Stored(n) # {} /\ NoTimer(n) THEN Raise ELSE Return
  /\ UNCHANGED <<dbVars, manVars, taskVars, startup, lost, counters>>

\* Nor is there a name without a row, or a last_run before the first run.
GetFind ==
  /\ At("get", "find")
  /\ LET n == handler.name
     IN IF Stored(n) = {} \/ NoTimer(n) \/ \E r \in Stored(n) : ~ran[r]
        THEN Raise ELSE Return
  /\ UNCHANGED <<dbVars, manVars, taskVars, startup, lost, counters>>

\* Schedules every script that has a crontab and unsubscribes.
StartupAll ==
  LET rs == {r \in Cron : row[r] = "stored"}
  IN /\ At("startup", "find")
     /\ Schedule(rs, TRUE)
     /\ startup' = "done"
     /\ lost' = (lost \/ \E r \in rs : NoTimer(NameOf[r]))
     /\ Return
     /\ UNCHANGED <<dbVars, running, prepared, counters>>

-----------------------------------------------------------------------------
(* TriggerDeleteScriptHandler.                                             *)

\* The name leaves both tables; what is left is to delete the row.  The manager
\* loses track of a script when it forgets a task that goes on (also when the
\* row then stays, and when a run before the startup is taken for the schedule).
Forget(n) ==
  LET r == CHOOSE r \in Stored(n) : TRUE
  IN /\ scheduled' = [scheduled EXCEPT ![n] = NoEntry]
     /\ running' = running \ {n}
     /\ handler' = [handler EXCEPT !.at = "erase", !.row = r, !.task = NoEntry]
     /\ lost' = (lost \/ \E k \in 1 .. Runs : Alive(<<r, k>>))

\* Bug: the task is waited for but not cancelled.
CancelNothing(t) == UNCHANGED pc

\* task.cancel(): CancelledError at the task's await; nothing if it is done.
Cancel(t) == pc' = [pc EXCEPT ![t] = IF Alive(t) THEN "cancelling" ELSE @]

DeleteFind ==
  /\ At("delete", "find")
  /\ LET n == handler.name
         t == scheduled[n].task
     IN \/ /\ Stored(n) = {}
           /\ Return
           /\ UNCHANGED <<manVars, pc, lost>>
        \/ /\ Stored(n) # {} /\ n \notin running
           /\ Forget(n)
           /\ UNCHANGED <<prepared, pc, bus>>
        \/ /\ Stored(n) # {} /\ n \in running /\ scheduled[n] # NoEntry
           /\ Cancel(t)
           /\ handler' = [handler EXCEPT !.at = "join", !.task = t]
           /\ UNCHANGED <<manVars, bus, lost>>
        \/ /\ Stored(n) # {} /\ n \in running /\ scheduled[n] = NoEntry
           /\ Raise
           /\ UNCHANGED <<manVars, pc, lost>>
  /\ UNCHANGED <<dbVars, found, looping, code, startup, counters>>

\* await task: an exception of the task is a failure to delete the script.
DeleteJoin ==
  /\ At("delete", "join")
  /\ ~Alive(handler.task)
  /\ IF pc[handler.task] = "failed"
     THEN Return /\ UNCHANGED <<scheduled, running, lost>>
     ELSE Forget(handler.name) /\ UNCHANGED bus
  /\ UNCHANGED <<dbVars, prepared, taskVars, startup, counters>>

DeleteErase ==
  /\ At("delete", "erase")
  /\ \E ok \in {TRUE, ~DbMayFail} :
       /\ row' = [row EXCEPT ![handler.row] = IF ok THEN "deleted" ELSE @]
       /\ lost' = (lost \/ ~ok)
  /\ Return
  /\ UNCHANGED <<ran, manVars, taskVars, startup, counters>>

-----------------------------------------------------------------------------
(* The task of a script: run_script().                                     *)

\* exec() defines __ex, or fails and leaves the one of an earlier script.
Prepare(r) == IF r \in Malformed THEN prepared ELSE r

\* running_scripts.add() and aexec(), up to the await of the script: without
\* any __ex there is a KeyError.
Execute(t) ==
  /\ running' = running \cup {NameOfTask(t)}
  /\ prepared' = Prepare(t[1])
  /\ pc' = [pc EXCEPT ![t] = IF prepared' = NoRow THEN "failed" ELSE "exec"]
  /\ code' = [code EXCEPT ![t] = prepared']
  /\ UNCHANGED <<scheduled, looping>>

TaskFrame == UNCHANGED <<bus, handler, startup, lost, counters>>

\* The cron timer fires.
CronNext(t) ==
  /\ pc[t] = "next"
  /\ pc' = [pc EXCEPT ![t] = "find"]
  /\ UNCHANGED <<dbVars, manVars, found, looping, code>>
  /\ TaskFrame

\* _record_script_run() looks the script up by its name, and goes on without it.
RecordFind(t) ==
  /\ pc[t] = "find"
  /\ IF Stored(NameOfTask(t)) = {}
     THEN Execute(t) /\ UNCHANGED found
     ELSE /\ \E r \in Stored(NameOfTask(t)) : found' = [found EXCEPT ![t] = r]
          /\ pc' = [pc EXCEPT ![t] = "save"]
          /\ UNCHANGED <<manVars, looping, code>>
  /\ UNCHANGED dbVars
  /\ TaskFrame

RecordSave(t) ==
  /\ pc[t] = "save"
  /\ ran' = [ran EXCEPT ![found[t]] = TRUE]
  /\ found' = [found EXCEPT ![t] = NoRow]
  /\ Execute(t)
  /\ UNCHANGED row
  /\ TaskFrame

\* Bug: script_finished() also after a run of the cron loop.
FinishedAlways(t) == [scheduled EXCEPT ![NameOfTask(t)] = NoEntry]

\* script_finished(), after the only run.
Finished(t) ==
  IF t \in looping THEN scheduled
  ELSE [scheduled EXCEPT ![NameOfTask(t)] = NoEntry]

\* The script returns or raises.  A KeyError or AttributeError ends the task
\* when its name is in a table no more, or stands for a script without timer;
\* so does an overridden global, which leaves the name in both tables.
Finish(t) ==
  LET n == NameOfTask(t)
      entry == scheduled[n]
      done == code[t] \notin Overriding /\ n \in running
      ok == /\ done /\ entry # NoEntry
            /\ t \in looping => entry.cron
  IN /\ \/ pc[t] = "exec"
        \/ pc[t] = "cancelling" /\ code[t] \in Catching
     /\ code' = [code EXCEPT ![t] = NoRow]
     /\ running' = IF done THEN running \ {n} ELSE running
     /\ pc' = [pc EXCEPT ![t] = CASE ~ok                  -> "failed"
                                  [] ok /\ t \in looping -> "next"
                                  [] OTHER                -> "ended"]
     /\ scheduled' = IF ok THEN Finished(t) ELSE scheduled
     /\ UNCHANGED <<dbVars, prepared, found, looping>>
     /\ TaskFrame

\* CancelledError ends the task; its name stays in running_scripts.
Cancelled(t) ==
  /\ pc[t] = "cancelling"
  /\ code[t] \notin Catching
  /\ pc' = [pc EXCEPT ![t] = "ended"]
  /\ found' = [found EXCEPT ![t] = NoRow]
  /\ code' = [code EXCEPT ![t] = NoRow]
  /\ UNCHANGED <<dbVars, manVars, looping>>
  /\ TaskFrame

-----------------------------------------------------------------------------
\* The process is killed and started again.
Restart ==
  /\ restarts < MaxRestarts
  /\ restarts' = restarts + 1
  /\ scheduled' = Volatile.scheduled
  /\ running' = {}
  /\ pc' = Volatile.pc
  /\ found' = Volatile.found
  /\ looping' = {}
  /\ prepared' = NoRow
  /\ code' = Volatile.code
  /\ handler' = Idle
  /\ bus' = "live"
  /\ startup' = "pending"
  /\ lost' = FALSE
  /\ UNCHANGED <<dbVars, requests>>

HandlerStep ==
  \/ AddFind \/ AddCreate \/ TriggerFind \/ ListAll \/ GetFind \/ StartupAll
  \/ DeleteFind \/ DeleteJoin \/ DeleteErase

Next ==
  \/ \E r \in Rows : RequestAdd(r)
  \/ \E op \in Ops \ {"add"}, n \in Names : Request(op, n)
  \/ StartupFires
  \/ HandlerStep
  \/ \E t \in Tasks : \/ CronNext(t) \/ RecordFind(t) \/ RecordSave(t)
                      \/ Finish(t) \/ Cancelled(t)
  \/ Restart

Spec == Init /\ [][Next]_vars

\* The loop goes on with what is ready and the database answers; a script that
\* is cancelled ends, one that is not may run for ever.
Fairness ==
  /\ WF_vars(StartupFires) /\ WF_vars(HandlerStep)
  /\ \A t \in Tasks : /\ WF_vars(Cancelled(t))
                      /\ WF_vars(pc[t] = "cancelling" /\ Finish(t))

FairSpec == Spec /\ Fairness

-----------------------------------------------------------------------------
\* Every variable ranges over the values the code can give it.
Handlers == [op : Ops \cup {"startup", "idle"}, name : Names \cup {NoEntry},
             row : Rows \cup {NoRow}, at : {"", "find", "create", "join", "erase"},
             task : Tasks \cup {NoEntry}]

TypeOK ==
  /\ row \in [Rows -> {"new", "stored", "deleted"}]
  /\ ran \in [Rows -> BOOLEAN]
  /\ scheduled \in [Names -> Entries \cup {NoEntry}]
  /\ running \subseteq Names
  /\ pc \in [Tasks -> {"none", "next", "find", "save", "exec", "cancelling",
                       "ended", "failed"}]
  /\ found \in [Tasks -> Rows \cup {NoRow}]
  /\ \A t \in Tasks : pc[t] = "save" => found[t] \in Rows
  /\ looping \subseteq Tasks
  /\ prepared \in Rows \cup {NoRow}
  /\ code \in [Tasks -> Rows \cup {NoRow}]
  /\ \A t \in Tasks : pc[t] = "exec" => code[t] \in Rows
  /\ handler \in Handlers
  /\ bus \in {"live", "dead"}
  /\ startup \in {"pending", "done"}
  /\ lost \in BOOLEAN
  /\ requests \in 0 .. MaxRequests /\ restarts \in 0 .. MaxRestarts

\* While nothing is lost, every script with a crontab that is in the database
\* has its cron task, after every order of adding, deleting, running by hand
\* and restarting (a task that failed keeps the entry).
Settled == bus = "live" /\ handler = Idle /\ startup = "done" /\ ~lost

CronScheduled ==
  Settled => \A r \in Cron : row[r] = "stored" =>
    LET entry == scheduled[NameOf[r]]
    IN /\ entry # NoEntry
       /\ entry.cron
       /\ entry.task[1] = r
       /\ Alive(entry.task) \/ pc[entry.task] = "failed"

\* While nothing is lost no two tasks of one name are alive: a script never
\* runs next to itself, nor next to an earlier one of its name.
OneTaskPerName ==
  ~lost => \A t, u \in Tasks :
    Alive(t) /\ Alive(u) /\ NameOfTask(t) = NameOfTask(u) => t = u

\* A name is in the database once: there is one handler at a time.
StoredOnce ==
  \A r, q \in Rows :
    row[r] = "stored" /\ row[q] = "stored" /\ NameOf[r] = NameOf[q] => r = q

\* What a handler remembers across an await still holds after it.
HandlerInv ==
  LET n == handler.name IN
  /\ handler # Idle => \A r \in Rows : FreeRuns(r) # {}
  /\ handler.op = "add" => handler.row \in Rows /\ NameOf[handler.row] = n
  /\ handler.op \in Ops => n \in Names
  /\ handler.at = "create" => handler.op = "add" /\ Stored(n) = {}
  /\ handler.at = "join" =>
       /\ handler.op = "delete" /\ Stored(n) # {}
       /\ handler.task \in Tasks /\ NameOfTask(handler.task) = n
       /\ scheduled[n] # NoEntry => scheduled[n].task = handler.task
  /\ handler.at = "erase" =>
       /\ handler.op = "delete"
       /\ handler.row \in Rows /\ NameOf[handler.row] = n
       /\ scheduled[n] = NoEntry

\* Only a task that a delete waits for is being cancelled.
CancelInv ==
  \A t \in Tasks : pc[t] = "cancelling" =>
    handler.at = "join" /\ handler.task = t

\* An entry is of a task of its name, and a task that is alive has its name's
\* entry, which is what keeps a second one from being scheduled.
EntriesNamed ==
  \A n \in Names : scheduled[n] # NoEntry => NameOfTask(scheduled[n].task) = n

AliveListed ==
  ~lost => \A t \in Tasks : Alive(t) =>
    /\ scheduled[NameOfTask(t)] # NoEntry
    /\ scheduled[NameOfTask(t)].task = t

\* The task of an entry is of a script in the database; it is alive or failed,
\* or was just cancelled.
EntriesSound ==
  ~lost => \A n \in Names : scheduled[n] # NoEntry =>
    LET t == scheduled[n].task IN
    /\ row[t[1]] = "stored"
    /\ scheduled[n].cron => t \in looping
    /\ \/ Alive(t) \/ pc[t] = "failed"
       \/ pc[t] = "ended" /\ handler.at = "join" /\ handler.name = n

\* After the startup a script with a crontab is scheduled, until it is erased.
CronKept ==
  startup = "done" /\ ~lost => \A r \in Cron : row[r] = "stored" =>
    \/ scheduled[NameOf[r]] # NoEntry /\ scheduled[NameOf[r]].cron
    \/ handler.at = "erase" /\ handler.row = r

\* The inductive invariant behind both.
IndInv ==
  /\ TypeOK /\ StoredOnce /\ HandlerInv /\ CancelInv /\ EntriesNamed
  /\ AliveListed /\ EntriesSound /\ CronKept

\* The bus is not blocked: every handler returns or raises, a delete also when
\* the script would run for ever.
HandlerEnds == handler # Idle ~> handler = Idle

\* "Delete a script that has been uploaded to the daemon, cancelling it if it
\* is running or scheduled to run" (server_api.py:72).
DeleteCancels ==
  \A t \in Tasks : row[t[1]] = "deleted" => ~Alive(t)

\* A script that exec() refuses is not run (script_execution_manager.py:51
\* logs "Failed to prep execution of script").
RefusedIsNotRun == \A t \in Tasks : pc[t] = "exec" => t[1] \notin Malformed
=============================================================================
