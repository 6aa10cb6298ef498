--------------------------- MODULE ScriptingProofs --------------------------
(***************************************************************************)
(* Theorems about Scripting, for any rows and names, any number of tasks   *)
(* of a row, and whether or not the database fails; and about EventBus,    *)
(* which carries the events of the scripts and of the other handlers.      *)
(***************************************************************************)
EXTENDS Scripting, EventBus, TLAPS

-----------------------------------------------------------------------------
(* Facts about tasks and handlers.                                         *)

\* A task is of a row, by whose name it goes.
LEMMA TaskFields ==
  /\ \A t \in Tasks : t[1] \in Rows /\ NameOfTask(t) \in Names
                      /\ \E k \in 1 .. Runs : t = <<t[1], k>>
  /\ \A r \in Rows : NameOf[r] \in Names
BY DEF Tasks, Names, NameOfTask

\* A new task of a row is free if one is: of that row, not alive, in no entry.
LEMMA NewTaskIsFree ==
  ASSUME NEW r \in Rows, FreeRuns(r) # {}
  PROVE  /\ NewTask(r) \in Tasks /\ NewTask(r)[1] = r
         /\ NameOfTask(NewTask(r)) = NameOf[r]
         /\ ~Alive(NewTask(r))
         /\ \A n \in Names : scheduled[n] # NoEntry => scheduled[n].task # NewTask(r)
<1>1. PICK k \in FreeRuns(r) : NewTask(r) = <<r, k>>
  BY DEF NewTask
<1> QED BY <1>1 DEF FreeRuns, Tasks, NameOfTask

\* What is free stays free while no task comes alive and no entry is made.
LEMMA FreeStays ==
  ASSUME \A t \in Tasks : Alive(t)' => Alive(t),
         \A n \in Names : scheduled'[n] # NoEntry => scheduled'[n] = scheduled[n],
         \A r \in Rows : FreeRuns(r) # {}
  PROVE  \A r \in Rows : FreeRuns(r)' # {}
<1> SUFFICES ASSUME NEW r \in Rows PROVE FreeRuns(r)' # {}
  OBVIOUS
<1>1. PICK k : k \in FreeRuns(r)
  OBVIOUS
<1>2. k \in FreeRuns(r)'
  <2>1. k \in 1 .. Runs /\ <<r, k>> \in Tasks
    BY <1>1 DEF FreeRuns, Tasks
  <2>2. ~Alive(<<r, k>>)'
    BY <1>1, <2>1 DEF FreeRuns
  <2>3. ASSUME NEW n \in Names, scheduled'[n] # NoEntry
        PROVE  scheduled'[n].task # <<r, k>>
    BY <1>1, <2>3 DEF FreeRuns
  <2> QED BY <2>1, <2>2, <2>3 DEF FreeRuns
<1> QED BY <1>2

\* Between two handlers.
LEMMA IdleFields ==
  Idle \in Handlers /\ Idle.op = "idle" /\ Idle.at = "" /\ Idle.name = NoEntry
BY DEF Idle, Handlers

\* The fields of a handler.
LEMMA HandlerFields ==
  ASSUME TypeOK
  PROVE  /\ handler.name \in Names \cup {NoEntry} /\ handler.row \in Rows \cup {NoRow}
         /\ handler.task \in Tasks \cup {NoEntry}
         /\ Idle \in Handlers /\ Idle.op = "idle" /\ Idle.at = ""
         /\ Idle.name = NoEntry
         /\ handler.at # "" => handler # Idle
<1>1. handler \in Handlers
  BY DEF TypeOK
<1>2. /\ handler.name \in Names \cup {NoEntry} /\ handler.row \in Rows \cup {NoRow}
      /\ handler.task \in Tasks \cup {NoEntry}
  BY <1>1 DEF Handlers
<1> QED BY <1>2, IdleFields

\* An entry has a task, of the name of the entry.
LEMMA EntryFields ==
  ASSUME TypeOK, EntriesNamed, NEW n \in Names, scheduled[n] # NoEntry
  PROVE  /\ scheduled[n] \in Entries /\ scheduled[n].task \in Tasks
         /\ scheduled[n].cron \in BOOLEAN
         /\ NameOfTask(scheduled[n].task) = n
BY DEF TypeOK, EntriesNamed, Entries

-----------------------------------------------------------------------------
(* The steps.                                                              *)

LEMMA InitInv ==
  ASSUME Init
  PROVE  IndInv
<1>1. TypeOK
  <2>1. /\ scheduled \in [Names -> Entries \cup {NoEntry}]
        /\ found \in [Tasks -> Rows \cup {NoRow}]
        /\ code \in [Tasks -> Rows \cup {NoRow}]
        /\ pc = [t \in Tasks |-> "none"]
    BY DEF Init, Volatile
  <2>2. requests \in 0 .. MaxRequests /\ restarts \in 0 .. MaxRestarts
    BY ScriptAssumption DEF Init
  <2> QED BY <2>1, <2>2, IdleFields DEF TypeOK, Init
<1>2. \A n \in Names : scheduled[n] = NoEntry
  BY DEF Init, Volatile
<1>3. \A t \in Tasks : pc[t] = "none" /\ code[t] = NoRow
  BY DEF Init, Volatile
<1>4. handler = Idle /\ handler.at = "" /\ handler.op = "idle"
  BY DEF Init, Idle
<1>5. HandlerInv
  BY <1>4 DEF HandlerInv, Ops
<1>6. StoredOnce /\ CronKept
  BY DEF Init, StoredOnce, CronKept
<1> QED
  BY <1>1, <1>2, <1>3, <1>5, <1>6
  DEF IndInv, CancelInv, EntriesNamed, AliveListed, EntriesSound, Alive

LEMMA RestartInv ==
  ASSUME IndInv, Restart
  PROVE  IndInv'
<1>1. TypeOK'
  <2>1. restarts' \in 0 .. MaxRestarts
    BY ScriptAssumption DEF IndInv, TypeOK, Restart
  <2>2. /\ scheduled' \in [Names -> Entries \cup {NoEntry}]
        /\ found' \in [Tasks -> Rows \cup {NoRow}]
        /\ code' \in [Tasks -> Rows \cup {NoRow}]
        /\ pc' = [t \in Tasks |-> "none"]
    BY DEF Restart, Volatile
  <2> QED BY <2>1, <2>2, IdleFields DEF IndInv, TypeOK, Restart, dbVars
<1>2. \A n \in Names : scheduled'[n] = NoEntry
  BY DEF Restart, Volatile
<1>3. \A t \in Tasks : pc'[t] = "none" /\ code'[t] = NoRow
  BY DEF Restart, Volatile
<1>4. handler' = Idle /\ Idle.at = "" /\ Idle.op = "idle"
  BY DEF Restart, Idle
<1>5. HandlerInv'
  BY <1>4 DEF HandlerInv, Ops
<1>6. StoredOnce' /\ CronKept'
  BY DEF IndInv, Restart, StoredOnce, CronKept, dbVars
<1> QED
  BY <1>1, <1>2, <1>3, <1>5, <1>6
  DEF IndInv, CancelInv, EntriesNamed, AliveListed, EntriesSound, Alive

\* A handler begins: nothing is being cancelled, and every row has a free task.
LEMMA BeginInv ==
  ASSUME IndInv, Ready, handler' \in Handlers, handler'.at = "find",
         handler'.op = "add" => /\ handler'.row \in Rows
                                /\ NameOf[handler'.row] = handler'.name,
         handler'.op \in Ops => handler'.name \in Names,
         requests' \in 0 .. MaxRequests,
         UNCHANGED <<dbVars, manVars, taskVars, bus, startup, lost, restarts>>
  PROVE  IndInv'
<1>1. UNCHANGED <<row, ran, scheduled, running, prepared, pc, found, looping, code,
                  bus, startup, restarts>> /\ (lost' <=> lost)
  BY DEF dbVars, manVars, taskVars
<1>2. TypeOK'
  BY <1>1 DEF IndInv, TypeOK
<1>3. handler.at = "" /\ \A r \in Rows : FreeRuns(r) # {}
  BY DEF Ready, Idle
<1>4. HandlerInv'
  <2>1. \A r \in Rows : FreeRuns(r)' = FreeRuns(r)
    BY <1>1 DEF FreeRuns, Alive
  <2> QED BY <1>3, <2>1 DEF HandlerInv
<1>5. CancelInv' /\ AliveListed' /\ StoredOnce' /\ EntriesNamed'
  BY <1>1, <1>3 DEF IndInv, CancelInv, AliveListed, StoredOnce,
                    EntriesNamed, Alive
<1>6. EntriesSound'
  BY <1>1, <1>3 DEF IndInv, EntriesSound, Alive
<1>7. CronKept'
  BY <1>1, <1>3 DEF IndInv, CronKept
<1> QED BY <1>2, <1>4, <1>5, <1>6, <1>7 DEF IndInv

LEMMA ReceiveInv ==
  ASSUME IndInv, NEW op \in Ops, NEW n \in Names, NEW r \in Rows \cup {NoRow},
         op = "add" => r \in Rows /\ NameOf[r] = n, Receive(op, n, r)
  PROVE  IndInv'
<1>1. handler' = [op |-> op, name |-> n, row |-> r, at |-> "find", task |-> NoEntry]
  BY DEF Receive, Idle
<1>2. handler' \in Handlers
  BY <1>1 DEF Handlers
<1>3. requests' \in 0 .. MaxRequests
  BY ScriptAssumption DEF IndInv, TypeOK, Receive
<1> QED BY <1>1, <1>2, <1>3, BeginInv DEF Receive

LEMMA StartupFiresInv ==
  ASSUME IndInv, StartupFires
  PROVE  IndInv'
<1>1. handler' = [op |-> "startup", name |-> NoEntry, row |-> NoRow, at |-> "find",
                  task |-> NoEntry]
  BY DEF StartupFires, Idle
<1>2. handler' \in Handlers
  BY <1>1 DEF Handlers
<1>3. requests' \in 0 .. MaxRequests /\ restarts' = restarts
  BY DEF IndInv, TypeOK, StartupFires, counters
<1> QED BY <1>1, <1>2, <1>3, BeginInv DEF StartupFires, Ops

\* A handler ends that has changed nothing, and whose task, if it waited for
\* one, has failed.
LEMMA EndInv ==
  ASSUME IndInv, handler' = Idle, bus' \in {"live", "dead"},
         handler.at \in {"find", "join"},
         handler.at = "join" => pc[handler.task] = "failed",
         UNCHANGED <<dbVars, manVars, taskVars, startup, lost, counters>>
  PROVE  IndInv'
<1>1. UNCHANGED <<row, ran, scheduled, running, prepared, pc, found, looping, code,
                  startup, requests, restarts>> /\ (lost' <=> lost)
  BY DEF dbVars, manVars, taskVars, counters
<1>2. TypeOK /\ TypeOK' /\ Idle.at = "" /\ Idle.op = "idle"
  BY <1>1, HandlerFields DEF IndInv, TypeOK
<1>3. HandlerInv'
  BY <1>2 DEF HandlerInv, Ops
<1>4. AliveListed' /\ StoredOnce' /\ EntriesNamed'
  BY <1>1 DEF IndInv, AliveListed, StoredOnce, EntriesNamed, Alive
<1>5. CancelInv'
  BY <1>1 DEF IndInv, CancelInv
<1>6. EntriesSound'
  <2> SUFFICES ASSUME ~lost, NEW n \in Names, scheduled[n] # NoEntry
               PROVE  /\ row[scheduled[n].task[1]] = "stored"
                      /\ scheduled[n].cron => scheduled[n].task \in looping
                      /\ Alive(scheduled[n].task) \/ pc[scheduled[n].task] = "failed"
    BY <1>1 DEF EntriesSound, Alive
  <2>1. handler.at = "join" /\ handler.name = n => scheduled[n].task = handler.task
    BY DEF IndInv, HandlerInv
  <2> QED BY <2>1 DEF IndInv, EntriesSound
<1>7. CronKept'
  BY <1>1 DEF IndInv, CronKept
<1> QED BY <1>2, <1>3, <1>4, <1>5, <1>6, <1>7 DEF IndInv

\* The handlers that only read, or refuse.
LEMMA ReadInv ==
  ASSUME IndInv, ListAll \/ GetFind
  PROVE  IndInv'
<1>1. /\ handler' = Idle /\ bus' \in {"live", "dead"} /\ handler.at = "find"
      /\ UNCHANGED <<dbVars, manVars, taskVars, startup, lost, counters>>
  BY DEF IndInv, TypeOK, ListAll, GetFind, At, Return, Raise
<1> QED BY <1>1, EndInv

LEMMA AddFindInv ==
  ASSUME IndInv, AddFind
  PROVE  IndInv'
<1>1. handler.at = "find" /\ handler.op = "add" /\ UNCHANGED counters
  BY DEF AddFind, At
<1>2. CASE Stored(handler.name) # {}
  <2>1. /\ handler' = Idle /\ UNCHANGED bus
        /\ UNCHANGED <<dbVars, manVars, taskVars, startup, lost, counters>>
    BY <1>2 DEF AddFind, Reply, Return
  <2>2. bus' \in {"live", "dead"}
    BY <2>1 DEF IndInv, TypeOK
  <2> QED BY <1>1, <2>1, <2>2, EndInv
<1>3. CASE Stored(handler.name) = {}
  <2>1. /\ handler' = [handler EXCEPT !.at = "create"]
        /\ UNCHANGED <<row, ran, scheduled, running, prepared, pc, found, looping, code,
                       bus, startup, requests, restarts>> /\ (lost' <=> lost)
    BY <1>3 DEF AddFind, dbVars, manVars, taskVars, counters
  <2>2. handler \in Handlers /\ TypeOK
    BY DEF IndInv, TypeOK
  <2>3. /\ handler' \in Handlers /\ handler'.at = "create"
        /\ handler'.op = "add" /\ handler'.name = handler.name /\ handler'.row = handler.row
    BY <1>1, <2>1, <2>2 DEF Handlers
  <2>4. TypeOK'
    BY <2>1, <2>2, <2>3 DEF TypeOK
  <2>5. HandlerInv'
    <3>1. \A r \in Rows : FreeRuns(r)' = FreeRuns(r)
      BY <2>1 DEF FreeRuns, Alive
    <3>2. \A r \in Rows : FreeRuns(r) # {}
      BY <1>1, <2>2, HandlerFields DEF IndInv, HandlerInv
    <3>3. Stored(handler.name)' = Stored(handler.name)
      BY <2>1, <2>3 DEF Stored
    <3>4. /\ handler'.row \in Rows /\ NameOf[handler'.row] = handler'.name
          /\ handler'.name \in Names
      BY <1>1, <2>3 DEF IndInv, HandlerInv, Ops
    <3> QED BY <1>3, <2>3, <3>1, <3>2, <3>3, <3>4 DEF HandlerInv
  <2>6. AliveListed' /\ StoredOnce' /\ EntriesNamed' /\ CancelInv'
    BY <1>1, <2>1 DEF IndInv, AliveListed, StoredOnce, EntriesNamed,
                      CancelInv, Alive
  <2>7. EntriesSound'
    BY <1>1, <2>1 DEF IndInv, EntriesSound, Alive
  <2>8. CronKept'
    BY <1>1, <2>1 DEF IndInv, CronKept
  <2> QED BY <2>4, <2>5, <2>6, <2>7, <2>8 DEF IndInv
<1> QED BY <1>2, <1>3

-----------------------------------------------------------------------------
(* The handlers that schedule.                                             *)

\* The table of scripts after schedule_script(): the old entries, and one for
\* each row of rs whose name had none.
TableExtended(rs, cron) ==
  /\ \A n \in Names : scheduled[n] # NoEntry => scheduled'[n] = scheduled[n]
  /\ \A n \in Names : scheduled[n] = NoEntry /\ scheduled'[n] # NoEntry =>
       \E r \in rs : NameOf[r] = n
  /\ \A r \in rs : scheduled[NameOf[r]] = NoEntry =>
       LET t == scheduled'[NameOf[r]].task IN
       /\ scheduled'[NameOf[r]] # NoEntry
       /\ scheduled'[NameOf[r]].cron = cron
       /\ t \in Tasks /\ t[1] = r
       /\ pc'[t] \in {"next", "find"}
       /\ cron => t \in looping'

\* The tasks that are new have the entries that are new; no other one changes.
Extended(rs, cron) ==
  /\ UNCHANGED <<found, code>>
  /\ scheduled' \in [Names -> Entries \cup {NoEntry}]
  /\ pc' \in [Tasks -> {"none", "next", "find", "save", "exec", "cancelling",
                        "ended", "failed"}]
  /\ looping' \subseteq Tasks
  /\ TableExtended(rs, cron)
  /\ \A t \in Tasks :
       \/ pc'[t] = pc[t] /\ (t \in looping' <=> t \in looping)
       \/ /\ pc'[t] \in {"next", "find"} /\ ~Alive(t)
          /\ t[1] \in rs /\ scheduled[NameOf[t[1]]] = NoEntry
          /\ scheduled'[NameOf[t[1]]].task = t
          /\ \A n \in Names : scheduled[n] # NoEntry => scheduled[n].task # t

\* schedule_script() gives each row of rs whose name is not in the table a
\* task that was not alive, and changes nothing else.
LEMMA ScheduleFacts ==
  ASSUME IndInv, handler # Idle, NEW rs \in SUBSET Rows, NEW cron \in BOOLEAN,
         \A r, q \in rs : NameOf[r] = NameOf[q] => r = q,
         Schedule(rs, cron)
  PROVE  Extended(rs, cron)
<1> DEFINE news == NotScheduled(rs)
           ts   == {NewTask(r) : r \in news}
           Named(n) == {t \in ts : NameOfTask(t) = n}
<1>1. TypeOK /\ HandlerInv /\ EntriesNamed
  BY DEF IndInv
<1>2. /\ scheduled' = [n \in Names |->
           IF Named(n) = {} THEN scheduled[n]
           ELSE [task |-> CHOOSE t \in Named(n) : TRUE, cron |-> cron]]
      /\ pc' = [t \in Tasks |-> IF t \notin ts THEN pc[t]
                                ELSE IF cron THEN "next" ELSE "find"]
      /\ looping' = IF cron THEN looping \cup ts ELSE looping \ ts
      /\ UNCHANGED <<found, code>>
  BY DEF Schedule
<1>3. \A r \in news : /\ r \in rs /\ r \in Rows /\ scheduled[NameOf[r]] = NoEntry
                      /\ NewTask(r) \in Tasks /\ NewTask(r)[1] = r
                      /\ NameOfTask(NewTask(r)) = NameOf[r] /\ ~Alive(NewTask(r))
                      /\ \A n \in Names : scheduled[n] # NoEntry =>
                                            scheduled[n].task # NewTask(r)
  <2> TAKE r \in news
  <2>1. r \in rs /\ r \in Rows /\ scheduled[NameOf[r]] = NoEntry
    BY DEF NotScheduled
  <2>2. FreeRuns(r) # {}
    BY <1>1, <2>1 DEF HandlerInv
  <2> QED BY <2>1, <2>2, NewTaskIsFree
<1>4. ts \subseteq Tasks
  BY <1>3
<1>5. \A r \in news : Named(NameOf[r]) = {NewTask(r)}
  <2> TAKE r \in news
  <2>1. NewTask(r) \in Named(NameOf[r])
    BY <1>3
  <2>2. ASSUME NEW t \in Named(NameOf[r]) PROVE t = NewTask(r)
    <3>1. PICK q \in news : t = NewTask(q)
      OBVIOUS
    <3>2. q = r
      BY <1>3, <3>1
    <3> QED BY <3>1, <3>2
  <2> QED BY <2>1, <2>2
<1>6. \A n \in Names : Named(n) # {} => \E r \in news : NameOf[r] = n
  BY <1>3
<1>7. \A r \in news : /\ NameOf[r] \in Names
                      /\ scheduled'[NameOf[r]] = [task |-> NewTask(r), cron |-> cron]
  <2> TAKE r \in news
  <2>1. NameOf[r] \in Names /\ Named(NameOf[r]) = {NewTask(r)}
    BY <1>3, <1>5, TaskFields
  <2>2. (CHOOSE t \in Named(NameOf[r]) : TRUE) = NewTask(r)
    BY <2>1
  <2> QED BY <1>2, <2>1, <2>2
<1> HIDE DEF news, ts, Named
<1>8. \A n \in Names : Named(n) = {} => scheduled'[n] = scheduled[n]
  BY <1>2
<1>9. \A n \in Names : scheduled[n] # NoEntry => scheduled'[n] = scheduled[n]
  BY <1>3, <1>6, <1>8
<1>10. \A n \in Names : scheduled[n] = NoEntry /\ scheduled'[n] # NoEntry =>
         \E r \in rs : NameOf[r] = n
  BY <1>3, <1>6, <1>8
<1>11. scheduled' \in [Names -> Entries \cup {NoEntry}]
  <2>1. \A n \in Names : scheduled'[n] \in Entries \cup {NoEntry}
    <3> TAKE n \in Names
    <3>1. CASE Named(n) = {}
      BY <1>1, <1>8, <3>1 DEF TypeOK
    <3>2. CASE Named(n) # {}
      <4>1. PICK r \in news : NameOf[r] = n
        BY <1>6, <3>2
      <4>2. scheduled'[n] = [task |-> NewTask(r), cron |-> cron] /\ NewTask(r) \in Tasks
        BY <1>3, <1>7, <4>1
      <4> QED BY <4>2 DEF Entries
    <3> QED BY <3>1, <3>2
  <2> QED BY <1>2, <2>1
<1>12. \A t \in Tasks : t \notin ts => pc'[t] = pc[t] /\ (t \in looping' <=> t \in looping)
  BY <1>2
<1>13. \A t \in ts : pc'[t] \in {"next", "find"} /\ (cron => t \in looping')
  BY <1>2, <1>4
<1>14. pc' \in [Tasks -> {"none", "next", "find", "save", "exec", "cancelling",
                          "ended", "failed"}]
  BY <1>1, <1>2 DEF TypeOK
<1>15. looping' \subseteq Tasks
  BY <1>1, <1>2, <1>4 DEF TypeOK
<1>16. ASSUME NEW r \in rs, scheduled[NameOf[r]] = NoEntry
       PROVE  LET t == scheduled'[NameOf[r]].task IN
              /\ scheduled'[NameOf[r]] # NoEntry
              /\ scheduled'[NameOf[r]].cron = cron
              /\ t \in Tasks /\ t[1] = r
              /\ pc'[t] \in {"next", "find"}
              /\ cron => t \in looping'
  <2>1. r \in news
    BY <1>16 DEF news, NotScheduled
  <2>2. NewTask(r) \in ts
    BY <2>1 DEF ts
  <2>3. scheduled'[NameOf[r]] = [task |-> NewTask(r), cron |-> cron]
    BY <1>7, <2>1
  <2>4. scheduled'[NameOf[r]] # NoEntry
    BY <1>3, <2>1, <2>3, ScriptAssumption DEF Entries
  <2> QED BY <1>3, <1>13, <2>1, <2>2, <2>3, <2>4
<1>17. ASSUME NEW t \in ts
       PROVE  /\ ~Alive(t) /\ t[1] \in rs /\ scheduled[NameOf[t[1]]] = NoEntry
              /\ scheduled'[NameOf[t[1]]].task = t
              /\ \A n \in Names : scheduled[n] # NoEntry => scheduled[n].task # t
  <2>1. PICK r \in news : t = NewTask(r)
    BY DEF ts
  <2>2. /\ ~Alive(NewTask(r)) /\ NewTask(r)[1] = r /\ r \in rs
        /\ scheduled[NameOf[r]] = NoEntry
        /\ \A n \in Names : scheduled[n] # NoEntry => scheduled[n].task # NewTask(r)
    BY <1>3, <2>1
  <2>3. scheduled'[NameOf[r]].task = NewTask(r)
    <3>1. scheduled'[NameOf[r]] = [task |-> NewTask(r), cron |-> cron]
      BY <1>7, <2>1
    <3> QED BY <3>1
  <2> QED BY <2>1, <2>2, <2>3
<1>18. TableExtended(rs, cron)
  BY <1>9, <1>10, <1>16 DEF TableExtended
<1> QED BY <1>2, <1>11, <1>12, <1>13, <1>14, <1>15, <1>17, <1>18 DEF Extended

\* A handler ends that has scheduled the rows rs, which are in the database; no
\* script with a crontab is left out, if those of before the startup are not.
LEMMA ScheduleInv ==
  ASSUME IndInv, handler' = Idle, bus' = bus, handler.at \in {"find", "create"},
         startup' \in {"pending", "done"}, lost' \in BOOLEAN, lost => lost',
         row' \in [Rows -> {"new", "stored", "deleted"}], StoredOnce',
         \A r \in Rows : row[r] = "stored" => row'[r] = "stored",
         UNCHANGED <<ran, running, prepared, requests, restarts>>,
         NEW rs \in SUBSET Rows, NEW cron \in BOOLEAN,
         \A r \in rs : row'[r] = "stored",
         Schedule(rs, cron),
         startup' = "done" /\ ~lost' => \A r \in Cron : row'[r] = "stored" =>
           \/ scheduled[NameOf[r]] # NoEntry /\ scheduled[NameOf[r]].cron
           \/ cron /\ r \in rs /\ scheduled[NameOf[r]] = NoEntry
  PROVE  IndInv'
<1>1. TypeOK /\ EntriesNamed /\ handler # Idle /\ Idle.at = "" /\ Idle.op = "idle"
  BY HandlerFields DEF IndInv
<1>2. Extended(rs, cron)
  <2>1. \A r, q \in rs : NameOf[r] = NameOf[q] => r = q
    BY DEF StoredOnce
  <2> QED BY <1>1, <2>1, ScheduleFacts
<1>3. /\ UNCHANGED <<found, code>>
      /\ scheduled' \in [Names -> Entries \cup {NoEntry}]
      /\ pc' \in [Tasks -> {"none", "next", "find", "save", "exec", "cancelling",
                            "ended", "failed"}]
      /\ looping' \subseteq Tasks /\ TableExtended(rs, cron)
  BY <1>2 DEF Extended
<1>4. /\ \A n \in Names : scheduled[n] # NoEntry => scheduled'[n] = scheduled[n]
      /\ \A n \in Names : scheduled[n] = NoEntry /\ scheduled'[n] # NoEntry =>
           \E r \in rs : NameOf[r] = n
  BY <1>3 DEF TableExtended
<1>5. \A r \in rs : scheduled[NameOf[r]] = NoEntry =>
        /\ scheduled'[NameOf[r]] # NoEntry
        /\ scheduled'[NameOf[r]].cron = cron
        /\ scheduled'[NameOf[r]].task \in Tasks
        /\ scheduled'[NameOf[r]].task[1] = r
        /\ pc'[scheduled'[NameOf[r]].task] \in {"next", "find"}
        /\ cron => scheduled'[NameOf[r]].task \in looping'
  BY <1>3 DEF TableExtended
<1>6. \A t \in Tasks :
        \/ pc'[t] = pc[t] /\ (t \in looping' <=> t \in looping)
        \/ /\ pc'[t] \in {"next", "find"} /\ ~Alive(t)
           /\ t[1] \in rs /\ scheduled[NameOf[t[1]]] = NoEntry
           /\ scheduled'[NameOf[t[1]]].task = t
           /\ \A n \in Names : scheduled[n] # NoEntry => scheduled[n].task # t
  BY <1>2 DEF Extended
<1>7. TypeOK'
  <2>1. \A t \in Tasks : (pc'[t] = "save" => pc[t] = "save")
                         /\ (pc'[t] = "exec" => pc[t] = "exec")
    BY <1>6
  <2> QED BY <1>1, <1>3, <2>1, IdleFields DEF TypeOK
<1>8. HandlerInv'
  BY <1>1 DEF HandlerInv, Ops
<1>9. CancelInv'
  BY <1>6 DEF IndInv, CancelInv
<1>10. EntriesNamed'
  <2> SUFFICES ASSUME NEW n \in Names, scheduled'[n] # NoEntry
               PROVE  NameOfTask(scheduled'[n].task) = n
    BY DEF EntriesNamed, NameOfTask
  <2>1. CASE scheduled[n] # NoEntry
    BY <1>1, <1>4, <2>1 DEF EntriesNamed
  <2>2. CASE scheduled[n] = NoEntry
    BY <1>4, <1>5, <2>2 DEF NameOfTask
  <2> QED BY <2>1, <2>2
<1>11. AliveListed'
  <2> SUFFICES ASSUME ~lost', NEW t \in Tasks, Alive(t)'
               PROVE  /\ scheduled'[NameOfTask(t)] # NoEntry
                      /\ scheduled'[NameOfTask(t)].task = t
    BY DEF AliveListed, NameOfTask
  <2>1. CASE pc'[t] = pc[t]
    <3>1. /\ scheduled[NameOfTask(t)] # NoEntry
          /\ scheduled[NameOfTask(t)].task = t
      BY <2>1 DEF IndInv, AliveListed, Alive
    <3> QED BY <1>4, <3>1, TaskFields
  <2>2. CASE pc'[t] # pc[t]
    <3>1. /\ t[1] \in rs /\ scheduled[NameOf[t[1]]] = NoEntry
          /\ scheduled'[NameOf[t[1]]].task = t
      BY <1>6, <2>2
    <3> QED BY <1>5, <3>1 DEF NameOfTask
  <2> QED BY <2>1, <2>2
<1>12. EntriesSound'
  <2> SUFFICES ASSUME ~lost', NEW n \in Names, scheduled'[n] # NoEntry
               PROVE  /\ row'[scheduled'[n].task[1]] = "stored"
                      /\ scheduled'[n].cron => scheduled'[n].task \in looping'
                      /\ pc'[scheduled'[n].task] \in {"next", "find", "save", "exec",
                                                     "cancelling", "failed"}
    BY DEF EntriesSound, Alive
  <2>1. CASE scheduled[n] # NoEntry
    <3> DEFINE t == scheduled[n].task
    <3>1. /\ scheduled'[n] = scheduled[n] /\ t \in Tasks /\ t[1] \in Rows
      BY <1>1, <1>4, <2>1, EntryFields, TaskFields
    <3>2. /\ row[t[1]] = "stored" /\ (scheduled[n].cron => t \in looping)
          /\ Alive(t) \/ pc[t] = "failed"
      BY <2>1 DEF IndInv, EntriesSound
    <3>3. pc'[t] = pc[t] /\ (t \in looping' <=> t \in looping)
      BY <1>6, <2>1, <3>1
    <3> QED BY <3>1, <3>2, <3>3 DEF Alive
  <2>2. CASE scheduled[n] = NoEntry
    <3>1. PICK r \in rs : NameOf[r] = n
      BY <1>4, <2>2
    <3> QED BY <1>5, <2>2, <3>1 DEF Alive
  <2> QED BY <2>1, <2>2
<1>13. CronKept'
  <2> SUFFICES ASSUME startup' = "done", ~lost', NEW r \in Cron, row'[r] = "stored"
               PROVE  scheduled'[NameOf[r]] # NoEntry /\ scheduled'[NameOf[r]].cron
    BY DEF CronKept
  <2>1. r \in Rows /\ NameOf[r] \in Names
    BY ScriptAssumption, TaskFields
  <2>2. CASE scheduled[NameOf[r]] # NoEntry /\ scheduled[NameOf[r]].cron
    BY <1>4, <2>1, <2>2
  <2>3. CASE cron /\ r \in rs /\ scheduled[NameOf[r]] = NoEntry
    BY <1>5, <2>3
  <2> QED BY <2>2, <2>3
<1> QED
  BY <1>7, <1>8, <1>9, <1>10, <1>11, <1>12, <1>13 DEF IndInv

LEMMA AddCreateInv ==
  ASSUME IndInv, AddCreate
  PROVE  IndInv'
<1> DEFINE r == handler.row
<1>1. /\ handler.at = "create" /\ handler' = Idle /\ bus' = bus
      /\ row' = [row EXCEPT ![r] = "stored"]
      /\ Schedule({r} \cap Cron, TRUE)
      /\ UNCHANGED <<ran, running, prepared, startup, requests, restarts>>
      /\ (lost' <=> lost)
  BY DEF AddCreate, At, Return, counters
<1>2. TypeOK /\ r \in Rows /\ Stored(NameOf[r]) = {}
  BY <1>1 DEF IndInv, HandlerInv
<1>3. /\ row' \in [Rows -> {"new", "stored", "deleted"}] /\ row'[r] = "stored"
      /\ \A q \in Rows : q # r => row'[q] = row[q]
  BY <1>1, <1>2 DEF TypeOK
<1>4. \A q \in Rows : row[q] = "stored" => NameOf[q] # NameOf[r]
  BY <1>2 DEF Stored
<1>5. StoredOnce'
  BY <1>3, <1>4 DEF IndInv, StoredOnce
<1>6. ASSUME startup' = "done", ~lost', NEW q \in Cron, row'[q] = "stored"
      PROVE  \/ scheduled[NameOf[q]] # NoEntry /\ scheduled[NameOf[q]].cron
             \/ q \in {r} \cap Cron /\ scheduled[NameOf[q]] = NoEntry
  <2>1. q \in Rows /\ NameOf[q] \in Names
    BY ScriptAssumption, TaskFields
  <2>2. CASE q # r
    BY <1>1, <1>3, <1>6, <2>1, <2>2 DEF IndInv, CronKept
  <2>3. CASE q = r
    <3>1. ASSUME scheduled[NameOf[r]] # NoEntry PROVE FALSE
      <4> DEFINE t == scheduled[NameOf[r]].task
      <4>1. t \in Tasks /\ NameOfTask(t) = NameOf[r] /\ t[1] \in Rows
        BY <1>2, <2>1, <2>3, <3>1, EntryFields, TaskFields DEF IndInv
      <4>2. row[t[1]] = "stored"
        BY <1>1, <1>6, <2>1, <2>3, <3>1 DEF IndInv, EntriesSound
      <4> QED BY <1>4, <4>1, <4>2 DEF NameOfTask
    <3> QED BY <2>3, <3>1
  <2> QED BY <2>2, <2>3
<1>7. /\ startup' \in {"pending", "done"} /\ lost' \in BOOLEAN /\ (lost => lost')
      /\ {r} \cap Cron \in SUBSET Rows /\ \A q \in {r} \cap Cron : row'[q] = "stored"
      /\ \A q \in Rows : row[q] = "stored" => row'[q] = "stored"
  <2>1. lost' \in BOOLEAN /\ (lost => lost')
    BY <1>1, <1>2 DEF TypeOK, AddCreate
  <2> QED BY <1>1, <1>2, <1>3, <2>1 DEF TypeOK
<1> HIDE DEF r
<1> QED BY <1>1, <1>3, <1>5, <1>6, <1>7, ScheduleInv

LEMMA TriggerFindInv ==
  ASSUME IndInv, TriggerFind
  PROVE  IndInv'
<1> DEFINE rs == Stored(handler.name)
<1>1. /\ handler.at = "find" /\ handler' = Idle /\ bus' = bus
      /\ Schedule(rs, FALSE)
      /\ UNCHANGED <<row, ran, running, prepared, startup, requests, restarts>>
      /\ (lost' <=> lost)
  BY DEF TriggerFind, At, Return, counters, dbVars
<1>2. TypeOK /\ rs \in SUBSET Rows /\ \A r \in rs : row'[r] = "stored"
  BY <1>1 DEF IndInv, Stored
<1>3. StoredOnce'
  BY <1>1 DEF IndInv, StoredOnce
<1>4. lost' \in BOOLEAN /\ (lost => lost')
  BY <1>1, <1>2 DEF TypeOK, TriggerFind
<1>5. /\ startup' \in {"pending", "done"}
      /\ row' \in [Rows -> {"new", "stored", "deleted"}]
      /\ \A r \in Rows : row[r] = "stored" => row'[r] = "stored"
  BY <1>1, <1>2 DEF TypeOK
<1>6. startup' = "done" /\ ~lost' => \A r \in Cron : row'[r] = "stored" =>
        scheduled[NameOf[r]] # NoEntry /\ scheduled[NameOf[r]].cron
  BY <1>1 DEF IndInv, CronKept
<1> HIDE DEF rs
<1> QED BY <1>1, <1>2, <1>3, <1>4, <1>5, <1>6, ScheduleInv

LEMMA StartupAllInv ==
  ASSUME IndInv, StartupAll
  PROVE  IndInv'
<1> DEFINE rs == {r \in Cron : row[r] = "stored"}
<1>1. /\ handler.at = "find" /\ handler' = Idle /\ bus' = bus
      /\ Schedule(rs, TRUE) /\ startup' = "done"
      /\ lost' = (lost \/ \E r \in rs : NoTimer(NameOf[r]))
      /\ UNCHANGED <<row, ran, running, prepared, requests, restarts>>
  BY DEF StartupAll, At, Return, counters, dbVars
<1>2. TypeOK /\ rs \in SUBSET Rows /\ \A r \in rs : row'[r] = "stored"
  BY <1>1, ScriptAssumption DEF IndInv
<1>3. StoredOnce'
  BY <1>1 DEF IndInv, StoredOnce
<1>4. lost' \in BOOLEAN /\ (lost => lost') /\ (~lost' => \A r \in rs : ~NoTimer(NameOf[r]))
  BY <1>1, <1>2 DEF TypeOK
<1>5. /\ row' \in [Rows -> {"new", "stored", "deleted"}]
      /\ \A r \in Rows : row[r] = "stored" => row'[r] = "stored"
  BY <1>1, <1>2 DEF TypeOK
<1>6. ~lost' => \A r \in Cron : row'[r] = "stored" =>
        \/ scheduled[NameOf[r]] # NoEntry /\ scheduled[NameOf[r]].cron
        \/ r \in rs /\ scheduled[NameOf[r]] = NoEntry
  BY <1>1, <1>4 DEF NoTimer
<1> HIDE DEF rs
<1> QED BY <1>1, <1>2, <1>3, <1>4, <1>5, <1>6, ScheduleInv

-----------------------------------------------------------------------------
(* The deletion of a script.                                               *)

\* The manager forgets a name that has a row, and no task is being cancelled:
\* if it loses track of nothing, no task of the name is alive.
LEMMA ForgetInv ==
  ASSUME IndInv, handler.op = "delete", handler.at \in {"find", "join"},
         Stored(handler.name) # {}, Forget(handler.name),
         handler.at = "join" => ~Alive(handler.task),
         UNCHANGED <<row, ran, prepared, pc, found, looping, code, bus, startup,
                     requests, restarts>>
  PROVE  IndInv'
<1> DEFINE n == handler.name
           r == CHOOSE r \in Stored(n) : TRUE
<1>1. /\ scheduled' = [scheduled EXCEPT ![n] = NoEntry]
      /\ running' = running \ {n}
      /\ handler' = [handler EXCEPT !.at = "erase", !.row = r, !.task = NoEntry]
      /\ lost' = (lost \/ \E k \in 1 .. Runs : Alive(<<r, k>>))
  BY DEF Forget
<1>2. TypeOK /\ handler \in Handlers /\ handler # Idle /\ n \in Names
  BY HandlerFields DEF IndInv, TypeOK, HandlerInv, Ops
<1>3. r \in Rows /\ row[r] = "stored" /\ NameOf[r] = n
  <2>1. r \in Stored(n)
    OBVIOUS
  <2> QED BY <2>1 DEF Stored
<1> HIDE DEF r
<1>4. /\ handler' \in Handlers /\ handler'.at = "erase" /\ handler'.op = "delete"
      /\ handler'.name = n /\ handler'.row = r
  BY <1>1, <1>2, <1>3 DEF Handlers
<1> HIDE DEF n
<1>5. /\ scheduled'[n] = NoEntry
      /\ \A m \in Names : m # n => scheduled'[m] = scheduled[m]
      /\ scheduled' \in [Names -> Entries \cup {NoEntry}]
  BY <1>1, <1>2 DEF TypeOK
<1>6. lost' \in BOOLEAN /\ (~lost' => ~lost /\ \A k \in 1 .. Runs : ~Alive(<<r, k>>))
  BY <1>1, <1>2 DEF TypeOK
<1>7. TypeOK'
  BY <1>1, <1>2, <1>4, <1>5, <1>6 DEF TypeOK
<1>8. HandlerInv'
  <2>1. \A q \in Rows : FreeRuns(q) # {}
    BY <1>2 DEF IndInv, HandlerInv
  <2>2. \A m \in Names : scheduled'[m] # NoEntry => scheduled'[m] = scheduled[m]
    BY <1>5
  <2>3. \A q \in Rows : FreeRuns(q)' # {}
    BY <2>1, <2>2, FreeStays DEF Alive
  <2> QED BY <1>2, <1>3, <1>4, <1>5, <2>3 DEF HandlerInv
<1>9. CancelInv'
  BY DEF IndInv, CancelInv, Alive
<1>10. EntriesNamed' /\ StoredOnce'
  BY <1>5 DEF IndInv, EntriesNamed, StoredOnce
<1>11. AliveListed'
  <2> SUFFICES ASSUME ~lost', NEW t \in Tasks, Alive(t)
               PROVE  /\ scheduled'[NameOfTask(t)] # NoEntry
                      /\ scheduled'[NameOfTask(t)].task = t
    BY DEF AliveListed, Alive
  <2>1. /\ scheduled[NameOfTask(t)] # NoEntry /\ scheduled[NameOfTask(t)].task = t
        /\ t[1] \in Rows /\ NameOfTask(t) \in Names
    BY <1>6, TaskFields DEF IndInv, AliveListed
  <2>2. NameOfTask(t) # n
    <3> SUFFICES ASSUME NameOfTask(t) = n PROVE FALSE
      OBVIOUS
    <3>1. row[t[1]] = "stored"
      BY <1>6, <2>1 DEF IndInv, EntriesSound
    <3>2. t[1] = r
      BY <1>3, <2>1, <3>1 DEF IndInv, StoredOnce, NameOfTask
    <3>3. \E k \in 1 .. Runs : t = <<r, k>>
      BY <3>2, TaskFields
    <3> QED BY <1>6, <3>3
  <2> QED BY <1>5, <2>1, <2>2
<1>12. EntriesSound'
  <2> SUFFICES ASSUME ~lost, NEW m \in Names, scheduled'[m] # NoEntry
               PROVE  /\ row[scheduled'[m].task[1]] = "stored"
                      /\ scheduled'[m].cron => scheduled'[m].task \in looping
                      /\ pc[scheduled'[m].task] \in {"next", "find", "save", "exec",
                                                     "cancelling", "failed"}
    BY <1>6 DEF EntriesSound, Alive
  <2>1. m # n /\ scheduled'[m] = scheduled[m]
    BY <1>5
  <2> QED BY <2>1 DEF IndInv, EntriesSound, Alive, n
<1>13. CronKept'
  <2> SUFFICES ASSUME startup = "done", ~lost, NEW q \in Cron, row[q] = "stored"
               PROVE  \/ scheduled'[NameOf[q]] # NoEntry /\ scheduled'[NameOf[q]].cron
                      \/ q = r
    BY <1>4, <1>6 DEF CronKept
  <2>1. q \in Rows /\ NameOf[q] \in Names
    BY ScriptAssumption, TaskFields
  <2>2. scheduled[NameOf[q]] # NoEntry /\ scheduled[NameOf[q]].cron
    BY DEF IndInv, CronKept
  <2>3. NameOf[q] = n => q = r
    BY <1>3, <2>1 DEF IndInv, StoredOnce
  <2> QED BY <1>5, <2>1, <2>2, <2>3
<1> QED
  BY <1>7, <1>8, <1>9, <1>10, <1>11, <1>12, <1>13 DEF IndInv

\* A delete cancels the task of a script that runs, and waits for it.
LEMMA CancelTaskInv ==
  ASSUME IndInv, handler.op = "delete", handler.at = "find",
         Stored(handler.name) # {}, scheduled[handler.name] # NoEntry,
         Cancel(scheduled[handler.name].task),
         handler' = [handler EXCEPT !.at = "join",
                                    !.task = scheduled[handler.name].task],
         UNCHANGED <<dbVars, manVars, found, looping, code, bus, startup, lost,
                     counters>>
  PROVE  IndInv'
<1> DEFINE n == handler.name
           t == scheduled[n].task
<1>1. /\ UNCHANGED <<row, ran, scheduled, running, prepared, found, looping, code, bus,
                     startup, requests, restarts>>
      /\ (lost' <=> lost)
      /\ pc' = [pc EXCEPT ![t] = IF Alive(t) THEN "cancelling" ELSE @]
  BY DEF dbVars, manVars, counters, Cancel
<1>2. TypeOK /\ handler \in Handlers /\ handler # Idle /\ n \in Names
  BY HandlerFields DEF IndInv, TypeOK, HandlerInv, Ops
<1>3. t \in Tasks /\ NameOfTask(t) = n
  BY <1>2, EntryFields DEF IndInv
<1>4. handler' = [handler EXCEPT !.at = "join", !.task = t]
  OBVIOUS
<1>5. scheduled[n] # NoEntry /\ Stored(n) # {}
  OBVIOUS
<1> HIDE DEF t
<1>6. /\ handler' \in Handlers /\ handler'.at = "join" /\ handler'.op = "delete"
      /\ handler'.name = n /\ handler'.task = t
  BY <1>2, <1>3, <1>4 DEF Handlers
<1> HIDE DEF n
<1>7. /\ pc' \in [Tasks -> {"none", "next", "find", "save", "exec", "cancelling",
                            "ended", "failed"}]
      /\ \A u \in Tasks : \/ pc'[u] = pc[u]
                          \/ u = t /\ pc'[u] = "cancelling" /\ Alive(u)
  BY <1>1, <1>2, <1>3 DEF TypeOK
<1>8. \A u \in Tasks : /\ Alive(u)' <=> Alive(u)
                       /\ pc[u] = "failed" => pc'[u] = "failed"
                       /\ pc'[u] \in {"save", "exec"} => pc'[u] = pc[u]
  BY <1>7 DEF Alive
<1>9. TypeOK'
  BY <1>1, <1>2, <1>6, <1>7, <1>8 DEF TypeOK
<1>10. HandlerInv'
  <2>1. \A q \in Rows : FreeRuns(q) # {}
    BY <1>2 DEF IndInv, HandlerInv
  <2>2. \A q \in Rows : FreeRuns(q)' # {}
    BY <1>1, <1>8, <2>1, FreeStays
  <2>3. scheduled'[n] # NoEntry => scheduled'[n].task = handler'.task
    BY <1>1, <1>6 DEF t
  <2>4. Stored(handler.name)' = Stored(handler.name)
    BY <1>1 DEF Stored
  <2> QED BY <1>2, <1>3, <1>5, <1>6, <2>2, <2>3, <2>4 DEF HandlerInv
<1>11. CancelInv'
  BY <1>6, <1>7 DEF IndInv, CancelInv
<1>12. EntriesNamed' /\ StoredOnce' /\ AliveListed'
  BY <1>1, <1>8 DEF IndInv, EntriesNamed, StoredOnce, AliveListed
<1>13. EntriesSound'
  <2> SUFFICES ASSUME ~lost, NEW m \in Names, scheduled[m] # NoEntry
               PROVE  /\ row[scheduled[m].task[1]] = "stored"
                      /\ scheduled[m].cron => scheduled[m].task \in looping
                      /\ pc'[scheduled[m].task] \in {"next", "find", "save", "exec",
                                                    "cancelling", "failed"}
    BY <1>1 DEF EntriesSound, Alive
  <2>1. scheduled[m].task \in Tasks
    BY <1>2, EntryFields DEF IndInv
  <2>2. /\ row[scheduled[m].task[1]] = "stored"
        /\ scheduled[m].cron => scheduled[m].task \in looping
        /\ Alive(scheduled[m].task) \/ pc[scheduled[m].task] = "failed"
    BY DEF IndInv, EntriesSound
  <2> QED BY <1>8, <2>1, <2>2 DEF Alive
<1>14. CronKept'
  BY <1>1 DEF IndInv, CronKept
<1> QED BY <1>9, <1>10, <1>11, <1>12, <1>13, <1>14 DEF IndInv

LEMMA DeleteFindInv ==
  ASSUME IndInv, DeleteFind
  PROVE  IndInv'
<1> DEFINE n == handler.name
           t == scheduled[n].task
<1>1. /\ handler.op = "delete" /\ handler.at = "find" /\ bus = "live"
      /\ UNCHANGED <<dbVars, found, looping, code, startup, counters>>
  BY DEF DeleteFind, At
<1>2. CASE handler' = Idle /\ bus' \in {"live", "dead"} /\ UNCHANGED <<manVars, pc, lost>>
  BY <1>1, <1>2, EndInv DEF taskVars
<1>3. CASE Stored(n) # {} /\ Forget(n) /\ UNCHANGED <<prepared, pc, bus>>
  BY <1>1, <1>3, ForgetInv DEF dbVars, counters
<1>4. CASE /\ Stored(n) # {} /\ scheduled[n] # NoEntry /\ Cancel(t)
           /\ handler' = [handler EXCEPT !.at = "join", !.task = t]
           /\ UNCHANGED <<manVars, bus, lost>>
  BY <1>1, <1>4, CancelTaskInv
<1> QED BY <1>1, <1>2, <1>3, <1>4 DEF DeleteFind, Return, Raise

LEMMA DeleteJoinInv ==
  ASSUME IndInv, DeleteJoin
  PROVE  IndInv'
<1>1. /\ handler.op = "delete" /\ handler.at = "join" /\ ~Alive(handler.task)
      /\ UNCHANGED <<dbVars, prepared, taskVars, startup, counters>>
  BY DEF DeleteJoin, At
<1>2. CASE pc[handler.task] = "failed"
  <2>1. handler' = Idle /\ bus' = bus /\ UNCHANGED <<scheduled, running, lost>>
    BY <1>2 DEF DeleteJoin, Return
  <2>2. bus' \in {"live", "dead"}
    BY <2>1 DEF IndInv, TypeOK
  <2> QED BY <1>1, <1>2, <2>1, <2>2, EndInv DEF manVars
<1>3. CASE pc[handler.task] # "failed"
  <2>1. Forget(handler.name) /\ UNCHANGED bus
    BY <1>3 DEF DeleteJoin
  <2>2. Stored(handler.name) # {}
    BY <1>1 DEF IndInv, HandlerInv
  <2> QED BY <1>1, <2>1, <2>2, ForgetInv DEF dbVars, taskVars, counters
<1> QED BY <1>2, <1>3

LEMMA DeleteEraseInv ==
  ASSUME IndInv, DeleteErase
  PROVE  IndInv'
<1> DEFINE r == handler.row
<1>1. PICK ok \in {TRUE, ~DbMayFail} :
        /\ row' = [row EXCEPT ![r] = IF ok THEN "deleted" ELSE @]
        /\ lost' = (lost \/ ~ok)
  BY DEF DeleteErase
<1>2. /\ handler.at = "erase" /\ handler' = Idle
      /\ UNCHANGED <<ran, scheduled, running, prepared, pc, found, looping, code, bus,
                     startup, requests, restarts>>
  BY DEF DeleteErase, At, Return, manVars, taskVars, counters
<1>3. /\ TypeOK /\ r \in Rows /\ Idle.at = "" /\ Idle.op = "idle"
      /\ handler.name \in Names
      /\ NameOf[r] = handler.name /\ scheduled[handler.name] = NoEntry
  BY <1>2, HandlerFields, TaskFields DEF IndInv, HandlerInv
<1>4. lost' \in BOOLEAN /\ (~lost' => ~lost /\ ok)
  BY <1>1, <1>3, ScriptAssumption DEF TypeOK
<1>5. /\ row' \in [Rows -> {"new", "stored", "deleted"}]
      /\ \A q \in Rows : /\ q # r => row'[q] = row[q]
                         /\ row'[q] = "stored" => row[q] = "stored"
                         /\ row'[q] = "stored" /\ ~lost' => q # r
  BY <1>1, <1>3, <1>4 DEF TypeOK
<1> HIDE DEF r
<1>6. TypeOK'
  BY <1>2, <1>3, <1>4, <1>5, IdleFields DEF TypeOK
<1>7. HandlerInv'
  BY <1>2, <1>3 DEF HandlerInv, Ops
<1>8. CancelInv' /\ EntriesNamed'
  BY <1>2 DEF IndInv, CancelInv, EntriesNamed
<1>9. StoredOnce'
  BY <1>5 DEF IndInv, StoredOnce
<1>10. AliveListed'
  BY <1>2, <1>4 DEF IndInv, AliveListed, Alive
<1>11. EntriesSound'
  <2> SUFFICES ASSUME ~lost', NEW n \in Names, scheduled[n] # NoEntry
               PROVE  /\ row'[scheduled[n].task[1]] = "stored"
                      /\ scheduled[n].cron => scheduled[n].task \in looping
                      /\ Alive(scheduled[n].task) \/ pc[scheduled[n].task] = "failed"
    BY <1>2 DEF EntriesSound, Alive
  <2> DEFINE t == scheduled[n].task
  <2>1. t[1] \in Rows /\ NameOfTask(t) = n
    BY <1>3, EntryFields, TaskFields DEF IndInv
  <2>2. /\ row[t[1]] = "stored" /\ (scheduled[n].cron => t \in looping)
        /\ Alive(t) \/ pc[t] = "failed"
    BY <1>2, <1>4 DEF IndInv, EntriesSound
  <2>3. t[1] # r
    BY <1>3, <2>1 DEF NameOfTask
  <2> QED BY <1>5, <2>1, <2>2, <2>3
<1>12. CronKept'
  <2> SUFFICES ASSUME startup = "done", ~lost', NEW q \in Cron, row'[q] = "stored"
               PROVE  scheduled[NameOf[q]] # NoEntry /\ scheduled[NameOf[q]].cron
    BY <1>2 DEF CronKept
  <2>1. q \in Rows /\ q # r /\ row[q] = "stored"
    BY <1>5, ScriptAssumption
  <2> QED BY <1>4, <2>1 DEF IndInv, CronKept, r
<1> QED
  BY <1>6, <1>7, <1>8, <1>9, <1>10, <1>11, <1>12 DEF IndInv

-----------------------------------------------------------------------------
(* The tasks of the scripts.                                               *)

\* A step of the task t, from p, which is alive: it goes on, or fails, or ends;
\* it ends when it was cancelled, or takes the entry of its name with it.
LEMMA TaskInv ==
  ASSUME IndInv, NEW t \in Tasks, Alive(t),
         NEW p \in {"next", "find", "save", "exec", "ended", "failed"},
         pc' = [pc EXCEPT ![t] = p],
         \/ scheduled' = scheduled /\ (p = "ended" => pc[t] = "cancelling")
         \/ /\ t \notin looping /\ p = "ended"
            /\ scheduled' = [scheduled EXCEPT ![NameOfTask(t)] = NoEntry],
         TypeOK',
         UNCHANGED <<row, looping, bus, handler, startup, lost>>
  PROVE  IndInv'
<1> DEFINE n == NameOfTask(t)
<1>1. /\ TypeOK /\ handler' = handler /\ row' = row /\ looping' = looping
      /\ startup' = startup /\ (lost' <=> lost)
  BY DEF IndInv
<1>2. pc'[t] = p /\ \A u \in Tasks : u # t => pc'[u] = pc[u]
  BY <1>1 DEF TypeOK
<1>3. n \in Names
  BY TaskFields
<1>4. \A m \in Names : scheduled'[m] # NoEntry => scheduled'[m] = scheduled[m]
  BY <1>1, <1>3 DEF TypeOK
<1>5. \A m \in Names : m # n => scheduled'[m] = scheduled[m]
  BY <1>1, <1>3 DEF TypeOK
<1>6. \/ /\ scheduled'[n] = scheduled[n]
         /\ p = "ended" => pc[t] = "cancelling"
      \/ t \notin looping /\ p = "ended" /\ scheduled'[n] = NoEntry
  BY <1>1, <1>3 DEF TypeOK
<1> HIDE DEF n
<1>7. \A u \in Tasks : Alive(u)' => Alive(u)
  BY <1>2 DEF Alive
<1>8. ~lost => scheduled[n] # NoEntry /\ scheduled[n].task = t
  BY DEF IndInv, AliveListed, n
<1>9. HandlerInv'
  <2>1. handler # Idle => \A r \in Rows : FreeRuns(r)' # {}
    BY <1>4, <1>7, FreeStays DEF IndInv, HandlerInv
  <2>2. Stored(handler.name)' = Stored(handler.name)
    BY <1>1 DEF Stored
  <2>3. handler.op \in Ops => handler.name \in Names
    BY DEF IndInv, HandlerInv
  <2>4. handler.at \in {"join", "erase"} =>
          /\ handler.name \in Names
          /\ scheduled'[handler.name] # NoEntry =>
               scheduled'[handler.name] = scheduled[handler.name]
    BY <1>4, <2>3 DEF IndInv, HandlerInv, Ops
  <2>5. handler.at = "erase" => scheduled'[handler.name] = NoEntry
    BY <2>4 DEF IndInv, HandlerInv
  <2>6. handler.at = "join" /\ scheduled'[handler.name] # NoEntry =>
          scheduled'[handler.name].task = handler.task
    BY <2>4 DEF IndInv, HandlerInv
  <2> QED BY <1>1, <2>1, <2>2, <2>3, <2>5, <2>6 DEF IndInv, HandlerInv
<1>10. CancelInv'
  BY <1>1, <1>2 DEF IndInv, CancelInv
<1>11. StoredOnce' /\ EntriesNamed'
  BY <1>1, <1>4 DEF IndInv, StoredOnce, EntriesNamed
<1>12. AliveListed'
  <2> SUFFICES ASSUME ~lost, NEW u \in Tasks, Alive(u)'
               PROVE  /\ scheduled'[NameOfTask(u)] # NoEntry
                      /\ scheduled'[NameOfTask(u)].task = u
    BY <1>1 DEF AliveListed, NameOfTask
  <2>1. /\ scheduled[NameOfTask(u)] # NoEntry /\ scheduled[NameOfTask(u)].task = u
        /\ NameOfTask(u) \in Names
    BY <1>7, TaskFields DEF IndInv, AliveListed
  <2>2. CASE NameOfTask(u) # n
    BY <1>5, <2>1, <2>2
  <2>3. CASE NameOfTask(u) = n
    <3>1. u = t /\ p # "ended"
      BY <1>2, <1>8, <2>1, <2>3 DEF Alive
    <3> QED BY <1>6, <2>1, <2>3, <3>1
  <2> QED BY <2>2, <2>3
<1>13. EntriesSound'
  <2> SUFFICES ASSUME ~lost, NEW m \in Names, scheduled'[m] # NoEntry
               PROVE  /\ row[scheduled[m].task[1]] = "stored"
                      /\ scheduled[m].cron => scheduled[m].task \in looping
                      /\ \/ pc'[scheduled[m].task] \in {"next", "find", "save", "exec",
                                                       "cancelling", "failed"}
                         \/ /\ pc'[scheduled[m].task] = "ended"
                            /\ handler.at = "join" /\ handler.name = m
    BY <1>1, <1>4 DEF EntriesSound, Alive
  <2> DEFINE u == scheduled[m].task
  <2>1. scheduled[m] # NoEntry /\ u \in Tasks /\ NameOfTask(u) = m
    BY <1>1, <1>4, EntryFields DEF IndInv
  <2>2. /\ row[u[1]] = "stored" /\ (scheduled[m].cron => u \in looping)
        /\ \/ Alive(u) \/ pc[u] = "failed"
           \/ pc[u] = "ended" /\ handler.at = "join" /\ handler.name = m
    BY <2>1 DEF IndInv, EntriesSound
  <2>3. CASE u # t
    BY <1>2, <2>1, <2>2, <2>3 DEF Alive
  <2>4. CASE u = t
    <3>1. CASE p # "ended"
      BY <1>2, <2>2, <2>4, <3>1
    <3>2. CASE p = "ended"
      <4>1. pc[t] = "cancelling"
        BY <1>6, <2>1, <2>4, <3>2 DEF n
      <4>2. handler.at = "join" /\ handler.name = m
        BY <2>1, <2>4, <4>1 DEF IndInv, CancelInv, HandlerInv
      <4> QED BY <1>2, <2>2, <2>4, <3>2, <4>2
    <3> QED BY <3>1, <3>2
  <2> QED BY <2>3, <2>4
<1>14. CronKept'
  <2> SUFFICES ASSUME startup = "done", ~lost, NEW r \in Cron, row[r] = "stored"
               PROVE  \/ scheduled'[NameOf[r]] # NoEntry /\ scheduled'[NameOf[r]].cron
                      \/ handler.at = "erase" /\ handler.row = r
    BY <1>1 DEF CronKept
  <2>1. NameOf[r] \in Names
    BY ScriptAssumption, TaskFields
  <2>2. \/ scheduled[NameOf[r]] # NoEntry /\ scheduled[NameOf[r]].cron
        \/ handler.at = "erase" /\ handler.row = r
    BY DEF IndInv, CronKept
  <2>3. t \notin looping /\ NameOf[r] = n => ~scheduled[n].cron
    BY <1>3, <1>8 DEF IndInv, EntriesSound
  <2> QED BY <1>5, <1>6, <2>1, <2>2, <2>3
<1> QED BY <1>9, <1>10, <1>11, <1>12, <1>13, <1>14 DEF IndInv

\* What aexec() leaves: some function, or a task that failed.
LEMMA ExecuteFacts ==
  ASSUME IndInv, NEW t \in Tasks, Alive(t), Execute(t)
  PROVE  /\ \E p \in {"exec", "failed"} :
              pc' = [pc EXCEPT ![t] = p] /\ (p = "exec" => code'[t] \in Rows)
         /\ code' \in [Tasks -> Rows \cup {NoRow}]
         /\ \A u \in Tasks : u # t => code'[u] = code[u]
         /\ prepared' \in Rows \cup {NoRow} /\ running' \subseteq Names
         /\ UNCHANGED <<scheduled, looping>>
<1>1. TypeOK /\ t[1] \in Rows /\ NameOfTask(t) \in Names
  BY TaskFields DEF IndInv
<1>2. prepared' \in Rows \cup {NoRow} /\ (prepared' = t[1] \/ t[1] \in Malformed)
  BY <1>1 DEF Execute, Prepare, TypeOK
<1>3. /\ code' \in [Tasks -> Rows \cup {NoRow}] /\ code'[t] = prepared'
      /\ \A u \in Tasks : u # t => code'[u] = code[u]
  BY <1>1, <1>2 DEF Execute, TypeOK
<1>5. running' \subseteq Names
  BY <1>1 DEF Execute, TypeOK
<1>6. \E p \in {"exec", "failed"} :
        pc' = [pc EXCEPT ![t] = p] /\ (p = "exec" => code'[t] \in Rows)
  BY <1>2, <1>3 DEF Execute
<1> QED BY <1>2, <1>3, <1>5, <1>6 DEF Execute

LEMMA CronNextInv ==
  ASSUME IndInv, NEW t \in Tasks, CronNext(t)
  PROVE  IndInv'
<1>1. /\ Alive(t) /\ pc' = [pc EXCEPT ![t] = "find"]
      /\ UNCHANGED <<row, ran, scheduled, running, prepared, found, looping, code, bus,
                     handler, startup, lost, requests, restarts>>
  BY DEF CronNext, TaskFrame, Alive, dbVars, manVars, counters
<1>2. TypeOK
  BY DEF IndInv
<1>3. /\ pc' \in [Tasks -> {"none", "next", "find", "save", "exec", "cancelling",
                            "ended", "failed"}]
      /\ \A u \in Tasks : pc'[u] \in {"save", "exec"} => pc'[u] = pc[u]
  BY <1>1, <1>2 DEF TypeOK
<1>4. TypeOK'
  BY <1>1, <1>2, <1>3 DEF TypeOK
<1> QED BY <1>1, <1>4, TaskInv

LEMMA RecordFindInv ==
  ASSUME IndInv, NEW t \in Tasks, RecordFind(t)
  PROVE  IndInv'
<1>1. /\ Alive(t) /\ TypeOK
      /\ UNCHANGED <<row, ran, bus, handler, startup, lost, requests, restarts>>
  BY DEF IndInv, RecordFind, TaskFrame, Alive, dbVars, counters
<1>2. CASE Stored(NameOfTask(t)) = {}
  <2>1. Execute(t) /\ UNCHANGED found
    BY <1>2 DEF RecordFind
  <2>2. PICK p \in {"exec", "failed"} :
          pc' = [pc EXCEPT ![t] = p] /\ (p = "exec" => code'[t] \in Rows)
    BY <1>1, <2>1, ExecuteFacts
  <2>3. /\ code' \in [Tasks -> Rows \cup {NoRow}]
        /\ \A u \in Tasks : u # t => code'[u] = code[u]
        /\ prepared' \in Rows \cup {NoRow} /\ running' \subseteq Names
        /\ UNCHANGED <<scheduled, looping>>
    BY <1>1, <2>1, ExecuteFacts
  <2>4. /\ pc' \in [Tasks -> {"none", "next", "find", "save", "exec", "cancelling",
                              "ended", "failed"}]
        /\ \A u \in Tasks : /\ pc'[u] = "save" => pc[u] = "save"
                            /\ pc'[u] = "exec" => code'[u] \in Rows
    BY <1>1, <2>2, <2>3 DEF TypeOK
  <2>5. TypeOK'
    BY <1>1, <2>1, <2>3, <2>4 DEF TypeOK
  <2> QED BY <1>1, <2>2, <2>3, <2>5, TaskInv
<1>3. CASE Stored(NameOfTask(t)) # {}
  <2>1. /\ pc' = [pc EXCEPT ![t] = "save"]
        /\ UNCHANGED <<scheduled, running, prepared, looping, code>>
    BY <1>3 DEF RecordFind, manVars
  <2>2. PICK r \in Stored(NameOfTask(t)) : found' = [found EXCEPT ![t] = r]
    BY <1>3 DEF RecordFind
  <2>3. r \in Rows
    BY <2>2 DEF Stored
  <2>4. /\ found' \in [Tasks -> Rows \cup {NoRow}]
        /\ \A u \in Tasks : pc'[u] = "save" => found'[u] \in Rows
        /\ \A u \in Tasks : pc'[u] = "exec" => pc[u] = "exec"
        /\ pc' \in [Tasks -> {"none", "next", "find", "save", "exec", "cancelling",
                              "ended", "failed"}]
    BY <1>1, <2>1, <2>2, <2>3 DEF TypeOK
  <2>5. TypeOK'
    BY <1>1, <2>1, <2>4 DEF TypeOK
  <2> QED BY <1>1, <2>1, <2>5, TaskInv
<1> QED BY <1>2, <1>3

LEMMA RecordSaveInv ==
  ASSUME IndInv, NEW t \in Tasks, RecordSave(t)
  PROVE  IndInv'
<1>1. /\ Alive(t) /\ TypeOK /\ Execute(t)
      /\ ran' = [ran EXCEPT ![found[t]] = TRUE]
      /\ found' = [found EXCEPT ![t] = NoRow]
      /\ UNCHANGED <<row, bus, handler, startup, lost, requests, restarts>>
  BY DEF IndInv, RecordSave, TaskFrame, Alive, counters
<1>2. PICK p \in {"exec", "failed"} :
        pc' = [pc EXCEPT ![t] = p] /\ (p = "exec" => code'[t] \in Rows)
  BY <1>1, ExecuteFacts
<1>3. /\ code' \in [Tasks -> Rows \cup {NoRow}]
      /\ \A u \in Tasks : u # t => code'[u] = code[u]
      /\ prepared' \in Rows \cup {NoRow} /\ running' \subseteq Names
      /\ UNCHANGED <<scheduled, looping>>
  BY <1>1, ExecuteFacts
<1>4. /\ pc' \in [Tasks -> {"none", "next", "find", "save", "exec", "cancelling",
                            "ended", "failed"}]
      /\ found' \in [Tasks -> Rows \cup {NoRow}]
      /\ \A u \in Tasks : /\ pc'[u] = "save" => found'[u] \in Rows
                          /\ pc'[u] = "exec" => code'[u] \in Rows
      /\ ran' \in [Rows -> BOOLEAN]
  BY <1>1, <1>2, <1>3 DEF TypeOK
<1>5. TypeOK'
  BY <1>1, <1>3, <1>4 DEF TypeOK
<1> QED BY <1>1, <1>2, <1>3, <1>5, TaskInv

LEMMA FinishInv ==
  ASSUME IndInv, NEW t \in Tasks, Finish(t)
  PROVE  IndInv'
<1> DEFINE n == NameOfTask(t)
           done == code[t] \notin Overriding /\ n \in running
           ok == /\ done /\ scheduled[n] # NoEntry
                 /\ t \in looping => scheduled[n].cron
           p == CASE ~ok -> "failed" [] ok /\ t \in looping -> "next" [] OTHER -> "ended"
<1>1. /\ Alive(t) /\ TypeOK /\ n \in Names
      /\ code' = [code EXCEPT ![t] = NoRow]
      /\ running' \subseteq running
      /\ UNCHANGED <<row, ran, prepared, found, looping, bus, handler, startup, lost,
                     requests, restarts>>
  BY TaskFields DEF IndInv, Finish, TaskFrame, Alive, dbVars, counters
<1>2. pc' = [pc EXCEPT ![t] = p]
  BY DEF Finish
<1>3. scheduled' = IF ok /\ t \notin looping THEN [scheduled EXCEPT ![n] = NoEntry]
                                             ELSE scheduled
  BY DEF Finish, Finished
<1>4. /\ p \in {"next", "ended", "failed"}
      /\ p = "ended" <=> ok /\ t \notin looping
  <2>1. CASE ~ok /\ t \notin looping
    BY <2>1
  <2>2. CASE ~ok /\ t \in looping
    BY <2>2
  <2>3. CASE ok /\ t \in looping
    BY <2>3
  <2>4. CASE ok /\ t \notin looping
    BY <2>4
  <2> QED BY <2>1, <2>2, <2>3, <2>4
<1> HIDE DEF ok, p, n
<1>5. /\ pc' \in [Tasks -> {"none", "next", "find", "save", "exec", "cancelling",
                            "ended", "failed"}]
      /\ \A u \in Tasks : pc'[u] \in {"save", "exec"} => pc'[u] = pc[u] /\ u # t
      /\ code' \in [Tasks -> Rows \cup {NoRow}] /\ code'[t] = NoRow
      /\ \A u \in Tasks : u # t => code'[u] = code[u]
      /\ scheduled' \in [Names -> Entries \cup {NoEntry}]
  BY <1>1, <1>2, <1>3, <1>4 DEF TypeOK
<1>6. TypeOK'
  BY <1>1, <1>5 DEF TypeOK
<1>8. \/ scheduled' = scheduled /\ p # "ended"
      \/ t \notin looping /\ p = "ended" /\ scheduled' = [scheduled EXCEPT ![n] = NoEntry]
  BY <1>3, <1>4
<1> QED BY <1>1, <1>2, <1>4, <1>6, <1>8, TaskInv DEF n

LEMMA CancelledInv ==
  ASSUME IndInv, NEW t \in Tasks, Cancelled(t)
  PROVE  IndInv'
<1>1. /\ Alive(t) /\ TypeOK /\ pc[t] = "cancelling"
      /\ pc' = [pc EXCEPT ![t] = "ended"]
      /\ found' = [found EXCEPT ![t] = NoRow]
      /\ code' = [code EXCEPT ![t] = NoRow]
      /\ UNCHANGED <<row, ran, scheduled, running, prepared, looping, bus, handler,
                     startup, lost, requests, restarts>>
  BY DEF IndInv, Cancelled, TaskFrame, Alive, dbVars, manVars, counters
<1>2. /\ pc' \in [Tasks -> {"none", "next", "find", "save", "exec", "cancelling",
                            "ended", "failed"}]
      /\ \A u \in Tasks : pc'[u] \in {"save", "exec"} => pc'[u] = pc[u] /\ u # t
      /\ code' \in [Tasks -> Rows \cup {NoRow}] /\ code'[t] = NoRow
      /\ found' \in [Tasks -> Rows \cup {NoRow}]
      /\ \A u \in Tasks : u # t => code'[u] = code[u] /\ found'[u] = found[u]
  BY <1>1 DEF TypeOK
<1>3. TypeOK'
  BY <1>1, <1>2 DEF TypeOK
<1> QED BY <1>1, <1>3, TaskInv

LEMMA StutterInv ==
  ASSUME IndInv, UNCHANGED vars
  PROVE  IndInv'
<1>1. /\ UNCHANGED <<row, ran, scheduled, running, prepared, pc, found, looping, code,
                     handler, bus, startup, requests, restarts>>
      /\ (lost' <=> lost)
  BY DEF vars, dbVars, manVars, taskVars, busVars, counters
<1>2. TypeOK' /\ StoredOnce' /\ CancelInv' /\ EntriesNamed' /\ AliveListed'
  BY <1>1 DEF IndInv, TypeOK, StoredOnce, CancelInv, EntriesNamed, AliveListed, Alive
<1>3. EntriesSound' /\ CronKept'
  BY <1>1 DEF IndInv, EntriesSound, CronKept, Alive
<1>4. HandlerInv'
  <2>1. \A r \in Rows : FreeRuns(r)' = FreeRuns(r)
    BY <1>1 DEF FreeRuns, Alive
  <2>2. Stored(handler.name)' = Stored(handler.name)
    BY <1>1 DEF Stored
  <2> QED BY <1>1, <2>1, <2>2 DEF IndInv, HandlerInv
<1> QED BY <1>2, <1>3, <1>4 DEF IndInv

-----------------------------------------------------------------------------
(* The theorems.                                                           *)

\* The inductive invariant holds in every state: while nothing is lost, a task
\* is alive exactly under the entry of its name.
THEOREM Invariance == Spec => []IndInv
<1>1. Init => IndInv
  BY InitInv
<1>2. IndInv /\ [Next]_vars => IndInv'
  <2> SUFFICES ASSUME IndInv, [Next]_vars PROVE IndInv'
    OBVIOUS
  <2>1. ASSUME NEW r \in Rows, RequestAdd(r) PROVE IndInv'
    <3>1. NameOf[r] \in Names /\ "add" \in Ops
      BY TaskFields DEF Ops
    <3> QED BY <2>1, <3>1, ReceiveInv DEF RequestAdd
  <2>2. ASSUME NEW op \in Ops \ {"add"}, NEW n \in Names, Request(op, n) PROVE IndInv'
    BY <2>2, ReceiveInv DEF Request
  <2>3. CASE StartupFires
    BY <2>3, StartupFiresInv
  <2>4. CASE HandlerStep
    BY <2>4, AddFindInv, AddCreateInv, TriggerFindInv, ReadInv, StartupAllInv,
       DeleteFindInv, DeleteJoinInv, DeleteEraseInv DEF HandlerStep
  <2>5. ASSUME NEW t \in Tasks,
               CronNext(t) \/ RecordFind(t) \/ RecordSave(t) \/ Finish(t) \/ Cancelled(t)
        PROVE  IndInv'
    BY <2>5, CronNextInv, RecordFindInv, RecordSaveInv, FinishInv, CancelledInv
  <2>6. CASE Restart
    BY <2>6, RestartInv
  <2>7. CASE UNCHANGED vars
    BY <2>7, StutterInv
  <2> QED BY <2>1, <2>2, <2>3, <2>4, <2>5, <2>6, <2>7 DEF Next
<1> QED BY <1>1, <1>2, PTL DEF Spec

\* While the manager has lost track of nothing, no two tasks of one name are
\* alive, whatever is added, run, deleted and restarted.
THEOREM NeverNextToItself == Spec => []OneTaskPerName
<1>1. IndInv => OneTaskPerName
  BY DEF IndInv, AliveListed, OneTaskPerName
<1> QED BY <1>1, Invariance, PTL

\* Then every script with a crontab in the database has its cron task.
THEOREM CronIsKept == Spec => []CronScheduled
<1>1. IndInv => CronScheduled
  <2> SUFFICES ASSUME IndInv, Settled, NEW r \in Cron, row[r] = "stored"
               PROVE  LET entry == scheduled[NameOf[r]]
                      IN /\ entry # NoEntry /\ entry.cron /\ entry.task[1] = r
                         /\ Alive(entry.task) \/ pc[entry.task] = "failed"
    BY DEF CronScheduled
  <2>1. r \in Rows /\ NameOf[r] \in Names /\ TypeOK /\ handler.at = ""
    BY ScriptAssumption, TaskFields, HandlerFields DEF IndInv, Settled
  <2>2. scheduled[NameOf[r]] # NoEntry /\ scheduled[NameOf[r]].cron
    BY <2>1 DEF IndInv, CronKept, Settled
  <2> DEFINE t == scheduled[NameOf[r]].task
  <2>3. t[1] \in Rows /\ NameOf[t[1]] = NameOf[r]
    BY <2>1, <2>2, EntryFields, TaskFields DEF IndInv, NameOfTask
  <2>4. row[t[1]] = "stored" /\ (Alive(t) \/ pc[t] = "failed")
    BY <2>1, <2>2 DEF IndInv, EntriesSound, Settled
  <2>5. t[1] = r
    BY <2>1, <2>3, <2>4 DEF IndInv, StoredOnce
  <2> QED BY <2>2, <2>4, <2>5
<1> QED BY <1>1, Invariance, PTL

-----------------------------------------------------------------------------
(* The event bus that carries the events between the API and the handlers  *)
(* of the daemon, for any clients, kinds of requests and priorities, with  *)
(* and without timeouts.  First, facts about its events.                   *)

\* The fields of an event.
LEMMA BusEventFields ==
  ASSUME NEW e \in Events
  PROVE  /\ e.what \in {"ask", "reply"} /\ e.from \in Clients
         /\ e.nr \in 1 .. MaxRounds[e.from] /\ e.nr \in Nat
         /\ e # NoEvent
<1>1. PICK c \in Clients : e \in [what: {"ask", "reply"}, from: {c}, nr: 1 .. MaxRounds[c]]
  BY DEF Events
<1>2. MaxRounds[c] \in Nat
  BY BusAssumption
<1>3. e.what \in {"ask", "reply"} /\ e.from = c /\ e.nr \in 1 .. MaxRounds[c]
  BY <1>1
<1>4. e # NoEvent
  BY <1>3 DEF NoEvent
<1> QED BY <1>2, <1>3, <1>4

\* A request's event is one, and so is the reply to it, which has its number.
LEMMA BusAskAndReply ==
  /\ \A c \in Clients : \A n \in 1 .. MaxRounds[c] : Ask(c, n) \in Events
  /\ \A e \in Events : /\ ReplyTo(e) \in Events
                       /\ ReplyTo(e).what = "reply"
                       /\ ReplyTo(e).from = e.from /\ ReplyTo(e).nr = e.nr
<1>1. ASSUME NEW c \in Clients, NEW n \in 1 .. MaxRounds[c]
      PROVE  Ask(c, n) \in Events
  <2>1. Ask(c, n) \in [what: {"ask", "reply"}, from: {c}, nr: 1 .. MaxRounds[c]]
    BY DEF Ask
  <2> QED BY <2>1 DEF Events
<1>2. ASSUME NEW e \in Events
      PROVE  /\ ReplyTo(e) \in Events /\ ReplyTo(e).what = "reply"
             /\ ReplyTo(e).from = e.from /\ ReplyTo(e).nr = e.nr
  <2>1. PICK c \in Clients : e \in [what: {"ask", "reply"}, from: {c}, nr: 1 .. MaxRounds[c]]
    BY DEF Events
  <2>2. /\ ReplyTo(e) \in [what: {"ask", "reply"}, from: {c}, nr: 1 .. MaxRounds[c]]
        /\ ReplyTo(e).what = "reply" /\ ReplyTo(e).from = e.from /\ ReplyTo(e).nr = e.nr
    BY <2>1 DEF ReplyTo
  <2> QED BY <2>2 DEF Events
<1> QED BY <1>1, <1>2

-----------------------------------------------------------------------------
(* The steps.                                                              *)

LEMMA BusInitInv ==
  ASSUME BusInit
  PROVE  BusInv
<1>1. BusTypeOK
  BY BusAssumption DEF BusInit, BusTypeOK
<1> QED BY <1>1 DEF BusInit, BusInv, WaitersRegistered, ResultIsFresh, AnswerOfKind

LEMMA BusRequestInv ==
  ASSUME BusInv, NEW c \in Clients, MakeRequest(c)
  PROVE  BusInv'
<1> DEFINE k == KindOf[c]
           a == Ask(c, round[c] + 1)
<1>1. /\ BusTypeOK /\ WaitersRegistered /\ ResultIsFresh /\ AnswerOfKind
      /\ round[c] < MaxRounds[c] /\ k \in Kinds
      /\ round' = [round EXCEPT ![c] = @ + 1]
      /\ fired' = fired \cup {a}
      /\ listeners' = [listeners EXCEPT ![k] = @ \cup {c}]
      /\ client' = [client EXCEPT ![c] = "waiting"]
      /\ fresh' = [fresh EXCEPT ![c] = {}]
      /\ UNCHANGED <<queue, listening, event, callbacks, result, got>>
  BY BusAssumption DEF BusInv, MakeRequest, Listen
<1>2. round[c] \in Nat /\ MaxRounds[c] \in Nat
  BY <1>1, BusAssumption DEF BusTypeOK
<1>3. a \in Events /\ a.from = c /\ a.nr = round[c] + 1
  <2>1. round[c] + 1 \in 1 .. MaxRounds[c]
    BY <1>1, <1>2
  <2> QED BY <2>1, BusAskAndReply DEF Ask
<1>4. \A e \in Events : Made(e) => Made(e)'
  <2> SUFFICES ASSUME NEW e \in Events, e.nr <= round[e.from]
               PROVE  e.nr <= round'[e.from]
    BY DEF Made
  <2>1. e.from \in Clients /\ e.nr \in Nat /\ round[e.from] \in Nat
    BY <1>1, BusEventFields DEF BusTypeOK
  <2> QED BY <1>1, <2>1 DEF BusTypeOK
<1> HIDE DEF a
<1>5. BusTypeOK'
  <2>1. round' \in [Clients -> Nat] /\ \A d \in Clients : round'[d] <= MaxRounds[d]
    BY <1>1, <1>2 DEF BusTypeOK
  <2> QED BY <1>1, <1>3, <2>1 DEF BusTypeOK
<1>6. WaitersRegistered' /\ ResultIsFresh'
  BY <1>1 DEF WaitersRegistered, ResultIsFresh, BusTypeOK
<1>7. AnswerOfKind'
  BY <1>1, <1>4 DEF AnswerOfKind, ReplyOfKind, BusTypeOK
<1>8. \A e \in fired' \cup queue' : Made(e)'
  <2> SUFFICES ASSUME NEW e \in fired \cup {a} \cup queue
               PROVE  e.nr <= round'[e.from]
    BY <1>1 DEF Made
  <2>1. CASE e = a
    BY <1>1, <1>2, <1>3, <2>1 DEF BusTypeOK
  <2>2. CASE e # a
    BY <1>1, <1>4, <2>2 DEF BusInv, BusTypeOK, Made
  <2> QED BY <2>1, <2>2
<1>9. event' # NoEvent => Made(event)'
  BY <1>1, <1>4 DEF BusInv, BusTypeOK, Made
<1>10. \A j \in Kinds : result'[j] # NoEvent => ReplyOfKind(result[j], j)'
  BY <1>1, <1>4 DEF BusInv, ReplyOfKind, BusTypeOK, Made
<1> QED BY <1>5, <1>6, <1>7, <1>8, <1>9, <1>10 DEF BusInv

\* A waiter's task resumes, or gives up waiting.
LEMMA BusReturnInv ==
  ASSUME BusInv, NEW c \in Clients, ListenReturns(c) \/ TimeOut(c)
  PROVE  BusInv'
<1>1. /\ BusTypeOK /\ WaitersRegistered /\ ResultIsFresh /\ AnswerOfKind
      /\ UNCHANGED <<fired, queue, listening, event, callbacks, listeners, result,
                     round, fresh>>
      /\ client' \in {[client EXCEPT ![c] = "idle"], [client EXCEPT ![c] = "timedout"]}
      /\ got' \in {[got EXCEPT ![c] = result[KindOf[c]]], [got EXCEPT ![c] = NoEvent]}
      /\ KindOf[c] \in Kinds
  BY BusAssumption DEF BusInv, ListenReturns, TimeOut, listenVars
<1>2. BusTypeOK'
  BY <1>1 DEF BusTypeOK
<1>3. WaitersRegistered' /\ ResultIsFresh'
  BY <1>1 DEF WaitersRegistered, ResultIsFresh, BusTypeOK
<1>4. AnswerOfKind'
  BY <1>1 DEF AnswerOfKind, ReplyOfKind, Made, BusInv, BusTypeOK
<1> QED BY <1>1, <1>2, <1>3, <1>4 DEF BusInv, Made, ReplyOfKind

LEMMA BusFireInv ==
  ASSUME BusInv, NEW e \in fired, Fire(e)
  PROVE  BusInv'
<1>1. /\ BusTypeOK
      /\ fired' = fired \ {e} /\ queue' = queue \cup {e}
      /\ UNCHANGED <<listening, event, callbacks, listeners, result, client, round, got, fresh>>
  BY DEF BusInv, Fire, Put, listenVars, clientVars
<1>2. BusTypeOK'
  BY <1>1 DEF BusTypeOK
<1>3. WaitersRegistered' /\ ResultIsFresh' /\ AnswerOfKind'
  BY <1>1 DEF BusInv, WaitersRegistered, ResultIsFresh, AnswerOfKind, ReplyOfKind, Made
<1> QED BY <1>1, <1>2, <1>3 DEF BusInv, Made, ReplyOfKind

\* A reply wakes the clients that wait for its type, all of them and no other,
\* and it is new to each of them.
LEMMA BusDispatchInv ==
  ASSUME BusInv, NEW e \in queue, Dispatch(e)
  PROVE  BusInv'
<1> DEFINE k == KindOf[e.from]
<1>1. /\ BusTypeOK /\ WaitersRegistered /\ ResultIsFresh /\ AnswerOfKind
      /\ queue' = queue \ {e}
      /\ listening' = "gather" /\ event' = e /\ callbacks' = Subscribers(e)
      /\ UNCHANGED <<fired, round, got>> /\ Made(e)
  BY DEF BusInv, Dispatch
<1>2. e \in Events /\ e # NoEvent /\ k \in Kinds
  BY <1>1, BusEventFields, BusAssumption DEF BusTypeOK
<1>3. AnswerOfKind' /\ (\A f \in fired' \cup queue' : Made(f)')
      /\ (event' # NoEvent => Made(event)')
  BY <1>1 DEF AnswerOfKind, ReplyOfKind, Made, BusInv
<1>4. CASE e.what = "reply" /\ listeners[k] # {}
  <2>1. /\ listeners' = [listeners EXCEPT ![k] = {}]
        /\ result' = [result EXCEPT ![k] = e]
        /\ client' = [c \in Clients |->
                        IF c \in listeners[k] /\ client[c] = "waiting"
                        THEN "woken" ELSE client[c]]
        /\ fresh' = [c \in Clients |-> IF KindOf[c] = k THEN fresh[c] \cup {e}
                                                        ELSE fresh[c]]
    BY <1>4 DEF Dispatch, Wake
  <2> HIDE DEF k
  <2>2. BusTypeOK'
    <3>1. listeners' \in [Kinds -> SUBSET Clients] /\ result' \in [Kinds -> Events \cup {NoEvent}]
      BY <1>1, <1>2, <2>1 DEF BusTypeOK
    <3>2. client' \in [Clients -> {"idle", "waiting", "woken", "timedout"}]
      BY <1>1, <2>1 DEF BusTypeOK
    <3>3. fresh' \in [Clients -> SUBSET Events]
      BY <1>1, <1>2, <2>1 DEF BusTypeOK
    <3> QED BY <1>1, <1>2, <3>1, <3>2, <3>3 DEF BusTypeOK
  <2>3. WaitersRegistered'
    BY <1>1, <1>2, <2>1, BusAssumption DEF WaitersRegistered, BusTypeOK
  <2>4. ResultIsFresh'
    BY <1>1, <1>2, <2>1, BusAssumption DEF ResultIsFresh, WaitersRegistered, BusTypeOK
  <2>5. \A j \in Kinds : result'[j] # NoEvent => ReplyOfKind(result[j], j)'
    <3> SUFFICES ASSUME NEW j \in Kinds, result'[j] # NoEvent
                 PROVE  /\ result'[j].what = "reply" /\ KindOf[result'[j].from] = j
                        /\ result'[j].nr <= round[result'[j].from]
      BY <1>1 DEF ReplyOfKind, Made
    <3>1. CASE j = k
      <4>1. result'[j] = e
        BY <1>1, <2>1, <3>1 DEF BusTypeOK
      <4> QED BY <1>1, <1>4, <3>1, <4>1 DEF Made, k
    <3>2. CASE j # k
      <4>1. result'[j] = result[j]
        BY <1>1, <2>1, <3>2 DEF BusTypeOK
      <4> QED BY <4>1 DEF BusInv, ReplyOfKind, Made
    <3> QED BY <3>1, <3>2
  <2> QED BY <1>3, <2>2, <2>3, <2>4, <2>5 DEF BusInv
<1>5. CASE ~(e.what = "reply" /\ listeners[k] # {})
  <2>1. UNCHANGED <<listeners, result, client, fresh>>
    BY <1>5 DEF Dispatch
  <2>2. BusTypeOK'
    BY <1>1, <1>2, <2>1 DEF BusTypeOK
  <2>3. WaitersRegistered' /\ ResultIsFresh'
    BY <1>1, <2>1 DEF WaitersRegistered, ResultIsFresh
  <2>4. \A j \in Kinds : result'[j] # NoEvent => ReplyOfKind(result[j], j)'
    BY <1>1, <2>1 DEF BusInv, ReplyOfKind, Made
  <2> QED BY <1>3, <2>2, <2>3, <2>4 DEF BusInv
<1> QED BY <1>4, <1>5

\* The handler of a trigger has the event of a request, which it answers.
LEMMA BusHandleInv ==
  ASSUME BusInv, Handle
  PROVE  BusInv'
<1>1. /\ BusTypeOK /\ "handler" \in callbacks
      /\ callbacks' = callbacks \ {"handler"}
      /\ fired' = fired \cup {ReplyTo(event)}
      /\ UNCHANGED <<queue, listening, event, listeners, result, client, round, got, fresh>>
  BY DEF BusInv, Handle, clientVars
<1>2. event \in Events /\ event # NoEvent /\ Made(event)
  BY <1>1, BusEventFields DEF BusTypeOK, BusInv
<1>3. ReplyTo(event) \in Events /\ Made(ReplyTo(event))
  BY <1>2, BusAskAndReply DEF Made
<1>4. BusTypeOK'
  BY <1>1, <1>3 DEF BusTypeOK
<1>5. WaitersRegistered' /\ ResultIsFresh' /\ AnswerOfKind'
  BY <1>1 DEF BusInv, WaitersRegistered, ResultIsFresh, AnswerOfKind, ReplyOfKind, Made
<1>6. \A e \in fired' \cup queue' : Made(e)'
  BY <1>1, <1>3 DEF BusInv, Made
<1> QED BY <1>1, <1>4, <1>5, <1>6 DEF BusInv, Made, ReplyOfKind

\* A callback ends, or all have.
LEMMA BusCallbackInv ==
  ASSUME BusInv, HandlerRaises \/ Propagate \/ Gathered
  PROVE  BusInv'
<1>1. /\ BusTypeOK
      /\ UNCHANGED <<fired, queue, listeners, result, client, round, got, fresh>>
      /\ event' \in {event, NoEvent}
  BY DEF BusInv, HandlerRaises, Propagate, Gathered, clientVars
<1>2. BusTypeOK'
  <2>1. CASE HandlerRaises \/ Propagate
    BY <1>1, <2>1 DEF BusTypeOK, HandlerRaises, Die, Propagate
  <2>2. CASE Gathered
    BY <1>1, <2>2 DEF BusTypeOK, Gathered
  <2> QED BY <2>1, <2>2
<1>3. WaitersRegistered' /\ ResultIsFresh' /\ AnswerOfKind'
  BY <1>1 DEF BusInv, WaitersRegistered, ResultIsFresh, AnswerOfKind, ReplyOfKind, Made
<1> QED BY <1>1, <1>2, <1>3 DEF BusInv, Made, ReplyOfKind

LEMMA BusNextInv ==
  ASSUME BusInv, [BusNext]_allVars
  PROVE  BusInv'
<1>1. CASE UNCHANGED allVars
  <2>1. BusTypeOK'
    BY <1>1 DEF BusInv, BusTypeOK, allVars, listenVars, clientVars
  <2> QED BY <1>1, <2>1 DEF BusInv, WaitersRegistered, ResultIsFresh, AnswerOfKind,
          ReplyOfKind, Made, allVars, listenVars, clientVars
<1>2. CASE BusNext
  BY <1>2, BusRequestInv, BusReturnInv, BusFireInv, BusDispatchInv, BusHandleInv,
     BusCallbackInv DEF BusNext
<1> QED BY <1>1, <1>2

-----------------------------------------------------------------------------
(* The theorems.                                                           *)

\* The inductive invariant.
THEOREM BusInvariance ==
  BusSpec => []BusInv
<1>1. BusInit => BusInv
  BY BusInitInv
<1>2. BusInv /\ [BusNext]_allVars => BusInv'
  BY BusNextInv
<1> QED BY <1>1, <1>2, PTL DEF BusSpec

\* The Event that the listeners of a type share loses none of them, however
\* they come, go and time out.
THEOREM WaitersAreRegistered ==
  BusSpec => []WaitersRegistered
<1>1. BusInv => WaitersRegistered
  BY DEF BusInv
<1> QED BY <1>1, BusInvariance, PTL

\* listen_for_result() returns what was dispatched since it was called, and
\* never the result that the bus remembers from before.
THEOREM ResultsAreFresh ==
  BusSpec => []ResultIsFresh
<1>1. BusInv => ResultIsFresh
  BY DEF BusInv
<1> QED BY <1>1, BusInvariance, PTL

\* What a request gets is a reply of its type, to a request that was made.
THEOREM AnswersAreOfKind ==
  BusSpec => []AnswerOfKind
<1>1. BusInv => AnswerOfKind
  BY DEF BusInv
<1> QED BY <1>1, BusInvariance, PTL
=============================================================================
