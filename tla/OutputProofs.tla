---------------------------- MODULE OutputProofs ----------------------------
(***************************************************************************)
(* Theorems about Output, for any devices, handlers, threads and           *)
(* configurations.  There is one lemma for each action that changes the    *)
(* devices or holds the mutex; the others keep all that the invariant is   *)
(* about but the place of one thread.                                      *)
(***************************************************************************)
EXTENDS Output, WellFoundedInduction, TLAPS

-----------------------------------------------------------------------------
(* Facts about the data.                                                   *)

\* The numbers are well ordered, from the theorem that < is well founded.
LEMMA NatWellOrdered ==
  ASSUME NEW S, S \subseteq Nat, S # {}
  PROVE  \E m \in S : \A n \in S : m <= n
<1> DEFINE R == OpToRel(<, Nat)
<1>1. IsWellFoundedOn(R, Nat)
  BY NatLessThanWellFounded
<1>2. R = {ss \in Nat \X Nat : ss[1] < ss[2]}
  BY DEF OpToRel
<1> HIDE DEF R
<1>3. \E m \in S : \A n \in S : ~(<<n, m>> \in R)
  BY <1>1, WFMin
<1>4. \A m, n \in Nat : <<n, m>> \in R <=> n < m
  BY <1>2
<1>5. PICK m \in S : \A n \in S : ~(<<n, m>> \in R)
  BY <1>3
<1>6. \A n \in S : ~(n < m)
  BY <1>4, <1>5
<1>7. \A n \in S : m <= n
  BY <1>6, SMT
<1> QED BY <1>7

\* switch_to_next_device() finds a device that is not bad, if there is one.
LEMMA NextDeviceFacts ==
  ASSUME NEW badIds
  PROVE  IF Listed \subseteq badIds THEN NextDevice(badIds) = NoId
                                    ELSE NextDevice(badIds) \in Listed \ badIds
<1> DEFINE S == Listed \ badIds
<1>1. CASE Listed \subseteq badIds
  BY <1>1 DEF NextDevice
<1>2. CASE ~(Listed \subseteq badIds)
  <2>1. S \subseteq Nat /\ S # {}
    BY <1>2, OutputAssumption DEF Listed
  <2>2. \E m \in S : \A n \in S : m <= n
    BY <2>1, NatWellOrdered
  <2> HIDE DEF S
  <2>3. Min(S) \in S
    BY <2>2 DEF Min
  <2> QED BY <1>2, <2>3 DEF NextDevice, S
<1> QED BY <1>1, <1>2

\* Switching to a device that is listed makes it the only one that is marked.
LEMMA SwitchFacts ==
  ASSUME ActiveSound, active # NoId => active \in Ids, NEW i \in Ids, NEW ids,
         SwitchTo(i, ids)
  PROVE  /\ i \in ids => active' = i /\ flagged' = {i}
         /\ i \notin ids => active' = active /\ flagged' = flagged
         /\ active' \in {i, active}
  BY OutputAssumption DEF SwitchTo, ActiveSound

\* A device that is added has a handler, and is active if it is the first.
LEMMA InsertFacts ==
  ASSUME TypeOK, ActiveSound, ActiveIsListed, NEW i \in Ids, NEW h \in Handlers,
         InsertDevice(i, h)
  PROVE  /\ devices' \in [Ids -> Handlers \cup {None}]
         /\ active' \in Listed'
         /\ active' = (IF active = NoId THEN i ELSE active)
         /\ flagged' = {active'}
<1>1. devices' = [devices EXCEPT ![i] = h] /\ h # None
  BY OutputAssumption DEF InsertDevice
<1>2. CASE active = NoId
  <2>1. active' = i /\ flagged' = {i}
    BY <1>2, OutputAssumption DEF InsertDevice, SwitchTo, ActiveSound
  <2> QED BY <1>1, <1>2, <2>1 DEF TypeOK, Listed
<1>3. CASE active # NoId
  <2>1. active' = active /\ flagged' = {active}
    BY <1>3 DEF InsertDevice, ActiveSound
  <2> QED BY <1>1, <1>3, <2>1 DEF TypeOK, Listed, ActiveIsListed
<1> QED BY <1>2, <1>3

\* The handler of a key, when there is one, is a handler.
LEMMA HandlerOfKey ==
  ASSUME TypeOK, NEW k, RegisteredAs(k) # {}
  PROVE  (CHOOSE h \in RegisteredAs(k) : TRUE) \in Handlers
  BY DEF TypeOK, RegisteredAs

-----------------------------------------------------------------------------
(* The parts of the invariant, one by one.                                 *)

\* A thread that moves while no other one has the mutex disturbs no call but
\* its own.
LEMMA CallsKept ==
  ASSUME IndInv, NEW t \in Threads, mutex \in {None, t}, phase' = phase,
         NEW l, NEW c, pc' = [pc EXCEPT ![t] = l], call'[t] = c,
         \A u \in Threads \ {t} : pc[u] = "added" \/ call'[u] = call[u],
         l # "idle" => Up,
         l \in {"print", "switch"} => mutex' = t,
         l = "print" => c.id = active' /\ active' # NoId,
         l = "lock" /\ c.op \in {"add", "remove", "switch"} => c.id \in Ids
  PROVE  CallsInv'
<1> SUFFICES ASSUME NEW u \in Threads
             PROVE  /\ pc'[u] # "idle" => Up' \/ phase' = "crashed"
                    /\ pc'[u] \in {"print", "switch"} => mutex' = u
                    /\ pc'[u] = "print" => call'[u].id = active' /\ active' # NoId
                    /\ pc'[u] = "lock" /\ call'[u].op \in {"add", "remove", "switch"}
                         => call'[u].id \in Ids
  BY DEF CallsInv
<1>1. TypeOK /\ CallsInv /\ Up' = Up
  BY DEF IndInv, Up
<1>2. CASE u = t
  <2>1. pc'[u] = l /\ call'[u] = c
    BY <1>1, <1>2 DEF TypeOK
  <2> QED BY <1>1, <1>2, <2>1
<1>3. CASE u # t
  <2>1. pc'[u] = pc[u] /\ (pc[u] = "added" \/ call'[u] = call[u])
    BY <1>1, <1>3 DEF TypeOK
  <2>2. pc[u] \notin {"print", "switch"}
    BY <1>1, <1>3, OutputAssumption DEF CallsInv
  <2> QED BY <1>1, <2>1, <2>2 DEF CallsInv
<1> QED BY <1>2, <1>3

\* What it means that only the call of t changes.
LEMMA OneCall ==
  ASSUME TypeOK, NEW t \in Threads, NEW c, call' = [call EXCEPT ![t] = c]
  PROVE  /\ call'[t] = c
         /\ \A u \in Threads \ {t} : pc[u] = "added" \/ call'[u] = call[u]
  BY DEF TypeOK

\* Head and tail of a sequence.
LEMMA HeadTail ==
  ASSUME NEW S, NEW s \in Seq(S), s # <<>>
  PROVE  Head(s) \in S /\ Tail(s) \in Seq(S)
  OBVIOUS

\* The record of no call has its type.
LEMMA NoCallType ==
  NoCall \in CallRecords
  BY DEF NoCall, CallRecords

-----------------------------------------------------------------------------
(* The steps.                                                              *)

LEMMA InitInv ==
  ASSUME Init
  PROVE  IndInv
<1>1. config \in Seq([id : Ids, key : Keys])
  BY OutputAssumption DEF Init
<1>2. TypeOK
  BY <1>1, NoCallType, OutputAssumption DEF Init, TypeOK
<1>3. ActiveSound /\ ActiveIsListed /\ CallsInv
  BY DEF Init, ActiveSound, ActiveIsListed, CallsInv, Up
<1> QED BY <1>2, <1>3 DEF IndInv

LEMMA ConfigureInv ==
  ASSUME IndInv, Configure
  PROVE  IndInv'
<1> DEFINE e == Head(config)
<1>1. /\ TypeOK /\ ActiveSound /\ ActiveIsListed /\ CallsInv /\ phase = "init"
      /\ \A t \in Threads : pc[t] = "idle"
      /\ UNCHANGED <<mutex, handlers, disposed, pc, call, bad>>
  BY DEF IndInv, CallsInv, Up, Configure, threadVars
<1>2. e.id \in Ids /\ config' \in Seq([id : Ids, key : Keys])
  <2>1. config \in Seq([id : Ids, key : Keys]) /\ config # <<>>
    BY DEF IndInv, TypeOK, Configure
  <2>2. e \in [id : Ids, key : Keys]
    BY <2>1, HeadTail
  <2>3. config' \in Seq([id : Ids, key : Keys])
    BY <2>1, HeadTail DEF Configure
  <2> QED BY <2>2, <2>3
<1>3. CASE UNCHANGED deviceVars /\ phase' \in {"failed", "crashed"}
  <2>1. TypeOK'
    BY <1>1, <1>2, <1>3 DEF TypeOK, deviceVars
  <2>2. ActiveSound' /\ ActiveIsListed'
    BY <1>1, <1>3 DEF ActiveSound, ActiveIsListed, Up, Listed, deviceVars
  <2>3. CallsInv'
    BY <1>1 DEF CallsInv
  <2> QED BY <2>1, <2>2, <2>3 DEF IndInv
<1>4. CASE /\ MayAdd(e.id, e.key) /\ phase' = phase
           /\ InsertDevice(e.id, CHOOSE h \in RegisteredAs(e.key) : TRUE)
  <2>1. (CHOOSE h \in RegisteredAs(e.key) : TRUE) \in Handlers
    BY <1>1, <1>4, HandlerOfKey DEF MayAdd
  <2>2. /\ devices' \in [Ids -> Handlers \cup {None}]
        /\ active' \in Listed' /\ flagged' = {active'}
    BY <1>1, <1>2, <1>4, <2>1, InsertFacts
  <2>3. active' \in Ids /\ active' # NoId
    BY <2>2, OutputAssumption DEF Listed
  <2>4. TypeOK'
    BY <1>1, <1>2, <1>4, <2>2, <2>3 DEF TypeOK
  <2>5. ActiveSound' /\ ActiveIsListed'
    BY <2>2, <2>3 DEF ActiveSound, ActiveIsListed
  <2>6. CallsInv'
    BY <1>1 DEF CallsInv
  <2> QED BY <2>4, <2>5, <2>6 DEF IndInv
<1> QED BY <1>3, <1>4 DEF Configure

\* init() returns, the status leaves RUNNING, or the module is quit: no call is
\* under way, or nothing changes that one depends on.
LEMMA PhaseInv ==
  ASSUME IndInv, InitReturns \/ Stop \/ Quit
  PROVE  IndInv'
<1>1. TypeOK /\ ActiveSound /\ ActiveIsListed /\ CallsInv
  BY DEF IndInv
<1>2. CASE InitReturns
  <2>1. TypeOK'
    BY <1>1, <1>2 DEF TypeOK, InitReturns, Started, deviceVars, threadVars
  <2>2. ActiveSound' /\ ActiveIsListed'
    BY <1>1, <1>2 DEF ActiveSound, ActiveIsListed, InitReturns, Started, Up,
       Listed, deviceVars
  <2>3. CallsInv'
    BY <1>1, <1>2 DEF CallsInv, InitReturns, Up, threadVars
  <2> QED BY <2>1, <2>2, <2>3 DEF IndInv
<1>3. CASE Stop
  <2>1. TypeOK'
    BY <1>1, <1>3 DEF TypeOK, Stop, deviceVars, threadVars
  <2>2. ActiveSound' /\ ActiveIsListed'
    BY <1>1, <1>3 DEF ActiveSound, ActiveIsListed, Stop, Up, Listed, deviceVars
  <2>3. CallsInv'
    BY <1>1, <1>3 DEF CallsInv, Stop, Up, deviceVars, threadVars
  <2> QED BY <2>1, <2>2, <2>3 DEF IndInv
<1>4. CASE Quit
  <2>1. TypeOK'
    BY <1>1, <1>4, OutputAssumption DEF TypeOK, Quit, threadVars
  <2>2. ActiveSound' /\ ActiveIsListed'
    BY <1>4 DEF ActiveSound, ActiveIsListed, Quit, Up
  <2>3. CallsInv'
    BY <1>4 DEF CallsInv, Quit, threadVars
  <2> QED BY <2>1, <2>2, <2>3 DEF IndInv
<1> QED BY <1>2, <1>3, <1>4

\* A step that leaves devices, mutex and phase alone, and moves t only.
LEMMA CallsOnlyInv ==
  ASSUME IndInv, NEW t \in Threads, UNCHANGED <<phase, config, mutex, deviceVars>>,
         handlers' \subseteq Handlers, disposed' \subseteq Handlers,
         TypeOK', CallsInv'
  PROVE  IndInv'
<1>1. ActiveSound' /\ ActiveIsListed'
  BY DEF IndInv, ActiveSound, ActiveIsListed, Up, Listed, deviceVars
<1> QED BY <1>1 DEF IndInv

\* A thread enters the module and comes to the lock.
LEMMA RequestInv ==
  ASSUME IndInv, NEW t \in Threads,
         NEW c \in CallRecords,
         c.op \in {"add", "remove", "switch"} => c.id \in Ids,
         Request(t, c)
  PROVE  IndInv'
<1>1. TypeOK /\ CallsInv /\ Up
  BY DEF IndInv, Request, Up
<1>2. /\ UNCHANGED <<phase, config, mutex, deviceVars, handlers, disposed, bad>>
      /\ pc' = [pc EXCEPT ![t] = "lock"] /\ call' = [call EXCEPT ![t] = c]
  BY DEF Request, Goto
<1>3. TypeOK'
  BY <1>1, <1>2 DEF TypeOK, deviceVars
<1>4. CallsInv'
  <2> SUFFICES ASSUME NEW u \in Threads
               PROVE  /\ pc'[u] # "idle" => Up' \/ phase' = "crashed"
                      /\ pc'[u] \in {"print", "switch"} => mutex' = u
                      /\ pc'[u] = "print" => call'[u].id = active' /\ active' # NoId
                      /\ pc'[u] = "lock" /\ call'[u].op \in {"add", "remove", "switch"}
                           => call'[u].id \in Ids
    BY DEF CallsInv
  <2>1. Up' = Up /\ active' = active /\ mutex' = mutex
    BY <1>2 DEF Up, deviceVars
  <2>2. CASE u = t
    BY <1>1, <1>2, <2>1, <2>2 DEF TypeOK
  <2>3. CASE u # t
    <3>1. pc'[u] = pc[u] /\ call'[u] = call[u]
      BY <1>1, <1>2, <2>3 DEF TypeOK
    <3> QED BY <1>1, <2>1, <3>1 DEF CallsInv
  <2> QED BY <2>2, <2>3
<1> QED BY <1>1, <1>2, <1>3, <1>4, CallsOnlyInv DEF TypeOK

\* The calls, and register_handler(), which takes no lock.
LEMMA CallsStep ==
  ASSUME IndInv, NEW t \in Threads, Calls(t)
  PROVE  IndInv'
<1>1. CASE CallWrite(t)
  <2> DEFINE c == [NoCall EXCEPT !.op = "write"]
  <2>1. Request(t, c)
    BY <1>1 DEF CallWrite
  <2>2. c \in CallRecords /\ (c.op \in {"add", "remove", "switch"} => c.id \in Ids)
    BY DEF NoCall, CallRecords, Ops
  <2> HIDE DEF c
  <2> QED BY <2>1, <2>2, RequestInv
<1>2. CASE CallAsk(t)
  <2> DEFINE c == [NoCall EXCEPT !.op = "ask"]
  <2>1. Request(t, c)
    BY <1>2 DEF CallAsk
  <2>2. c \in CallRecords /\ (c.op \in {"add", "remove", "switch"} => c.id \in Ids)
    BY DEF NoCall, CallRecords, Ops
  <2> HIDE DEF c
  <2> QED BY <2>1, <2>2, RequestInv
<1>3. ASSUME NEW i \in Ids, CallOnDevice(t, "remove", i)
      PROVE  IndInv'
  <2> DEFINE c == [NoCall EXCEPT !.op = "remove", !.id = i]
  <2>1. Request(t, c)
    BY <1>3 DEF CallOnDevice
  <2>2. c \in CallRecords /\ (c.op \in {"add", "remove", "switch"} => c.id \in Ids)
    BY DEF NoCall, CallRecords, Ops
  <2> HIDE DEF c
  <2> QED BY <2>1, <2>2, RequestInv
<1>4. ASSUME NEW i \in Ids, CallOnDevice(t, "switch", i)
      PROVE  IndInv'
  <2> DEFINE c == [NoCall EXCEPT !.op = "switch", !.id = i]
  <2>1. Request(t, c)
    BY <1>4 DEF CallOnDevice
  <2>2. c \in CallRecords /\ (c.op \in {"add", "remove", "switch"} => c.id \in Ids)
    BY DEF NoCall, CallRecords, Ops
  <2> HIDE DEF c
  <2> QED BY <2>1, <2>2, RequestInv
<1>5. ASSUME NEW i \in Ids, NEW k \in Keys, CallAdd(t, i, k)
      PROVE  IndInv'
  <2> DEFINE c == [NoCall EXCEPT !.op = "add", !.id = i, !.key = k]
  <2>1. Request(t, c)
    BY <1>5 DEF CallAdd
  <2>2. c \in CallRecords /\ (c.op \in {"add", "remove", "switch"} => c.id \in Ids)
    BY DEF NoCall, CallRecords, Ops
  <2> HIDE DEF c
  <2> QED BY <2>1, <2>2, RequestInv
<1>6. ASSUME NEW h \in Handlers, CallUnregister(t, h)
      PROVE  IndInv'
  <2> DEFINE c == [NoCall EXCEPT !.op = "unregister", !.handler = h]
  <2>1. Request(t, c)
    BY <1>6 DEF CallUnregister
  <2>2. c \in CallRecords /\ (c.op \in {"add", "remove", "switch"} => c.id \in Ids)
    BY DEF NoCall, CallRecords, Ops
  <2> HIDE DEF c
  <2> QED BY <2>1, <2>2, RequestInv
<1>7. ASSUME NEW h \in Handlers, Register(t, h)
      PROVE  IndInv'
  <2>1. TypeOK'
    BY <1>7 DEF IndInv, TypeOK, Register, deviceVars, threadVars
  <2>2. CallsInv'
    BY <1>7 DEF IndInv, CallsInv, Register, Up, deviceVars, threadVars
  <2> QED BY <1>7, <2>1, <2>2, CallsOnlyInv DEF Register, TypeOK
<1> QED BY <1>1, <1>2, <1>3, <1>4, <1>5, <1>6, <1>7 DEF Calls

LEMMA DisposeInv ==
  ASSUME IndInv, NEW h \in Handlers, DisposeHandler(h)
  PROVE  IndInv'
<1>1. TypeOK'
  BY DEF IndInv, TypeOK, DisposeHandler, deviceVars, threadVars
<1>2. CallsInv'
  BY DEF IndInv, CallsInv, DisposeHandler, Up, deviceVars, threadVars
<1>3. ActiveSound' /\ ActiveIsListed'
  BY DEF DisposeHandler, IndInv, ActiveSound, ActiveIsListed, Up, Listed, deviceVars
<1> QED BY <1>1, <1>2, <1>3 DEF IndInv

\* A thread that returns, with the devices as they are.
LEMMA ReturnInv ==
  ASSUME IndInv, NEW t \in Threads, mutex \in {None, t}, pc[t] # "idle", Return(t),
         UNCHANGED <<phase, config, deviceVars, disposed>>,
         handlers' \subseteq handlers, bad' \in [Threads -> SUBSET Ids]
  PROVE  IndInv'
<1>1. TypeOK'
  BY NoCallType DEF IndInv, TypeOK, Return, Goto, deviceVars
<1>2. CallsInv'
  <2>1. TypeOK /\ pc' = [pc EXCEPT ![t] = "idle"] /\ call' = [call EXCEPT ![t] = NoCall]
    BY DEF IndInv, Return, Goto
  <2> QED BY <2>1, OneCall, CallsKept
<1>3. ActiveSound' /\ ActiveIsListed'
  BY DEF IndInv, ActiveSound, ActiveIsListed, Up, Listed, deviceVars
<1> QED BY <1>1, <1>2, <1>3 DEF IndInv

LEMMA BeginPrintInv ==
  ASSUME IndInv, NEW t \in Threads, Up, BeginPrint(t)
  PROVE  IndInv'
<1> DEFINE c == [call[t] EXCEPT !.id = active]
<1>1. /\ TypeOK /\ ActiveSound /\ ActiveIsListed /\ CallsInv /\ pc[t] = "lock"
      /\ mutex = None /\ mutex' = t
      /\ pc' = [pc EXCEPT ![t] = "print"] /\ call' = [call EXCEPT ![t] = c]
      /\ UNCHANGED <<phase, config, handlers, disposed, devices, active, flagged, bad>>
  BY DEF IndInv, BeginPrint, Locks, Goto, deviceVars
<1>2. c \in CallRecords /\ c.id = active
  BY <1>1 DEF TypeOK, CallRecords
<1>3. TypeOK'
  BY <1>1, <1>2 DEF TypeOK
<1>4. ActiveSound' /\ ActiveIsListed'
  BY <1>1 DEF ActiveSound, ActiveIsListed, Up, Listed
<1> HIDE DEF c
<1>6. CallsInv'
  <2>1. active' # NoId
    BY <1>1 DEF ActiveIsListed
  <2> QED BY <1>1, <1>2, <2>1, OneCall, CallsKept
<1> QED BY <1>3, <1>4, <1>6 DEF IndInv

LEMMA AddDeviceInv ==
  ASSUME IndInv, NEW t \in Threads, Up, AddDevice(t)
  PROVE  IndInv'
<1> DEFINE c == call[t]
           h == CHOOSE x \in RegisteredAs(c.key) : TRUE
<1>1. /\ TypeOK /\ ActiveSound /\ ActiveIsListed /\ CallsInv /\ mutex = None
      /\ pc[t] = "lock" /\ c.op = "add"
      /\ UNCHANGED <<phase, config, handlers, disposed, bad>>
  BY DEF IndInv, AddDevice, Locks
<1>2. c.id \in Ids /\ Up /\ c \in CallRecords
  BY <1>1 DEF CallsInv, TypeOK
<1>3. CASE MayAdd(c.id, c.key)
  <2>1. /\ InsertDevice(c.id, h) /\ UNCHANGED <<call, mutex>>
        /\ pc' = [pc EXCEPT ![t] = "added"]
    BY <1>3 DEF AddDevice, Goto
  <2>2. h \in Handlers
    BY <1>1, <1>3, HandlerOfKey DEF MayAdd
  <2>3. /\ devices' \in [Ids -> Handlers \cup {None}]
        /\ active' \in Listed' /\ flagged' = {active'}
    BY <1>1, <1>2, <2>1, <2>2, InsertFacts
  <2>4. active' \in Ids /\ active' # NoId
    BY <2>3, OutputAssumption DEF Listed
  <2>5. TypeOK'
    BY <1>1, <2>1, <2>3, <2>4 DEF TypeOK
  <2>6. ActiveSound' /\ ActiveIsListed'
    BY <2>3, <2>4 DEF ActiveSound, ActiveIsListed
  <2>7. call' = [call EXCEPT ![t] = c]
    BY <1>1, <2>1 DEF TypeOK
  <2> HIDE DEF c, h
  <2>8. CallsInv'
    BY <1>1, <1>2, <2>1, <2>7, OneCall, CallsKept
  <2> QED BY <2>5, <2>6, <2>8 DEF IndInv
<1>4. CASE ~MayAdd(c.id, c.key)
  <2>1. Return(t) /\ UNCHANGED deviceVars
    BY <1>4 DEF AddDevice
  <2> QED BY <1>1, <2>1, ReturnInv DEF TypeOK
<1> QED BY <1>3, <1>4

\* The last line of add_device() runs without the mutex, which another thread
\* may have.
LEMMA ReportAddedInv ==
  ASSUME IndInv, NEW t \in Threads, Up, ReportAdded(t)
  PROVE  IndInv'
<1>1. TypeOK'
  BY NoCallType DEF IndInv, TypeOK, ReportAdded, Goto, deviceVars
<1>2. CallsInv'
  BY DEF IndInv, TypeOK, CallsInv, ReportAdded, Goto, Up, deviceVars
<1> QED BY <1>1, <1>2, CallsOnlyInv DEF ReportAdded, IndInv, TypeOK

LEMMA RemoveDeviceInv ==
  ASSUME IndInv, NEW t \in Threads, Up, RemoveDevice(t)
  PROVE  IndInv'
<1> DEFINE i    == call[t].id
           next == NextDevice({i})
<1>1. /\ TypeOK /\ ActiveSound /\ ActiveIsListed /\ CallsInv /\ mutex = None
      /\ pc[t] = "lock" /\ i \in Ids
      /\ UNCHANGED <<phase, config, handlers, disposed, bad>>
  BY DEF IndInv, CallsInv, RemoveDevice, LocksToRemove, Locks
<1>2. CASE devices[i] = None \/ (active = i /\ next = NoId)
  <2>1. UNCHANGED deviceVars /\ Return(t)
    BY <1>2 DEF RemoveDevice
  <2> QED BY <1>1, <2>1, ReturnInv DEF TypeOK
<1>3. CASE ~(devices[i] = None \/ (active = i /\ next = NoId))
  <2>1. /\ devices' = [devices EXCEPT ![i] = None]
        /\ IF active = i THEN SwitchTo(next, Listed) ELSE UNCHANGED <<active, flagged>>
        /\ pc' = [pc EXCEPT ![t] = "idle"] /\ mutex' = None
        /\ call' = [Dangling(i) EXCEPT ![t] = NoCall]
    BY <1>3 DEF RemoveDevice, Goto
  <2>8. /\ call' \in [Threads -> CallRecords] /\ call'[t] = NoCall
        /\ \A u \in Threads \ {t} : pc[u] = "added" \/ call'[u] = call[u]
    <3>1. Dangling(i) \in [Threads -> CallRecords]
      <4> SUFFICES ASSUME NEW u \in Threads PROVE Dangling(i)[u] \in CallRecords
        BY DEF Dangling
      <4>1. call[u] \in CallRecords
        BY <1>1 DEF TypeOK
      <4>2. [call[u] EXCEPT !.id = NoId] \in CallRecords
        BY <4>1 DEF CallRecords
      <4> QED BY <4>1, <4>2 DEF Dangling
    <3>2. \A u \in Threads : pc[u] = "added" \/ Dangling(i)[u] = call[u]
      BY DEF Dangling
    <3> QED BY <2>1, <3>1, <3>2, NoCallType
  <2>2. Listed' = Listed \ {i} /\ devices' \in [Ids -> Handlers \cup {None}]
    BY <1>1, <2>1 DEF Listed, TypeOK
  <2>3. (active # NoId <=> active' # NoId) /\ (active' # NoId => active' \in Listed')
        /\ flagged' = (IF active' = NoId THEN {} ELSE {active'})
    <3>1. CASE active = i
      <4>1. next \in Listed \ {i}
        BY <1>3, <3>1, NextDeviceFacts
      <4>2. next \in Ids /\ next # NoId
        BY <4>1, OutputAssumption DEF Listed
      <4> HIDE DEF next
      <4>3. active' = next /\ flagged' = {next}
        BY <1>1, <2>1, <3>1, <4>1, <4>2, SwitchFacts
      <4>4. active # NoId
        BY <1>1, <3>1, OutputAssumption
      <4> QED BY <2>2, <4>1, <4>2, <4>3, <4>4
    <3>2. CASE active # i
      BY <1>1, <2>1, <2>2, <3>2 DEF ActiveIsListed, ActiveSound
    <3> QED BY <3>1, <3>2
  <2> HIDE DEF next, i
  <2>4. active' \in Ids \cup {NoId}
    BY <2>3 DEF Listed
  <2>5. TypeOK'
    <3>1. flagged' \subseteq Ids
      BY <2>3, <2>4
    <3> QED BY <1>1, <2>1, <2>2, <2>4, <2>8, <3>1 DEF TypeOK
  <2>6. ActiveSound' /\ ActiveIsListed'
    BY <1>1, <2>3 DEF ActiveSound, ActiveIsListed, Up
  <2>7. CallsInv'
    <3>1. phase' = phase /\ mutex \in {None, t} /\ pc' = [pc EXCEPT ![t] = "idle"]
      BY <1>1, <2>1
    <3> QED BY <2>8, <3>1, CallsKept
  <2> QED BY <2>5, <2>6, <2>7 DEF IndInv
<1> QED BY <1>2, <1>3

LEMMA SwitchDeviceInv ==
  ASSUME IndInv, NEW t \in Threads, Up, SwitchDevice(t)
  PROVE  IndInv'
<1> DEFINE i == call[t].id
<1>1. /\ TypeOK /\ ActiveSound /\ ActiveIsListed /\ CallsInv /\ mutex = None
      /\ pc[t] = "lock" /\ i \in Ids /\ Return(t) /\ SwitchTo(i, Listed)
      /\ UNCHANGED <<phase, config, handlers, disposed, bad, devices>>
  BY DEF IndInv, CallsInv, SwitchDevice, Locks
<1> HIDE DEF i
<1>2. /\ i \in Listed => active' = i /\ flagged' = {i}
      /\ i \notin Listed => active' = active /\ flagged' = flagged
  BY <1>1, SwitchFacts DEF ActiveIsListed, Listed
<1>3. TypeOK'
  BY <1>1, <1>2, NoCallType DEF TypeOK, Return, Goto
<1>4. ActiveSound' /\ ActiveIsListed'
  BY <1>1, <1>2, OutputAssumption DEF ActiveSound, ActiveIsListed, Listed, Up
<1>5. CallsInv'
  BY <1>1, OneCall, CallsKept DEF Return, Goto
<1> QED BY <1>3, <1>4, <1>5 DEF IndInv

LEMMA BeginUnregisterInv ==
  ASSUME IndInv, NEW t \in Threads, Up, BeginUnregister(t)
  PROVE  IndInv'
<1> DEFINE c == call[t]
<1>1. /\ TypeOK /\ ActiveSound /\ ActiveIsListed /\ CallsInv /\ pc[t] = "lock"
      /\ mutex = None /\ mutex' = t /\ call' = [call EXCEPT ![t] = c]
      /\ pc' = [pc EXCEPT ![t] = "switch"] /\ bad' = [bad EXCEPT ![t] = {}]
      /\ UNCHANGED <<phase, config, handlers, disposed, devices, active, flagged, call>>
  BY DEF IndInv, TypeOK, BeginUnregister, Locks, Goto, deviceVars
<1>2. TypeOK'
  BY <1>1 DEF TypeOK
<1>3. ActiveSound' /\ ActiveIsListed'
  BY <1>1 DEF ActiveSound, ActiveIsListed, Up, Listed
<1> HIDE DEF c
<1>5. CallsInv'
  BY <1>1, OneCall, CallsKept
<1> QED BY <1>2, <1>3, <1>5 DEF IndInv

\* The handler that is unregistered loses the active device, or the call ends.
LEMMA SwitchAwayInv ==
  ASSUME IndInv, NEW t \in Threads, Up, SwitchAway(t)
  PROVE  IndInv'
<1> DEFINE badIds == bad[t] \cup {active}
           next   == NextDevice(badIds)
<1>1. /\ TypeOK /\ ActiveSound /\ ActiveIsListed /\ CallsInv /\ mutex = t
      /\ pc[t] = "switch" /\ active # NoId /\ SwitchTo(next, Listed)
      /\ UNCHANGED <<phase, config, handlers, disposed, devices>>
  BY DEF IndInv, CallsInv, SwitchAway, MustSwitch
<1>2. IF next = NoId
      THEN Return(t) /\ bad' = [bad EXCEPT ![t] = {}]
      ELSE bad' = [bad EXCEPT ![t] = badIds] /\ UNCHANGED <<pc, call, mutex>>
  BY DEF SwitchAway
<1>3. badIds \subseteq Ids
  BY <1>1 DEF TypeOK
<1>4. next # NoId => next \in Listed
  BY NextDeviceFacts
<1> HIDE DEF badIds, next
<1>5. active' # NoId /\ active' \in Listed /\ flagged' = {active'}
  <2>1. active \in Listed /\ flagged = {active}
    BY <1>1 DEF ActiveIsListed, ActiveSound
  <2>2. CASE next \in Listed
    BY <1>1, <2>1, <2>2, SwitchFacts, OutputAssumption DEF Listed
  <2>3. CASE next \notin Listed
    BY <1>1, <2>1, <2>3 DEF SwitchTo
  <2> QED BY <2>2, <2>3
<1>6. active' \in Ids /\ Listed' = Listed
  BY <1>1, <1>5 DEF Listed
<1>7. ActiveSound' /\ ActiveIsListed'
  BY <1>5, <1>6 DEF ActiveSound, ActiveIsListed
<1>8. CASE next = NoId
  <2>1. TypeOK'
    BY <1>1, <1>2, <1>5, <1>6, <1>8, NoCallType DEF TypeOK, Return, Goto
  <2>2. CallsInv'
    BY <1>1, <1>2, <1>8, OneCall, CallsKept DEF Return, Goto
  <2> QED BY <1>7, <2>1, <2>2 DEF IndInv
<1>9. CASE next # NoId
  <2>1. TypeOK'
    BY <1>1, <1>2, <1>3, <1>5, <1>6, <1>9 DEF TypeOK
  <2>2. pc' = [pc EXCEPT ![t] = pc[t]] /\ call' = [call EXCEPT ![t] = call[t]]
    BY <1>1, <1>2, <1>9 DEF TypeOK
  <2>3. CallsInv'
    BY <1>1, <1>2, <1>9, <2>2, OneCall, CallsKept
  <2> QED BY <1>7, <2>1, <2>3 DEF IndInv
<1> QED BY <1>8, <1>9

\* When the process ends nothing else changes.
LEMMA CrashInv ==
  ASSUME IndInv, Up, Crash
  PROVE  IndInv'
<1>1. TypeOK'
  BY DEF IndInv, TypeOK, Crash, deviceVars, threadVars
<1>2. ActiveSound' /\ ActiveIsListed'
  BY DEF IndInv, ActiveSound, ActiveIsListed, Crash, Up, Listed, deviceVars
<1>3. CallsInv'
  BY DEF IndInv, CallsInv, Crash, Up, deviceVars, threadVars
<1> QED BY <1>1, <1>2, <1>3 DEF IndInv

\* What a thread does on its way: with the mutex taken, or held.
LEMMA ThreadInv ==
  ASSUME IndInv, NEW t \in Threads, Lock(t) \/ Continue(t)
  PROVE  IndInv'
<1>1. TypeOK /\ CallsInv /\ Up
  BY DEF IndInv, Lock, Continue
<1>6. CASE ReadsDisposed(t) \/ ReportsRemoved(t)
  BY <1>1, <1>6, CrashInv DEF ReadsDisposed, ReportsRemoved
<1>2. CASE Ask(t)
  BY <1>1, <1>2, ReturnInv DEF Ask, Locks, TypeOK
<1>3. CASE PrintReturns(t)
  BY <1>1, <1>3, ReturnInv DEF PrintReturns, CallsInv, TypeOK
<1>4. CASE PrintThrows(t)
  BY <1>1, <1>4, ReturnInv DEF PrintThrows, Rethrow, CallsInv, TypeOK
<1>5. CASE EraseHandler(t)
  BY <1>1, <1>5, ReturnInv DEF EraseHandler, CallsInv, TypeOK
<1> QED BY <1>1, <1>2, <1>3, <1>4, <1>5, <1>6, BeginPrintInv, AddDeviceInv, ReportAddedInv,
           RemoveDeviceInv, SwitchDeviceInv, BeginUnregisterInv, SwitchAwayInv
        DEF Lock, Continue

LEMMA NextInv ==
  ASSUME IndInv, [Next]_vars
  PROVE  IndInv'
<1>1. CASE UNCHANGED vars
  <2>1. TypeOK' /\ CallsInv'
    BY <1>1 DEF IndInv, TypeOK, CallsInv, Up, vars, deviceVars, threadVars
  <2>2. ActiveSound' /\ ActiveIsListed'
    BY <1>1 DEF IndInv, ActiveSound, ActiveIsListed, Up, Listed, vars, deviceVars
  <2> QED BY <2>1, <2>2 DEF IndInv
<1>2. CASE Next
  BY <1>2, ConfigureInv, PhaseInv, CallsStep, ThreadInv, DisposeInv DEF Next
<1> QED BY <1>1, <1>2

-----------------------------------------------------------------------------
(* The theorems.                                                           *)

\* The inductive invariant: the types, the device that is active, and the place
\* of the threads in their calls.
THEOREM Invariance ==
  Spec => []IndInv
<1>1. Init => IndInv
  BY InitInv
<1>2. IndInv /\ [Next]_vars => IndInv'
  BY NextInv
<1> QED BY <1>1, <1>2, PTL DEF Spec

\* Every variable keeps its type, whatever is configured and called.
THEOREM TypeCorrect ==
  Spec => []TypeOK
<1>1. IndInv => TypeOK
  BY DEF IndInv
<1> QED BY <1>1, Invariance, PTL

\* While the agent runs there is a device that is active and listed, and it
\* alone is marked: write() and get_active_device() find it.
THEOREM ActiveIsSound ==
  Spec => []ActiveSound
<1>1. IndInv => ActiveSound
  BY DEF IndInv
<1> QED BY <1>1, Invariance, PTL

\* A handler prints on the device that is active, which is there, until it
\* returns: no call of another thread gets in between.
THEOREM PrintIsSound ==
  Spec => []PrintedOnActive
<1>1. IndInv => PrintedOnActive
  <2> SUFFICES ASSUME IndInv, NEW t \in Threads, pc[t] = "print"
               PROVE  /\ mutex = t /\ call[t].id = active
                      /\ devices[active] # None
    BY DEF PrintedOnActive
  <2>1. mutex = t /\ call[t].id = active /\ active # NoId
    BY DEF IndInv, CallsInv
  <2>2. active \in Listed
    BY <2>1 DEF IndInv, ActiveIsListed
  <2> QED BY <2>1, <2>2 DEF Listed
<1> QED BY <1>1, Invariance, PTL

\* unregister_handler() leaves its loop, and erases the name, only when the
\* active device is not one of the handler's.
THEOREM ErasedIsNotActive ==
  Spec => ErasedIsInactive
<1>1. IndInv /\ [Next]_vars =>
        [\A h \in Handlers : h \in handlers \ handlers' /\ Up' =>
           Key[devices[active]] # Key[h]]_vars
  <2> SUFFICES ASSUME IndInv, Next, NEW h \in Handlers,
                      h \in handlers \ handlers', Up'
               PROVE  Key[devices[active]] # Key[h]
    BY DEF IndInv
  <2>1. ~Quit
    BY DEF Quit, Up
  <2>2. \A t \in Threads : ~Calls(t) /\ ~Lock(t)
    BY DEF Calls, Lock, CallWrite, CallAsk, CallOnDevice, CallAdd, CallUnregister,
       Register, Request, BeginPrint, AddDevice, RemoveDevice, LocksToRemove,
       SwitchDevice, Ask, BeginUnregister, ReadsDisposed, Crash, Locks
  <2>3. PICK t \in Threads : Up /\ EraseHandler(t)
    BY <2>1, <2>2 DEF Next, Configure, InitReturns, Stop, DisposeHandler, Continue,
       PrintReturns, PrintThrows, ReportAdded, ReportsRemoved, Crash, SwitchAway
  <2>4. Key[h] = Key[call[t].handler] /\ active # NoId
    BY <2>3 DEF EraseHandler, RegisteredAs, IndInv, CallsInv, ActiveIsListed
  <2> QED BY <2>3, <2>4 DEF EraseHandler, MustSwitch
<1> QED BY <1>1, Invariance, PTL DEF Spec, ErasedIsInactive
=============================================================================
