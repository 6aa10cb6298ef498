------------------------- MODULE InputDevicesProofs -------------------------
(***************************************************************************)
(* Theorems about InputDevices, for any number of devices, names and       *)
(* threads and for every interleaving of the operations, quit() and the    *)
(* threads.  What is false of a device that an operation overtook is       *)
(* claimed of the others only (rushed), and what quit() and the threads    *)
(* leave behind of all of them.                                            *)
(***************************************************************************)
EXTENDS InputDevices, FiniteSetTheorems, TLAPS

-----------------------------------------------------------------------------
(* What the list, the threads and the flags say of each other.             *)

\* The parts of the invariant.
LEMMA Parts ==
  ASSUME IndInv
  PROVE  /\ TypeOK /\ NoDangling /\ ThreadsApart /\ DevicesKept
         /\ RunningIsRead /\ ActiveIsRead /\ NoDeviceLeaked
         /\ None \notin Objects /\ None \notin Names /\ Id \in [Objects -> Names]
  BY InputAssumption DEF IndInv

\* A listed device that quit() has not let go of is a live one, under its ID.
LEMMA Listed ==
  ASSUME IndInv, NEW n \in Names, devices[n] # None, n # at
  PROVE  /\ devices[n] \in Objects /\ Id[devices[n]] = n
         /\ object[devices[n]] = "live" /\ ~reap[devices[n]]
  BY Parts DEF TypeOK, DevicesKept

\* A thread that is to leave the loop leaves a stopped device and nobody else
\* on it.
LEMMA LeavesStopped ==
  ASSUME IndInv, NEW t \in Threads, pc[t] = "cleanup", dev[t] \notin rushed
  PROVE  ~running[dev[t]] /\ ThreadsOf(dev[t]) = {t}
<1>1. Alive(t) /\ dev[t] \in Objects /\ object[dev[t]] = "live"
  BY Parts DEF TypeOK, Alive, NoDangling
<1>2. ThreadsOf(dev[t]) = {t}
  BY <1>1, Parts DEF ThreadsOf, ThreadsApart
<1>3. ~running[dev[t]]
  <2> SUFFICES ASSUME running[dev[t]] PROVE FALSE
    OBVIOUS
  <2>1. PICK u \in Threads : dev[u] = dev[t] /\ pc[u] \in {"handler", "test", "read"}
    BY <1>1, Parts DEF RunningIsRead
  <2>2. u \in ThreadsOf(dev[t])
    BY <2>1 DEF ThreadsOf, Alive
  <2> QED BY <1>2, <2>1, <2>2
<1> QED BY <1>2, <1>3

-----------------------------------------------------------------------------
(* The operations.                                                         *)

LEMMA InitInv ==
  ASSUME Init
  PROVE  IndInv
<1>1. TypeOK
  <2>1. /\ devices \in [Names -> Objects \cup {None}] /\ active \subseteq Names
        /\ object \in [Objects -> {"new", "live", "deleted"}]
        /\ running \in [Objects -> BOOLEAN] /\ reap \in [Objects -> BOOLEAN]
    BY DEF Init
  <2>2. /\ pc \in [Threads -> {"none", "created", "handler", "test", "read",
                              "cleanup", "ended"}]
        /\ dev \in [Threads -> Objects \cup {None}]
        /\ \A t \in Threads : pc[t] # "none" => dev[t] # None
    BY DEF Init
  <2>3. inputs \in [Threads -> 0 .. MaxInput]
    BY InputAssumption DEF Init
  <2>4. /\ stage \in {"calls", "quits", "gone"} /\ at \in Names \cup {None}
        /\ aborted \in BOOLEAN /\ rushed \subseteq Objects
    BY DEF Init
  <2> QED BY <2>1, <2>2, <2>3, <2>4 DEF TypeOK
<1>2. NoDangling /\ ThreadsApart
  BY DEF Init, NoDangling, ThreadsApart, Alive
<1>3. DevicesKept
  BY InputAssumption DEF Init, DevicesKept
<1>4. RunningIsRead /\ NoDeviceLeaked
  BY DEF Init, RunningIsRead, NoDeviceLeaked
<1>5. ActiveIsRead
  BY InputAssumption DEF Init, ActiveIsRead
<1> QED BY <1>1, <1>2, <1>3, <1>4, <1>5 DEF IndInv

LEMMA AddDeviceInv ==
  ASSUME IndInv, NEW o \in Objects, AddDevice(o)
  PROVE  IndInv'
<1>1. /\ TypeOK /\ NoDangling /\ ThreadsApart /\ DevicesKept /\ RunningIsRead
      /\ ActiveIsRead /\ NoDeviceLeaked
      /\ None \notin Objects /\ Id \in [Objects -> Names]
  BY Parts
<1>2. /\ devices[Id[o]] = None /\ object[o] = "new" /\ stage = "calls"
      /\ devices' = [devices EXCEPT ![Id[o]] = o]
      /\ object' = [object EXCEPT ![o] = "live"]
      /\ UNCHANGED <<active, running, reap, pc, dev, inputs, stage, at, aborted, rushed>>
  BY DEF AddDevice, In, quitVars
<1>3. TypeOK'
  BY <1>1, <1>2 DEF TypeOK
<1>4. Id[o] # at /\ \A t \in Threads : dev[t] # o
  <2>1. at = None /\ Id[o] \in Names
    BY <1>1, <1>2 DEF DevicesKept
  <2> QED BY <1>1, <1>2, <2>1, InputAssumption DEF DevicesKept
<1>5. NoDangling'
  BY <1>1, <1>2, <1>4 DEF NoDangling, Alive, TypeOK
<1>6. ThreadsApart' /\ RunningIsRead'
  BY <1>1, <1>2, <1>4 DEF ThreadsApart, RunningIsRead, Alive, TypeOK, DevicesKept
<1>7. DevicesKept'
  BY <1>1, <1>2, <1>4 DEF DevicesKept, TypeOK
<1>8. \A p \in Objects : IsRead(p)' <=> IsRead(p)
  BY <1>2 DEF IsRead, ThreadsOf, Alive
<1>9. ~IsRead(o)
  BY <1>4 DEF IsRead, ThreadsOf
<1>10. \A p \in Objects : p # o /\ devices'[Id[p]] = p => devices[Id[p]] = p
  BY <1>1, <1>2 DEF TypeOK
<1>11. ActiveIsRead'
  BY <1>1, <1>2, <1>4, <1>8, <1>9, <1>10 DEF ActiveIsRead
<1>12. NoDeviceLeaked'
  BY <1>1, <1>2, <1>4 DEF NoDeviceLeaked, TypeOK
<1> QED BY <1>3, <1>5, <1>6, <1>7, <1>11, <1>12 DEF IndInv

LEMMA EnableDeviceInv ==
  ASSUME IndInv, NEW n \in Names, NEW t \in Threads, EnableDevice(n, t)
  PROVE  IndInv'
<1>0. PICK o : o = devices[n]
  OBVIOUS
<1>1. /\ TypeOK /\ NoDangling /\ ThreadsApart /\ DevicesKept /\ RunningIsRead
      /\ ActiveIsRead /\ NoDeviceLeaked
      /\ None \notin Objects /\ Id \in [Objects -> Names] /\ None \notin Names
  BY Parts
<1>2. /\ n \notin active /\ o # None /\ pc[t] = "none" /\ ~aborted /\ stage = "calls"
      /\ pc' = [pc EXCEPT ![t] = "created"]
      /\ dev' = [dev EXCEPT ![t] = o]
      /\ active' = active \cup {n}
      /\ rushed' = IF Settled(o) THEN rushed ELSE rushed \cup {o}
      /\ UNCHANGED <<devices, object, running, reap, inputs, stage, at, aborted>>
  BY <1>0 DEF EnableDevice, AlreadyEnabled, PassDevice, In, Note, quitVars
<1>3. n # at
  BY <1>1, <1>2 DEF DevicesKept
<1>4. o \in Objects /\ Id[o] = n /\ object[o] = "live"
  BY <1>0, <1>2, <1>3, Listed
<1>5. o \notin rushed' => ThreadsOf(o) = {}
  <2> SUFFICES ASSUME o \notin rushed' PROVE ThreadsOf(o) = {}
    OBVIOUS
  <2>1. Settled(o) /\ o \notin rushed
    BY <1>2
  <2>2. ~IsRead(o)
    <3>1. devices[Id[o]] = o /\ Id[o] # at /\ Id[o] \notin active
      BY <1>0, <1>2, <1>3, <1>4
    <3> QED BY <1>1, <1>2, <1>4, <2>1, <3>1 DEF ActiveIsRead
  <2>3. ~running[o]
    BY <1>1, <1>4, <2>2 DEF RunningIsRead, IsRead, ThreadsOf, Alive
  <2> QED BY <2>1, <2>3 DEF Settled
<1>6. rushed \subseteq rushed' /\ rushed' \subseteq Objects
  BY <1>1, <1>2, <1>4 DEF TypeOK
<1>7. TypeOK'
  BY <1>1, <1>2, <1>4, <1>6 DEF TypeOK
<1>8. NoDangling'
  BY <1>1, <1>2, <1>4, <1>6 DEF NoDangling, Alive, TypeOK
<1>9. ThreadsApart'
  BY <1>1, <1>2, <1>5, <1>6 DEF ThreadsApart, ThreadsOf, Alive, TypeOK
<1>10. DevicesKept'
  BY <1>1, <1>2, <1>4 DEF DevicesKept, TypeOK
<1>11. RunningIsRead' /\ NoDeviceLeaked'
  BY <1>1, <1>2 DEF RunningIsRead, NoDeviceLeaked, TypeOK
<1>12. t \in ThreadsOf(o)' /\ pc'[t] = "created"
  <2>1. pc'[t] = "created" /\ dev'[t] = o
    BY <1>1, <1>2 DEF TypeOK
  <2> QED BY <2>1 DEF ThreadsOf, Alive
<1>13. \A p \in Objects : p # o => ThreadsOf(p)' = ThreadsOf(p) /\ t \notin ThreadsOf(p)
  BY <1>1, <1>2 DEF ThreadsOf, Alive, TypeOK
<1>14. \A p \in Objects : p # o => (IsRead(p)' <=> IsRead(p))
  BY <1>1, <1>2, <1>13 DEF IsRead, ThreadsOf, TypeOK
<1>15. \A p \in Objects : p # o /\ devices[Id[p]] = p => Id[p] # n
  BY <1>0
<1>16. \A p \in Objects : p # o => ((\E u \in Threads : dev'[u] = p) => \E u \in Threads : dev[u] = p)
  BY <1>1, <1>2 DEF TypeOK
<1>17. IsRead(o)'
  BY <1>12 DEF IsRead
<1>18. ActiveIsRead'
  <2> SUFFICES ASSUME NEW p \in Objects, p \notin rushed', devices[Id[p]] = p, Id[p] # at
               PROVE  /\ IsRead(p)' => Id[p] \in active'
                      /\ Id[p] \in active' /\ (\E u \in Threads : dev'[u] = p) => IsRead(p)'
    BY <1>2 DEF ActiveIsRead
  <2>1. CASE p = o
    BY <1>2, <1>4, <1>17, <2>1
  <2>2. CASE p # o
    <3>1. Id[p] # n /\ (IsRead(p)' <=> IsRead(p)) /\ p \notin rushed
      BY <1>6, <1>14, <1>15, <2>2
    <3>2. (\E u \in Threads : dev'[u] = p) => \E u \in Threads : dev[u] = p
      BY <1>16, <2>2
    <3> QED BY <1>1, <1>2, <3>1, <3>2 DEF ActiveIsRead
  <2> QED BY <2>1, <2>2
<1> QED BY <1>7, <1>8, <1>9, <1>10, <1>11, <1>18 DEF IndInv

LEMMA DisableDeviceInv ==
  ASSUME IndInv, NEW n \in Names, DisableDevice(n)
  PROVE  IndInv'
<1>0. PICK o : o = devices[n]
  OBVIOUS
<1>1. /\ TypeOK /\ NoDangling /\ ThreadsApart /\ DevicesKept /\ RunningIsRead
      /\ ActiveIsRead /\ NoDeviceLeaked
      /\ None \notin Objects /\ Id \in [Objects -> Names] /\ None \notin Names
  BY Parts
<1>2. /\ n \in active /\ o # None /\ ~aborted /\ stage = "calls"
      /\ running' = [running EXCEPT ![o] = FALSE]
      /\ active' = active \ {n}
      /\ rushed' = IF Settled(o) THEN rushed ELSE rushed \cup {o}
      /\ UNCHANGED <<devices, object, reap, pc, dev, inputs, stage, at, aborted>>
  BY <1>0 DEF DisableDevice, StopThread, In, Note, quitVars
<1>3. n # at
  BY <1>1, <1>2 DEF DevicesKept
<1>4. o \in Objects /\ Id[o] = n /\ object[o] = "live"
  BY <1>0, <1>2, <1>3, Listed
<1>5. \A p \in Objects : p # o /\ devices[Id[p]] = p => Id[p] # n
  BY <1>0
<1>6. o \notin rushed' => ~IsRead(o)'
  BY <1>1, <1>2, <1>4 DEF Settled, IsRead, ThreadsOf, Alive, TypeOK
<1>7. rushed \subseteq rushed' /\ rushed' \subseteq Objects
  BY <1>1, <1>2, <1>4 DEF TypeOK
<1>8. TypeOK'
  BY <1>1, <1>2, <1>7 DEF TypeOK
<1>9. NoDangling' /\ ThreadsApart'
  BY <1>1, <1>2, <1>7 DEF NoDangling, ThreadsApart, Alive
<1>10. DevicesKept'
  BY <1>1, <1>2 DEF DevicesKept, TypeOK
<1>11. RunningIsRead' /\ NoDeviceLeaked'
  BY <1>1, <1>2 DEF RunningIsRead, NoDeviceLeaked, TypeOK
<1>12. \A p \in Objects : p # o => (IsRead(p)' <=> IsRead(p))
  BY <1>1, <1>2 DEF IsRead, ThreadsOf, Alive, TypeOK
<1>13. ActiveIsRead'
  <2> SUFFICES ASSUME NEW p \in Objects, p \notin rushed', devices[Id[p]] = p, Id[p] # at
               PROVE  /\ IsRead(p)' => Id[p] \in active'
                      /\ Id[p] \in active' /\ (\E u \in Threads : dev[u] = p) => IsRead(p)'
    BY <1>2 DEF ActiveIsRead
  <2>1. CASE p = o
    BY <1>2, <1>4, <1>6, <2>1
  <2>2. CASE p # o
    <3>1. Id[p] # n /\ (IsRead(p)' <=> IsRead(p)) /\ p \notin rushed
      BY <1>5, <1>7, <1>12, <2>2
    <3> QED BY <1>1, <1>2, <3>1 DEF ActiveIsRead
  <2> QED BY <2>1, <2>2
<1> QED BY <1>8, <1>9, <1>10, <1>11, <1>13 DEF IndInv

\* A running device is left to its thread, which is there and will see that it
\* is to delete it.
LEMMA RemoveRunningInv ==
  ASSUME IndInv, NEW n \in Names, RemoveRunning(n)
  PROVE  IndInv'
<1>0. PICK o : o = devices[n]
  OBVIOUS
<1>1. /\ TypeOK /\ NoDangling /\ ThreadsApart /\ DevicesKept /\ RunningIsRead
      /\ ActiveIsRead /\ NoDeviceLeaked
      /\ None \notin Objects /\ Id \in [Objects -> Names] /\ None \notin Names
  BY Parts
<1>2. /\ o # None /\ ~aborted /\ stage = "calls" /\ running[o]
      /\ reap' = [reap EXCEPT ![o] = TRUE]
      /\ \/ running' = [running EXCEPT ![o] = FALSE] /\ active' = active \ {n}
         \/ running' = running /\ active' = active
      /\ devices' = [devices EXCEPT ![n] = None]
      /\ rushed' = IF Settled(o) THEN rushed ELSE rushed \cup {o}
      /\ UNCHANGED <<object, pc, dev, inputs, stage, at, aborted>>
  BY <1>0 DEF RemoveRunning, MarkReap, StopThread, In, Note, quitVars
<1>3. n # at
  BY <1>1, <1>2 DEF DevicesKept
<1>4. o \in Objects /\ Id[o] = n /\ object[o] = "live"
  BY <1>0, <1>2, <1>3, Listed
<1>5. PICK t \in Threads : dev[t] = o /\ pc[t] \in {"handler", "test", "read"}
  BY <1>1, <1>2, <1>4 DEF RunningIsRead
<1>6. \A p \in Objects : p # o /\ devices[Id[p]] = p => Id[p] # n
  BY <1>0
<1>7. rushed \subseteq rushed' /\ rushed' \subseteq Objects
  BY <1>1, <1>2, <1>4 DEF TypeOK
<1>8. TypeOK'
  BY <1>1, <1>2, <1>7 DEF TypeOK
<1>9. NoDangling' /\ ThreadsApart'
  BY <1>1, <1>2, <1>7 DEF NoDangling, ThreadsApart, Alive
<1>10. DevicesKept'
  <2>1. \A m \in Names : devices'[m] # None => m # n /\ devices'[m] = devices[m]
    BY <1>1, <1>2 DEF TypeOK
  <2>2. \A m \in Names : m # n /\ devices[m] # None => devices[m] # o
    BY <1>1, <1>4 DEF DevicesKept
  <2>3. at = None
    BY <1>1, <1>2 DEF DevicesKept
  <2>4. \A m \in Names : devices'[m] # None =>
          devices'[m] \in Objects /\ reap'[devices'[m]] = reap[devices[m]]
    BY <1>1, <1>2, <2>1, <2>2 DEF TypeOK
  <2>5. \A m \in Names : devices'[m] # None =>
          /\ Id[devices'[m]] = m /\ object'[devices'[m]] = "live" /\ ~reap'[devices'[m]]
    <3> SUFFICES ASSUME NEW m \in Names, devices'[m] # None
                 PROVE  /\ Id[devices'[m]] = m /\ object'[devices'[m]] = "live"
                        /\ ~reap'[devices'[m]]
      OBVIOUS
    <3>1. devices'[m] = devices[m] /\ devices[m] # None /\ m # at
      BY <1>1, <2>1, <2>3
    <3>2. Id[devices[m]] = m /\ object[devices[m]] = "live" /\ ~reap[devices[m]]
      BY <3>1, Listed
    <3>3. reap'[devices'[m]] = reap[devices[m]] /\ object' = object
      BY <1>2, <2>4
    <3> QED BY <3>1, <3>2, <3>3
  <2>6. \A p \in Objects : object'[p] = "new" =>
          ~reap'[p] /\ ~running'[p] /\ \A u \in Threads : dev'[u] # p
    BY <1>1, <1>2, <1>4 DEF DevicesKept, TypeOK
  <2> QED BY <1>2, <2>3, <2>5, <2>6, <1>1 DEF DevicesKept
<1>11. RunningIsRead'
  BY <1>1, <1>2 DEF RunningIsRead, TypeOK
<1>12. \A p \in Objects : p # o => (IsRead(p)' <=> IsRead(p))
  BY <1>1, <1>2 DEF IsRead, ThreadsOf, Alive, TypeOK
<1>13. \A p \in Objects : devices'[Id[p]] = p => p # o /\ devices[Id[p]] = p
  BY <1>1, <1>2, <1>4 DEF TypeOK
<1>14. ActiveIsRead'
  BY <1>1, <1>2, <1>6, <1>7, <1>12, <1>13 DEF ActiveIsRead
<1>15. NoDeviceLeaked'
  <2> SUFFICES ASSUME NEW p \in Objects, object'[p] = "live"
               PROVE  \/ devices'[Id[p]] = p /\ Id[p] # at'
                      \/ reap'[p] /\ \E u \in Threads :
                           dev'[u] = p /\ pc'[u] \in {"handler", "test", "read", "cleanup"}
    BY DEF NoDeviceLeaked
  <2>1. CASE p = o
    BY <1>1, <1>2, <1>5, <2>1 DEF TypeOK
  <2>2. CASE p # o
    BY <1>1, <1>2, <1>6, <2>2 DEF NoDeviceLeaked, TypeOK
  <2> QED BY <2>1, <2>2
<1> QED BY <1>8, <1>9, <1>10, <1>11, <1>14, <1>15 DEF IndInv

\* Any other device has no thread that could touch it, once its caller has
\* waited; the others may have one.
LEMMA DisposeDeviceInv ==
  ASSUME IndInv, NEW n \in Names, DisposeDevice(n), at = None
  PROVE  IndInv'
<1>0. PICK o : o = devices[n]
  OBVIOUS
<1>1. /\ TypeOK /\ NoDangling /\ ThreadsApart /\ DevicesKept /\ RunningIsRead
      /\ ActiveIsRead /\ NoDeviceLeaked
      /\ None \notin Objects /\ Id \in [Objects -> Names] /\ None \notin Names
  BY Parts
<1>2. /\ o # None /\ ~running[o] /\ n # at
      /\ object' = [object EXCEPT ![o] = "deleted"]
      /\ devices' = [devices EXCEPT ![n] = None]
      /\ rushed' = IF Settled(o) THEN rushed ELSE rushed \cup {o}
      /\ UNCHANGED <<active, running, reap, pc, dev, inputs, stage, at, aborted>>
  BY <1>0, <1>1 DEF DisposeDevice, Note, quitVars
<1>3. o \in Objects /\ Id[o] = n
  BY <1>0, <1>2, Listed
<1>4. o \notin rushed' => ThreadsOf(o) = {}
  BY <1>2 DEF Settled
<1>5. \A p \in Objects : p # o /\ devices[Id[p]] = p => Id[p] # n
  BY <1>0
<1>6. rushed \subseteq rushed' /\ rushed' \subseteq Objects
  BY <1>1, <1>2, <1>3 DEF TypeOK
<1>7. TypeOK'
  BY <1>1, <1>2, <1>6 DEF TypeOK
<1>8. NoDangling'
  <2> SUFFICES ASSUME NEW t \in Threads, Alive(t), dev[t] \notin rushed'
               PROVE  object'[dev[t]] = "live"
    BY <1>2 DEF NoDangling, Alive
  <2>1. dev[t] # o
    BY <1>4 DEF ThreadsOf
  <2>2. object[dev[t]] = "live" /\ dev[t] \in Objects
    BY <1>1, <1>6 DEF NoDangling, Alive, TypeOK
  <2> QED BY <1>1, <1>2, <2>1, <2>2 DEF TypeOK
<1>9. ThreadsApart'
  BY <1>1, <1>2, <1>6 DEF ThreadsApart, Alive
<1>10. DevicesKept'
  <2>1. \A m \in Names : devices'[m] # None => m # n /\ devices'[m] = devices[m]
    BY <1>1, <1>2 DEF TypeOK
  <2>2. \A m \in Names : m # n /\ devices[m] # None => devices[m] # o
    BY <1>1, <1>3 DEF DevicesKept
  <2>3. \A m \in Names : devices'[m] # None =>
          devices'[m] \in Objects /\ object'[devices'[m]] = object[devices[m]]
    BY <1>1, <1>2, <2>1, <2>2 DEF TypeOK
  <2>4. \A m \in Names : devices'[m] # None =>
          Id[devices'[m]] = m /\ object'[devices'[m]] = "live" /\ ~reap'[devices'[m]]
    BY <1>1, <1>2, <2>1, <2>3 DEF DevicesKept
  <2>5. \A p \in Objects : object'[p] = "new" => object[p] = "new"
    BY <1>1, <1>2 DEF TypeOK
  <2> QED BY <1>1, <1>2, <2>4, <2>5 DEF DevicesKept
<1>11. RunningIsRead'
  BY <1>1, <1>2 DEF RunningIsRead, TypeOK
<1>12. \A p \in Objects : IsRead(p)' <=> IsRead(p)
  BY <1>2 DEF IsRead, ThreadsOf, Alive
<1>13. \A p \in Objects : devices'[Id[p]] = p => p # o /\ devices[Id[p]] = p
  BY <1>1, <1>2, <1>3 DEF TypeOK
<1>14. ActiveIsRead'
  BY <1>1, <1>2, <1>6, <1>12, <1>13 DEF ActiveIsRead
<1>15. NoDeviceLeaked'
  <2> SUFFICES ASSUME NEW p \in Objects, object'[p] = "live"
               PROVE  \/ devices'[Id[p]] = p /\ Id[p] # at'
                      \/ reap'[p] /\ \E u \in Threads :
                           dev'[u] = p /\ pc'[u] \in {"handler", "test", "read", "cleanup"}
    BY DEF NoDeviceLeaked
  <2>1. p # o /\ object[p] = "live"
    BY <1>1, <1>2 DEF TypeOK
  <2>2. devices[Id[p]] = p => devices'[Id[p]] = p
    BY <1>1, <1>2, <1>5, <2>1 DEF TypeOK
  <2> QED BY <1>1, <1>2, <2>1, <2>2 DEF NoDeviceLeaked
<1> QED BY <1>7, <1>8, <1>9, <1>10, <1>11, <1>14, <1>15 DEF IndInv

-----------------------------------------------------------------------------
(* quit().                                                                 *)

\* A running device is marked before its thread is told to stop, so that the
\* thread, which is there, deletes it.
LEMMA QuitStopsInv ==
  ASSUME IndInv, NEW n \in Names, QuitStops(n)
  PROVE  IndInv'
<1>0. PICK o : o = devices[n]
  OBVIOUS
<1>1. /\ TypeOK /\ NoDangling /\ ThreadsApart /\ DevicesKept /\ RunningIsRead
      /\ ActiveIsRead /\ NoDeviceLeaked
      /\ None \notin Objects /\ Id \in [Objects -> Names] /\ None \notin Names
  BY Parts
<1>2. /\ o # None /\ ~aborted /\ stage = "quits" /\ running[o] /\ at = None /\ n # at
      /\ reap' = [reap EXCEPT ![o] = TRUE]
      /\ running' = [running EXCEPT ![o] = FALSE]
      /\ at' = n
      /\ rushed' = IF Settled(o) THEN rushed ELSE rushed \cup {o}
      /\ UNCHANGED <<devices, active, object, pc, dev, inputs, stage, aborted>>
  BY <1>0, <1>1 DEF QuitStops, MarkReap, StopThread, In, Note
<1>3. o \in Objects /\ Id[o] = n /\ object[o] = "live"
  BY <1>0, <1>2, Listed
<1>4. PICK t \in Threads : dev[t] = o /\ pc[t] \in {"handler", "test", "read"}
  BY <1>1, <1>2, <1>3 DEF RunningIsRead
<1>5. \A m \in Names : m # n /\ devices[m] # None => devices[m] # o
  BY <1>1, <1>3 DEF DevicesKept
<1>6. \A p \in Objects : p # o /\ devices[Id[p]] = p => Id[p] # n
  BY <1>0
<1>7. devices[n] = o
  BY <1>0
<1>8. rushed \subseteq rushed' /\ rushed' \subseteq Objects
  BY <1>1, <1>2, <1>3 DEF TypeOK
<1>9. TypeOK'
  BY <1>1, <1>2, <1>8 DEF TypeOK
<1>10. NoDangling' /\ ThreadsApart'
  BY <1>1, <1>2, <1>8 DEF NoDangling, ThreadsApart, Alive
<1>11. DevicesKept'
  <2>1. \A m \in Names : devices'[m] # None =>
          Id[devices'[m]] = m /\ object'[devices'[m]] = "live"
    BY <1>1, <1>2, <1>3, <1>7 DEF DevicesKept
  <2>2. \A m \in Names : devices'[m] # None /\ m # n => ~reap'[devices'[m]]
    BY <1>1, <1>2, <1>5 DEF DevicesKept, TypeOK
  <2>3. reap'[devices'[n]]
    BY <1>1, <1>2, <1>3, <1>7 DEF TypeOK
  <2>4. \A p \in Objects : object'[p] = "new" =>
          ~reap'[p] /\ ~running'[p] /\ \A u \in Threads : dev'[u] # p
    BY <1>1, <1>2, <1>3 DEF DevicesKept, TypeOK
  <2>5. at' # None => devices'[at'] # None /\ stage' = "quits"
    BY <1>2, <1>7
  <2>6. \A m \in Names : devices'[m] # None =>
          /\ Id[devices'[m]] = m /\ object'[devices'[m]] # "new"
          /\ m # at' => object'[devices'[m]] = "live" /\ ~reap'[devices'[m]]
          /\ m = at' => reap'[devices'[m]]
    BY <1>2, <2>1, <2>2, <2>3
  <2> QED BY <2>4, <2>5, <2>6 DEF DevicesKept
<1>12. RunningIsRead'
  BY <1>1, <1>2 DEF RunningIsRead, TypeOK
<1>13. \A p \in Objects : p # o => (IsRead(p)' <=> IsRead(p))
  BY <1>1, <1>2 DEF IsRead, ThreadsOf, Alive, TypeOK
<1>14. ActiveIsRead'
  BY <1>1, <1>2, <1>3, <1>8, <1>13 DEF ActiveIsRead
<1>15. NoDeviceLeaked'
  <2> SUFFICES ASSUME NEW p \in Objects, object'[p] = "live"
               PROVE  \/ devices'[Id[p]] = p /\ Id[p] # at'
                      \/ reap'[p] /\ \E u \in Threads :
                           dev'[u] = p /\ pc'[u] \in {"handler", "test", "read", "cleanup"}
    BY DEF NoDeviceLeaked
  <2>1. CASE p = o
    BY <1>1, <1>2, <1>4, <2>1 DEF TypeOK
  <2>2. CASE p # o
    BY <1>1, <1>2, <1>6, <2>2 DEF NoDeviceLeaked, TypeOK
  <2> QED BY <2>1, <2>2
<1> QED BY <1>9, <1>10, <1>11, <1>12, <1>14, <1>15 DEF IndInv

\* The device that quit() lets go of is in no list any more.
LEMMA QuitErasesInv ==
  ASSUME IndInv, QuitErases
  PROVE  IndInv'
<1>1. /\ TypeOK /\ NoDangling /\ ThreadsApart /\ DevicesKept /\ RunningIsRead
      /\ ActiveIsRead /\ NoDeviceLeaked
      /\ None \notin Objects /\ Id \in [Objects -> Names] /\ None \notin Names
  BY Parts
<1>2. /\ at \in Names /\ devices' = [devices EXCEPT ![at] = None] /\ at' = None
      /\ active' = active \/ active' = active \ {at}
      /\ aborted' \in BOOLEAN /\ ~aborted
      /\ UNCHANGED <<object, running, reap, pc, dev, inputs, stage, rushed>>
  BY <1>1 DEF QuitErases, In, TypeOK
<1>3. \A m \in Names : devices'[m] # None => m # at /\ devices'[m] = devices[m]
  BY <1>1, <1>2 DEF TypeOK
<1>4. TypeOK'
  BY <1>1, <1>2 DEF TypeOK
<1>5. NoDangling' /\ ThreadsApart'
  BY <1>1, <1>2 DEF NoDangling, ThreadsApart, Alive
<1>6. DevicesKept'
  BY <1>1, <1>2, <1>3 DEF DevicesKept
<1>7. RunningIsRead'
  BY <1>1, <1>2 DEF RunningIsRead
<1>8. \A p \in Objects : IsRead(p)' <=> IsRead(p)
  BY <1>2 DEF IsRead, ThreadsOf, Alive
<1>9. \A p \in Objects : devices'[Id[p]] = p => Id[p] # at /\ devices[Id[p]] = p
  BY <1>1, <1>2, <1>3
<1>10. ActiveIsRead'
  BY <1>1, <1>2, <1>8, <1>9 DEF ActiveIsRead
<1>11. \A p \in Objects : devices[Id[p]] = p /\ Id[p] # at =>
         devices'[Id[p]] = p /\ Id[p] # at'
  BY <1>1, <1>2 DEF TypeOK
<1>12. NoDeviceLeaked'
  BY <1>1, <1>2, <1>11 DEF NoDeviceLeaked
<1> QED BY <1>4, <1>5, <1>6, <1>7, <1>10, <1>12 DEF IndInv

\* Its first and its last step, which no device sees.
LEMMA QuitFramesInv ==
  ASSUME IndInv, QuitStarts \/ QuitEnds
  PROVE  IndInv'
<1>1. /\ UNCHANGED <<devices, active, object, running, reap, pc, dev, inputs, at,
                     aborted, rushed>>
      /\ stage' \in {"quits", "gone"} /\ (at # None => stage' = "quits")
  BY Parts DEF QuitStarts, QuitEnds, devVars, In, DevicesKept
<1>2. TypeOK' /\ NoDangling' /\ ThreadsApart'
  BY <1>1, Parts DEF TypeOK, NoDangling, ThreadsApart, Alive
<1>3. DevicesKept' /\ RunningIsRead' /\ NoDeviceLeaked'
  BY <1>1, Parts DEF DevicesKept, RunningIsRead, NoDeviceLeaked
<1>4. ActiveIsRead'
  BY <1>1, Parts DEF ActiveIsRead, IsRead, ThreadsOf, Alive
<1> QED BY <1>2, <1>3, <1>4 DEF IndInv

-----------------------------------------------------------------------------
(* The threads.                                                            *)

\* What every step of a thread has in common: it was alive, on a device that
\* is; and no step but the last changes which threads a device has.
LEMMA StepFacts ==
  ASSUME IndInv, NEW t \in Threads, NEW from, NEW to, Step(t, from, to),
         from \notin {"none", "ended"}
  PROVE  /\ Alive(t) /\ dev[t] \in Objects /\ object[dev[t]] = "live"
         /\ pc[t] = from /\ pc' = [pc EXCEPT ![t] = to] /\ ~aborted
         /\ UNCHANGED <<devices, dev, stage, at, rushed>>
         /\ to \notin {"none", "ended"} =>
              \A o : ThreadsOf(o)' = ThreadsOf(o)
<1>1. /\ pc[t] = from /\ object[dev[t]] = "live" /\ ~aborted
      /\ pc' = [pc EXCEPT ![t] = to]
      /\ UNCHANGED <<devices, dev, stage, at, rushed>>
  BY DEF Step
<1>2. Alive(t) /\ dev[t] \in Objects
  BY <1>1, Parts DEF TypeOK, Alive
<1>3. ASSUME to \notin {"none", "ended"}, NEW o PROVE ThreadsOf(o)' = ThreadsOf(o)
  BY <1>1, <1>2, <1>3, Parts DEF ThreadsOf, Alive, TypeOK
<1> QED BY <1>1, <1>2, <1>3

LEMMA ItStartInv ==
  ASSUME IndInv, NEW t \in Threads, ItStart(t)
  PROVE  IndInv'
<1>0. PICK o : o = dev[t]
  OBVIOUS
<1>1. /\ TypeOK /\ NoDangling /\ ThreadsApart /\ DevicesKept /\ RunningIsRead
      /\ ActiveIsRead /\ NoDeviceLeaked
  BY Parts
<1>2. Step(t, "created", "handler")
  BY DEF ItStart
<1>3. /\ Alive(t) /\ o \in Objects /\ object[o] = "live"
      /\ pc[t] = "created" /\ pc' = [pc EXCEPT ![t] = "handler"]
      /\ UNCHANGED <<devices, dev, stage, at, rushed>>
      /\ \A p : ThreadsOf(p)' = ThreadsOf(p)
  BY <1>0, <1>2, StepFacts
<1>4. /\ running' = [running EXCEPT ![o] = TRUE] /\ dev[t] = o
      /\ UNCHANGED <<active, object, reap, inputs, aborted>>
  BY <1>0 DEF ItStart
<1>5. TypeOK'
  BY <1>1, <1>3, <1>4 DEF TypeOK
<1>6. NoDangling' /\ ThreadsApart'
  BY <1>1, <1>3, <1>4 DEF NoDangling, ThreadsApart, Alive, TypeOK
<1>7. DevicesKept'
  BY <1>1, <1>3, <1>4 DEF DevicesKept, TypeOK
<1>8. RunningIsRead'
  BY <1>1, <1>3, <1>4 DEF RunningIsRead, TypeOK
<1>9. \A p \in Objects : IsRead(p)' <=> IsRead(p)
  <2> SUFFICES ASSUME NEW p \in Objects PROVE IsRead(p)' <=> IsRead(p)
    OBVIOUS
  <2>1. CASE p = o
    <3>1. t \in ThreadsOf(o)
      BY <1>3, <1>4 DEF ThreadsOf
    <3>2. t \in ThreadsOf(o)'
      BY <1>3, <3>1
    <3>3. running'[o]
      BY <1>1, <1>3, <1>4 DEF TypeOK
    <3> QED BY <1>3, <2>1, <3>1, <3>2, <3>3 DEF IsRead
  <2>2. CASE p # o
    <3>1. running'[p] = running[p] /\ \A u \in ThreadsOf(p) : pc'[u] = pc[u]
      BY <1>1, <1>3, <1>4, <2>2 DEF ThreadsOf, TypeOK
    <3> QED BY <1>3, <3>1 DEF IsRead
  <2> QED BY <2>1, <2>2
<1>10. ActiveIsRead'
  BY <1>1, <1>3, <1>4, <1>9 DEF ActiveIsRead
<1>11. NoDeviceLeaked'
  BY <1>1, <1>3, <1>4 DEF NoDeviceLeaked, TypeOK
<1> QED BY <1>5, <1>6, <1>7, <1>8, <1>10, <1>11 DEF IndInv

\* The steps between the start and the end: the thread has its handler, turns
\* in the loop or leaves it.
LEMMA ItLoopInv ==
  ASSUME IndInv, NEW t \in Threads, ItHandler(t) \/ ItTest(t) \/ ItRead(t)
  PROVE  IndInv'
<1>0. PICK o : o = dev[t]
  OBVIOUS
<1>1. /\ TypeOK /\ NoDangling /\ ThreadsApart /\ DevicesKept /\ RunningIsRead
      /\ ActiveIsRead /\ NoDeviceLeaked
  BY Parts
<1>2. PICK from \in {"handler", "test", "read"}, to \in {"test", "read", "cleanup"} :
        /\ Step(t, from, to)
        /\ to = "cleanup" => ~running[o]
  BY <1>0 DEF ItHandler, ItTest, ItRead
<1>3. /\ Alive(t) /\ o \in Objects /\ object[o] = "live"
      /\ pc[t] = from /\ pc' = [pc EXCEPT ![t] = to] /\ ~aborted
      /\ UNCHANGED <<devices, dev, stage, at, rushed>>
      /\ \A p : ThreadsOf(p)' = ThreadsOf(p)
  BY <1>0, <1>2, StepFacts
<1>4. UNCHANGED <<active, object, running, reap>> /\ dev[t] = o
  BY <1>0 DEF ItHandler, ItTest, ItRead
<1>5. inputs' \in [Threads -> 0 .. MaxInput]
  <2>1. CASE inputs' = inputs
    BY <1>1, <2>1 DEF TypeOK
  <2>2. CASE inputs' = [inputs EXCEPT ![t] = IF @ < MaxInput THEN @ + 1 ELSE @]
    BY <1>1, <2>2, InputAssumption DEF TypeOK
  <2> QED BY <2>1, <2>2 DEF ItHandler, ItTest, ItRead
<1>6. aborted' \in BOOLEAN
  BY <1>1 DEF ItHandler, ItTest, ItRead, TypeOK
<1>7. TypeOK'
  BY <1>1, <1>2, <1>3, <1>4, <1>5, <1>6 DEF TypeOK
<1>8. NoDangling' /\ ThreadsApart'
  BY <1>1, <1>2, <1>3, <1>4 DEF NoDangling, ThreadsApart, Alive, TypeOK
<1>9. DevicesKept'
  BY <1>1, <1>3, <1>4 DEF DevicesKept
<1>10. RunningIsRead'
  BY <1>1, <1>2, <1>3, <1>4 DEF RunningIsRead, TypeOK
<1>11. \A u \in Threads : pc'[u] = "created" <=> pc[u] = "created"
  BY <1>1, <1>2, <1>3 DEF TypeOK
<1>12. \A p \in Objects : IsRead(p)' <=> IsRead(p)
  BY <1>3, <1>4, <1>11 DEF IsRead, ThreadsOf
<1>13. ActiveIsRead'
  BY <1>1, <1>3, <1>4, <1>12 DEF ActiveIsRead
<1>14. NoDeviceLeaked'
  BY <1>1, <1>2, <1>3, <1>4 DEF NoDeviceLeaked, TypeOK
<1> QED BY <1>7, <1>8, <1>9, <1>10, <1>13, <1>14 DEF IndInv

\* The process ends with the exception.
LEMMA ItNoHandlerInv ==
  ASSUME IndInv, NEW t \in Threads, ItNoHandler(t)
  PROVE  IndInv'
<1>0. PICK o : o = dev[t]
  OBVIOUS
<1>1. /\ TypeOK /\ NoDangling /\ ThreadsApart /\ DevicesKept /\ RunningIsRead
      /\ NoDeviceLeaked
  BY Parts
<1>2. Step(t, "handler", "handler")
  BY DEF ItNoHandler
<1>3. /\ Alive(t) /\ o \in Objects /\ object[o] = "live"
      /\ pc[t] = "handler" /\ pc' = [pc EXCEPT ![t] = "handler"]
      /\ UNCHANGED <<devices, dev, stage, at, rushed>>
  BY <1>0, <1>2, StepFacts
<1>4. /\ running' = [running EXCEPT ![o] = FALSE] /\ dev[t] = o
      /\ active' \subseteq active /\ aborted' = TRUE
      /\ UNCHANGED <<object, reap, inputs>>
  BY <1>0 DEF ItNoHandler
<1>5. pc' = pc
  BY <1>1, <1>3 DEF TypeOK
<1>6. TypeOK'
  BY <1>1, <1>3, <1>4, <1>5 DEF TypeOK
<1>7. NoDangling' /\ ThreadsApart'
  BY <1>1, <1>3, <1>4, <1>5 DEF NoDangling, ThreadsApart, Alive
<1>8. DevicesKept'
  BY <1>1, <1>3, <1>4, <1>5 DEF DevicesKept, TypeOK
<1>9. RunningIsRead' /\ NoDeviceLeaked'
  BY <1>1, <1>3, <1>4, <1>5 DEF RunningIsRead, NoDeviceLeaked, TypeOK
<1>10. ActiveIsRead'
  BY <1>4 DEF ActiveIsRead
<1> QED BY <1>6, <1>7, <1>8, <1>9, <1>10 DEF IndInv

\* The thread ends; it deletes its device if it was told to, and then the
\* device is in no list but quit()'s.
LEMMA ItCleanupInv ==
  ASSUME IndInv, NEW t \in Threads, ItCleanup(t)
  PROVE  IndInv'
<1>0. PICK o : o = dev[t]
  OBVIOUS
<1>1. /\ TypeOK /\ NoDangling /\ ThreadsApart /\ DevicesKept /\ RunningIsRead
      /\ ActiveIsRead /\ NoDeviceLeaked
  BY Parts
<1>2. Step(t, "cleanup", "ended")
  BY DEF ItCleanup
<1>3. /\ Alive(t) /\ o \in Objects /\ object[o] = "live"
      /\ pc[t] = "cleanup" /\ pc' = [pc EXCEPT ![t] = "ended"] /\ ~aborted
      /\ UNCHANGED <<devices, dev, stage, at, rushed>>
  BY <1>0, <1>2, StepFacts
<1>4. /\ object' = IF reap[o] THEN [object EXCEPT ![o] = "deleted"] ELSE object
      /\ UNCHANGED <<active, running, reap, inputs, aborted>> /\ dev[t] = o
  BY <1>0 DEF ItCleanup
<1>5. o \notin rushed => ~running[o] /\ ThreadsOf(o) = {t}
  BY <1>0, <1>3, LeavesStopped
<1>6. reap[o] => \A n \in Names : devices[n] = o => n = at
  BY <1>1, <1>3, InputAssumption DEF DevicesKept
<1>7. \A p : ThreadsOf(p)' = ThreadsOf(p) \ {t}
  BY <1>1, <1>3 DEF ThreadsOf, Alive, TypeOK
<1>8. TypeOK'
  BY <1>1, <1>3, <1>4 DEF TypeOK
<1>9. NoDangling'
  <2> SUFFICES ASSUME NEW u \in Threads, Alive(u)', dev[u] \notin rushed
               PROVE  object'[dev[u]] = "live"
    BY <1>3 DEF NoDangling
  <2>1. u # t /\ Alive(u) /\ dev[u] \in Objects
    BY <1>1, <1>3 DEF Alive, TypeOK
  <2>2. dev[u] # o /\ object[dev[u]] = "live"
    BY <1>1, <1>3, <1>4, <2>1 DEF NoDangling, ThreadsApart
  <2> QED BY <1>1, <1>4, <2>1, <2>2 DEF TypeOK
<1>10. ThreadsApart'
  BY <1>1, <1>3 DEF ThreadsApart, Alive, TypeOK
<1>11. DevicesKept'
  <2>1. \A p \in Objects : object'[p] = object[p] \/ (p = o /\ reap[o] /\ object'[p] = "deleted")
    BY <1>1, <1>4 DEF TypeOK
  <2>2. \A n \in Names : devices[n] # None => devices[n] \in Objects
    BY <1>1 DEF TypeOK
  <2>3. \A n \in Names : devices[n] # None /\ n # at => object'[devices[n]] = object[devices[n]]
    BY <1>6, <2>1, <2>2
  <2>4. \A n \in Names : devices[n] # None => object'[devices[n]] # "new"
    BY <1>1, <2>1, <2>2 DEF DevicesKept
  <2>5. \A p \in Objects : object'[p] = "new" => object[p] = "new"
    BY <2>1
  <2> QED BY <1>1, <1>3, <1>4, <2>3, <2>4, <2>5 DEF DevicesKept
<1>12. RunningIsRead'
  <2> SUFFICES ASSUME NEW p \in Objects, running[p], object'[p] = "live"
               PROVE  \E u \in Threads : dev[u] = p /\ pc'[u] \in {"handler", "test", "read"}
    BY <1>3, <1>4 DEF RunningIsRead
  <2>1. object[p] = "live"
    BY <1>1, <1>4 DEF TypeOK
  <2>2. PICK u \in Threads : dev[u] = p /\ pc[u] \in {"handler", "test", "read"}
    BY <1>1, <2>1 DEF RunningIsRead
  <2>3. pc'[u] = pc[u]
    BY <1>1, <1>3, <2>2 DEF TypeOK
  <2> QED BY <2>2, <2>3
<1>13. \A p \in Objects \ rushed : IsRead(p)' <=> IsRead(p)
  <2> SUFFICES ASSUME NEW p \in Objects \ rushed PROVE IsRead(p)' <=> IsRead(p)
    OBVIOUS
  <2>1. CASE p = o
    <3>1. ThreadsOf(o) = {t} /\ ~running[o]
      BY <1>5, <2>1
    <3>2. ThreadsOf(o)' = ThreadsOf(o) \ {t}
      BY <1>7
    <3>3. ThreadsOf(o)' = {}
      BY <3>1, <3>2
    <3> QED BY <1>3, <2>1, <3>1, <3>3 DEF IsRead
  <2>2. CASE p # o
    <3>1. t \notin ThreadsOf(p)
      BY <1>4, <2>2 DEF ThreadsOf
    <3>2. ThreadsOf(p)' = ThreadsOf(p) \ {t}
      BY <1>7
    <3>3. ThreadsOf(p)' = ThreadsOf(p)
      BY <3>1, <3>2
    <3>4. \A u \in ThreadsOf(p) : pc'[u] = pc[u]
      BY <1>1, <1>3, <3>1 DEF ThreadsOf, TypeOK
    <3> QED BY <1>4, <3>3, <3>4 DEF IsRead
  <2> QED BY <2>1, <2>2
<1>14. ActiveIsRead'
  BY <1>1, <1>3, <1>4, <1>13 DEF ActiveIsRead
<1>15. NoDeviceLeaked'
  <2> SUFFICES ASSUME NEW p \in Objects, object'[p] = "live"
               PROVE  \/ devices[Id[p]] = p /\ Id[p] # at
                      \/ reap[p] /\ \E u \in Threads :
                           dev[u] = p /\ pc'[u] \in {"handler", "test", "read", "cleanup"}
    BY <1>3, <1>4 DEF NoDeviceLeaked
  <2>1. object[p] = "live" /\ (p = o => ~reap[o])
    BY <1>1, <1>4 DEF TypeOK
  <2>2. CASE devices[Id[p]] = p /\ Id[p] # at
    BY <2>2
  <2>3. CASE reap[p] /\ \E u \in Threads :
               dev[u] = p /\ pc[u] \in {"handler", "test", "read", "cleanup"}
    <3>1. p # o
      BY <2>1, <2>3
    <3>2. PICK u \in Threads : dev[u] = p /\ pc[u] \in {"handler", "test", "read", "cleanup"}
      BY <2>3
    <3>3. pc'[u] = pc[u]
      BY <1>1, <1>3, <1>4, <3>1, <3>2 DEF TypeOK
    <3> QED BY <2>3, <3>2, <3>3
  <2> QED BY <1>1, <2>1, <2>2, <2>3 DEF NoDeviceLeaked
<1> QED BY <1>8, <1>9, <1>10, <1>11, <1>12, <1>14, <1>15 DEF IndInv

\* A fault of the process, or nothing at all.
LEMMA StillInv ==
  ASSUME IndInv, UNCHANGED <<devVars, pc, dev, inputs, stage, at, rushed>>,
         aborted' = aborted \/ aborted' = TRUE
  PROVE  IndInv'
<1>1. TypeOK' /\ NoDangling' /\ ThreadsApart'
  BY Parts DEF TypeOK, NoDangling, ThreadsApart, Alive, devVars
<1>2. DevicesKept' /\ RunningIsRead' /\ NoDeviceLeaked'
  BY Parts DEF DevicesKept, RunningIsRead, NoDeviceLeaked, devVars
<1>3. ActiveIsRead'
  BY Parts DEF ActiveIsRead, IsRead, ThreadsOf, Alive, devVars
<1> QED BY <1>1, <1>2, <1>3 DEF IndInv

LEMMA NextInv ==
  ASSUME IndInv, [Next]_vars
  PROVE  IndInv'
<1>1. CASE UNCHANGED vars
  BY <1>1, StillInv DEF vars, quitVars
<1>2. CASE \E o \in Objects : AddDevice(o)
  BY <1>2, AddDeviceInv
<1>3. CASE \E n \in Names, t \in Threads : EnableDevice(n, t)
  BY <1>3, EnableDeviceInv
<1>4. CASE \E n \in Names : DisableDevice(n) \/ RemoveRunning(n)
  BY <1>4, DisableDeviceInv, RemoveRunningInv
<1>5. CASE \E n \in Names : RemoveStopped(n) \/ QuitDisposes(n)
  <2>1. PICK n \in Names : RemoveStopped(n) \/ QuitDisposes(n)
    BY <1>5
  <2>2. DisposeDevice(n) /\ at = None
    BY <2>1, Parts DEF RemoveStopped, QuitDisposes, In, DevicesKept
  <2> QED BY <2>2, DisposeDeviceInv
<1>6. CASE QuitStarts \/ QuitErases \/ QuitEnds
  BY <1>6, QuitFramesInv, QuitErasesInv
<1>7. CASE \E n \in Names : QuitStops(n)
  BY <1>7, QuitStopsInv
<1>8. CASE \E t \in Threads : ItStep(t)
  BY <1>8, ItStartInv, ItLoopInv, ItNoHandlerInv, ItCleanupInv DEF ItStep
<1>9. CASE \E t \in Threads : ItFault(t)
  BY <1>9, StillInv DEF ItFault
<1> QED BY <1>1, <1>2, <1>3, <1>4, <1>5, <1>6, <1>7, <1>8, <1>9 DEF Next

-----------------------------------------------------------------------------
(* The theorems.                                                           *)

\* The inductive invariant, in every behaviour of the code.
THEOREM Invariance == Spec => []IndInv
<1>1. Init => IndInv
  BY InitInv
<1>2. IndInv /\ [Next]_vars => IndInv'
  BY NextInv
<1> QED BY <1>1, <1>2, PTL DEF Spec

\* A thread finds its device alive whenever it touches it, and no two threads
\* read one device, whatever devices are added, enabled, disabled and removed
\* and when quit() is called, unless an operation on that device overtook its
\* thread.
THEOREM ThreadsAreSound == Spec => []ThreadsSound
<1>1. IndInv => ThreadsSound
  BY DEF IndInv, ThreadsSound
<1> QED BY <1>1, Invariance, PTL

\* remove_device() and quit() leak no device, overtaken or not: one that is out
\* of the list is deleted, or marked for a thread that is still there to find
\* the mark.
THEOREM NoneIsLeaked == Spec => []NoDeviceLeaked
<1>1. IndInv => NoDeviceLeaked
  BY DEF IndInv
<1> QED BY <1>1, Invariance, PTL

\* The list of active devices tells which ones are read, of those that no
\* operation overtook.
THEOREM ActiveAreRead == Spec => []ActiveIsRead
<1>1. IndInv => ActiveIsRead
  BY DEF IndInv
<1> QED BY <1>1, Invariance, PTL
=============================================================================
