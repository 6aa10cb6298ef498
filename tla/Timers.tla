------------------------------- MODULE Timers -------------------------------
(***************************************************************************)
(* The timers of the EDT: src/event/timer.cpp.                             *)
(*                                                                         *)
(* Timers are added, removed and asked for by any thread and fired by the  *)
(* EDT.  Every operation on the list runs under ctx->mutex and is one step;*)
(* what a caller does with its Timer pointer after the unlock is another.  *)
(* Time is kept relative: left[t] is what remains of the period, so that   *)
(* the clock needs no bound; only schedule() looks at the wall clock,      *)
(* which stops counting at the last of Timestamps.                         *)
(***************************************************************************)
EXTENDS Integers, FiniteSets

CONSTANTS
  Timers,       \* the Timer objects that may be created in a behaviour
  Periods,      \* the delays and periods callers ask for, in ticks
  Timestamps,   \* the times callers schedule() for
  Resolution,   \* tick_resolution
  IdHalf        \* how many IDs are not negative: 2^15, less to reach the wrap

ASSUME TimerAssumption ==
  /\ Periods \subseteq Nat
  /\ Timestamps \subseteq Nat \ {0}
  /\ Resolution \in Nat
  /\ IdHalf \in Nat \ {0}

VARIABLES
  now,          \* time(NULL), up to the last of Timestamps
  sinceTick,    \* time since last_tick_time, up to Resolution
  list,         \* ctx->list: from IDs to Timer objects
  state,        \* "new", "live" or "deleted": the Timer object
  id, left, period, recurring, system,   \* its fields
  caller,       \* the call that added it: "none", "unlocked", "returned"
  result,       \* what that call returned
  fired,        \* how often it fired, up to FireCap
  asked,        \* the timers DELTIMER was asked to delete
  stopped       \* clear_timers() has run at the end of the EDT

objVars == <<state, id, left, period, recurring, system, fired>>
callVars == <<caller, result, asked>>
vars == <<now, sinceTick, list, objVars, callVars, stopped>>

FireCap == 2

\* Conversion of a size to the signed ID type.
ToId(n) == ((n + IdHalf) % (2 * IdHalf)) - IdHalf
Ids == -IdHalf .. IdHalf - 1

Listed(t) == \E i \in DOMAIN list : list[i] = t

Init ==
  /\ now = 0
  /\ sinceTick = Resolution
  /\ list = [i \in {} |-> 0]
  /\ state = [t \in Timers |-> "new"]
  /\ id = [t \in Timers |-> 0]
  /\ left = [t \in Timers |-> 0]
  /\ period = [t \in Timers |-> 0]
  /\ recurring = [t \in Timers |-> FALSE]
  /\ system = [t \in Timers |-> FALSE]
  /\ fired = [t \in Timers |-> 0]
  /\ caller = [t \in Timers |-> "none"]
  /\ result = [t \in Timers |-> 0]
  /\ asked = {}
  /\ stopped = FALSE

-----------------------------------------------------------------------------
(* Callers.                                                                *)

\* The ID of the next timer: the number of timers in the list.
NextId == ToId(Cardinality(DOMAIN list))

\* new Timer, put in the list under its ID, whatever is there already.
Add(t, p, recur, sys) ==
  /\ ~stopped
  /\ state[t] = "new"
  /\ state' = [state EXCEPT ![t] = "live"]
  /\ id' = [id EXCEPT ![t] = NextId]
  /\ left' = [left EXCEPT ![t] = p]
  /\ period' = [period EXCEPT ![t] = p]
  /\ recurring' = [recurring EXCEPT ![t] = recur]
  /\ system' = [system EXCEPT ![t] = sys]
  /\ list' = [i \in DOMAIN list \cup {NextId} |->
                IF i = NextId THEN t ELSE list[i]]
  /\ caller' = [caller EXCEPT ![t] = "unlocked"]
  /\ UNCHANGED <<now, sinceTick, fired, result, asked, stopped>>

Delay(t, p)       == Add(t, p, FALSE, TRUE)
AddTimer(t, p)    == Add(t, p, TRUE, TRUE)
SysAddTimer(t, p) == Add(t, p, TRUE, FALSE)

\* schedule() hands the timestamp itself to delay().
Schedule(t, timestamp) == now < timestamp /\ Delay(t, timestamp)

\* t->id() after the unlock, for the log and for the caller: what a deleted
\* object yields is arbitrary.
ReturnId(t) ==
  /\ caller[t] = "unlocked"
  /\ caller' = [caller EXCEPT ![t] = "returned"]
  /\ \E r \in IF state[t] = "live" THEN {id[t]} ELSE Ids :
       result' = [result EXCEPT ![t] = r]
  /\ UNCHANGED <<now, sinceTick, list, objVars, asked, stopped>>

\* ~Timer() of the objects D; the fields are gone with them (recurring is kept
\* for the properties).
Delete(D) ==
  /\ state' = [t \in Timers |-> IF t \in D THEN "deleted" ELSE state[t]]
  /\ id' = [t \in Timers |-> IF t \in D THEN 0 ELSE id[t]]
  /\ period' = [t \in Timers |-> IF t \in D THEN 0 ELSE period[t]]
  /\ system' = [t \in Timers |-> IF t \in D THEN FALSE ELSE system[t]]
  /\ UNCHANGED recurring

\* The list without the entries of the IDs I.
Erase(I) == [i \in DOMAIN list \ I |-> list[i]]

\* Bug: the object is deleted and its entry kept.
ForgetErase(i) ==
  /\ UNCHANGED list
  /\ Delete({list[i]})

\* sys_remove_timer()
SysRemoveTimer(i) ==
  /\ list' = Erase({i})
  /\ Delete({list[i]})

\* remove_timer(), as DELTIMER calls it: throws for an unknown ID and for a
\* system timer.
RemoveTimer(i) ==
  /\ ~stopped
  /\ i \in DOMAIN list
  /\ asked' = asked \cup {list[i]}
  /\ IF system[list[i]]
     THEN UNCHANGED <<list, state, id, period, recurring, system>>
     ELSE SysRemoveTimer(i)
  /\ UNCHANGED <<now, sinceTick, left, fired, caller, result, stopped>>

-----------------------------------------------------------------------------
(* Time and the EDT.                                                       *)

LastTime == IF Timestamps = {} THEN 0
            ELSE CHOOSE n \in Timestamps : \A m \in Timestamps : m <= n

Tick ==
  /\ now' = IF now < LastTime THEN now + 1 ELSE now
  /\ sinceTick' = IF sinceTick < Resolution THEN sinceTick + 1 ELSE sinceTick
  /\ left' = [t \in Timers |-> IF left[t] > 0 THEN left[t] - 1 ELSE 0]
  /\ UNCHANGED <<list, state, id, period, recurring, system, fired, callVars,
                 stopped>>

\* Bug: the walk over the list ends after the first timer that fires.
FirstReady ==
  {i \in DOMAIN list : /\ left[list[i]] = 0
                       /\ \A j \in DOMAIN list : left[list[j]] = 0 => i <= j}

\* The IDs of the timers that are ready().
Ready == {i \in DOMAIN list : left[list[i]] = 0}

\* Bug: a timer that fired stays in the list.
KeepFired(i) == FALSE

\* A timer that fired is completed unless it recurs.
Completes(i) == ~recurring[list[i]]

\* check_timers() and fire_timers(): fire() generates the event of each ready
\* timer and restarts it; a timer that does not recur is removed.
CheckTimers ==
  /\ ~stopped
  /\ sinceTick = Resolution
  /\ sinceTick' = 0
  /\ LET firing == {list[i] : i \in Ready}
         done   == {i \in Ready : Completes(i)}
     IN /\ fired' = [t \in Timers |-> IF t \in firing /\ fired[t] < FireCap
                                      THEN fired[t] + 1 ELSE fired[t]]
        /\ left' = [t \in Timers |-> IF t \in firing THEN period[t] ELSE left[t]]
        /\ list' = Erase(done)
        /\ Delete({list[i] : i \in done})
  /\ UNCHANGED <<now, callVars, stopped>>

\* clear_timers(), the end of edt_cleanup(): the callers are handlers, and
\* these have ended.
ClearTimers ==
  /\ ~stopped
  /\ \A t \in Timers : caller[t] # "unlocked"
  /\ stopped' = TRUE
  /\ list' = Erase(DOMAIN list)
  /\ Delete({list[i] : i \in DOMAIN list})
  /\ UNCHANGED <<now, sinceTick, left, fired, callVars>>

Next ==
  \/ \E t \in Timers, p \in Periods :
       Delay(t, p) \/ AddTimer(t, p) \/ SysAddTimer(t, p)
  \/ \E t \in Timers, timestamp \in Timestamps : Schedule(t, timestamp)
  \/ \E t \in Timers : ReturnId(t)
  \/ \E i \in DOMAIN list : RemoveTimer(i)
  \/ Tick
  \/ CheckTimers
  \/ ClearTimers

Spec == Init /\ [][Next]_vars

\* Time passes and the EDT keeps running until it is stopped.
FairSpec == Spec /\ WF_vars(Tick) /\ WF_vars(CheckTimers)

-----------------------------------------------------------------------------
(* Properties.                                                             *)

\* Every variable ranges over the values the code can give it.
TypeOK ==
  /\ now \in Nat
  /\ sinceTick \in 0 .. Resolution
  /\ DOMAIN list \subseteq Ids
  /\ \A i \in DOMAIN list : list[i] \in Timers
  /\ state \in [Timers -> {"new", "live", "deleted"}]
  /\ id \in [Timers -> Ids]
  /\ left \in [Timers -> Nat]
  /\ period \in [Timers -> Nat]
  /\ recurring \in [Timers -> BOOLEAN]
  /\ system \in [Timers -> BOOLEAN]
  /\ fired \in [Timers -> 0 .. FireCap]
  /\ caller \in [Timers -> {"none", "unlocked", "returned"}]
  /\ result \in [Timers -> Ids]
  /\ asked \subseteq Timers
  /\ stopped \in BOOLEAN

\* The list holds no deleted timer and no timer twice: each entry is a live
\* timer under that timer's own ID, although IDs are reused, timers overwritten
\* and others removed while the EDT fires them.
ListSound ==
  \A i \in DOMAIN list : state[list[i]] = "live" /\ id[list[i]] = i

\* A one-shot timer fires at most once, and when it has fired it is deleted.
OneShotFiresOnce ==
  \A t \in Timers :
    ~recurring[t] => fired[t] <= 1 /\ (fired[t] = 1 => state[t] = "deleted")

\* The inductive invariant behind the two: an object that is new is in no list
\* and has not fired, and a one-shot timer that lives has not fired.
IndInv ==
  /\ TypeOK
  /\ ListSound
  /\ \A t \in Timers :
       /\ state[t] = "new" => fired[t] = 0
       /\ state[t] = "live" /\ ~recurring[t] => fired[t] = 0
  /\ OneShotFiresOnce

\* A timer that stays in the list is fired, whatever other timers do.
ListedFires == \A t \in Timers : Listed(t) ~> (fired[t] > 0 \/ ~Listed(t))

\* "Okay, I will do that" (timer.cpp:338): a timer whose caller got an ID stays
\* in the list until it fires, is deleted on request or the EDT ends.
AcceptedIsKept ==
  \A t \in Timers :
    caller[t] = "returned" /\ result[t] # -1 /\ fired[t] = 0 /\ ~stopped
    /\ t \notin asked => Listed(t)

\* "It deletes a timer" (timer.cpp:128): so does DELTIMER with a timer's ID.
DeltimerDeletes == \A t \in asked : state[t] = "deleted"

\* "The timer ID is" (timer.cpp:339): it is read from a timer that exists.
IdReadFromLive == \A t \in Timers : caller[t] = "unlocked" => state[t] = "live"

\* "that didn't work quite right" (timer.cpp:333): a caller that is told so has
\* added no timer.
RefusedIsNotListed ==
  \A t \in Timers : caller[t] = "returned" /\ result[t] = -1 => ~Listed(t)
=============================================================================
