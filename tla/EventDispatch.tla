--------------------------- MODULE EventDispatch ---------------------------
(***************************************************************************)
(* The event dispatch thread (EDT), the handler threads it spawns, and the *)
(* suspend/resume protocol between them: src/event/dispatch.cpp,           *)
(* src/event/handler.cpp and the event half of msa.cpp's start() and       *)
(* stop().                                                                 *)
(*                                                                         *)
(* An element of Events stands for one Event object for its whole life, and*)
(* for the HandlerContext and the thread that handle it once it is         *)
(* dispatched.  Accesses to the unsynchronised fields (status,             *)
(* current_handler, running, reap_in_handler, the handlers map) are single *)
(* steps, one per access whose order another thread can observe.           *)
(***************************************************************************)
EXTENDS Integers, Sequences

CONSTANTS
  Events,       \* every Event object that may be created in a behaviour
  Topics,       \* the topics of event/topics.hpp
  TopicOf,      \* TopicOf[e]: e->topic
  Priority,     \* Priority[t]: topic_attr_table[t].priority
  Addr,         \* Addr[e]: the address of e, which the queue is ordered by
  TextInput,    \* the topic parse_command is subscribed to
  Killers,      \* the TEXT_INPUT events that carry the KILL command
  NoEvent       \* the NULL HandlerContext / Event pointer

ASSUME TopicAssumption ==
  /\ TextInput \in Topics
  /\ TopicOf \in [Events -> Topics]
  /\ Priority \in [Topics -> Nat]
  /\ Addr \in [Events -> Nat]
  /\ NoEvent \notin Events
  /\ Killers \subseteq {e \in Events : TopicOf[e] = TextInput}

VARIABLES
  status,       \* hdl->status
  main,         \* where the thread that called msa::start() is
  edt,          \* where the EDT is
  ev,           \* the EDT's local: the event or context it is working on
  unborn,       \* events not created yet
  queue,        \* the contents of the priority queue
  handlers,     \* topics whose handler is not NULL
  current,      \* current_handler
  interrupted,  \* the stack of interrupted contexts, top last
  thr,          \* thr[e]: where the thread that handles e is
  live,         \* contexts allocated and not yet deleted
  running,      \* ctx->running
  reap,         \* ctx->reap_in_handler
  suspend_flag, in_wait_loop, syscall_origin,   \* the fields of ctx->sync
  frees,        \* how often the Event object has been deleted
  disposed      \* the EventDispatchContext has been deleted

syncVars == <<suspend_flag, in_wait_loop, syscall_origin>>
ctxVars  == <<live, running, reap, frees>>
edtVars  == <<edt, ev, current, interrupted>>
vars == <<status, main, edtVars, unborn, queue, handlers, thr, ctxVars,
          syncVars, disposed>>

Prio(e) == Priority[TopicOf[e]]

\* e is on the stack of interrupted contexts.
OnStack(e) == \E i \in 1 .. Len(interrupted) : interrupted[i] = e

\* The thread states in which the handler may touch its context.
InHandler == {"created", "body", "waiting", "woken", "stopping", "quit",
              "request", "join", "returned", "finish"}

-----------------------------------------------------------------------------
(* handler.cpp.  Each operation runs under sync->suspend_mutex.            *)

\* suspend_handler()
Suspend(e) == suspend_flag' = [suspend_flag EXCEPT ![e] = TRUE]

\* Bug: the broadcast is forgotten.
ResumeSilently(e) ==
  /\ suspend_flag' = [suspend_flag EXCEPT ![e] = FALSE]
  /\ UNCHANGED thr

\* resume_handler(): clears the flag and wakes the thread that waits on it.
Resume(e) ==
  /\ suspend_flag' = [suspend_flag EXCEPT ![e] = FALSE]
  /\ thr' = IF thr[e] = "waiting" THEN [thr EXCEPT ![e] = "woken"] ELSE thr

\* handler_suspended(), and the bug of not waiting for it.
SuspendedAtOnce(e) == TRUE
HandlerSuspended(e) == in_wait_loop[e]

\* One turn of the loop in HANDLER_INTERRUPT_POINT, up to cond_wait or exit.
InterruptLoop(e) ==
  /\ in_wait_loop' = [in_wait_loop EXCEPT ![e] = suspend_flag[e]]
  /\ thr' = [thr EXCEPT ![e] = IF suspend_flag[e] THEN "waiting" ELSE "body"]

\* A fresh HandlerSync.
CreateHandlerSync(e) ==
  /\ suspend_flag'   = [suspend_flag EXCEPT ![e] = FALSE]
  /\ in_wait_loop'   = [in_wait_loop EXCEPT ![e] = FALSE]
  /\ syscall_origin' = [syscall_origin EXCEPT ![e] = FALSE]

-----------------------------------------------------------------------------
(* The module is initialised and the EDT thread created: end of init().    *)

Init ==
  /\ status = "CREATED"
  /\ main = "init"
  /\ edt = "created"
  /\ ev = NoEvent
  /\ unborn = Events
  /\ queue = {}
  /\ handlers = {}
  /\ current = NoEvent
  /\ interrupted = <<>>
  /\ thr = [e \in Events |-> "none"]
  /\ live = {}
  /\ running        = [e \in Events |-> FALSE]
  /\ reap           = [e \in Events |-> FALSE]
  /\ suspend_flag   = [e \in Events |-> FALSE]
  /\ in_wait_loop   = [e \in Events |-> FALSE]
  /\ syscall_origin = [e \in Events |-> FALSE]
  /\ frees = [e \in Events |-> 0]
  /\ disposed = FALSE

\* Delete the Event object and, when it has one, the context and the sync.
Free(e) ==
  /\ frees' = [frees EXCEPT ![e] = @ + 1]
  /\ live' = live \ {e}

-----------------------------------------------------------------------------
(* Callers of the module.                                                  *)

\* generate(): any thread may push an event while the context exists.
Generate(e) ==
  /\ e \in unborn
  /\ ~disposed
  /\ unborn' = unborn \ {e}
  /\ queue' = queue \cup {e}
  /\ UNCHANGED <<status, main, edtVars, handlers, thr, ctxVars, syncVars,
                 disposed>>

\* Code that runs in a handler thread, or start(), changes a subscription.
MayCall == main = "init" \/ \E e \in Events : thr[e] = "body"

Subscribe(t) ==
  /\ ~disposed
  /\ MayCall
  /\ handlers' = handlers \cup {t}
  /\ UNCHANGED <<status, main, edtVars, unborn, queue, thr, ctxVars,
                 syncVars, disposed>>

Unsubscribe(t) ==
  /\ ~disposed
  /\ \E e \in Events : thr[e] = "body"
  /\ handlers' = handlers \ {t}
  /\ UNCHANGED <<status, main, edtVars, unborn, queue, thr, ctxVars,
                 syncVars, disposed>>

-----------------------------------------------------------------------------
(* The thread that starts the system.                                      *)

\* start() returns MSA_SUCCESS: main() goes on to wait for the end.
MainUp ==
  /\ main = "init"
  /\ main' = "wait"
  /\ UNCHANGED <<status, edtVars, unborn, queue, handlers, thr, ctxVars,
                 syncVars, disposed>>

\* main() sees STOPPED and calls msa::dispose().
MainExit ==
  /\ main = "wait"
  /\ status = "STOPPED"
  /\ main' = "exited"
  /\ UNCHANGED <<status, edtVars, unborn, queue, handlers, thr, ctxVars,
                 syncVars, disposed>>

-----------------------------------------------------------------------------
(* The event dispatch thread.                                              *)

\* No step of the EDT touches these; a context deleted under it is a crash.
EdtUnchanged == ~disposed /\ UNCHANGED <<main, unborn, disposed>>

EdtStart ==
  /\ edt = "created"
  /\ status' = "RUNNING"
  /\ edt' = "test"
  /\ EdtUnchanged
  /\ UNCHANGED <<ev, current, interrupted, queue, handlers, thr, ctxVars,
                 syncVars>>

\* The loop condition of edt_start().
EdtTest ==
  /\ edt = "test"
  /\ edt' = IF status = "STOP_REQUESTED" THEN "cleanup" ELSE "poll"
  /\ EdtUnchanged
  /\ UNCHANGED <<status, ev, current, interrupted, queue, handlers, thr,
                 ctxVars, syncVars>>

\* top() of a priority_queue<const Event *>: the greatest address.
IsTop(e) == e \in queue /\ \A f \in queue : Addr[f] <= Addr[e]

\* Bug: an event of the same priority interrupts.
YieldsToGreater(e) == current # NoEvent /\ Prio(current) > Prio(e)

\* The top event is left where it is when the current one is no less urgent.
Yields(e) == current # NoEvent /\ Prio(current) >= Prio(e)

\* edt_poll_event_queue(), and the branch of edt_dispatch_event().
EdtPoll ==
  /\ edt = "poll"
  /\ \/ /\ queue = {} \/ \E e \in queue : IsTop(e) /\ Yields(e)
        /\ edt' = "reap"
        /\ UNCHANGED <<ev, queue>>
     \/ \E e \in queue :
          /\ IsTop(e)
          /\ ~Yields(e)
          /\ queue' = queue \ {e}
          /\ ev' = e
          /\ edt' = IF current = NoEvent THEN "lookup" ELSE "suspend"
  /\ EdtUnchanged
  /\ UNCHANGED <<status, current, interrupted, handlers, thr, ctxVars,
                 syncVars>>

\* edt_interrupt_handler(): tell the current handler to suspend ...
EdtSuspend ==
  /\ edt = "suspend"
  /\ Suspend(current)
  /\ edt' = "await"
  /\ EdtUnchanged
  /\ UNCHANGED <<status, ev, current, interrupted, queue, handlers, thr,
                 ctxVars, in_wait_loop, syscall_origin>>

\* ... and sleep until handler_suspended(), then put it on the stack.
EdtInterrupt ==
  /\ edt = "await"
  /\ HandlerSuspended(current)
  /\ interrupted' = Append(interrupted, current)
  /\ current' = NoEvent
  /\ edt' = "lookup"
  /\ EdtUnchanged
  /\ UNCHANGED <<status, ev, queue, handlers, thr, ctxVars, syncVars>>

\* edt_dispatch_event() looks the handler up; an event without one is deleted.
EdtLookup ==
  /\ edt = "lookup"
  /\ IF TopicOf[ev] \in handlers
     THEN edt' = "spawn" /\ UNCHANGED <<ev, frees, live>>
     ELSE edt' = "reap" /\ ev' = NoEvent /\ Free(ev)
  /\ EdtUnchanged
  /\ UNCHANGED <<status, current, interrupted, queue, handlers, thr, running,
                 reap, syncVars>>

\* edt_spawn_handler(): the handler is read from the map a second time (a
\* NULL here is called by the new thread); thread::create() may fail.
EdtSpawn ==
  /\ edt = "spawn"
  /\ TopicOf[ev] \in handlers
  /\ CreateHandlerSync(ev)
  /\ live' = live \cup {ev}
  /\ reap' = [reap EXCEPT ![ev] = FALSE]
  /\ current' = ev
  /\ ev' = NoEvent
  /\ \/ /\ running' = [running EXCEPT ![ev] = TRUE]
        /\ thr' = [thr EXCEPT ![ev] = "created"]
     \/ /\ running' = [running EXCEPT ![ev] = FALSE]
        /\ UNCHANGED thr
  /\ edt' = "reap"
  /\ EdtUnchanged
  /\ UNCHANGED <<status, interrupted, queue, handlers, frees>>

\* Bug: the current context is taken to have finished.
AlwaysFinished(e) == TRUE

\* !ctx->running
HasFinished(e) == ~running[e]

\* Bug: the finished context is deleted and stays current.
ReapKeepsCurrent ==
  /\ edt = "reap"
  /\ edt' = "resume"
  /\ EdtUnchanged
  /\ UNCHANGED <<status, ev, current, interrupted, queue, handlers, thr,
                 ctxVars, syncVars>>

\* edt_run(): delete the current context once its handler has finished.
EdtReap ==
  /\ edt = "reap"
  /\ IF current # NoEvent /\ HasFinished(current)
     THEN Free(current) /\ current' = NoEvent
     ELSE UNCHANGED <<live, frees, current>>
  /\ edt' = "resume"
  /\ EdtUnchanged
  /\ UNCHANGED <<status, ev, interrupted, queue, handlers, thr, running, reap,
                 syncVars>>

\* edt_run(): with no current handler, resume the one interrupted last ...
EdtResume ==
  /\ edt = "resume"
  /\ IF current = NoEvent /\ interrupted # <<>>
     THEN /\ ev' = interrupted[Len(interrupted)]
          /\ interrupted' = SubSeq(interrupted, 1, Len(interrupted) - 1)
          /\ Resume(interrupted[Len(interrupted)])
          /\ edt' = "restore"
     ELSE /\ edt' = "test"
          /\ UNCHANGED <<ev, interrupted, suspend_flag, thr>>
  /\ EdtUnchanged
  /\ UNCHANGED <<status, current, queue, handlers, ctxVars, in_wait_loop,
                 syscall_origin>>

\* ... and only then make it current.  check_timers() follows; the events it
\* fires are Generate steps.
EdtRestore ==
  /\ edt = "restore"
  /\ current' = ev
  /\ ev' = NoEvent
  /\ edt' = "test"
  /\ EdtUnchanged
  /\ UNCHANGED <<status, interrupted, queue, handlers, thr, ctxVars, syncVars>>

-----------------------------------------------------------------------------
(* edt_cleanup().                                                          *)

\* dispose_handler_context(e, wait): a handler that still runs is resumed and
\* then waited for, or told to delete its context itself.
DisposeContext(e, wait) ==
  IF running[e]
  THEN /\ ev' = e
       /\ edt' = IF wait THEN "outlast" ELSE "mark"
       /\ IF HandlerSuspended(e) THEN Resume(e) ELSE UNCHANGED <<suspend_flag, thr>>
       /\ UNCHANGED <<live, frees>>
  ELSE /\ Free(e)
       /\ edt' = "unwind"
       /\ UNCHANGED <<ev, suspend_flag, thr>>

EdtCleanupCurrent ==
  /\ edt = "cleanup"
  /\ IF current # NoEvent
     THEN DisposeContext(current, ~syscall_origin[current])
     ELSE edt' = "unwind" /\ UNCHANGED <<ev, suspend_flag, thr, live, frees>>
  /\ EdtUnchanged
  /\ UNCHANGED <<status, current, interrupted, queue, handlers, running, reap,
                 in_wait_loop, syscall_origin>>

\* ctx->reap_in_handler = true
EdtMark ==
  /\ edt = "mark"
  /\ reap' = [reap EXCEPT ![ev] = TRUE]
  /\ ev' = NoEvent
  /\ edt' = "unwind"
  /\ EdtUnchanged
  /\ UNCHANGED <<status, current, interrupted, queue, handlers, thr, live,
                 running, frees, syncVars>>

\* while (ctx->running) sleep, and delete.
EdtOutlast ==
  /\ edt = "outlast"
  /\ ~running[ev]
  /\ IF reap[ev] THEN UNCHANGED <<live, frees>> ELSE Free(ev)
  /\ ev' = NoEvent
  /\ edt' = "unwind"
  /\ EdtUnchanged
  /\ UNCHANGED <<status, current, interrupted, queue, handlers, thr, running,
                 reap, syncVars>>

EdtUnwind ==
  /\ edt = "unwind"
  /\ IF interrupted # <<>>
     THEN /\ interrupted' = SubSeq(interrupted, 1, Len(interrupted) - 1)
          /\ DisposeContext(interrupted[Len(interrupted)], TRUE)
     ELSE /\ edt' = "drain"
          /\ UNCHANGED <<ev, interrupted, suspend_flag, thr, live, frees>>
  /\ EdtUnchanged
  /\ UNCHANGED <<status, current, queue, handlers, running, reap,
                 in_wait_loop, syscall_origin>>

EdtDrain ==
  /\ edt = "drain"
  /\ \/ \E e \in queue :
          /\ IsTop(e)
          /\ queue' = queue \ {e}
          /\ Free(e)
          /\ UNCHANGED edt
     \/ /\ queue = {}
        /\ edt' = "exited"
        /\ UNCHANGED <<queue, live, frees>>
  /\ EdtUnchanged
  /\ UNCHANGED <<status, ev, current, interrupted, handlers, thr, running,
                 reap, syncVars>>

EdtNext ==
  \/ EdtStart \/ EdtTest \/ EdtPoll \/ EdtSuspend \/ EdtInterrupt \/ EdtLookup
  \/ EdtSpawn \/ EdtReap \/ EdtResume \/ EdtRestore \/ EdtCleanupCurrent
  \/ EdtMark \/ EdtOutlast \/ EdtUnwind \/ EdtDrain

-----------------------------------------------------------------------------
(* A handler thread: event_start() around the subscribed function.         *)

ThrUnchanged == UNCHANGED <<main, edtVars, unborn, queue>>

\* event_start() takes current_handler as its context: it is its own only if
\* the EDT has not moved on.
HandlerStart(e) ==
  /\ thr[e] = "created"
  /\ current = e
  /\ thr' = [thr EXCEPT ![e] = "body"]
  /\ ThrUnchanged
  /\ UNCHANGED <<status, handlers, ctxVars, syncVars, disposed>>

\* The handler passes a safe point.
HandlerInterruptPoint(e) ==
  /\ thr[e] = "body"
  /\ InterruptLoop(e)
  /\ ThrUnchanged
  /\ UNCHANGED <<status, handlers, ctxVars, suspend_flag, syscall_origin,
                 disposed>>

\* cond_wait() returns, after a broadcast ...
HandlerWake(e) ==
  /\ thr[e] = "woken"
  /\ InterruptLoop(e)
  /\ ThrUnchanged
  /\ UNCHANGED <<status, handlers, ctxVars, suspend_flag, syscall_origin,
                 disposed>>

\* ... or spuriously.
SpuriousWake(e) ==
  /\ thr[e] = "waiting"
  /\ thr' = [thr EXCEPT ![e] = "woken"]
  /\ ThrUnchanged
  /\ UNCHANGED <<status, handlers, ctxVars, syncVars, disposed>>

\* The KILL command: kill_func() calls msa::stop(), and teardown() succeeds; a
\* KILL whose teardown() throws (module Lifecycle) is a HandlerReturn.
HandlerKill(e) ==
  /\ e \in Killers
  /\ thr[e] = "body"
  /\ thr' = [thr EXCEPT ![e] = "stopping"]
  /\ ThrUnchanged
  /\ UNCHANGED <<status, handlers, ctxVars, syncVars, disposed>>

\* stop() quits PLUGIN, INPUT, AGENT and then CMD, which unsubscribes.
HandlerCmdQuit(e) ==
  /\ thr[e] = "stopping"
  /\ handlers' = handlers \ {TextInput}
  /\ thr' = [thr EXCEPT ![e] = "quit"]
  /\ ThrUnchanged
  /\ UNCHANGED <<status, ctxVars, syncVars, disposed>>

\* Bug: the origin of the shutdown is not marked.
QuitUnmarked(e) ==
  /\ thr[e] = "quit"
  /\ current # NoEvent
  /\ thr' = [thr EXCEPT ![e] = "request"]
  /\ ThrUnchanged
  /\ UNCHANGED <<status, handlers, ctxVars, syncVars, disposed>>

\* quit() in the handler: current_handler->thread is read (a crash when it is
\* NULL) and the context marked as the origin when it is the caller's own.
HandlerQuit(e) ==
  /\ thr[e] = "quit"
  /\ current # NoEvent
  /\ syscall_origin' =
       IF current = e THEN [syscall_origin EXCEPT ![e] = TRUE]
                      ELSE syscall_origin
  /\ thr' = [thr EXCEPT ![e] = "request"]
  /\ ThrUnchanged
  /\ UNCHANGED <<status, handlers, ctxVars, suspend_flag, in_wait_loop,
                 disposed>>

HandlerRequestStop(e) ==
  /\ thr[e] = "request"
  /\ status' = "STOP_REQUESTED"
  /\ thr' = [thr EXCEPT ![e] = "join"]
  /\ ThrUnchanged
  /\ UNCHANGED <<handlers, ctxVars, syncVars, disposed>>

\* thread::join(), and the bug of leaving it out.
NotJoined == TRUE
EdtJoined == edt = "exited"

\* The EDT is joined and the contexts deleted; stop() quits OUTPUT and LOG,
\* sets STOPPED, and the handler function returns.
HandlerJoined(e) ==
  /\ thr[e] = "join"
  /\ EdtJoined
  /\ disposed' = TRUE
  /\ status' = "STOPPED"
  /\ thr' = [thr EXCEPT ![e] = "returned"]
  /\ ThrUnchanged
  /\ UNCHANGED <<handlers, ctxVars, syncVars>>

\* Any other handler function returns by itself.
HandlerReturn(e) ==
  /\ thr[e] = "body"
  /\ thr' = [thr EXCEPT ![e] = "returned"]
  /\ ThrUnchanged
  /\ UNCHANGED <<status, handlers, ctxVars, syncVars, disposed>>

\* Bug: the thread never deletes its context.
NeverReaps(e) == FALSE

ReapsItself(e) == reap[e]

\* event_start() after the handler: reap_in_handler is read ...
HandlerCheckReap(e) ==
  /\ thr[e] = "returned"
  /\ IF ReapsItself(e)
     THEN Free(e) /\ thr' = [thr EXCEPT ![e] = "gone"]
     ELSE thr' = [thr EXCEPT ![e] = "finish"] /\ UNCHANGED <<live, frees>>
  /\ ThrUnchanged
  /\ UNCHANGED <<status, handlers, running, reap, syncVars, disposed>>

\* ... and running cleared in a later step.
HandlerFinish(e) ==
  /\ thr[e] = "finish"
  /\ running' = [running EXCEPT ![e] = FALSE]
  /\ thr' = [thr EXCEPT ![e] = "gone"]
  /\ ThrUnchanged
  /\ UNCHANGED <<status, handlers, live, reap, frees, syncVars, disposed>>

HandlerStep(e) ==
  \/ HandlerStart(e) \/ HandlerWake(e) \/ HandlerCmdQuit(e)
  \/ HandlerQuit(e) \/ HandlerRequestStop(e) \/ HandlerJoined(e)
  \/ HandlerCheckReap(e) \/ HandlerFinish(e)

\* The choices of the handler function itself.
HandlerBody(e) ==
  HandlerInterruptPoint(e) \/ HandlerKill(e) \/ HandlerReturn(e)

\* The process is over once main() has returned.
Terminated == main = "exited" /\ UNCHANGED vars

MainNext == MainUp \/ MainExit

Next ==
  \/ \E e \in Events : Generate(e)
  \/ \E t \in Topics : Subscribe(t) \/ Unsubscribe(t)
  \/ MainNext
  \/ EdtNext
  \/ \E e \in Events : HandlerStep(e) \/ HandlerBody(e) \/ SpuriousWake(e)
  \/ Terminated

Spec == Init /\ [][Next]_vars

\* The operating system schedules every thread, mutexes and condition
\* variables are fair enough for each to go on, and a handler function runs to
\* its end (or to its call of stop()) however often it is interrupted.
Fairness ==
  /\ WF_vars(EdtNext)
  /\ WF_vars(MainUp \/ MainExit)
  /\ \A e \in Events : /\ WF_vars(HandlerStep(e))
                       /\ WF_vars(HandlerKill(e) \/ HandlerReturn(e))

FairSpec == Spec /\ Fairness

-----------------------------------------------------------------------------
(* Properties.                                                             *)

\* Every variable ranges over the values the code can give it.
TypeOK ==
  /\ status \in {"CREATED", "RUNNING", "STOP_REQUESTED", "STOPPED"}
  /\ main \in {"init", "wait", "exited"}
  /\ edt \in {"created", "test", "poll", "suspend", "await", "lookup", "spawn",
              "reap", "resume", "restore", "cleanup", "mark", "outlast",
              "unwind", "drain", "exited"}
  /\ ev \in Events \cup {NoEvent}
  /\ unborn \subseteq Events
  /\ queue \subseteq Events
  /\ handlers \subseteq Topics
  /\ current \in Events \cup {NoEvent}
  /\ interrupted \in Seq(Events)
  /\ thr \in [Events -> InHandler \cup {"none", "gone"}]
  /\ live \subseteq Events
  /\ running \in [Events -> BOOLEAN]
  /\ reap \in [Events -> BOOLEAN]
  /\ suspend_flag \in [Events -> BOOLEAN]
  /\ in_wait_loop \in [Events -> BOOLEAN]
  /\ syscall_origin \in [Events -> BOOLEAN]
  /\ frees \in [Events -> Nat]
  /\ disposed \in BOOLEAN

\* Handlers never run at the same time: at most one handler thread is anywhere
\* but in cond_wait (or in the join of quit()), although the EDT resumes an
\* interrupted one before it makes it current and reads in_wait_loop while it
\* may be stale (dispatch.cpp edt_interrupt_handler, edt_run).
Executing == InHandler \ {"waiting", "woken", "join"}

OneHandlerRuns ==
  \A e, f \in Events :
    thr[e] \in Executing /\ thr[f] \in Executing => e = f

\* Each context is interrupted only by one of greater priority, so the stack
\* with the current handler on it is strictly increasing
\* (edt_poll_event_queue's comparison against current_handler alone).
StackIncreasing ==
  /\ \A i, j \in 1 .. Len(interrupted) :
       i < j => Prio(interrupted[i]) < Prio(interrupted[j])
  /\ current # NoEvent /\ edt \notin {"unwind", "outlast", "mark", "drain", "exited"} =>
       \A e \in Events : OnStack(e) => Prio(e) < Prio(current)

\* A context on the interrupted stack stays suspended: its flag is set and its
\* thread is in HANDLER_INTERRUPT_POINT, whatever wakes it.  And no wakeup is
\* lost: a thread left in cond_wait has its flag still set (resume_handler
\* clears it and broadcasts under one lock).
InterruptedStayParked ==
  \A e \in Events :
    /\ OnStack(e) => suspend_flag[e] /\ thr[e] \in {"waiting", "woken"}
    /\ thr[e] = "waiting" => suspend_flag[e]

\* No Event is deleted twice, and no context is deleted while its thread or
\* the EDT may still use it (dispose_handler_context against event_start), nor
\* the dispatch context before the EDT has ended.
MemorySafe ==
  /\ \A e \in Events :
       /\ frees[e] <= 1
       /\ thr[e] \in InHandler => e \in live
       /\ e \in live => frees[e] = 0
       /\ e = current /\ edt \in {"test", "poll", "suspend", "await", "reap",
                                  "cleanup", "mark"} => e \in live
  /\ disposed => edt = "exited"

\* No context is leaked: each one is in the EDT's hands, or its thread has yet
\* to read reap_in_handler, which is set.
EdtHolds(e) ==
  \/ ev = e
  \/ current = e /\ edt \notin {"unwind", "outlast", "drain", "exited"}
  \/ OnStack(e)

NoContextLeaked ==
  \A e \in live :
    \/ EdtHolds(e)
    \/ reap[e] /\ thr[e] \in InHandler \ {"finish"}

\* What is read without a lock and used later still holds when it is used:
\* event_start() finds its own context in current_handler, quit(), which does
\* not test current_handler, that of the handler that calls it, and
\* edt_spawn_handler() the handler that edt_dispatch_event() found.
ReadsStillHold ==
  /\ \A e \in Events : thr[e] \in {"created", "quit", "request"} => current = e
  /\ edt = "spawn" => TopicOf[ev] \in handlers

\* An event that is queued before the EDT has ended is deleted in the end,
\* handled or not.
EveryEventDeleted ==
  \A e \in Events : (e \in queue /\ edt # "exited") ~> frees[e] = 1

\* A KILL command brings main() to its end.
KillEnds == \A k \in Killers : thr[k] = "stopping" ~> main = "exited"

\* "wait till it stops" (dispatch.cpp:306): the EDT waits for the handler it
\* interrupts and then goes on.
InterruptCompletes == edt = "await" ~> edt # "await"

\* "Greater priority topics interrupt event handling of lower-numbered
\* priority topics" (topics.hpp:4): a poll that leaves the queue alone finds no
\* event there of greater priority than the current one.
GreaterPriorityInterrupts ==
  [][edt = "poll" /\ edt' = "reap" =>
       \A e \in queue : current # NoEvent /\ Prio(e) <= Prio(current)]_vars

-----------------------------------------------------------------------------
(* Refinement of the scheduler of module HandlerStack.                     *)

\* The EDT has taken ev from the queue and not yet begun it.
Holding == edt \in {"suspend", "await", "lookup", "spawn"}

\* The context that is under way above the interrupted ones.
Active ==
  CASE edt \in {"restore", "outlast"} -> ev
    [] edt \in {"test", "poll", "suspend", "await", "reap", "resume",
               "cleanup", "mark"} -> current
    [] OTHER -> NoEvent

HPending == IF Holding THEN queue \cup {ev} ELSE queue
HStack == IF Active = NoEvent THEN interrupted ELSE Append(interrupted, Active)
HFinished ==
  {e \in Events \ (unborn \cup HPending) :
     \A i \in 1 .. Len(HStack) : HStack[i] # e}

HS == INSTANCE HandlerStack WITH
        Rank <- [e \in Events |-> Prio(e)],
        pending <- HPending, stack <- HStack, finished <- HFinished

\* Dispatch is a preemptive scheduler: an event begins only above handlers of
\* lower priority and only the topmost one ends, through every suspension,
\* resumption and shutdown (edt_run, edt_dispatch_event, edt_cleanup).
ImplementsHandlerStack == HS!Spec

-----------------------------------------------------------------------------
(* The inductive invariant behind the safety properties.  It holds when    *)
(* KILL has the greatest priority.                                         *)

\* KILL is a TEXT_INPUT command and no topic is above TEXT_INPUT.
KillersAreTop == \A k \in Killers, e \in Events : Prio(e) <= Prio(k)

Unwinding == edt \in {"unwind", "outlast", "drain", "exited"}

\* Every event is in one place: not created, queued, in the EDT's hands, in a
\* context, or deleted.
PlacesInv ==
  \A e \in Events :
    /\ e \in unborn => e \notin queue
    /\ e = ev /\ Holding => e \notin unborn \cup queue
    /\ e \in unborn \cup queue \/ (e = ev /\ Holding) =>
         e \notin live /\ frees[e] = 0 /\ thr[e] = "none"
    /\ e \in live => frees[e] = 0 /\ (running[e] <=> thr[e] \in InHandler)
    /\ e \notin live => thr[e] \in {"none", "gone"}
    /\ frees[e] <= 1

\* What the fields of a context say about its thread.
ContextInv ==
  \A e \in live :
    /\ in_wait_loop[e] <=> thr[e] \in {"waiting", "woken"}
    /\ thr[e] = "waiting" => suspend_flag[e]
    /\ suspend_flag[e] =>
         OnStack(e) \/ (edt = "await" /\ e = current)
    /\ reap[e] => e = current /\ Unwinding /\ thr[e] \in {"join", "returned"}
    /\ thr[e] \in {"stopping", "quit", "request", "join"} =>
         e \in Killers /\ e = current
    /\ thr[e] \in {"request", "join"} => syscall_origin[e]
    /\ thr[e] = "join" => status = "STOP_REQUESTED"
    /\ thr[e] = "created" => e = current
    /\ e = Active \/ reap[e] \/ OnStack(e)

\* The interrupted contexts, and those resumed, are parked and in order.
StackInv ==
  /\ \A e \in Events : OnStack(e) =>
       /\ e \in live \ Killers
       /\ suspend_flag[e]
       /\ thr[e] \in {"waiting", "woken"}
       /\ Active # NoEvent => Prio(e) < Prio(Active)
       /\ Holding => Prio(e) < Prio(ev)
  /\ \A i, j \in 1 .. Len(interrupted) :
       i < j => Prio(interrupted[i]) < Prio(interrupted[j])

\* Where the EDT is, what it holds, and how far a shutdown has come.
EdtInv ==
  /\ Active # NoEvent => Active \in live
  /\ Holding \/ edt \in {"restore", "outlast", "mark"} <=> ev # NoEvent
  /\ edt = "mark" => ev = current
  /\ edt \in {"restore", "outlast"} => ev \notin Killers
  /\ edt \in {"suspend", "await"} => current # NoEvent /\ Prio(current) < Prio(ev)
  /\ edt = "await" => suspend_flag[current]
  /\ edt \in {"created", "lookup", "spawn", "restore"} => current = NoEvent
  /\ edt \in {"created", "test", "poll"} /\ current = NoEvent => interrupted = <<>>
  /\ edt \in {"drain", "exited"} => interrupted = <<>>
  /\ edt = "spawn" => TopicOf[ev] \in handlers
  /\ edt = "created" => status = "CREATED"
  /\ edt \in {"cleanup", "mark"} \/ Unwinding =>
       status \in {"STOP_REQUESTED", "STOPPED"}
  /\ status = "STOP_REQUESTED" =>
       /\ current \in live \cap Killers
       /\ thr[current] = "join"
       /\ Unwinding => reap[current]
  /\ status = "STOPPED" <=> disposed
  /\ disposed => edt = "exited"

IndInv == TypeOK /\ PlacesInv /\ ContextInv /\ StackInv /\ EdtInv
=============================================================================
