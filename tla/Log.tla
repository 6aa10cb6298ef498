-------------------------------- MODULE Log ---------------------------------
(***************************************************************************)
(* The log module: src/log/log.cpp.  Any thread puts messages in a queue   *)
(* and a writer thread writes them to the streams.  push_msg() tests       *)
(* running before it takes the queue's mutex; quit() clears running, joins *)
(* the writer and deletes the context.  An operation under the mutex is    *)
(* one step, except the writer's last pass over the queue, which holds the *)
(* mutex while it writes.                                                  *)
(***************************************************************************)
EXTENDS Integers, Sequences, SequencesExt

CONSTANTS
  Threads,      \* the threads that log
  Streams,      \* the log streams of the configuration
  Levels,       \* the levels of messages, by severity
  StreamLevel,  \* set_stream_level(), from Streams to Levels
  GlobalLevel,  \* GLOBAL_LEVEL
  MaxMsgs,      \* bound on the messages of a thread
  LateThreads   \* threads that still log when stop() reaches the log module

ASSUME LogAssumption ==
  /\ Levels \subseteq Int
  /\ StreamLevel \in [Streams -> Levels]
  /\ GlobalLevel \in Levels
  /\ MaxMsgs \in Nat
  /\ LateThreads \subseteq Threads

VARIABLES
  running,   \* ctx->running
  messages,  \* ctx->messages
  context,   \* "live" or "deleted": the LogContext
  pc,        \* per thread: "idle" or "checked", past the test of running
  held,      \* the message a thread in "checked" has created
  sent,      \* how many messages a thread has created
  writer,    \* "test", "poll", "write", "last", "drain" or "ended"
  msg,       \* the message in the writer's hands, in "write"
  main,      \* "up", "join", "dispose" or "down": where quit() is
  accepted,  \* the messages pushed, in order
  refused,   \* the threads whose call threw
  written    \* what each stream has received

threadVars == <<pc, held, sent, refused>>
writerVars == <<writer, msg, written>>
vars == <<running, messages, context, threadVars, writerVars, main, accepted>>

Messages == [from: Threads, nr: 1 .. MaxMsgs, level: Levels]
NoMessage == [from |-> "none"]

Init ==
  /\ running = TRUE
  /\ messages = <<>>
  /\ context = "live"
  /\ pc = [t \in Threads |-> "idle"]
  /\ held = [t \in Threads |-> NoMessage]
  /\ sent = [t \in Threads |-> 0]
  /\ writer = "test"
  /\ msg = NoMessage
  /\ main = "up"
  /\ accepted = <<>>
  /\ refused = {}
  /\ written = [s \in Streams |-> <<>>]

-----------------------------------------------------------------------------
(* The threads.                                                            *)

\* The mutex is held across steps by the writer's last pass only.
Locked == writer = "drain"

\* push_msg(): a message after shutdown is refused by an exception.
TestRunning(t) ==
  IF running
  THEN pc' = [pc EXCEPT ![t] = "checked"] /\ UNCHANGED refused
  ELSE refused' = refused \cup {t} /\ UNCHANGED pc

\* What a thread does with a context that is deleted is not modelled.
\* check_and_push(): messages below the global level are dropped.  All threads
\* but the late ones have ended when quit() is called.
Log(t, level) ==
  /\ pc[t] = "idle"
  /\ context = "live"
  /\ main = "up" \/ t \in LateThreads
  /\ level >= GlobalLevel
  /\ sent[t] < MaxMsgs
  /\ sent' = [sent EXCEPT ![t] = @ + 1]
  /\ held' = [held EXCEPT ![t] = IF running
                                 THEN [from |-> t, nr |-> sent'[t], level |-> level]
                                 ELSE NoMessage]
  /\ TestRunning(t)
  /\ UNCHANGED <<running, messages, context, writerVars, main, accepted>>

\* The rest of push_msg().
Push(t) ==
  /\ pc[t] = "checked"
  /\ context = "live" /\ ~Locked
  /\ messages' = Append(messages, held[t])
  /\ accepted' = Append(accepted, held[t])
  /\ pc' = [pc EXCEPT ![t] = "idle"]
  /\ held' = [held EXCEPT ![t] = NoMessage]
  /\ UNCHANGED <<running, context, sent, refused, writerVars, main>>

-----------------------------------------------------------------------------
(* The writer.                                                             *)

WriterUnchanged ==
  UNCHANGED <<running, context, threadVars, main, accepted>>

\* Bug: a message goes to the streams of its level or above.
WriteAbove(m) ==
  written' = [s \in Streams |-> IF StreamLevel[s] >= m.level
                                THEN Append(written[s], m) ELSE written[s]]

\* writer_write_to_streams()
WriteToStreams(m) ==
  written' = [s \in Streams |-> IF m.level >= StreamLevel[s]
                                THEN Append(written[s], m) ELSE written[s]]

\* while (running): otherwise lock the mutex for the last pass.
WriterTest ==
  /\ writer = "test"
  /\ writer' = IF running THEN "poll" ELSE "last"
  /\ UNCHANGED <<messages, msg, written>>
  /\ WriterUnchanged

\* writer_poll_msg(); a sleep when there is none.
WriterPoll ==
  /\ writer = "poll"
  /\ IF messages = <<>>
     THEN writer' = "test" /\ UNCHANGED <<messages, msg>>
     ELSE /\ writer' = "write"
          /\ msg' = Head(messages)
          /\ messages' = Tail(messages)
  /\ UNCHANGED written
  /\ WriterUnchanged

WriterWrite ==
  /\ writer = "write"
  /\ WriteToStreams(msg)
  /\ msg' = NoMessage
  /\ writer' = "test"
  /\ UNCHANGED messages
  /\ WriterUnchanged

WriterLock ==
  /\ writer = "last"
  /\ writer' = "drain"
  /\ UNCHANGED <<messages, msg, written>>
  /\ WriterUnchanged

\* Bug: the writer ends with what it has.
NothingRemains == TRUE

\* "empty everything remaining": the condition of its loop.
AllWritten == messages = <<>>

WriterDrain ==
  /\ writer = "drain"
  /\ IF AllWritten
     THEN writer' = "ended" /\ UNCHANGED <<messages, written>>
     ELSE /\ WriteToStreams(Head(messages))
          /\ messages' = Tail(messages)
          /\ UNCHANGED writer
  /\ UNCHANGED msg
  /\ WriterUnchanged

Writer == WriterTest \/ WriterPoll \/ WriterWrite \/ WriterLock \/ WriterDrain

-----------------------------------------------------------------------------
(* quit(), called by stop() after every other module's.                    *)

MainUnchanged == UNCHANGED <<messages, threadVars, writerVars, accepted>>

Quit ==
  /\ main = "up"
  /\ \A t \in Threads \ LateThreads : pc[t] = "idle"
  /\ running' = FALSE
  /\ main' = "join"
  /\ UNCHANGED context
  /\ MainUnchanged

WriterJoined == writer = "ended"

Join ==
  /\ main = "join" /\ WriterJoined
  /\ main' = "dispose"
  /\ UNCHANGED <<running, context>>
  /\ MainUnchanged

\* dispose_log_context()
Dispose ==
  /\ main = "dispose"
  /\ context' = "deleted"
  /\ main' = "down"
  /\ UNCHANGED running
  /\ MainUnchanged

Next ==
  \/ \E t \in Threads, level \in Levels : Log(t, level)
  \/ \E t \in Threads : Push(t)
  \/ Writer
  \/ Quit \/ Join \/ Dispose

Spec == Init /\ [][Next]_vars

\* The threads run; when the agent is stopped is nobody's duty.
FairSpec ==
  /\ Spec
  /\ \A t \in Threads : WF_vars(Push(t))
  /\ WF_vars(Writer) /\ WF_vars(Join) /\ WF_vars(Dispose)

-----------------------------------------------------------------------------
(* Properties.                                                             *)

\* Every variable ranges over the values the code can give it; a message is in
\* a thread's or the writer's hands exactly when their code says so.
TypeOK ==
  /\ running \in BOOLEAN
  /\ messages \in Seq(Messages)
  /\ context \in {"live", "deleted"}
  /\ pc \in [Threads -> {"idle", "checked"}]
  /\ held \in [Threads -> Messages \cup {NoMessage}]
  /\ \A t \in Threads : IF pc[t] = "checked" THEN held[t] \in Messages
                                             ELSE held[t] = NoMessage
  /\ sent \in [Threads -> 0 .. MaxMsgs]
  /\ writer \in {"test", "poll", "write", "last", "drain", "ended"}
  /\ IF writer = "write" THEN msg \in Messages ELSE msg = NoMessage
  /\ main \in {"up", "join", "dispose", "down"}
  /\ accepted \in Seq(Messages)
  /\ refused \subseteq Threads
  /\ written \in [Streams -> Seq(Messages)]

\* A stream's messages among those of a sequence, in their order.
Takes(s, m) == m.level >= StreamLevel[s]
For(s, ms) ==
  LET kept[n \in 0 .. Len(ms)] ==
        IF n = 0 THEN <<>>
        ELSE IF Takes(s, ms[n]) THEN Append(kept[n - 1], ms[n]) ELSE kept[n - 1]
  IN kept[Len(ms)]

\* Nothing is lost, doubled or reordered between push_msg() and the streams:
\* what a stream has received, what the writer holds and what is queued are,
\* in this order, the accepted messages of the stream's level.
InHand == IF writer = "write" THEN <<msg>> ELSE <<>>
Conservation ==
  \A s \in Streams :
    written[s] \o For(s, InHand \o messages) = For(s, accepted)

\* The writer never touches a deleted context: it is deleted after its end.
WriterOnLiveContext == writer # "ended" => context = "live"

\* The writer keeps the messages, on a context that is there, from the first
\* to the last.
LogSound == Conservation /\ WriterOnLiveContext

\* What the writer leaves behind when it ends is of threads that still logged
\* when quit() was called: with Conservation, every message of the others has
\* been written, and shutting down loses none of the log.
LogComplete ==
  writer = "ended" => \A i \in 1 .. Len(messages) : messages[i].from \in LateThreads

\* running is TRUE until quit() is called, by when all threads but the late ones
\* are idle; the writer ends after that, and the context is there until then.
PhasesInv ==
  /\ running <=> main = "up"
  /\ writer \in {"last", "drain", "ended"} => main # "up"
  /\ main \in {"dispose", "down"} => writer = "ended"
  /\ context = "deleted" => main = "down"
  /\ main # "up" => \A t \in Threads \ LateThreads : pc[t] = "idle"
  /\ \A t \in Threads : pc[t] = "checked" => held[t].from = t

\* The inductive invariant behind LogSound and LogComplete.
IndInv == TypeOK /\ PhasesInv /\ Conservation /\ LogComplete

\* A message that passed the test of running reaches each stream of its level,
\* also across a shutdown, unless its thread is a late one.
HeldIsWritten ==
  \A m \in Messages :
    (\E t \in Threads \ LateThreads : held[t] = m) ~>
      \A s \in Streams : m.level >= StreamLevel[s] => m \in ToSet(written[s])

\* "keep running until the message queue is empty" (log.cpp:474).
EmptyWhenEnded == writer = "ended" => messages = <<>>
=============================================================================
