------------------------------ MODULE EventBus ------------------------------
(***************************************************************************)
(* The event bus of the Python daemon, python/msa/core/event_bus.py, and   *)
(* the request and reply protocol that the server's API builds on it: a    *)
(* request fires a trigger event and awaits listen_for_result() of the     *)
(* type of its reply, which the handler of the trigger fires.  All of it   *)
(* is tasks of one asyncio loop; a step is what one task does between two  *)
(* awaits.  The subscriptions are those of the server: a handler for each  *)
(* trigger type, and the propagation router, whose pattern matches all.    *)
(***************************************************************************)
EXTENDS Integers, FiniteSets

CONSTANTS
  Clients,     \* the API requests that may be in progress at a time
  Kinds,       \* the kinds of request, each with its reply type
  KindOf,      \* from Clients to Kinds
  Priority,    \* from Kinds to the priority of its events: lower goes first
  Raising,     \* the clients whose request makes its handler raise
  TimesOut,    \* listen_for_result() is given a timeout
  MaxRounds    \* bound on the requests of each client

ASSUME BusAssumption ==
  /\ KindOf \in [Clients -> Kinds]
  /\ Priority \in [Kinds -> Int]
  /\ Raising \subseteq Clients
  /\ TimesOut \in BOOLEAN
  /\ MaxRounds \in [Clients -> Nat]

VARIABLES
  fired,       \* events given to Supervisor.fire_event(), before they are put
  queue,       \* the PriorityQueue
  listening,   \* listen(): "get", "gather" or "dead"
  event,       \* the event being handled, in "gather"
  callbacks,   \* the callbacks of that event that have not finished
  listeners,   \* result_listeners: the clients that wait on a type's Event
  result,      \* event_result, per kind
  client,      \* per client: "idle", "waiting", "woken", "timedout"
  round,       \* per client: the number of its request
  got,         \* per client: what its last listen_for_result() returned
  fresh        \* per client: the results dispatched since it began to wait

listenVars == <<listening, event, callbacks, listeners, result>>
clientVars == <<client, round, got>>
allVars == <<fired, queue, listenVars, clientVars, fresh>>

Events ==
  UNION {[what: {"ask", "reply"}, from: {c}, nr: 1 .. MaxRounds[c]] : c \in Clients}
NoEvent == [what |-> "none"]

Ask(c, n)   == [what |-> "ask", from |-> c, nr |-> n]
ReplyTo(e)  == [e EXCEPT !.what = "reply"]
PrioOf(e)   == Priority[KindOf[e.from]]

BusInit ==
  /\ fired = {} /\ queue = {}
  /\ listening = "get" /\ event = NoEvent /\ callbacks = {}
  /\ listeners = [k \in Kinds |-> {}]
  /\ result = [k \in Kinds |-> NoEvent]
  /\ client = [c \in Clients |-> "idle"]
  /\ round = [c \in Clients |-> 0]
  /\ got = [c \in Clients |-> NoEvent]
  /\ fresh = [c \in Clients |-> {}]

-----------------------------------------------------------------------------
(* The clients.                                                            *)

\* Bug: each call makes an asyncio.Event of its own and forgets the other.
ListenAlone(c) ==
  /\ listeners' = [listeners EXCEPT ![KindOf[c]] = {c}]
  /\ client' = [client EXCEPT ![c] = "waiting"]

\* Bug: a result that is there already is returned at once.
ListenCached(c) ==
  IF result[KindOf[c]] # NoEvent
  THEN client' = [client EXCEPT ![c] = "woken"] /\ UNCHANGED listeners
  ELSE /\ listeners' = [listeners EXCEPT ![KindOf[c]] = @ \cup {c}]
       /\ client' = [client EXCEPT ![c] = "waiting"]

\* listen_for_result() joins the waiters of the type.
Listen(c) ==
  /\ listeners' = [listeners EXCEPT ![KindOf[c]] = @ \cup {c}]
  /\ client' = [client EXCEPT ![c] = "waiting"]

\* A request fires its event and listens, with no await between the two.
MakeRequest(c) ==
  /\ client[c] \in {"idle", "timedout"} /\ round[c] < MaxRounds[c]
  /\ round' = [round EXCEPT ![c] = @ + 1]
  /\ fired' = fired \cup {Ask(c, round[c] + 1)}
  /\ Listen(c)
  /\ fresh' = [fresh EXCEPT ![c] = {}]
  /\ UNCHANGED <<queue, listening, event, callbacks, result, got>>

\* The waiter's task resumes and reads event_result.
ListenReturns(c) ==
  /\ client[c] = "woken"
  /\ client' = [client EXCEPT ![c] = "idle"]
  /\ got' = [got EXCEPT ![c] = result[KindOf[c]]]
  /\ UNCHANGED <<fired, queue, listenVars, round, fresh>>

\* asyncio.TimeoutError: None is returned, and the Event stays registered.
TimeOut(c) ==
  /\ TimesOut
  /\ client[c] \in {"waiting", "woken"}
  /\ client' = [client EXCEPT ![c] = "timedout"]
  /\ got' = [got EXCEPT ![c] = NoEvent]
  /\ UNCHANGED <<fired, queue, listenVars, round, fresh>>

-----------------------------------------------------------------------------
(* The bus.                                                                *)

\* The router subscribes to every type, so that no event is dropped.
Put(e) == queue' = queue \cup {e}

\* The task that Supervisor.fire_event() scheduled runs.
Fire(e) ==
  /\ e \in fired
  /\ fired' = fired \ {e}
  /\ Put(e)
  /\ UNCHANGED <<listenVars, clientVars, fresh>>

\* The callbacks of an event's subscribers.
Subscribers(e) == {"router"} \cup (IF e.what = "ask" THEN {"handler"} ELSE {})

\* Bug: the waiters are not woken.
WakeNobody(k) == UNCHANGED client

\* async_event.set()
Wake(k) ==
  client' = [c \in Clients |->
               IF c \in listeners[k] /\ client[c] = "waiting"
               THEN "woken" ELSE client[c]]

\* listen(): takes an event of the least priority number, wakes the clients
\* that wait for its type and starts the callbacks.
Dispatch(e) ==
  /\ listening = "get"
  /\ e \in queue /\ \A f \in queue : PrioOf(e) <= PrioOf(f)
  /\ queue' = queue \ {e}
  /\ LET k == KindOf[e.from]
     IN IF e.what = "reply" /\ listeners[k] # {}
        THEN /\ listeners' = [listeners EXCEPT ![k] = {}]
             /\ result' = [result EXCEPT ![k] = e]
             /\ Wake(k)
             /\ fresh' = [c \in Clients |-> IF KindOf[c] = k THEN fresh[c] \cup {e}
                                                            ELSE fresh[c]]
        ELSE UNCHANGED <<listeners, result, client, fresh>>
  /\ listening' = "gather" /\ event' = e /\ callbacks' = Subscribers(e)
  /\ UNCHANGED <<fired, round, got>>

\* The handler of a trigger fires the reply.
Handle ==
  /\ "handler" \in callbacks /\ event.from \notin Raising
  /\ callbacks' = callbacks \ {"handler"}
  /\ fired' = fired \cup {ReplyTo(event)}
  /\ UNCHANGED <<queue, listening, event, listeners, result, clientVars, fresh>>

\* gather() passes the exception to listen(), which nobody catches.
Die == listening' = "dead"

\* The handler raises, as for the name of a script that does not exist.
HandlerRaises ==
  /\ "handler" \in callbacks /\ event.from \in Raising
  /\ callbacks' = callbacks \ {"handler"}
  /\ Die
  /\ UNCHANGED <<fired, queue, event, listeners, result, clientVars, fresh>>

\* handle_event_propagate(), which lets no exception out.
Propagate ==
  /\ "router" \in callbacks
  /\ callbacks' = callbacks \ {"router"}
  /\ UNCHANGED <<fired, queue, listening, event, listeners, result, clientVars, fresh>>

\* All callbacks have finished: the next round of listen().
Gathered ==
  /\ listening = "gather" /\ callbacks = {}
  /\ listening' = "get" /\ event' = NoEvent
  /\ UNCHANGED <<fired, queue, callbacks, listeners, result, clientVars, fresh>>

BusNext ==
  \/ \E c \in Clients : MakeRequest(c) \/ ListenReturns(c) \/ TimeOut(c)
  \/ \E e \in fired : Fire(e)
  \/ \E e \in queue : Dispatch(e)
  \/ Handle \/ HandlerRaises \/ Propagate \/ Gathered

BusSpec == BusInit /\ [][BusNext]_allVars

\* Every task of the loop that is ready gets to run.
FairBusSpec ==
  /\ BusSpec
  /\ WF_allVars(\E e \in queue : Dispatch(e))
  /\ WF_allVars(\E e \in fired : Fire(e))
  /\ WF_allVars(Handle) /\ WF_allVars(HandlerRaises)
  /\ WF_allVars(Propagate) /\ WF_allVars(Gathered)
  /\ \A c \in Clients : WF_allVars(ListenReturns(c))

-----------------------------------------------------------------------------
(* Properties.                                                             *)

\* Every variable ranges over the values the code can give it.
BusTypeOK ==
  /\ fired \subseteq Events /\ queue \subseteq Events
  /\ listening \in {"get", "gather", "dead"}
  /\ listening = "get" => event = NoEvent
  /\ event \in Events \cup {NoEvent}
  /\ callbacks \subseteq (IF event = NoEvent THEN {} ELSE Subscribers(event))
  /\ listeners \in [Kinds -> SUBSET Clients]
  /\ result \in [Kinds -> Events \cup {NoEvent}]
  /\ client \in [Clients -> {"idle", "waiting", "woken", "timedout"}]
  /\ round \in [Clients -> Nat] /\ \A c \in Clients : round[c] <= MaxRounds[c]
  /\ got \in [Clients -> Events \cup {NoEvent}]
  /\ fresh \in [Clients -> SUBSET Events]

\* A client that waits is registered for the type of its reply, and no client
\* of another type is: the Event that several clients share loses none of them.
WaitersRegistered ==
  /\ \A c \in Clients : client[c] = "waiting" => c \in listeners[KindOf[c]]
  /\ \A k \in Kinds : \A c \in listeners[k] : KindOf[c] = k

\* listen_for_result() returns no result of before the call, although the
\* bus remembers the last result of every type.
ResultIsFresh ==
  \A c \in Clients : client[c] = "woken" => result[KindOf[c]] \in fresh[c]

\* What is left of "the name of the script to fetch" (client_api.py:84): what a
\* request gets is a reply of the type it listens for, to a request that was made.
Made(e) == e.nr <= round[e.from]
ReplyOfKind(e, k) == e.what = "reply" /\ KindOf[e.from] = k /\ Made(e)
AnswerOfKind ==
  \A c \in Clients : got[c] # NoEvent => ReplyOfKind(got[c], KindOf[c])

\* The inductive invariant behind the three.
BusInv ==
  /\ BusTypeOK
  /\ WaitersRegistered
  /\ ResultIsFresh
  /\ AnswerOfKind
  /\ \A e \in fired \cup queue : Made(e)
  /\ event # NoEvent => Made(event)
  /\ \A k \in Kinds : result[k] # NoEvent => ReplyOfKind(result[k], k)

\* Every request gets an answer while the bus lives: the task that waits for it
\* is woken.
RequestAnswered ==
  \A c \in Clients :
    client[c] = "waiting" ~> client[c] # "waiting" \/ listening = "dead"

\* "The name of the script to fetch" (client_api.py:84): the answer to a request
\* is the reply to that request.
OwnReply == \A c \in Clients : got[c] # NoEvent => got[c].from = c

\* "Fires an event to each event handler" (event_bus.py:106): a fired event is
\* handed to its handlers.
FiredIsHandled == \A e \in Events : e \in fired ~> event = e
=============================================================================
