---------------------------- MODULE HandlerStack ----------------------------
(***************************************************************************)
(* What event dispatch promises its callers: a preemptive scheduler.  An   *)
(* event waits, is discarded or begins; it may begin on top of another one *)
(* only if its rank is greater; only the event on top ends.                *)
(***************************************************************************)
EXTENDS Integers, Sequences

CONSTANTS Events, Rank

VARIABLES pending, stack, finished

Init == pending = {} /\ stack = <<>> /\ finished = {}

\* An event is generated.
Arrive(e) ==
  /\ e \notin pending \cup finished
  /\ \A i \in 1 .. Len(stack) : stack[i] # e
  /\ pending' = pending \cup {e}
  /\ UNCHANGED <<stack, finished>>

\* Nobody is subscribed to it, or the system shuts down.
Discard(e) ==
  /\ e \in pending
  /\ pending' = pending \ {e}
  /\ finished' = finished \cup {e}
  /\ UNCHANGED stack

\* Its handler starts, above every handler that is under way.
Begin(e) ==
  /\ e \in pending
  /\ \A i \in 1 .. Len(stack) : Rank[stack[i]] < Rank[e]
  /\ pending' = pending \ {e}
  /\ stack' = Append(stack, e)
  /\ UNCHANGED finished

\* The handler on top ends (or is left to end by itself at shutdown).
End ==
  /\ stack # <<>>
  /\ stack' = SubSeq(stack, 1, Len(stack) - 1)
  /\ finished' = finished \cup {stack[Len(stack)]}
  /\ UNCHANGED pending

Next == End \/ \E e \in Events : Arrive(e) \/ Discard(e) \/ Begin(e)

Spec == Init /\ [][Next]_<<pending, stack, finished>>
=============================================================================
