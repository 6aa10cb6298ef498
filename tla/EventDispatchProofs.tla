----------------------- MODULE EventDispatchProofs -----------------------
(***************************************************************************)
(* Proofs about module EventDispatch, for any set of events and any        *)
(* priorities, on two hypotheses: no module fails to start, and KILL has   *)
(* the greatest priority.  The inductive invariant is IndInv; there is one *)
(* lemma for each action, with one step for each conjunct of IndInv.       *)
(***************************************************************************)
EXTENDS EventDispatch, SequenceTheorems, TLAPS

-----------------------------------------------------------------------------
(* Facts about the data.                                                   *)

\* What pushing on a stack does to its elements.
LEMMA PushFacts ==
  ASSUME NEW S, NEW s \in Seq(S), NEW x \in S
  PROVE  /\ Append(s, x) \in Seq(S)
         /\ Len(s) \in Nat
         /\ Len(Append(s, x)) = Len(s) + 1
         /\ \A i \in 1 .. Len(s) : Append(s, x)[i] = s[i] /\ s[i] \in S
         /\ Append(s, x)[Len(s) + 1] = x
  OBVIOUS

\* The length of a part of a sequence.
LEMMA PartLength ==
  ASSUME NEW S, NEW s \in Seq(S), NEW m \in Int, NEW n \in Int,
         \A i \in m .. n : s[i] \in S, m <= n
  PROVE  Len(SubSeq(s, m, n)) = n - m + 1
  BY SubSeqProperties, SMT

\* What popping a stack does to its elements.
LEMMA PopFacts ==
  ASSUME NEW S, NEW s \in Seq(S), s # <<>>
  PROVE  /\ SubSeq(s, 1, Len(s) - 1) \in Seq(S)
         /\ Len(s) \in Nat \ {0}
         /\ Len(SubSeq(s, 1, Len(s) - 1)) = Len(s) - 1
         /\ \A i \in 1 .. Len(s) - 1 : SubSeq(s, 1, Len(s) - 1)[i] = s[i]
         /\ \A i \in 1 .. Len(s) : s[i] \in S
<1>1. SubSeq(s, 1, Len(s) - 1) \in Seq(S)
  OBVIOUS
<1>2. Len(s) \in Nat \ {0}
  OBVIOUS
<1>3. Len(SubSeq(s, 1, Len(s) - 1)) = Len(s) - 1
  <2>1. CASE Len(s) = 1
    <3>1. Len(s) - 1 = 0
      BY <2>1
    <3>2. SubSeq(s, 1, 0) = <<>>
      BY SubSeqEmpty
    <3> QED BY <3>1, <3>2
  <2>2. CASE Len(s) > 1
    BY <2>2, PartLength, ElementOfSeq
  <2> QED BY <1>2, <2>1, <2>2
<1>4. \A i \in 1 .. Len(s) - 1 : SubSeq(s, 1, Len(s) - 1)[i] = s[i]
  BY <1>2
<1>5. \A i \in 1 .. Len(s) : s[i] \in S
  OBVIOUS
<1> QED BY <1>1, <1>2, <1>3, <1>4, <1>5

\* Deleting an event keeps the count a number.
LEMMA FreeFacts ==
  ASSUME NEW e \in Events, frees \in [Events -> Nat], live \subseteq Events,
         Free(e)
  PROVE  frees' \in [Events -> Nat] /\ live' \subseteq Events
<1>1. frees[e] + 1 \in Nat
  OBVIOUS
<1> QED BY <1>1 DEF Free

\* While the EDT is about to spawn a handler no other handler executes.
LEMMA SpawnsAlone ==
  ASSUME NEW e \in Events, IndInv, edt = "spawn"
  PROVE  thr[e] \in {"none", "gone", "waiting", "woken"}
<1>1. CASE e \in live
  BY <1>1, TopicAssumption DEF IndInv, TypeOK, ContextInv, StackInv, EdtInv, Active, Unwinding
<1>2. CASE e \notin live
  BY <1>2 DEF IndInv, PlacesInv
<1> QED BY <1>1, <1>2

\* A handler that is about to request the stop is current, and the EDT is not
\* in its cleanup.
LEMMA RequestBeforeCleanup ==
  ASSUME NEW e \in Events, IndInv, thr[e] = "request"
  PROVE  e \in live /\ e \in Killers /\ e = current /\ ~Unwinding
<1>1. e \in live
  BY DEF IndInv, PlacesInv
<1>2. e = Active /\ e \in Killers /\ e = current
  BY <1>1, TopicAssumption DEF IndInv, TypeOK, ContextInv, StackInv
<1> QED BY <1>1, <1>2, TopicAssumption DEF IndInv, EdtInv, Active, Unwinding

-----------------------------------------------------------------------------
(* The invariant holds initially and every action preserves it.            *)

LEMMA InitInv ==
  ASSUME Init
  PROVE  IndInv
<1>1. interrupted \in Seq(Events) /\ Len(interrupted) = 0
  BY EmptySeq DEF Init
<1>2. \A x \in Events : ~OnStack(x)
  BY <1>1 DEF OnStack
<1>3. TypeOK
  BY <1>1 DEF Init, TypeOK, InHandler
<1>4. Active = NoEvent /\ ~Holding
  BY DEF Init, Active, Holding
<1>5. PlacesInv /\ ContextInv
  BY <1>4 DEF Init, PlacesInv, ContextInv
<1>6. StackInv
  BY <1>1, <1>2, <1>4 DEF StackInv
<1>7. EdtInv
  BY <1>4 DEF Init, EdtInv, Unwinding, Holding
<1> QED BY <1>3, <1>5, <1>6, <1>7 DEF IndInv

LEMMA GenerateStep ==
  ASSUME NEW e \in Events, IndInv, KillersAreTop, Generate(e)
  PROVE  IndInv'
<1> USE DEF Generate, edtVars, ctxVars, syncVars
<1>1. \A x \in Events : OnStack(x)' <=> OnStack(x)
  BY DEF OnStack
<1>2. TypeOK'
  BY SMTT(60) DEF IndInv, TypeOK, EdtInv, Holding, InHandler
<1>3. PlacesInv'
  BY <1>1, TopicAssumption, SMTT(60) DEF IndInv, TypeOK, PlacesInv, ContextInv, StackInv, EdtInv, KillersAreTop, Prio, InHandler, Holding, Unwinding, Active
<1>4. ContextInv'
  BY <1>1, TopicAssumption, SMTT(60) DEF IndInv, TypeOK, PlacesInv, ContextInv, StackInv, EdtInv, KillersAreTop, Prio, InHandler, Holding, Unwinding, Active
<1>5. StackInv'
  BY <1>1, TopicAssumption, SMTT(60) DEF IndInv, TypeOK, PlacesInv, ContextInv, StackInv, EdtInv, KillersAreTop, Prio, InHandler, Holding, Unwinding, Active
<1>6. EdtInv'
  BY <1>1, TopicAssumption, SMTT(60) DEF IndInv, TypeOK, PlacesInv, ContextInv, StackInv, EdtInv, KillersAreTop, Prio, InHandler, Holding, Unwinding, Active
<1> QED BY <1>2, <1>3, <1>4, <1>5, <1>6 DEF IndInv

LEMMA SubscribeStep ==
  ASSUME NEW t \in Topics, IndInv, KillersAreTop, Subscribe(t)
  PROVE  IndInv'
<1> USE DEF Subscribe, MayCall, edtVars, ctxVars, syncVars
<1>1. \A x \in Events : OnStack(x)' <=> OnStack(x)
  BY DEF OnStack
<1>2. TypeOK'
  BY SMTT(60) DEF IndInv, TypeOK, EdtInv, Holding, InHandler
<1>3. PlacesInv'
  BY <1>1, TopicAssumption, SMTT(60) DEF IndInv, TypeOK, PlacesInv, ContextInv, StackInv, EdtInv, KillersAreTop, Prio, InHandler, Holding, Unwinding, Active
<1>4. ContextInv'
  BY <1>1, TopicAssumption, SMTT(60) DEF IndInv, TypeOK, PlacesInv, ContextInv, StackInv, EdtInv, KillersAreTop, Prio, InHandler, Holding, Unwinding, Active
<1>5. StackInv'
  BY <1>1, TopicAssumption, SMTT(60) DEF IndInv, TypeOK, PlacesInv, ContextInv, StackInv, EdtInv, KillersAreTop, Prio, InHandler, Holding, Unwinding, Active
<1>6. EdtInv'
  BY <1>1, TopicAssumption, SMTT(60) DEF IndInv, TypeOK, PlacesInv, ContextInv, StackInv, EdtInv, KillersAreTop, Prio, InHandler, Holding, Unwinding, Active
<1> QED BY <1>2, <1>3, <1>4, <1>5, <1>6 DEF IndInv

LEMMA UnsubscribeStep ==
  ASSUME NEW t \in Topics, IndInv, KillersAreTop, Unsubscribe(t)
  PROVE  IndInv'
<1> USE DEF Unsubscribe, edtVars, ctxVars, syncVars
<1>1. \A x \in Events : OnStack(x)' <=> OnStack(x)
  BY DEF OnStack
<1>2. TypeOK'
  BY SMTT(60) DEF IndInv, TypeOK, EdtInv, Holding, InHandler
<1>3. PlacesInv'
  BY <1>1, TopicAssumption, SMTT(60) DEF IndInv, TypeOK, PlacesInv, ContextInv, StackInv, EdtInv, KillersAreTop, Prio, InHandler, Holding, Unwinding, Active
<1>4. ContextInv'
  BY <1>1, TopicAssumption, SMTT(60) DEF IndInv, TypeOK, PlacesInv, ContextInv, StackInv, EdtInv, KillersAreTop, Prio, InHandler, Holding, Unwinding, Active
<1>5. StackInv'
  BY <1>1, TopicAssumption, SMTT(60) DEF IndInv, TypeOK, PlacesInv, ContextInv, StackInv, EdtInv, KillersAreTop, Prio, InHandler, Holding, Unwinding, Active
<1>a. edt # "spawn"
  BY SpawnsAlone
<1>6. EdtInv'
  BY <1>1, <1>a, TopicAssumption, SMTT(60) DEF IndInv, TypeOK, PlacesInv, ContextInv, StackInv, EdtInv, KillersAreTop, Prio, InHandler, Holding, Unwinding, Active
<1> QED BY <1>2, <1>3, <1>4, <1>5, <1>6 DEF IndInv

LEMMA MainUpStep ==
  ASSUME IndInv, KillersAreTop, MainUp
  PROVE  IndInv'
<1> USE DEF MainUp, edtVars, ctxVars, syncVars
<1>1. \A x \in Events : OnStack(x)' <=> OnStack(x)
  BY DEF OnStack
<1>2. TypeOK'
  BY SMTT(60) DEF IndInv, TypeOK, EdtInv, Holding, InHandler
<1>3. PlacesInv'
  BY <1>1, TopicAssumption, SMTT(60) DEF IndInv, TypeOK, PlacesInv, ContextInv, StackInv, EdtInv, KillersAreTop, Prio, InHandler, Holding, Unwinding, Active
<1>4. ContextInv'
  BY <1>1, TopicAssumption, SMTT(60) DEF IndInv, TypeOK, PlacesInv, ContextInv, StackInv, EdtInv, KillersAreTop, Prio, InHandler, Holding, Unwinding, Active
<1>5. StackInv'
  BY <1>1, TopicAssumption, SMTT(60) DEF IndInv, TypeOK, PlacesInv, ContextInv, StackInv, EdtInv, KillersAreTop, Prio, InHandler, Holding, Unwinding, Active
<1>6. EdtInv'
  BY <1>1, TopicAssumption, SMTT(60) DEF IndInv, TypeOK, PlacesInv, ContextInv, StackInv, EdtInv, KillersAreTop, Prio, InHandler, Holding, Unwinding, Active
<1> QED BY <1>2, <1>3, <1>4, <1>5, <1>6 DEF IndInv

LEMMA MainExitStep ==
  ASSUME IndInv, KillersAreTop, MainExit
  PROVE  IndInv'
<1> USE DEF MainExit, edtVars, ctxVars, syncVars
<1>1. \A x \in Events : OnStack(x)' <=> OnStack(x)
  BY DEF OnStack
<1>2. TypeOK'
  BY SMTT(60) DEF IndInv, TypeOK, EdtInv, Holding, InHandler
<1>3. PlacesInv'
  BY <1>1, TopicAssumption, SMTT(60) DEF IndInv, TypeOK, PlacesInv, ContextInv, StackInv, EdtInv, KillersAreTop, Prio, InHandler, Holding, Unwinding, Active
<1>4. ContextInv'
  BY <1>1, TopicAssumption, SMTT(60) DEF IndInv, TypeOK, PlacesInv, ContextInv, StackInv, EdtInv, KillersAreTop, Prio, InHandler, Holding, Unwinding, Active
<1>5. StackInv'
  BY <1>1, TopicAssumption, SMTT(60) DEF IndInv, TypeOK, PlacesInv, ContextInv, StackInv, EdtInv, KillersAreTop, Prio, InHandler, Holding, Unwinding, Active
<1>6. EdtInv'
  BY <1>1, TopicAssumption, SMTT(60) DEF IndInv, TypeOK, PlacesInv, ContextInv, StackInv, EdtInv, KillersAreTop, Prio, InHandler, Holding, Unwinding, Active
<1> QED BY <1>2, <1>3, <1>4, <1>5, <1>6 DEF IndInv

LEMMA EdtStartStep ==
  ASSUME IndInv, KillersAreTop, EdtStart
  PROVE  IndInv'
<1> USE DEF EdtStart, EdtUnchanged, edtVars, ctxVars, syncVars
<1>1. \A x \in Events : OnStack(x)' <=> OnStack(x)
  BY DEF OnStack
<1>2. TypeOK'
  BY SMTT(60) DEF IndInv, TypeOK, EdtInv, Holding, InHandler
<1>3. PlacesInv'
  BY <1>1, TopicAssumption, SMTT(60) DEF IndInv, TypeOK, PlacesInv, ContextInv, StackInv, EdtInv, KillersAreTop, Prio, InHandler, Holding, Unwinding, Active
<1>4. ContextInv'
  BY <1>1, TopicAssumption, SMTT(60) DEF IndInv, TypeOK, PlacesInv, ContextInv, StackInv, EdtInv, KillersAreTop, Prio, InHandler, Holding, Unwinding, Active
<1>5. StackInv'
  BY <1>1, TopicAssumption, SMTT(60) DEF IndInv, TypeOK, PlacesInv, ContextInv, StackInv, EdtInv, KillersAreTop, Prio, InHandler, Holding, Unwinding, Active
<1>6. EdtInv'
  BY <1>1, TopicAssumption, SMTT(60) DEF IndInv, TypeOK, PlacesInv, ContextInv, StackInv, EdtInv, KillersAreTop, Prio, InHandler, Holding, Unwinding, Active
<1> QED BY <1>2, <1>3, <1>4, <1>5, <1>6 DEF IndInv

LEMMA EdtTestStep ==
  ASSUME IndInv, KillersAreTop, EdtTest
  PROVE  IndInv'
<1> USE DEF EdtTest, EdtUnchanged, edtVars, ctxVars, syncVars
<1>1. \A x \in Events : OnStack(x)' <=> OnStack(x)
  BY DEF OnStack
<1>2. TypeOK'
  BY SMTT(60) DEF IndInv, TypeOK, EdtInv, Holding, InHandler
<1>3. PlacesInv'
  BY <1>1, TopicAssumption, SMTT(60) DEF IndInv, TypeOK, PlacesInv, ContextInv, StackInv, EdtInv, KillersAreTop, Prio, InHandler, Holding, Unwinding, Active
<1>4. ContextInv'
  BY <1>1, TopicAssumption, SMTT(60) DEF IndInv, TypeOK, PlacesInv, ContextInv, StackInv, EdtInv, KillersAreTop, Prio, InHandler, Holding, Unwinding, Active
<1>5. StackInv'
  BY <1>1, TopicAssumption, SMTT(60) DEF IndInv, TypeOK, PlacesInv, ContextInv, StackInv, EdtInv, KillersAreTop, Prio, InHandler, Holding, Unwinding, Active
<1>6. EdtInv'
  BY <1>1, TopicAssumption, SMTT(60) DEF IndInv, TypeOK, PlacesInv, ContextInv, StackInv, EdtInv, KillersAreTop, Prio, InHandler, Holding, Unwinding, Active
<1> QED BY <1>2, <1>3, <1>4, <1>5, <1>6 DEF IndInv

LEMMA EdtPollStep ==
  ASSUME IndInv, KillersAreTop, EdtPoll
  PROVE  IndInv'
<1> USE DEF EdtPoll, IsTop, Yields, EdtUnchanged, edtVars, ctxVars, syncVars
<1>1. \A x \in Events : OnStack(x)' <=> OnStack(x)
  BY DEF OnStack
<1>2. TypeOK'
  BY SMTT(60) DEF IndInv, TypeOK, EdtInv, Holding, InHandler
<1>3. PlacesInv'
  BY <1>1, TopicAssumption, SMTT(60) DEF IndInv, TypeOK, PlacesInv, ContextInv, StackInv, EdtInv, KillersAreTop, Prio, InHandler, Holding, Unwinding, Active
<1>4. ContextInv'
  BY <1>1, TopicAssumption, SMTT(60) DEF IndInv, TypeOK, PlacesInv, ContextInv, StackInv, EdtInv, KillersAreTop, Prio, InHandler, Holding, Unwinding, Active
<1>a. \A x \in Events : current = NoEvent => ~OnStack(x)
  BY DEF IndInv, EdtInv, OnStack
<1>5. StackInv'
  BY <1>1, <1>a, TopicAssumption, SMTT(60) DEF IndInv, TypeOK, PlacesInv, ContextInv, StackInv, EdtInv, KillersAreTop, Prio, InHandler, Holding, Unwinding, Active
<1>6. EdtInv'
  BY TopicAssumption DEF IndInv, TypeOK, EdtInv, Prio, Holding, Unwinding,
     Active
<1> QED BY <1>2, <1>3, <1>4, <1>5, <1>6 DEF IndInv

LEMMA EdtSuspendStep ==
  ASSUME IndInv, KillersAreTop, EdtSuspend
  PROVE  IndInv'
<1> USE DEF EdtSuspend, Suspend, EdtUnchanged, edtVars, ctxVars, syncVars
<1>1. \A x \in Events : OnStack(x)' <=> OnStack(x)
  BY DEF OnStack
<1>2. TypeOK'
  BY SMTT(60) DEF IndInv, TypeOK, EdtInv, Holding, InHandler
<1>3. PlacesInv'
  BY <1>1, TopicAssumption, SMTT(60) DEF IndInv, TypeOK, PlacesInv, ContextInv, StackInv, EdtInv, KillersAreTop, Prio, InHandler, Holding, Unwinding, Active
<1>4. ContextInv'
  BY <1>1, TopicAssumption, SMTT(60) DEF IndInv, TypeOK, PlacesInv, ContextInv, StackInv, EdtInv, KillersAreTop, Prio, InHandler, Holding, Unwinding, Active
<1>5. StackInv'
  BY <1>1, TopicAssumption, SMTT(60) DEF IndInv, TypeOK, PlacesInv, ContextInv, StackInv, EdtInv, KillersAreTop, Prio, InHandler, Holding, Unwinding, Active
<1>6. EdtInv'
  BY <1>1, TopicAssumption, SMTT(60) DEF IndInv, TypeOK, PlacesInv, ContextInv, StackInv, EdtInv, KillersAreTop, Prio, InHandler, Holding, Unwinding, Active
<1> QED BY <1>2, <1>3, <1>4, <1>5, <1>6 DEF IndInv

LEMMA EdtInterruptStep ==
  ASSUME IndInv, KillersAreTop, EdtInterrupt
  PROVE  IndInv'
<1> USE DEF EdtInterrupt, HandlerSuspended, EdtUnchanged, edtVars, ctxVars, syncVars
<1>a. interrupted \in Seq(Events) /\ current \in Events
  BY DEF IndInv, TypeOK, EdtInv
<1>b. /\ Append(interrupted, current) \in Seq(Events)
      /\ Len(interrupted) \in Nat
      /\ Len(Append(interrupted, current)) = Len(interrupted) + 1
      /\ \A i \in 1 .. Len(interrupted) :
           /\ Append(interrupted, current)[i] = interrupted[i]
           /\ interrupted[i] \in Events
      /\ Append(interrupted, current)[Len(interrupted) + 1] = current
  BY <1>a, PushFacts
<1>1. \A x \in Events : OnStack(x)' <=> OnStack(x) \/ x = current
  BY <1>b DEF OnStack
<1>c. \A i \in 1 .. Len(interrupted) : Prio(interrupted[i]) < Prio(current)
  BY <1>b, TopicAssumption DEF IndInv, StackInv, OnStack, Active
<1>d. \A i, j \in 1 .. Len(interrupted') :
        i < j => Prio(interrupted'[i]) < Prio(interrupted'[j])
  <2>1. SUFFICES ASSUME NEW i \in 1 .. Len(interrupted'),
                        NEW j \in 1 .. Len(interrupted'), i < j
                 PROVE  Prio(interrupted'[i]) < Prio(interrupted'[j])
    OBVIOUS
  <2>2. i \in 1 .. Len(interrupted) /\ interrupted'[i] = interrupted[i]
    BY <1>b, <2>1
  <2>3. CASE j = Len(interrupted) + 1
    BY <1>b, <1>c, <2>2, <2>3
  <2>4. CASE j # Len(interrupted) + 1
    <3>1. j \in 1 .. Len(interrupted) /\ interrupted'[j] = interrupted[j]
      BY <1>b, <2>4
    <3> QED BY <2>1, <2>2, <3>1 DEF IndInv, StackInv
  <2> QED BY <2>3, <2>4
<1>2. TypeOK'
  BY <1>a, <1>b, SMTT(60) DEF IndInv, TypeOK, EdtInv, Holding, InHandler
<1>3. PlacesInv'
  BY <1>1, <1>a, TopicAssumption, SMTT(60) DEF IndInv, TypeOK, PlacesInv, ContextInv, StackInv, EdtInv, KillersAreTop, Prio, InHandler, Holding, Unwinding, Active
<1>4. ContextInv'
  BY <1>1, <1>a, TopicAssumption, SMTT(60) DEF IndInv, TypeOK, PlacesInv, ContextInv, StackInv, EdtInv, KillersAreTop, Prio, InHandler, Holding, Unwinding, Active
<1>e. /\ current \in live \ Killers /\ suspend_flag[current]
      /\ thr[current] \in {"waiting", "woken"} /\ Prio(current) < Prio(ev)
  <2>1. ev \in Events /\ current \in live
    BY <1>a, TopicAssumption DEF IndInv, TypeOK, EdtInv, Holding, Active
  <2>2. Prio(current) < Prio(ev) /\ suspend_flag[current]
    BY DEF IndInv, EdtInv
  <2>3. current \notin Killers
    BY <1>a, <2>1, <2>2, TopicAssumption DEF KillersAreTop, Prio
  <2>4. thr[current] \in {"waiting", "woken"}
    BY <2>1 DEF IndInv, ContextInv
  <2> QED BY <2>1, <2>2, <2>3, <2>4
<1>f. Active' = NoEvent /\ Holding /\ Holding'
  BY DEF Active, Holding
<1>5. StackInv'
  <2>1. ASSUME NEW x \in Events, OnStack(x)
        PROVE  /\ x \in live \ Killers /\ suspend_flag[x]
               /\ thr[x] \in {"waiting", "woken"} /\ Prio(x) < Prio(ev)
    BY <1>f, <2>1 DEF IndInv, StackInv
  <2>2. \A x \in Events : OnStack(x)' =>
          /\ x \in live \ Killers /\ suspend_flag[x]
          /\ thr[x] \in {"waiting", "woken"} /\ Prio(x) < Prio(ev)
    BY <1>1, <1>e, <2>1
  <2>3. UNCHANGED <<live, suspend_flag, thr, ev>>
    OBVIOUS
  <2> QED BY <1>d, <1>f, <2>2, <2>3 DEF StackInv, Prio
<1>6. EdtInv'
  <2>1. ev \in Events /\ ev # NoEvent
    BY <1>f, TopicAssumption DEF IndInv, TypeOK, EdtInv
  <2>2. status # "STOP_REQUESTED"
    BY <1>a, <2>1, TopicAssumption DEF IndInv, EdtInv, KillersAreTop, Prio
  <2> QED BY <2>1, <2>2 DEF IndInv, EdtInv, Holding, Unwinding, Active
<1> QED BY <1>2, <1>3, <1>4, <1>5, <1>6 DEF IndInv

LEMMA EdtLookupStep ==
  ASSUME IndInv, KillersAreTop, EdtLookup
  PROVE  IndInv'
<1> USE DEF EdtLookup, Free, EdtUnchanged, edtVars, ctxVars, syncVars
<1>1. \A x \in Events : OnStack(x)' <=> OnStack(x)
  BY DEF OnStack
<1>a. edt = "lookup" => ev \in Events
  BY DEF IndInv, TypeOK, EdtInv, Holding
<1>b. frees' \in [Events -> Nat] /\ live' \subseteq Events
  <2>1. frees \in [Events -> Nat] /\ live \subseteq Events
    BY DEF IndInv, TypeOK
  <2>2. CASE edt = "lookup" /\ Free(ev)
    BY <1>a, <2>1, <2>2, FreeFacts
  <2>3. CASE UNCHANGED <<frees, live>>
    BY <2>1, <2>3
  <2> QED BY <2>2, <2>3
<1>2. TypeOK'
  BY <1>a, <1>b, SMTT(60) DEF IndInv, TypeOK, InHandler
<1>3. PlacesInv'
  BY <1>1, TopicAssumption, SMTT(60) DEF IndInv, TypeOK, PlacesInv, ContextInv, StackInv, EdtInv, KillersAreTop, Prio, InHandler, Holding, Unwinding, Active
<1>4. ContextInv'
  BY <1>1, TopicAssumption, SMTT(60) DEF IndInv, TypeOK, PlacesInv, ContextInv, StackInv, EdtInv, KillersAreTop, Prio, InHandler, Holding, Unwinding, Active
<1>5. StackInv'
  BY <1>1, TopicAssumption, SMTT(60) DEF IndInv, TypeOK, PlacesInv, ContextInv, StackInv, EdtInv, KillersAreTop, Prio, InHandler, Holding, Unwinding, Active
<1>6. EdtInv'
  BY <1>1, TopicAssumption, SMTT(60) DEF IndInv, TypeOK, PlacesInv, ContextInv, StackInv, EdtInv, KillersAreTop, Prio, InHandler, Holding, Unwinding, Active
<1> QED BY <1>2, <1>3, <1>4, <1>5, <1>6 DEF IndInv

LEMMA EdtSpawnStep ==
  ASSUME IndInv, KillersAreTop, EdtSpawn
  PROVE  IndInv'
<1> USE DEF EdtSpawn, CreateHandlerSync, EdtUnchanged, edtVars, ctxVars, syncVars
<1>1. \A x \in Events : OnStack(x)' <=> OnStack(x)
  BY DEF OnStack
<1>a. ev \in Events
  BY DEF IndInv, TypeOK, EdtInv, Holding
<1>s. "created" \in InHandler
  BY DEF InHandler
<1>t. thr' \in [Events -> InHandler \cup {"none", "gone"}]
  BY <1>a, <1>s DEF IndInv, TypeOK
<1>b. running' \in [Events -> BOOLEAN] /\ reap' \in [Events -> BOOLEAN]
  BY <1>a, Zenon DEF IndInv, TypeOK
<1>c. /\ suspend_flag' \in [Events -> BOOLEAN]
      /\ in_wait_loop' \in [Events -> BOOLEAN]
      /\ syscall_origin' \in [Events -> BOOLEAN]
  BY <1>a, SMTT(60) DEF IndInv, TypeOK
<1>2. TypeOK'
  BY <1>a, <1>b, <1>c, <1>t, SMTT(60) DEF IndInv, TypeOK
<1>3. PlacesInv'
  BY <1>1, TopicAssumption, SMTT(60) DEF IndInv, TypeOK, PlacesInv, ContextInv, StackInv, EdtInv, KillersAreTop, Prio, InHandler, Holding, Unwinding, Active
<1>4. ContextInv'
  BY <1>1, TopicAssumption, SMTT(60) DEF IndInv, TypeOK, PlacesInv, ContextInv, StackInv, EdtInv, KillersAreTop, Prio, InHandler, Holding, Unwinding, Active
<1>5. StackInv'
  BY <1>1, TopicAssumption, SMTT(60) DEF IndInv, TypeOK, PlacesInv, ContextInv, StackInv, EdtInv, KillersAreTop, Prio, InHandler, Holding, Unwinding, Active
<1>6. EdtInv'
  BY <1>1, TopicAssumption, SMTT(60) DEF IndInv, TypeOK, PlacesInv, ContextInv, StackInv, EdtInv, KillersAreTop, Prio, InHandler, Holding, Unwinding, Active
<1> QED BY <1>2, <1>3, <1>4, <1>5, <1>6 DEF IndInv

LEMMA EdtReapStep ==
  ASSUME IndInv, KillersAreTop, EdtReap
  PROVE  IndInv'
<1> USE DEF EdtReap, HasFinished, Free, EdtUnchanged, edtVars, ctxVars, syncVars
<1>1. \A x \in Events : OnStack(x)' <=> OnStack(x)
  BY DEF OnStack
<1>a. current # NoEvent => current \in Events
  BY DEF IndInv, TypeOK, EdtInv, Holding
<1>b. frees' \in [Events -> Nat] /\ live' \subseteq Events
  <2>1. frees \in [Events -> Nat] /\ live \subseteq Events
    BY DEF IndInv, TypeOK
  <2>2. CASE current # NoEvent /\ Free(current)
    BY <1>a, <2>1, <2>2, FreeFacts
  <2>3. CASE UNCHANGED <<frees, live>>
    BY <2>1, <2>3
  <2> QED BY <2>2, <2>3
<1>2. TypeOK'
  BY <1>a, <1>b, SMTT(60) DEF IndInv, TypeOK, InHandler
<1>3. PlacesInv'
  BY <1>1, TopicAssumption, SMTT(60) DEF IndInv, TypeOK, PlacesInv, ContextInv, StackInv, EdtInv, KillersAreTop, Prio, InHandler, Holding, Unwinding, Active
<1>4. ContextInv'
  BY <1>1, TopicAssumption, SMTT(60) DEF IndInv, TypeOK, PlacesInv, ContextInv, StackInv, EdtInv, KillersAreTop, Prio, InHandler, Holding, Unwinding, Active
<1>5. StackInv'
  BY <1>1, TopicAssumption, SMTT(60) DEF IndInv, TypeOK, PlacesInv, ContextInv, StackInv, EdtInv, KillersAreTop, Prio, InHandler, Holding, Unwinding, Active
<1>6. EdtInv'
  BY <1>1, TopicAssumption, SMTT(60) DEF IndInv, TypeOK, PlacesInv, ContextInv, StackInv, EdtInv, KillersAreTop, Prio, InHandler, Holding, Unwinding, Active
<1> QED BY <1>2, <1>3, <1>4, <1>5, <1>6 DEF IndInv

LEMMA EdtResumeStep ==
  ASSUME IndInv, KillersAreTop, EdtResume
  PROVE  IndInv'
<1> USE DEF EdtResume, Resume, EdtUnchanged, edtVars, ctxVars, syncVars
<1> DEFINE top == interrupted[Len(interrupted)]
<1>1. CASE interrupted # <<>> /\ current = NoEvent
  <2>1. interrupted \in Seq(Events)
    BY DEF IndInv, TypeOK
  <2>2. /\ SubSeq(interrupted, 1, Len(interrupted) - 1) \in Seq(Events)
        /\ Len(interrupted) \in Nat \ {0}
        /\ Len(SubSeq(interrupted, 1, Len(interrupted) - 1)) = Len(interrupted) - 1
        /\ \A i \in 1 .. Len(interrupted) - 1 :
             SubSeq(interrupted, 1, Len(interrupted) - 1)[i] = interrupted[i]
        /\ \A i \in 1 .. Len(interrupted) : interrupted[i] \in Events
    BY <1>1, <2>1, PopFacts
  <2>3. interrupted' = SubSeq(interrupted, 1, Len(interrupted) - 1)
    BY <1>1
  <2>4. top \in Events
    BY <2>2
  <2>5. \A x \in Events : OnStack(x) <=> OnStack(x)' \/ x = top
    BY <2>2, <2>3 DEF OnStack
  <2>6. \A x \in Events : OnStack(x)' => Prio(x) < Prio(top)
    BY <2>2, <2>3 DEF OnStack, IndInv, StackInv
  <2>7. \A i, j \in 1 .. Len(interrupted') :
          i < j => Prio(interrupted'[i]) < Prio(interrupted'[j])
    BY <2>2, <2>3 DEF IndInv, StackInv
  <2>8. interrupted' \in Seq(Events)
    BY <2>2, <2>3
  <2>a. top \in live /\ running[top] /\ in_wait_loop[top]
    BY <2>4, <2>5 DEF IndInv, PlacesInv, ContextInv, StackInv, InHandler
  <2>s. "woken" \in InHandler
    BY DEF InHandler
  <2>r. /\ suspend_flag' = [suspend_flag EXCEPT ![top] = FALSE]
        /\ thr' = IF thr[top] = "waiting" THEN [thr EXCEPT ![top] = "woken"] ELSE thr
    BY <1>1, <2>a DEF top
  <2>b. suspend_flag' \in [Events -> BOOLEAN]
    <3> HIDE DEF top
    <3> QED BY <2>r, <2>4 DEF IndInv, TypeOK
  <2>f. thr' \in [Events -> InHandler \cup {"none", "gone"}]
    <3> HIDE DEF top
    <3> QED BY <2>r, <2>s, <2>4 DEF IndInv, TypeOK
  <2>9. TypeOK'
    BY <1>1, <2>a, <2>b, <2>f, <2>4, <2>8, SMTT(60) DEF IndInv, TypeOK
  <2>10. PlacesInv'
    BY <1>1, <2>4, <2>5, <2>6, <2>a, TopicAssumption, SMTT(60) DEF top, IndInv, TypeOK, PlacesInv, ContextInv, StackInv, EdtInv, KillersAreTop, Prio, InHandler, Holding, Unwinding, Active
  <2>11. ContextInv'
    BY <1>1, <2>4, <2>5, <2>6, <2>a, TopicAssumption, SMTT(60) DEF top, IndInv, TypeOK, PlacesInv, ContextInv, StackInv, EdtInv, KillersAreTop, Prio, InHandler, Holding, Unwinding, Active
  <2>c. \A x \in Events : OnStack(x)' => x # top
    BY <2>4, <2>6, TopicAssumption DEF Prio
  <2>d. \A x \in Events : OnStack(x)' =>
          /\ x \in live' \ Killers
          /\ suspend_flag'[x]
          /\ thr'[x] \in {"waiting", "woken"}
    BY <1>1, <2>4, <2>5, <2>a, <2>c, SMTT(60) DEF top, IndInv, TypeOK, StackInv
  <2>e. Active' = top /\ ~Holding' /\ top # NoEvent
    BY <1>1, <2>4, <2>a, TopicAssumption DEF Active, Holding
  <2>12. StackInv'
    BY <2>6, <2>7, <2>d, <2>e DEF StackInv, Prio
  <2>13. EdtInv'
    BY <1>1, <2>4, <2>5, <2>6, <2>a, TopicAssumption, SMTT(60) DEF top, IndInv, TypeOK, PlacesInv, ContextInv, StackInv, EdtInv, KillersAreTop, Prio, InHandler, Holding, Unwinding, Active
  <2> QED BY <2>9, <2>10, <2>11, <2>12, <2>13 DEF IndInv
<1>2. CASE ~(interrupted # <<>> /\ current = NoEvent)
  <2>1. \A x \in Events : OnStack(x)' <=> OnStack(x)
    BY <1>2 DEF OnStack
  <2>2. TypeOK'
    BY <1>2, <2>1, TopicAssumption, SMTT(60) DEF IndInv, TypeOK, PlacesInv, ContextInv, StackInv, EdtInv, KillersAreTop, Prio, InHandler, Holding, Unwinding, Active
  <2>3. PlacesInv'
    BY <1>2, <2>1, TopicAssumption, SMTT(60) DEF IndInv, TypeOK, PlacesInv, ContextInv, StackInv, EdtInv, KillersAreTop, Prio, InHandler, Holding, Unwinding, Active
  <2>4. ContextInv'
    BY <1>2, <2>1, TopicAssumption, SMTT(60) DEF IndInv, TypeOK, PlacesInv, ContextInv, StackInv, EdtInv, KillersAreTop, Prio, InHandler, Holding, Unwinding, Active
  <2>5. StackInv'
    BY <1>2, <2>1, TopicAssumption, SMTT(60) DEF IndInv, TypeOK, PlacesInv, ContextInv, StackInv, EdtInv, KillersAreTop, Prio, InHandler, Holding, Unwinding, Active
  <2>6. EdtInv'
    BY <1>2, <2>1, TopicAssumption, SMTT(60) DEF IndInv, TypeOK, PlacesInv, ContextInv, StackInv, EdtInv, KillersAreTop, Prio, InHandler, Holding, Unwinding, Active
  <2> QED BY <2>2, <2>3, <2>4, <2>5, <2>6 DEF IndInv
<1> QED BY <1>1, <1>2

LEMMA EdtRestoreStep ==
  ASSUME IndInv, KillersAreTop, EdtRestore
  PROVE  IndInv'
<1> USE DEF EdtRestore, EdtUnchanged, edtVars, ctxVars, syncVars
<1>1. \A x \in Events : OnStack(x)' <=> OnStack(x)
  BY DEF OnStack
<1>2. TypeOK'
  BY SMTT(60) DEF IndInv, TypeOK, EdtInv, Holding, InHandler
<1>3. PlacesInv'
  BY <1>1, TopicAssumption, SMTT(60) DEF IndInv, TypeOK, PlacesInv, ContextInv, StackInv, EdtInv, KillersAreTop, Prio, InHandler, Holding, Unwinding, Active
<1>4. ContextInv'
  BY <1>1, TopicAssumption, SMTT(60) DEF IndInv, TypeOK, PlacesInv, ContextInv, StackInv, EdtInv, KillersAreTop, Prio, InHandler, Holding, Unwinding, Active
<1>5. StackInv'
  BY <1>1, TopicAssumption, SMTT(60) DEF IndInv, TypeOK, PlacesInv, ContextInv, StackInv, EdtInv, KillersAreTop, Prio, InHandler, Holding, Unwinding, Active
<1>6. EdtInv'
  BY <1>1, TopicAssumption, SMTT(60) DEF IndInv, TypeOK, PlacesInv, ContextInv, StackInv, EdtInv, KillersAreTop, Prio, InHandler, Holding, Unwinding, Active
<1> QED BY <1>2, <1>3, <1>4, <1>5, <1>6 DEF IndInv

LEMMA EdtCleanupCurrentStep ==
  ASSUME IndInv, KillersAreTop, EdtCleanupCurrent
  PROVE  IndInv'
<1> USE DEF EdtCleanupCurrent, DisposeContext, Resume, Free, HandlerSuspended, EdtUnchanged, edtVars, ctxVars, syncVars
<1>1. \A x \in Events : OnStack(x)' <=> OnStack(x)
  BY DEF OnStack
<1>a. current # NoEvent => current \in Events
  BY DEF IndInv, TypeOK, EdtInv, Holding
<1>b. frees' \in [Events -> Nat] /\ live' \subseteq Events
  <2>1. frees \in [Events -> Nat] /\ live \subseteq Events
    BY DEF IndInv, TypeOK
  <2>2. CASE current # NoEvent /\ Free(current)
    BY <1>a, <2>1, <2>2, FreeFacts
  <2>3. CASE UNCHANGED <<frees, live>>
    BY <2>1, <2>3
  <2> QED BY <2>2, <2>3
<1>s. "woken" \in InHandler
  BY DEF InHandler
<1>c. thr' \in [Events -> InHandler \cup {"none", "gone"}]
  BY <1>a, <1>s DEF IndInv, TypeOK
<1>d. suspend_flag' \in [Events -> BOOLEAN]
  BY <1>a DEF IndInv, TypeOK
<1>2. TypeOK'
  BY <1>a, <1>b, <1>c, <1>d, SMTT(60) DEF IndInv, TypeOK
<1>3. PlacesInv'
  BY <1>1, TopicAssumption, SMTT(60) DEF IndInv, TypeOK, PlacesInv, ContextInv, StackInv, EdtInv, KillersAreTop, Prio, InHandler, Holding, Unwinding, Active
<1>4. ContextInv'
  BY <1>1, TopicAssumption, SMTT(60) DEF IndInv, TypeOK, PlacesInv, ContextInv, StackInv, EdtInv, KillersAreTop, Prio, InHandler, Holding, Unwinding, Active
<1>5. StackInv'
  BY <1>1, TopicAssumption, SMTT(60) DEF IndInv, TypeOK, PlacesInv, ContextInv, StackInv, EdtInv, KillersAreTop, Prio, InHandler, Holding, Unwinding, Active
<1>6. EdtInv'
  BY <1>1, TopicAssumption, SMTT(60) DEF IndInv, TypeOK, PlacesInv, ContextInv, StackInv, EdtInv, KillersAreTop, Prio, InHandler, Holding, Unwinding, Active
<1> QED BY <1>2, <1>3, <1>4, <1>5, <1>6 DEF IndInv

LEMMA EdtMarkStep ==
  ASSUME IndInv, KillersAreTop, EdtMark
  PROVE  IndInv'
<1> USE DEF EdtMark, EdtUnchanged, edtVars, ctxVars, syncVars
<1>1. \A x \in Events : OnStack(x)' <=> OnStack(x)
  BY DEF OnStack
<1>2. TypeOK'
  BY SMTT(60) DEF IndInv, TypeOK, EdtInv, Holding, InHandler
<1>3. PlacesInv'
  BY <1>1, TopicAssumption, SMTT(60) DEF IndInv, TypeOK, PlacesInv, ContextInv, StackInv, EdtInv, KillersAreTop, Prio, InHandler, Holding, Unwinding, Active
<1>4. ContextInv'
  BY <1>1, TopicAssumption, SMTT(60) DEF IndInv, TypeOK, PlacesInv, ContextInv, StackInv, EdtInv, KillersAreTop, Prio, InHandler, Holding, Unwinding, Active
<1>5. StackInv'
  BY <1>1, TopicAssumption, SMTT(60) DEF IndInv, TypeOK, PlacesInv, ContextInv, StackInv, EdtInv, KillersAreTop, Prio, InHandler, Holding, Unwinding, Active
<1>6. EdtInv'
  BY <1>1, TopicAssumption, SMTT(60) DEF IndInv, TypeOK, PlacesInv, ContextInv, StackInv, EdtInv, KillersAreTop, Prio, InHandler, Holding, Unwinding, Active
<1> QED BY <1>2, <1>3, <1>4, <1>5, <1>6 DEF IndInv

LEMMA EdtOutlastStep ==
  ASSUME IndInv, KillersAreTop, EdtOutlast
  PROVE  IndInv'
<1> USE DEF EdtOutlast, Free, EdtUnchanged, edtVars, ctxVars, syncVars
<1>1. \A x \in Events : OnStack(x)' <=> OnStack(x)
  BY DEF OnStack
<1>a. edt = "outlast" => ev \in Events
  BY DEF IndInv, TypeOK, EdtInv, Holding
<1>b. frees' \in [Events -> Nat] /\ live' \subseteq Events
  <2>1. frees \in [Events -> Nat] /\ live \subseteq Events
    BY DEF IndInv, TypeOK
  <2>2. CASE edt = "outlast" /\ Free(ev)
    BY <1>a, <2>1, <2>2, FreeFacts
  <2>3. CASE UNCHANGED <<frees, live>>
    BY <2>1, <2>3
  <2> QED BY <2>2, <2>3
<1>2. TypeOK'
  BY <1>a, <1>b, SMTT(60) DEF IndInv, TypeOK, InHandler
<1>3. PlacesInv'
  BY <1>1, TopicAssumption, SMTT(60) DEF IndInv, TypeOK, PlacesInv, ContextInv, StackInv, EdtInv, KillersAreTop, Prio, InHandler, Holding, Unwinding, Active
<1>4. ContextInv'
  BY <1>1, TopicAssumption, SMTT(60) DEF IndInv, TypeOK, PlacesInv, ContextInv, StackInv, EdtInv, KillersAreTop, Prio, InHandler, Holding, Unwinding, Active
<1>5. StackInv'
  BY <1>1, TopicAssumption, SMTT(60) DEF IndInv, TypeOK, PlacesInv, ContextInv, StackInv, EdtInv, KillersAreTop, Prio, InHandler, Holding, Unwinding, Active
<1>6. EdtInv'
  BY <1>1, TopicAssumption, SMTT(60) DEF IndInv, TypeOK, PlacesInv, ContextInv, StackInv, EdtInv, KillersAreTop, Prio, InHandler, Holding, Unwinding, Active
<1> QED BY <1>2, <1>3, <1>4, <1>5, <1>6 DEF IndInv

LEMMA EdtUnwindStep ==
  ASSUME IndInv, KillersAreTop, EdtUnwind
  PROVE  IndInv'
<1> USE DEF EdtUnwind, DisposeContext, Resume, Free, HandlerSuspended, EdtUnchanged, edtVars, ctxVars, syncVars
<1> DEFINE top == interrupted[Len(interrupted)]
<1>1. CASE interrupted # <<>>
  <2>1. interrupted \in Seq(Events)
    BY DEF IndInv, TypeOK
  <2>2. /\ SubSeq(interrupted, 1, Len(interrupted) - 1) \in Seq(Events)
        /\ Len(interrupted) \in Nat \ {0}
        /\ Len(SubSeq(interrupted, 1, Len(interrupted) - 1)) = Len(interrupted) - 1
        /\ \A i \in 1 .. Len(interrupted) - 1 :
             SubSeq(interrupted, 1, Len(interrupted) - 1)[i] = interrupted[i]
        /\ \A i \in 1 .. Len(interrupted) : interrupted[i] \in Events
    BY <1>1, <2>1, PopFacts
  <2>3. interrupted' = SubSeq(interrupted, 1, Len(interrupted) - 1)
    BY <1>1
  <2>4. top \in Events
    BY <2>2
  <2>5. \A x \in Events : OnStack(x) <=> OnStack(x)' \/ x = top
    BY <2>2, <2>3 DEF OnStack
  <2>6. \A x \in Events : OnStack(x)' => Prio(x) < Prio(top)
    BY <2>2, <2>3 DEF OnStack, IndInv, StackInv
  <2>7. \A i, j \in 1 .. Len(interrupted') :
          i < j => Prio(interrupted'[i]) < Prio(interrupted'[j])
    BY <2>2, <2>3 DEF IndInv, StackInv
  <2>8. interrupted' \in Seq(Events)
    BY <2>2, <2>3
  <2>a. top \in live /\ running[top] /\ in_wait_loop[top]
    BY <2>4, <2>5 DEF IndInv, PlacesInv, ContextInv, StackInv, InHandler
  <2>s. "woken" \in InHandler
    BY DEF InHandler
  <2>r. /\ suspend_flag' = [suspend_flag EXCEPT ![top] = FALSE]
        /\ thr' = IF thr[top] = "waiting" THEN [thr EXCEPT ![top] = "woken"] ELSE thr
    BY <1>1, <2>a DEF top
  <2>b. suspend_flag' \in [Events -> BOOLEAN]
    <3> HIDE DEF top
    <3> QED BY <2>r, <2>4 DEF IndInv, TypeOK
  <2>f. thr' \in [Events -> InHandler \cup {"none", "gone"}]
    <3> HIDE DEF top
    <3> QED BY <2>r, <2>s, <2>4 DEF IndInv, TypeOK
  <2>9. TypeOK'
    BY <1>1, <2>a, <2>b, <2>f, <2>4, <2>8, SMTT(60) DEF IndInv, TypeOK
  <2>10. PlacesInv'
    BY <1>1, <2>4, <2>5, <2>6, <2>a, TopicAssumption, SMTT(60) DEF top, IndInv, TypeOK, PlacesInv, ContextInv, StackInv, EdtInv, KillersAreTop, Prio, InHandler, Holding, Unwinding, Active
  <2>11. ContextInv'
    BY <1>1, <2>4, <2>5, <2>6, <2>a, TopicAssumption, SMTT(60) DEF top, IndInv, TypeOK, PlacesInv, ContextInv, StackInv, EdtInv, KillersAreTop, Prio, InHandler, Holding, Unwinding, Active
  <2>c. \A x \in Events : OnStack(x)' => x # top
    BY <2>4, <2>6, TopicAssumption DEF Prio
  <2>d. \A x \in Events : OnStack(x)' =>
          /\ x \in live' \ Killers
          /\ suspend_flag'[x]
          /\ thr'[x] \in {"waiting", "woken"}
    BY <1>1, <2>4, <2>5, <2>a, <2>c, SMTT(60) DEF top, IndInv, TypeOK, StackInv
  <2>e. Active' = top /\ ~Holding' /\ top # NoEvent
    BY <1>1, <2>4, <2>a, TopicAssumption DEF Active, Holding
  <2>12. StackInv'
    BY <2>6, <2>7, <2>d, <2>e DEF StackInv, Prio
  <2>13. EdtInv'
    BY <1>1, <2>4, <2>5, <2>6, <2>a, TopicAssumption, SMTT(60) DEF top, IndInv, TypeOK, PlacesInv, ContextInv, StackInv, EdtInv, KillersAreTop, Prio, InHandler, Holding, Unwinding, Active
  <2> QED BY <2>9, <2>10, <2>11, <2>12, <2>13 DEF IndInv
<1>2. CASE ~(interrupted # <<>>)
  <2>1. \A x \in Events : OnStack(x)' <=> OnStack(x)
    BY <1>2 DEF OnStack
  <2>2. TypeOK'
    BY <1>2, <2>1, TopicAssumption, SMTT(60) DEF IndInv, TypeOK, PlacesInv, ContextInv, StackInv, EdtInv, KillersAreTop, Prio, InHandler, Holding, Unwinding, Active
  <2>3. PlacesInv'
    BY <1>2, <2>1, TopicAssumption, SMTT(60) DEF IndInv, TypeOK, PlacesInv, ContextInv, StackInv, EdtInv, KillersAreTop, Prio, InHandler, Holding, Unwinding, Active
  <2>4. ContextInv'
    BY <1>2, <2>1, TopicAssumption, SMTT(60) DEF IndInv, TypeOK, PlacesInv, ContextInv, StackInv, EdtInv, KillersAreTop, Prio, InHandler, Holding, Unwinding, Active
  <2>5. StackInv'
    BY <1>2, <2>1, TopicAssumption, SMTT(60) DEF IndInv, TypeOK, PlacesInv, ContextInv, StackInv, EdtInv, KillersAreTop, Prio, InHandler, Holding, Unwinding, Active
  <2>6. EdtInv'
    BY <1>2, <2>1, TopicAssumption, SMTT(60) DEF IndInv, TypeOK, PlacesInv, ContextInv, StackInv, EdtInv, KillersAreTop, Prio, InHandler, Holding, Unwinding, Active
  <2> QED BY <2>2, <2>3, <2>4, <2>5, <2>6 DEF IndInv
<1> QED BY <1>1, <1>2

LEMMA EdtDrainStep ==
  ASSUME IndInv, KillersAreTop, EdtDrain
  PROVE  IndInv'
<1> USE DEF EdtDrain, Free, IsTop, EdtUnchanged, edtVars, ctxVars, syncVars
<1>1. \A x \in Events : OnStack(x)' <=> OnStack(x)
  BY DEF OnStack
<1>b. frees' \in [Events -> Nat] /\ live' \subseteq Events
  <2>1. frees \in [Events -> Nat] /\ live \subseteq Events /\ queue \subseteq Events
    BY DEF IndInv, TypeOK
  <2> QED BY <2>1, FreeFacts
<1>2. TypeOK'
  BY <1>b, SMTT(60) DEF IndInv, TypeOK, InHandler
<1>3. PlacesInv'
  <2>1. CASE queue = {}
    BY <2>1, <1>1, SMTT(60) DEF IndInv, TypeOK, PlacesInv, Holding, InHandler
  <2>2. ASSUME NEW e \in queue, queue' = queue \ {e}, Free(e), edt' = edt
        PROVE  PlacesInv'
    BY <2>2, SMTT(60) DEF IndInv, TypeOK, PlacesInv, Holding, InHandler
  <2> QED BY <2>1, <2>2
<1>4. ContextInv'
  BY <1>1, TopicAssumption, SMTT(60) DEF IndInv, TypeOK, PlacesInv, ContextInv, StackInv, EdtInv, KillersAreTop, Prio, InHandler, Holding, Unwinding, Active
<1>5. StackInv'
  BY <1>1, TopicAssumption, SMTT(60) DEF IndInv, TypeOK, PlacesInv, ContextInv, StackInv, EdtInv, KillersAreTop, Prio, InHandler, Holding, Unwinding, Active
<1>6. EdtInv'
  BY <1>1, TopicAssumption, SMTT(60) DEF IndInv, TypeOK, PlacesInv, ContextInv, StackInv, EdtInv, KillersAreTop, Prio, InHandler, Holding, Unwinding, Active
<1> QED BY <1>2, <1>3, <1>4, <1>5, <1>6 DEF IndInv

LEMMA HandlerStartStep ==
  ASSUME NEW e \in Events, IndInv, KillersAreTop, HandlerStart(e)
  PROVE  IndInv'
<1> USE DEF HandlerStart, ThrUnchanged, edtVars, ctxVars, syncVars
<1>1. \A x \in Events : OnStack(x)' <=> OnStack(x)
  BY DEF OnStack
<1>2. TypeOK'
  BY SMTT(60) DEF IndInv, TypeOK, EdtInv, Holding, InHandler
<1>3. PlacesInv'
  BY <1>1, TopicAssumption, SMTT(60) DEF IndInv, TypeOK, PlacesInv, ContextInv, StackInv, EdtInv, KillersAreTop, Prio, InHandler, Holding, Unwinding, Active
<1>4. ContextInv'
  BY <1>1, TopicAssumption, SMTT(60) DEF IndInv, TypeOK, PlacesInv, ContextInv, StackInv, EdtInv, KillersAreTop, Prio, InHandler, Holding, Unwinding, Active
<1>5. StackInv'
  BY <1>1, TopicAssumption, SMTT(60) DEF IndInv, TypeOK, PlacesInv, ContextInv, StackInv, EdtInv, KillersAreTop, Prio, InHandler, Holding, Unwinding, Active
<1>6. EdtInv'
  BY <1>1, TopicAssumption, SMTT(60) DEF IndInv, TypeOK, PlacesInv, ContextInv, StackInv, EdtInv, KillersAreTop, Prio, InHandler, Holding, Unwinding, Active
<1> QED BY <1>2, <1>3, <1>4, <1>5, <1>6 DEF IndInv

LEMMA HandlerInterruptPointStep ==
  ASSUME NEW e \in Events, IndInv, KillersAreTop, HandlerInterruptPoint(e)
  PROVE  IndInv'
<1> USE DEF HandlerInterruptPoint, InterruptLoop, ThrUnchanged, edtVars, ctxVars, syncVars
<1>1. \A x \in Events : OnStack(x)' <=> OnStack(x)
  BY DEF OnStack
<1>2. TypeOK'
  BY SMTT(60) DEF IndInv, TypeOK, EdtInv, Holding, InHandler
<1>3. PlacesInv'
  BY <1>1, TopicAssumption, SMTT(60) DEF IndInv, TypeOK, PlacesInv, ContextInv, StackInv, EdtInv, KillersAreTop, Prio, InHandler, Holding, Unwinding, Active
<1>4. ContextInv'
  BY <1>1, TopicAssumption, SMTT(60) DEF IndInv, TypeOK, PlacesInv, ContextInv, StackInv, EdtInv, KillersAreTop, Prio, InHandler, Holding, Unwinding, Active
<1>5. StackInv'
  BY <1>1, TopicAssumption, SMTT(60) DEF IndInv, TypeOK, PlacesInv, ContextInv, StackInv, EdtInv, KillersAreTop, Prio, InHandler, Holding, Unwinding, Active
<1>6. EdtInv'
  BY <1>1, TopicAssumption, SMTT(60) DEF IndInv, TypeOK, PlacesInv, ContextInv, StackInv, EdtInv, KillersAreTop, Prio, InHandler, Holding, Unwinding, Active
<1> QED BY <1>2, <1>3, <1>4, <1>5, <1>6 DEF IndInv

LEMMA HandlerWakeStep ==
  ASSUME NEW e \in Events, IndInv, KillersAreTop, HandlerWake(e)
  PROVE  IndInv'
<1> USE DEF HandlerWake, InterruptLoop, ThrUnchanged, edtVars, ctxVars, syncVars
<1>1. \A x \in Events : OnStack(x)' <=> OnStack(x)
  BY DEF OnStack
<1>2. TypeOK'
  BY SMTT(60) DEF IndInv, TypeOK, EdtInv, Holding, InHandler
<1>3. PlacesInv'
  BY <1>1, TopicAssumption, SMTT(60) DEF IndInv, TypeOK, PlacesInv, ContextInv, StackInv, EdtInv, KillersAreTop, Prio, InHandler, Holding, Unwinding, Active
<1>4. ContextInv'
  BY <1>1, TopicAssumption, SMTT(60) DEF IndInv, TypeOK, PlacesInv, ContextInv, StackInv, EdtInv, KillersAreTop, Prio, InHandler, Holding, Unwinding, Active
<1>5. StackInv'
  BY <1>1, TopicAssumption, SMTT(60) DEF IndInv, TypeOK, PlacesInv, ContextInv, StackInv, EdtInv, KillersAreTop, Prio, InHandler, Holding, Unwinding, Active
<1>6. EdtInv'
  BY <1>1, TopicAssumption, SMTT(60) DEF IndInv, TypeOK, PlacesInv, ContextInv, StackInv, EdtInv, KillersAreTop, Prio, InHandler, Holding, Unwinding, Active
<1> QED BY <1>2, <1>3, <1>4, <1>5, <1>6 DEF IndInv

LEMMA SpuriousWakeStep ==
  ASSUME NEW e \in Events, IndInv, KillersAreTop, SpuriousWake(e)
  PROVE  IndInv'
<1> USE DEF SpuriousWake, ThrUnchanged, edtVars, ctxVars, syncVars
<1>1. \A x \in Events : OnStack(x)' <=> OnStack(x)
  BY DEF OnStack
<1>2. TypeOK'
  BY SMTT(60) DEF IndInv, TypeOK, EdtInv, Holding, InHandler
<1>3. PlacesInv'
  BY <1>1, TopicAssumption, SMTT(60) DEF IndInv, TypeOK, PlacesInv, ContextInv, StackInv, EdtInv, KillersAreTop, Prio, InHandler, Holding, Unwinding, Active
<1>4. ContextInv'
  BY <1>1, TopicAssumption, SMTT(60) DEF IndInv, TypeOK, PlacesInv, ContextInv, StackInv, EdtInv, KillersAreTop, Prio, InHandler, Holding, Unwinding, Active
<1>5. StackInv'
  BY <1>1, TopicAssumption, SMTT(60) DEF IndInv, TypeOK, PlacesInv, ContextInv, StackInv, EdtInv, KillersAreTop, Prio, InHandler, Holding, Unwinding, Active
<1>6. EdtInv'
  BY <1>1, TopicAssumption, SMTT(60) DEF IndInv, TypeOK, PlacesInv, ContextInv, StackInv, EdtInv, KillersAreTop, Prio, InHandler, Holding, Unwinding, Active
<1> QED BY <1>2, <1>3, <1>4, <1>5, <1>6 DEF IndInv

LEMMA HandlerKillStep ==
  ASSUME NEW e \in Events, IndInv, KillersAreTop, HandlerKill(e)
  PROVE  IndInv'
<1> USE DEF HandlerKill, ThrUnchanged, edtVars, ctxVars, syncVars
<1>1. \A x \in Events : OnStack(x)' <=> OnStack(x)
  BY DEF OnStack
<1>2. TypeOK'
  BY SMTT(60) DEF IndInv, TypeOK, EdtInv, Holding, InHandler
<1>3. PlacesInv'
  BY <1>1, TopicAssumption, SMTT(60) DEF IndInv, TypeOK, PlacesInv, ContextInv, StackInv, EdtInv, KillersAreTop, Prio, InHandler, Holding, Unwinding, Active
<1>4. ContextInv'
  BY <1>1, TopicAssumption, SMTT(60) DEF IndInv, TypeOK, PlacesInv, ContextInv, StackInv, EdtInv, KillersAreTop, Prio, InHandler, Holding, Unwinding, Active
<1>5. StackInv'
  BY <1>1, TopicAssumption, SMTT(60) DEF IndInv, TypeOK, PlacesInv, ContextInv, StackInv, EdtInv, KillersAreTop, Prio, InHandler, Holding, Unwinding, Active
<1>6. EdtInv'
  BY <1>1, TopicAssumption, SMTT(60) DEF IndInv, TypeOK, PlacesInv, ContextInv, StackInv, EdtInv, KillersAreTop, Prio, InHandler, Holding, Unwinding, Active
<1> QED BY <1>2, <1>3, <1>4, <1>5, <1>6 DEF IndInv

LEMMA HandlerCmdQuitStep ==
  ASSUME NEW e \in Events, IndInv, KillersAreTop, HandlerCmdQuit(e)
  PROVE  IndInv'
<1> USE DEF HandlerCmdQuit, ThrUnchanged, edtVars, ctxVars, syncVars
<1>1. \A x \in Events : OnStack(x)' <=> OnStack(x)
  BY DEF OnStack
<1>2. TypeOK'
  BY SMTT(60) DEF IndInv, TypeOK, EdtInv, Holding, InHandler
<1>3. PlacesInv'
  BY <1>1, TopicAssumption, SMTT(60) DEF IndInv, TypeOK, PlacesInv, ContextInv, StackInv, EdtInv, KillersAreTop, Prio, InHandler, Holding, Unwinding, Active
<1>4. ContextInv'
  BY <1>1, TopicAssumption, SMTT(60) DEF IndInv, TypeOK, PlacesInv, ContextInv, StackInv, EdtInv, KillersAreTop, Prio, InHandler, Holding, Unwinding, Active
<1>5. StackInv'
  BY <1>1, TopicAssumption, SMTT(60) DEF IndInv, TypeOK, PlacesInv, ContextInv, StackInv, EdtInv, KillersAreTop, Prio, InHandler, Holding, Unwinding, Active
<1>a. edt # "spawn"
  BY SpawnsAlone
<1>6. EdtInv'
  BY <1>1, <1>a, TopicAssumption, SMTT(60) DEF IndInv, TypeOK, PlacesInv, ContextInv, StackInv, EdtInv, KillersAreTop, Prio, InHandler, Holding, Unwinding, Active
<1> QED BY <1>2, <1>3, <1>4, <1>5, <1>6 DEF IndInv

LEMMA HandlerQuitStep ==
  ASSUME NEW e \in Events, IndInv, KillersAreTop, HandlerQuit(e)
  PROVE  IndInv'
<1> USE DEF HandlerQuit, ThrUnchanged, edtVars, ctxVars, syncVars
<1>1. \A x \in Events : OnStack(x)' <=> OnStack(x)
  BY DEF OnStack
<1>2. TypeOK'
  BY SMTT(60) DEF IndInv, TypeOK, EdtInv, Holding, InHandler
<1>3. PlacesInv'
  BY <1>1, TopicAssumption, SMTT(60) DEF IndInv, TypeOK, PlacesInv, ContextInv, StackInv, EdtInv, KillersAreTop, Prio, InHandler, Holding, Unwinding, Active
<1>4. ContextInv'
  BY <1>1, TopicAssumption, SMTT(60) DEF IndInv, TypeOK, PlacesInv, ContextInv, StackInv, EdtInv, KillersAreTop, Prio, InHandler, Holding, Unwinding, Active
<1>5. StackInv'
  BY <1>1, TopicAssumption, SMTT(60) DEF IndInv, TypeOK, PlacesInv, ContextInv, StackInv, EdtInv, KillersAreTop, Prio, InHandler, Holding, Unwinding, Active
<1>6. EdtInv'
  BY <1>1, TopicAssumption, SMTT(60) DEF IndInv, TypeOK, PlacesInv, ContextInv, StackInv, EdtInv, KillersAreTop, Prio, InHandler, Holding, Unwinding, Active
<1> QED BY <1>2, <1>3, <1>4, <1>5, <1>6 DEF IndInv

LEMMA HandlerRequestStopStep ==
  ASSUME NEW e \in Events, IndInv, KillersAreTop, HandlerRequestStop(e)
  PROVE  IndInv'
<1> USE DEF HandlerRequestStop, ThrUnchanged, edtVars, ctxVars, syncVars
<1>1. \A x \in Events : OnStack(x)' <=> OnStack(x)
  BY DEF OnStack
<1>2. TypeOK'
  BY SMTT(60) DEF IndInv, TypeOK, EdtInv, Holding, InHandler
<1>3. PlacesInv'
  BY <1>1, TopicAssumption, SMTT(60) DEF IndInv, TypeOK, PlacesInv, ContextInv, StackInv, EdtInv, KillersAreTop, Prio, InHandler, Holding, Unwinding, Active
<1>4. ContextInv'
  BY <1>1, TopicAssumption, SMTT(60) DEF IndInv, TypeOK, PlacesInv, ContextInv, StackInv, EdtInv, KillersAreTop, Prio, InHandler, Holding, Unwinding, Active
<1>5. StackInv'
  BY <1>1, TopicAssumption, SMTT(60) DEF IndInv, TypeOK, PlacesInv, ContextInv, StackInv, EdtInv, KillersAreTop, Prio, InHandler, Holding, Unwinding, Active
<1>a. e \in live /\ e \in Killers /\ e = current /\ ~Unwinding
  BY RequestBeforeCleanup
<1>6. EdtInv'
  BY <1>1, <1>a, TopicAssumption, SMTT(60) DEF IndInv, TypeOK, PlacesInv, ContextInv, StackInv, EdtInv, KillersAreTop, Prio, InHandler, Holding, Unwinding, Active
<1> QED BY <1>2, <1>3, <1>4, <1>5, <1>6 DEF IndInv

LEMMA HandlerJoinedStep ==
  ASSUME NEW e \in Events, IndInv, KillersAreTop, HandlerJoined(e)
  PROVE  IndInv'
<1> USE DEF HandlerJoined, EdtJoined, ThrUnchanged, edtVars, ctxVars, syncVars
<1>1. \A x \in Events : OnStack(x)' <=> OnStack(x)
  BY DEF OnStack
<1>2. TypeOK'
  BY SMTT(60) DEF IndInv, TypeOK, EdtInv, Holding, InHandler
<1>3. PlacesInv'
  BY <1>1, TopicAssumption, SMTT(60) DEF IndInv, TypeOK, PlacesInv, ContextInv, StackInv, EdtInv, KillersAreTop, Prio, InHandler, Holding, Unwinding, Active
<1>4. ContextInv'
  BY <1>1, TopicAssumption, SMTT(60) DEF IndInv, TypeOK, PlacesInv, ContextInv, StackInv, EdtInv, KillersAreTop, Prio, InHandler, Holding, Unwinding, Active
<1>5. StackInv'
  BY <1>1, TopicAssumption, SMTT(60) DEF IndInv, TypeOK, PlacesInv, ContextInv, StackInv, EdtInv, KillersAreTop, Prio, InHandler, Holding, Unwinding, Active
<1>6. EdtInv'
  BY <1>1, TopicAssumption, SMTT(60) DEF IndInv, TypeOK, PlacesInv, ContextInv, StackInv, EdtInv, KillersAreTop, Prio, InHandler, Holding, Unwinding, Active
<1> QED BY <1>2, <1>3, <1>4, <1>5, <1>6 DEF IndInv

LEMMA HandlerReturnStep ==
  ASSUME NEW e \in Events, IndInv, KillersAreTop, HandlerReturn(e)
  PROVE  IndInv'
<1> USE DEF HandlerReturn, ThrUnchanged, edtVars, ctxVars, syncVars
<1>1. \A x \in Events : OnStack(x)' <=> OnStack(x)
  BY DEF OnStack
<1>2. TypeOK'
  BY SMTT(60) DEF IndInv, TypeOK, EdtInv, Holding, InHandler
<1>3. PlacesInv'
  BY <1>1, TopicAssumption, SMTT(60) DEF IndInv, TypeOK, PlacesInv, ContextInv, StackInv, EdtInv, KillersAreTop, Prio, InHandler, Holding, Unwinding, Active
<1>4. ContextInv'
  BY <1>1, TopicAssumption, SMTT(60) DEF IndInv, TypeOK, PlacesInv, ContextInv, StackInv, EdtInv, KillersAreTop, Prio, InHandler, Holding, Unwinding, Active
<1>5. StackInv'
  BY <1>1, TopicAssumption, SMTT(60) DEF IndInv, TypeOK, PlacesInv, ContextInv, StackInv, EdtInv, KillersAreTop, Prio, InHandler, Holding, Unwinding, Active
<1>6. EdtInv'
  BY <1>1, TopicAssumption, SMTT(60) DEF IndInv, TypeOK, PlacesInv, ContextInv, StackInv, EdtInv, KillersAreTop, Prio, InHandler, Holding, Unwinding, Active
<1> QED BY <1>2, <1>3, <1>4, <1>5, <1>6 DEF IndInv

LEMMA HandlerCheckReapStep ==
  ASSUME NEW e \in Events, IndInv, KillersAreTop, HandlerCheckReap(e)
  PROVE  IndInv'
<1> USE DEF HandlerCheckReap, ReapsItself, Free, ThrUnchanged, edtVars, ctxVars, syncVars
<1>1. \A x \in Events : OnStack(x)' <=> OnStack(x)
  BY DEF OnStack
<1>b. frees' \in [Events -> Nat] /\ live' \subseteq Events
  <2>1. frees \in [Events -> Nat] /\ live \subseteq Events
    BY DEF IndInv, TypeOK
  <2> QED BY <2>1, FreeFacts
<1>c. thr' \in [Events -> InHandler \cup {"none", "gone"}]
  BY DEF IndInv, TypeOK, InHandler
<1>d. UNCHANGED <<status, main, edt, ev, unborn, queue, handlers, current,
                  interrupted, running, reap, suspend_flag, in_wait_loop,
                  syscall_origin, disposed>>
  OBVIOUS
<1>2. TypeOK'
  BY <1>b, <1>c, <1>d DEF IndInv, TypeOK
<1>3. PlacesInv'
  <2>1. CASE reap[e]
    BY <1>1, <1>b, <2>1 DEF IndInv, TypeOK, PlacesInv, ContextInv, InHandler,
         Holding
  <2>2. CASE ~reap[e]
    BY <1>1, <2>2 DEF IndInv, TypeOK, PlacesInv, InHandler, Holding
  <2> QED BY <2>1, <2>2
<1>4. ContextInv'
  <2>1. CASE reap[e]
    BY <1>1, <2>1 DEF IndInv, TypeOK, PlacesInv, ContextInv, EdtInv, InHandler,
         Unwinding, Active
  <2>2. CASE ~reap[e]
    BY <1>1, <2>2 DEF IndInv, TypeOK, PlacesInv, ContextInv, EdtInv, InHandler,
         Unwinding, Active
  <2> QED BY <2>1, <2>2
<1>5. StackInv'
  BY <1>1, TopicAssumption, SMTT(60) DEF IndInv, TypeOK, PlacesInv, ContextInv, StackInv, EdtInv, KillersAreTop, Prio, InHandler, Holding, Unwinding, Active
<1>6. EdtInv'
  BY <1>1, TopicAssumption, SMTT(60) DEF IndInv, TypeOK, PlacesInv, ContextInv, StackInv, EdtInv, KillersAreTop, Prio, InHandler, Holding, Unwinding, Active
<1> QED BY <1>2, <1>3, <1>4, <1>5, <1>6 DEF IndInv

LEMMA HandlerFinishStep ==
  ASSUME NEW e \in Events, IndInv, KillersAreTop, HandlerFinish(e)
  PROVE  IndInv'
<1> USE DEF HandlerFinish, ThrUnchanged, edtVars, ctxVars, syncVars
<1>1. \A x \in Events : OnStack(x)' <=> OnStack(x)
  BY DEF OnStack
<1>2. TypeOK'
  BY SMTT(60) DEF IndInv, TypeOK, EdtInv, Holding, InHandler
<1>3. PlacesInv'
  BY <1>1, TopicAssumption, SMTT(60) DEF IndInv, TypeOK, PlacesInv, ContextInv, StackInv, EdtInv, KillersAreTop, Prio, InHandler, Holding, Unwinding, Active
<1>4. ContextInv'
  BY <1>1, TopicAssumption, SMTT(60) DEF IndInv, TypeOK, PlacesInv, ContextInv, StackInv, EdtInv, KillersAreTop, Prio, InHandler, Holding, Unwinding, Active
<1>5. StackInv'
  BY <1>1, TopicAssumption, SMTT(60) DEF IndInv, TypeOK, PlacesInv, ContextInv, StackInv, EdtInv, KillersAreTop, Prio, InHandler, Holding, Unwinding, Active
<1>6. EdtInv'
  BY <1>1, TopicAssumption, SMTT(60) DEF IndInv, TypeOK, PlacesInv, ContextInv, StackInv, EdtInv, KillersAreTop, Prio, InHandler, Holding, Unwinding, Active
<1> QED BY <1>2, <1>3, <1>4, <1>5, <1>6 DEF IndInv

-----------------------------------------------------------------------------
(* The theorems.                                                           *)

LEMMA NextStep ==
  ASSUME KillersAreTop, IndInv, [Next]_vars
  PROVE  IndInv'
<1> USE IndInv, KillersAreTop
<1>1. ASSUME NEW e \in Events, Generate(e)
      PROVE  IndInv'
  BY <1>1, GenerateStep
<1>2. ASSUME NEW t \in Topics, Subscribe(t) \/ Unsubscribe(t)
      PROVE  IndInv'
  BY <1>2, SubscribeStep, UnsubscribeStep
<1>3. CASE MainNext
  BY <1>3, MainUpStep, MainExitStep DEF MainNext
<1>4. CASE EdtNext
  BY <1>4, EdtStartStep, EdtTestStep, EdtPollStep, EdtSuspendStep,
     EdtInterruptStep, EdtLookupStep, EdtSpawnStep, EdtReapStep,
     EdtResumeStep, EdtRestoreStep, EdtCleanupCurrentStep, EdtMarkStep,
     EdtOutlastStep, EdtUnwindStep, EdtDrainStep DEF EdtNext
<1>5. ASSUME NEW e \in Events, HandlerStep(e)
      PROVE  IndInv'
  BY <1>5, HandlerStartStep, HandlerWakeStep, HandlerCmdQuitStep,
     HandlerQuitStep, HandlerRequestStopStep, HandlerJoinedStep,
     HandlerCheckReapStep, HandlerFinishStep DEF HandlerStep
<1>6. ASSUME NEW e \in Events, HandlerBody(e) \/ SpuriousWake(e)
      PROVE  IndInv'
  BY <1>6, HandlerInterruptPointStep, HandlerKillStep, HandlerReturnStep,
     SpuriousWakeStep DEF HandlerBody
<1>7. CASE UNCHANGED vars
  BY <1>7 DEF IndInv, TypeOK, PlacesInv, ContextInv, StackInv, EdtInv, vars,
     edtVars, ctxVars, syncVars, OnStack, Active, Holding, Unwinding, Prio
<1> QED BY <1>1, <1>2, <1>3, <1>4, <1>5, <1>6, <1>7 DEF Next, Terminated

\* IndInv is an invariant.
THEOREM Invariance ==
  ASSUME KillersAreTop
  PROVE  Spec => []IndInv
<1>1. Init => IndInv
  BY InitInv
<1>2. IndInv /\ [Next]_vars => IndInv'
  BY NextStep
<1> QED BY <1>1, <1>2, PTL DEF Spec

\* Every variable keeps its type.
THEOREM TypeCorrect ==
  ASSUME KillersAreTop
  PROVE  Spec => []TypeOK
<1>1. IndInv => TypeOK
  BY DEF IndInv
<1> QED BY <1>1, Invariance, PTL

\* In an executing thread's state the EDT has the context as its active one,
\* or has ended.
LEMMA ExecutingIsActive ==
  ASSUME IndInv, NEW e \in Events, thr[e] \in Executing
  PROVE  /\ e \in live
         /\ \/ e = Active
            \/ reap[e] /\ e = current /\ thr[e] = "returned" /\ status # "STOP_REQUESTED"
<1>1. e \in live
  BY DEF IndInv, PlacesInv, Executing, InHandler
<1>2. thr[e] \notin {"join", "waiting", "woken"}
  BY DEF Executing
<1>3. e = Active \/ reap[e] \/ OnStack(e)
  BY <1>1 DEF IndInv, ContextInv
<1>4. ~OnStack(e)
  BY <1>2 DEF IndInv, StackInv
<1>5. reap[e] => e = current /\ thr[e] = "returned"
  BY <1>1, <1>2 DEF IndInv, ContextInv
<1>6. reap[e] => status # "STOP_REQUESTED"
  BY <1>5 DEF IndInv, EdtInv
<1> QED BY <1>1, <1>3, <1>4, <1>5, <1>6

\* At most one handler thread executes at any time.
THEOREM MutualExclusion ==
  ASSUME KillersAreTop
  PROVE  Spec => []OneHandlerRuns
<1>1. IndInv => OneHandlerRuns
  <2> SUFFICES ASSUME IndInv, NEW e \in Events, NEW f \in Events,
                      thr[e] \in Executing, thr[f] \in Executing
               PROVE  e = f
    BY DEF OneHandlerRuns
  <2>1. e = Active \/ (reap[e] /\ e = current /\ status # "STOP_REQUESTED")
    BY ExecutingIsActive
  <2>2. f = Active \/ (reap[f] /\ f = current /\ status # "STOP_REQUESTED")
    BY ExecutingIsActive
  <2>3. e \in live /\ f \in live
    BY ExecutingIsActive
  <2>4. ASSUME NEW g \in live, reap[g], status # "STOP_REQUESTED"
        PROVE  Active = NoEvent
    BY <2>4 DEF IndInv, TypeOK, ContextInv, EdtInv, Active, Unwinding
  <2> QED BY <2>1, <2>2, <2>3, <2>4, TopicAssumption DEF IndInv, TypeOK
<1> QED BY <1>1, Invariance, PTL

\* The stack of handlers is strictly increasing in priority.
THEOREM StackOrder ==
  ASSUME KillersAreTop
  PROVE  Spec => []StackIncreasing
<1>1. IndInv => StackIncreasing
  <2> SUFFICES ASSUME IndInv
               PROVE  StackIncreasing
    OBVIOUS
  <2>1. current # NoEvent /\ edt \notin {"unwind", "outlast", "mark", "drain", "exited"}
          => Active = current
    BY DEF IndInv, TypeOK, EdtInv, Active
  <2> QED BY <2>1 DEF IndInv, StackInv, StackIncreasing
<1> QED BY <1>1, Invariance, PTL

\* Interrupted handlers stay parked, and no wakeup is lost.
THEOREM Parking ==
  ASSUME KillersAreTop
  PROVE  Spec => []InterruptedStayParked
<1>1. IndInv => InterruptedStayParked
  <2> SUFFICES ASSUME IndInv, NEW e \in Events
               PROVE  /\ OnStack(e) => suspend_flag[e] /\ thr[e] \in {"waiting", "woken"}
                      /\ thr[e] = "waiting" => suspend_flag[e]
    BY DEF InterruptedStayParked
  <2>1. OnStack(e) => suspend_flag[e] /\ thr[e] \in {"waiting", "woken"}
    BY DEF IndInv, StackInv
  <2>2. thr[e] = "waiting" => suspend_flag[e]
    BY DEF IndInv, PlacesInv, ContextInv
  <2> QED BY <2>1, <2>2
<1> QED BY <1>1, Invariance, PTL

\* No Event or context is deleted twice, or used after it was deleted.
THEOREM MemorySafety ==
  ASSUME KillersAreTop
  PROVE  Spec => []MemorySafe
<1>1. IndInv => MemorySafe
  <2>0. IndInv => (disposed => edt = "exited")
    BY DEF IndInv, EdtInv
  <2> SUFFICES ASSUME IndInv, NEW e \in Events
               PROVE  /\ frees[e] <= 1
                      /\ thr[e] \in InHandler => e \in live
                      /\ e \in live => frees[e] = 0
                      /\ e = current /\ edt \in {"test", "poll", "suspend",
                           "await", "reap", "cleanup", "mark"} => e \in live
    BY <2>0 DEF MemorySafe
  <2>1. frees[e] <= 1 /\ (e \in live => frees[e] = 0)
    BY DEF IndInv, PlacesInv
  <2>2. thr[e] \in InHandler => e \in live
    BY DEF IndInv, PlacesInv, InHandler
  <2>3. e = current /\ edt \in {"test", "poll", "suspend", "await", "reap",
                                "cleanup", "mark"} => e \in live
    BY TopicAssumption DEF IndInv, EdtInv, Active
  <2> QED BY <2>1, <2>2, <2>3
<1> QED BY <1>1, Invariance, PTL

\* No context is leaked.
THEOREM NoLeak ==
  ASSUME KillersAreTop
  PROVE  Spec => []NoContextLeaked
<1>1. IndInv => NoContextLeaked
  <2> SUFFICES ASSUME IndInv, NEW e \in live
               PROVE  EdtHolds(e) \/ (reap[e] /\ thr[e] \in InHandler \ {"finish"})
    BY DEF NoContextLeaked
  <2>1. e = Active \/ reap[e] \/ OnStack(e)
    BY DEF IndInv, ContextInv
  <2>2. CASE e = Active
    BY <2>2, TopicAssumption DEF IndInv, TypeOK, EdtHolds, Active
  <2>3. CASE reap[e]
    BY <2>3 DEF IndInv, ContextInv, InHandler
  <2>4. CASE OnStack(e)
    BY <2>4 DEF EdtHolds
  <2> QED BY <2>1, <2>2, <2>3, <2>4
<1> QED BY <1>1, Invariance, PTL

\* What the handler threads and the EDT read without a lock still holds when
\* they use it.
THEOREM UnlockedReads ==
  ASSUME KillersAreTop
  PROVE  Spec => []ReadsStillHold
<1>1. IndInv =>
        \A e \in Events : thr[e] \in {"created", "quit", "request"} => current = e
  BY DEF IndInv, PlacesInv, ContextInv
<1>2. IndInv => (edt = "spawn" => TopicOf[ev] \in handlers)
  BY DEF IndInv, EdtInv
<1>3. IndInv => ReadsStillHold
  BY <1>1, <1>2 DEF ReadsStillHold
<1> QED BY <1>3, Invariance, PTL

-----------------------------------------------------------------------------
(* Dispatch implements the scheduler of module HandlerStack.               *)

hvars == <<HPending, HStack, HFinished>>

\* Popping undoes pushing, and pushing what was popped undoes popping.
LEMMA PushPop ==
  ASSUME NEW S, NEW s \in Seq(S), NEW x \in S
  PROVE  SubSeq(Append(s, x), 1, Len(Append(s, x)) - 1) = s
<1> DEFINE t == Append(s, x)
<1>1. /\ t \in Seq(S) /\ t # <<>> /\ Len(s) \in Nat
      /\ Len(t) = Len(s) + 1
      /\ \A i \in 1 .. Len(s) : t[i] = s[i]
  BY PushFacts
<1> HIDE DEF t
<1>2. /\ SubSeq(t, 1, Len(t) - 1) \in Seq(S)
      /\ Len(SubSeq(t, 1, Len(t) - 1)) = Len(s)
      /\ \A i \in 1 .. Len(s) : SubSeq(t, 1, Len(t) - 1)[i] = s[i]
  BY <1>1, PopFacts
<1>3. SubSeq(t, 1, Len(t) - 1) = s
  BY <1>2, SeqEqual
<1> QED BY <1>3 DEF t

LEMMA PopPush ==
  ASSUME NEW S, NEW s \in Seq(S), s # <<>>
  PROVE  Append(SubSeq(s, 1, Len(s) - 1), s[Len(s)]) = s
<1> DEFINE t == SubSeq(s, 1, Len(s) - 1)
<1>1. /\ t \in Seq(S) /\ Len(s) \in Nat \ {0} /\ Len(t) = Len(s) - 1
      /\ \A i \in 1 .. Len(s) - 1 : t[i] = s[i]
      /\ s[Len(s)] \in S
  BY PopFacts
<1> HIDE DEF t
<1>2. /\ Append(t, s[Len(s)]) \in Seq(S)
      /\ Len(Append(t, s[Len(s)])) = Len(s)
      /\ \A i \in 1 .. Len(s) : Append(t, s[Len(s)])[i] = s[i]
  BY <1>1, PushFacts
<1>3. Append(t, s[Len(s)]) = s
  BY <1>2, SeqEqual
<1> QED BY <1>3 DEF t

\* What is under way has a context, is there once, and waits no more.
LEMMA StackFacts ==
  ASSUME IndInv
  PROVE  /\ HStack \in Seq(Events)
         /\ \A i \in 1 .. Len(HStack) :
              HStack[i] \in live /\ HStack[i] \notin unborn \cup HPending
         /\ \A i, j \in 1 .. Len(HStack) : i < j => HStack[i] # HStack[j]
         /\ HPending \subseteq Events /\ HPending \cap unborn = {}
<1> DEFINE n == Len(interrupted)
<1>1. interrupted \in Seq(Events) /\ n \in Nat
  BY DEF IndInv, TypeOK
<1>2. Active # NoEvent => Active \in live /\ Active \in Events
  BY DEF IndInv, TypeOK, EdtInv
<1>3. \A i \in 1 .. n : /\ interrupted[i] \in live
                        /\ Active # NoEvent => Prio(interrupted[i]) < Prio(Active)
  BY <1>1, ElementOfSeq DEF IndInv, StackInv, OnStack
<1>4. \A i, j \in 1 .. n : i < j => Prio(interrupted[i]) < Prio(interrupted[j])
  BY DEF IndInv, StackInv
<1>5. \A e \in live : e \in Events /\ e \notin unborn \cup HPending
  BY DEF IndInv, TypeOK, PlacesInv, HPending
<1>6. \A e \in Events : Prio(e) \in Nat
  BY TopicAssumption DEF Prio
<1>7. HPending \subseteq Events /\ HPending \cap unborn = {}
  BY TopicAssumption DEF IndInv, TypeOK, PlacesInv, EdtInv, HPending
<1>8. CASE Active = NoEvent
  <2>1. HStack = interrupted
    BY <1>8 DEF HStack
  <2>2. \A i, j \in 1 .. n : i < j => interrupted[i] # interrupted[j]
    BY <1>4, <1>6, <1>3, <1>5
  <2> QED BY <2>1, <2>2, <1>1, <1>3, <1>5, <1>7
<1>9. CASE Active # NoEvent
  <2>1. HStack = Append(interrupted, Active)
    BY <1>9 DEF HStack
  <2>2. /\ HStack \in Seq(Events) /\ Len(HStack) = n + 1
        /\ \A i \in 1 .. n : HStack[i] = interrupted[i]
        /\ HStack[n + 1] = Active
    BY <2>1, <1>1, <1>2, <1>9, PushFacts
  <2>3. \A i \in 1 .. n + 1 : HStack[i] \in live
    BY <2>2, <1>1, <1>2, <1>3, <1>9
  <2>4. \A i, j \in 1 .. n + 1 : i < j => Prio(HStack[i]) < Prio(HStack[j])
    <3> SUFFICES ASSUME NEW i \in 1 .. n + 1, NEW j \in 1 .. n + 1, i < j
                 PROVE  Prio(HStack[i]) < Prio(HStack[j])
      OBVIOUS
    <3>1. i \in 1 .. n
      BY <1>1
    <3>2. CASE j = n + 1
      BY <3>1, <3>2, <2>2, <1>3, <1>9
    <3>3. CASE j \in 1 .. n
      BY <3>1, <3>3, <2>2, <1>4
    <3> QED BY <3>2, <3>3, <1>1
  <2>5. \A i, j \in 1 .. n + 1 : i < j => HStack[i] # HStack[j]
    BY <2>3, <2>4, <1>5, <1>6
  <2> HIDE DEF n
  <2> QED BY <2>2, <2>3, <2>5, <1>5, <1>7
<1> QED BY <1>8, <1>9

\* Leaving the top of the stack is the end of a handler.
LEMMA EndMaps ==
  ASSUME IndInv, HPending' = HPending, unborn' = unborn, HStack # <<>>,
         HStack' = SubSeq(HStack, 1, Len(HStack) - 1)
  PROVE  HS!End
<1> DEFINE s == HStack
           n == Len(s)
<1>1. /\ s \in Seq(Events) /\ HPending \subseteq Events
      /\ \A i \in 1 .. n : s[i] \notin unborn \cup HPending
      /\ \A i, j \in 1 .. n : i < j => s[i] # s[j]
  BY StackFacts
<1>2. /\ n \in Nat \ {0} /\ Len(HStack') = n - 1
      /\ \A i \in 1 .. n - 1 : HStack'[i] = s[i]
      /\ \A i \in 1 .. n : s[i] \in Events
  BY <1>1, PopFacts
<1> HIDE DEF s, n
<1>3. HFinished = {e \in Events \ (unborn \cup HPending) :
                     \A i \in 1 .. n : s[i] # e}
  BY DEF HFinished, s, n
<1>4. HFinished' = {e \in Events \ (unborn \cup HPending) :
                      \A i \in 1 .. n - 1 : s[i] # e}
  BY <1>2 DEF HFinished
<1>5. n \in 1 .. n /\ \A i \in 1 .. n - 1 : i \in 1 .. n /\ i < n
  BY <1>2
<1>6. HFinished' = HFinished \cup {s[n]}
  <2>1. ASSUME NEW e \in HFinished'
        PROVE  e \in HFinished \cup {s[n]}
    <3>1. \A i \in 1 .. n : i \in 1 .. n - 1 \/ i = n
      BY <1>2
    <3> QED BY <2>1, <3>1, <1>3, <1>4
  <2>2. HFinished \subseteq HFinished'
    BY <1>3, <1>4, <1>5
  <2>3. s[n] \in HFinished'
    BY <1>1, <1>2, <1>4, <1>5
  <2> QED BY <2>1, <2>2, <2>3
<1> QED BY <1>6 DEF HS!End, s, n

\* An event that leaves those that wait, and is not begun, is discarded.
LEMMA DiscardMaps ==
  ASSUME IndInv, NEW e \in HPending, HPending' = HPending \ {e},
         unborn' = unborn, HStack' = HStack
  PROVE  HS!Discard(e)
<1>1. /\ HPending \subseteq Events /\ HPending \cap unborn = {}
      /\ \A i \in 1 .. Len(HStack) : HStack[i] \notin HPending
  BY StackFacts
<1>2. HFinished' = HFinished \cup {e}
  BY <1>1 DEF HFinished
<1> QED BY <1>2 DEF HS!Discard

\* What keeps the mapped variables.
LEMMA StutterMaps ==
  ASSUME HPending' = HPending, HStack' = HStack, unborn' = unborn
  PROVE  UNCHANGED hvars
  BY DEF hvars, HFinished

\* The steps that leave the queue and the EDT alone: the threads', and the
\* subscriptions.
LEMMA OthersMap ==
  ASSUME UNCHANGED <<edtVars, unborn, queue>>
  PROVE  UNCHANGED hvars
<1>1. UNCHANGED <<edt, ev, current, interrupted, unborn, queue>>
  BY DEF edtVars
<1>2. Active' = Active /\ Holding' = Holding
  BY <1>1 DEF Active, Holding
<1>3. HPending' = HPending /\ HStack' = HStack
  BY <1>1, <1>2 DEF HPending, HStack
<1> QED BY <1>1, <1>3, StutterMaps

LEMMA GenerateMaps ==
  ASSUME IndInv, NEW e \in Events, Generate(e)
  PROVE  HS!Arrive(e)
<1>1. UNCHANGED <<edt, ev, current, interrupted>> /\ e \in unborn
      /\ unborn' = unborn \ {e} /\ queue' = queue \cup {e}
  BY DEF Generate, edtVars
<1>2. Active' = Active /\ Holding' = Holding
  BY <1>1 DEF Active, Holding
<1>3. HPending' = HPending \cup {e} /\ HStack' = HStack
  BY <1>1, <1>2 DEF HPending, HStack
<1>4. /\ e \notin HPending \cup HFinished
      /\ \A i \in 1 .. Len(HStack) : HStack[i] # e
  BY <1>1, StackFacts DEF HFinished
<1>5. HFinished' = HFinished
  BY <1>1, <1>3, <1>4 DEF HFinished
<1> QED BY <1>3, <1>4, <1>5 DEF HS!Arrive

\* The loop condition and the poll: an event in the EDT's hands still waits.
LEMMA EdtLoopMaps ==
  ASSUME IndInv, EdtStart \/ EdtTest \/ EdtPoll \/ EdtSuspend
  PROVE  UNCHANGED hvars
<1>1. unborn' = unborn /\ interrupted' = interrupted /\ current' = current
  BY DEF EdtStart, EdtTest, EdtPoll, EdtSuspend, EdtUnchanged
<1>2. edt = "created" => current = NoEvent
  BY DEF IndInv, EdtInv
<1>3. Active' = Active
  BY <1>1, <1>2 DEF EdtStart, EdtTest, EdtPoll, EdtSuspend, Active
<1>4. HPending' = HPending
  BY DEF EdtStart, EdtTest, EdtPoll, EdtSuspend, Holding, HPending
<1> QED BY <1>1, <1>3, <1>4, StutterMaps DEF HStack

\* The current context goes on the stack, where the scheduler has it already.
LEMMA EdtInterruptMaps ==
  ASSUME IndInv, EdtInterrupt
  PROVE  UNCHANGED hvars
<1>1. /\ edt = "await" /\ edt' = "lookup" /\ current # NoEvent
      /\ interrupted' = Append(interrupted, current)
      /\ UNCHANGED <<ev, queue, unborn>>
  BY DEF EdtInterrupt, EdtUnchanged, IndInv, EdtInv
<1>2. Active = current /\ Active' = NoEvent
  BY <1>1 DEF Active
<1>3. HStack' = HStack
  BY <1>1, <1>2 DEF HStack
<1>4. HPending' = HPending
  BY <1>1 DEF HPending, Holding
<1> QED BY <1>1, <1>3, <1>4, StutterMaps

\* An event that nobody is subscribed to is discarded.
LEMMA EdtLookupMaps ==
  ASSUME IndInv, EdtLookup
  PROVE  UNCHANGED hvars \/ HS!Discard(ev)
<1>1. edt = "lookup" /\ UNCHANGED <<current, interrupted, queue, unborn>>
      /\ current = NoEvent /\ ev \in Events /\ ev \notin queue
  BY DEF EdtLookup, EdtUnchanged, IndInv, EdtInv, TypeOK, PlacesInv, Holding
<1>2. CASE edt' = "spawn"
  <2>1. ev' = ev /\ Active = NoEvent /\ Active' = NoEvent
    BY <1>1, <1>2 DEF EdtLookup, Active
  <2>2. HStack' = HStack /\ HPending' = HPending
    BY <1>1, <1>2, <2>1 DEF HStack, HPending, Holding
  <2> QED BY <1>1, <2>2, StutterMaps
<1>3. CASE edt' = "reap"
  <2>1. Active = NoEvent /\ Active' = NoEvent
    BY <1>1, <1>3 DEF Active
  <2>2. HStack' = HStack
    BY <1>1, <2>1 DEF HStack
  <2>3. ev \in HPending /\ HPending' = HPending \ {ev}
    BY <1>1, <1>3 DEF HPending, Holding
  <2> QED BY <1>1, <2>2, <2>3, DiscardMaps
<1> QED BY <1>2, <1>3 DEF EdtLookup

\* A handler begins above those that are under way.
LEMMA EdtSpawnMaps ==
  ASSUME IndInv, EdtSpawn
  PROVE  ev \in Events /\ HS!Begin(ev)
<1>1. /\ edt = "spawn" /\ edt' = "reap" /\ current' = ev
      /\ UNCHANGED <<interrupted, queue, unborn>>
      /\ ev \in Events /\ ev # NoEvent /\ ev \notin queue \cup unborn
      /\ interrupted \in Seq(Events)
  BY TopicAssumption DEF EdtSpawn, EdtUnchanged, IndInv, EdtInv, TypeOK,
     PlacesInv, Holding
<1>2. Active = NoEvent /\ Active' = ev
  BY <1>1 DEF Active
<1>3. HStack = interrupted /\ HStack' = Append(interrupted, ev)
  BY <1>1, <1>2 DEF HStack
<1>4. ev \in HPending /\ HPending' = HPending \ {ev}
  BY <1>1 DEF HPending, Holding
<1>5. \A i \in 1 .. Len(HStack) : HStack[i] \in Events /\ HStack[i] \notin HPending
  BY StackFacts, ElementOfSeq
<1>6. \A i \in 1 .. Len(HStack) :
        [e \in Events |-> Prio(e)][HStack[i]] < [e \in Events |-> Prio(e)][ev]
  <2> SUFFICES ASSUME NEW i \in 1 .. Len(HStack)
               PROVE  Prio(HStack[i]) < Prio(ev)
    BY <1>1, <1>5
  <2>1. OnStack(HStack[i])
    BY <1>3 DEF OnStack
  <2> QED BY <1>1, <1>5, <2>1 DEF IndInv, StackInv, Holding
<1>7. HFinished' = HFinished
  <2>1. /\ Len(HStack) \in Nat /\ Len(HStack') = Len(HStack) + 1
        /\ \A i \in 1 .. Len(HStack) : HStack'[i] = HStack[i]
        /\ HStack'[Len(HStack) + 1] = ev
    BY <1>1, <1>3, PushFacts
  <2>2. \A i \in 1 .. Len(HStack') : i \in 1 .. Len(HStack) \/ i = Len(HStack) + 1
    BY <2>1
  <2>3. \A i \in 1 .. Len(HStack) : i \in 1 .. Len(HStack')
    BY <2>1
  <2>4. Len(HStack) + 1 \in 1 .. Len(HStack')
    BY <2>1
  <2>5. \A e \in Events : (\A i \in 1 .. Len(HStack') : HStack'[i] # e)
                       <=> e # ev /\ \A i \in 1 .. Len(HStack) : HStack[i] # e
    BY <2>1, <2>2, <2>3, <2>4
  <2> QED BY <2>5, <1>1, <1>4 DEF HFinished
<1> QED BY <1>1, <1>3, <1>4, <1>6, <1>7 DEF HS!Begin

\* A current handler that has finished ends; it is the one on top.
LEMMA EdtReapMaps ==
  ASSUME IndInv, EdtReap
  PROVE  UNCHANGED hvars \/ HS!End
<1>1. /\ edt = "reap" /\ edt' = "resume"
      /\ UNCHANGED <<ev, interrupted, queue, unborn>>
      /\ interrupted \in Seq(Events) /\ current \in Events \cup {NoEvent}
  BY DEF EdtReap, EdtUnchanged, IndInv, TypeOK
<1>2. HPending' = HPending /\ Active = current /\ Active' = current'
  BY <1>1 DEF HPending, Holding, Active
<1>3. CASE current' = current
  BY <1>1, <1>2, <1>3, StutterMaps DEF HStack
<1>4. CASE current # NoEvent /\ current' = NoEvent
  <2>1. HStack = Append(interrupted, current) /\ HStack' = interrupted
    BY <1>1, <1>2, <1>4 DEF HStack
  <2>2. HStack # <<>> /\ HStack' = SubSeq(HStack, 1, Len(HStack) - 1)
    BY <1>1, <1>4, <2>1, PushPop, PushFacts
  <2> QED BY <1>1, <1>2, <2>2, EndMaps
<1> QED BY <1>3, <1>4 DEF EdtReap

\* Resuming moves the top of the interrupted ones to the EDT's hands and from
\* there to current_handler: it stays on top.
LEMMA EdtResumeMaps ==
  ASSUME IndInv, EdtResume \/ EdtRestore
  PROVE  UNCHANGED hvars
<1>1. /\ UNCHANGED <<queue, unborn>> /\ interrupted \in Seq(Events)
      /\ edt = "restore" => ev # NoEvent
  BY DEF EdtResume, EdtRestore, EdtUnchanged, IndInv, TypeOK, EdtInv
<1>2. HPending' = HPending
  BY <1>1 DEF EdtResume, EdtRestore, HPending, Holding
<1>3. CASE EdtRestore
  BY <1>1, <1>2, <1>3, StutterMaps DEF EdtRestore, Active, HStack
<1>4. CASE EdtResume /\ ~(current = NoEvent /\ interrupted # <<>>)
  BY <1>1, <1>2, <1>4, StutterMaps DEF EdtResume, Active, HStack
<1>5. CASE EdtResume /\ current = NoEvent /\ interrupted # <<>>
  <2>1. /\ interrupted[Len(interrupted)] \in Events
        /\ interrupted[Len(interrupted)] # NoEvent
    BY <1>1, <1>5, PopFacts, TopicAssumption
  <2>2. Active = NoEvent /\ Active' = interrupted[Len(interrupted)]
    BY <1>5 DEF EdtResume, Active
  <2>3. HStack = interrupted
        /\ HStack' = Append(SubSeq(interrupted, 1, Len(interrupted) - 1),
                            interrupted[Len(interrupted)])
    BY <1>5, <2>1, <2>2 DEF EdtResume, HStack
  <2>4. HStack' = HStack
    BY <1>1, <1>5, <2>3, PopPush
  <2> QED BY <1>1, <1>2, <2>4, StutterMaps
<1> QED BY <1>3, <1>4, <1>5

\* The shutdown lets go of the current handler: one that it waits for is
\* still under way; one that has finished ends.
LEMMA EdtCleanupCurrentMaps ==
  ASSUME IndInv, EdtCleanupCurrent
  PROVE  UNCHANGED hvars \/ HS!End
<1>1. /\ edt = "cleanup" /\ UNCHANGED <<current, interrupted, queue, unborn>>
      /\ interrupted \in Seq(Events) /\ current \in Events \cup {NoEvent}
  BY DEF EdtCleanupCurrent, EdtUnchanged, IndInv, TypeOK
<1>2. edt' \in {"outlast", "mark", "unwind"}
      /\ (edt' = "outlast" => ev' = current)
      /\ (current = NoEvent => edt' = "unwind")
  BY DEF EdtCleanupCurrent, DisposeContext
<1>3. HPending' = HPending /\ Active = current
  BY <1>1, <1>2 DEF HPending, Holding, Active
<1>4. CASE Active' = Active
  BY <1>1, <1>3, <1>4, StutterMaps DEF HStack
<1>5. CASE Active' # Active
  <2>1. current # NoEvent /\ Active' = NoEvent
    BY <1>1, <1>2, <1>3, <1>5 DEF Active
  <2>2. HStack = Append(interrupted, current) /\ HStack' = interrupted
    BY <1>1, <1>3, <2>1 DEF HStack
  <2>3. HStack # <<>> /\ HStack' = SubSeq(HStack, 1, Len(HStack) - 1)
    BY <1>1, <2>1, <2>2, PushPop, PushFacts
  <2> QED BY <1>1, <1>3, <2>3, EndMaps
<1> QED BY <1>4, <1>5

\* A handler that was waited for ends; so does, for the scheduler, one that is
\* told to delete its context by itself.
LEMMA EdtOutlastMaps ==
  ASSUME IndInv, EdtOutlast \/ EdtMark
  PROVE  UNCHANGED hvars \/ HS!End
<1>1. /\ UNCHANGED <<current, interrupted, queue, unborn>>
      /\ interrupted \in Seq(Events) /\ ev \in Events /\ ev # NoEvent
  BY DEF EdtOutlast, EdtMark, EdtUnchanged, IndInv, TypeOK, EdtInv
<1>2. HPending' = HPending
  BY <1>1 DEF EdtOutlast, EdtMark, HPending, Holding
<1>3. Active = ev /\ Active' = NoEvent
  BY DEF EdtOutlast, EdtMark, IndInv, EdtInv, Active
<1>4. HStack = Append(interrupted, ev) /\ HStack' = interrupted
  BY <1>1, <1>3 DEF HStack
<1>5. HStack # <<>> /\ HStack' = SubSeq(HStack, 1, Len(HStack) - 1)
  BY <1>1, <1>4, PushPop, PushFacts
<1> QED BY <1>1, <1>2, <1>5, EndMaps

\* So do the interrupted ones, from the top.
LEMMA EdtUnwindMaps ==
  ASSUME IndInv, EdtUnwind
  PROVE  UNCHANGED hvars \/ HS!End
<1> DEFINE top == interrupted[Len(interrupted)]
           rest == SubSeq(interrupted, 1, Len(interrupted) - 1)
<1>1. /\ edt = "unwind" /\ UNCHANGED <<current, queue, unborn>>
      /\ interrupted \in Seq(Events)
  BY DEF EdtUnwind, EdtUnchanged, IndInv, TypeOK
<1>2. edt' \in {"outlast", "unwind", "drain"}
  BY DEF EdtUnwind, DisposeContext
<1>3. HPending' = HPending /\ HStack = interrupted
  BY <1>1, <1>2 DEF HPending, Holding, Active, HStack
<1>4. CASE interrupted = <<>>
  <2>1. Active' = NoEvent /\ interrupted' = interrupted
    BY <1>4 DEF EdtUnwind, Active
  <2> QED BY <1>1, <1>3, <2>1, StutterMaps DEF HStack
<1>5. CASE interrupted # <<>> /\ edt' = "outlast"
  <2>1. top \in Events /\ top # NoEvent
    BY <1>1, <1>5, PopFacts, TopicAssumption
  <2>2. Active' = top /\ interrupted' = rest
    BY <1>5 DEF EdtUnwind, DisposeContext, Active
  <2>3. HStack' = Append(rest, top)
    BY <2>1, <2>2 DEF HStack
  <2>4. HStack' = HStack
    BY <1>1, <1>3, <1>5, <2>3, PopPush
  <2> QED BY <1>1, <1>3, <2>4, StutterMaps
<1>6. CASE interrupted # <<>> /\ edt' # "outlast"
  <2>1. Active' = NoEvent /\ interrupted' = rest
    BY <1>2, <1>6 DEF EdtUnwind, Active
  <2>2. HStack' = SubSeq(HStack, 1, Len(HStack) - 1)
    BY <1>3, <2>1 DEF HStack
  <2> QED BY <1>1, <1>3, <1>6, <2>2, EndMaps
<1> QED BY <1>4, <1>5, <1>6

\* What is still queued is discarded.
LEMMA EdtDrainMaps ==
  ASSUME IndInv, EdtDrain
  PROVE  UNCHANGED hvars \/ \E e \in Events : HS!Discard(e)
<1>1. edt = "drain" /\ edt' \in {"drain", "exited"}
      /\ UNCHANGED <<ev, current, interrupted, unborn>> /\ queue \subseteq Events
  BY DEF EdtDrain, EdtUnchanged, IndInv, TypeOK
<1>2. HStack' = HStack /\ HPending = queue /\ HPending' = queue'
  BY <1>1 DEF Active, HStack, HPending, Holding
<1>3. CASE queue' = queue
  BY <1>1, <1>2, <1>3, StutterMaps
<1>4. ASSUME NEW e \in queue, queue' = queue \ {e}
      PROVE  e \in Events /\ HS!Discard(e)
  BY <1>1, <1>2, <1>4, DiscardMaps
<1> QED BY <1>3, <1>4 DEF EdtDrain

LEMMA StepMaps ==
  ASSUME IndInv, [Next]_vars
  PROVE  HS!Next \/ UNCHANGED hvars
<1> USE IndInv
<1>1. ASSUME NEW e \in Events, Generate(e)
      PROVE  HS!Next
  BY <1>1, GenerateMaps DEF HS!Next
<1>2. ASSUME NEW t \in Topics, Subscribe(t) \/ Unsubscribe(t)
      PROVE  UNCHANGED hvars
  BY <1>2, OthersMap DEF Subscribe, Unsubscribe
<1>3. CASE MainNext
  BY <1>3, OthersMap DEF MainNext, MainUp, MainExit
<1>4. CASE EdtNext
  <2>1. CASE EdtLookup
    <3>1. edt = "lookup" => ev \in Events
      BY DEF IndInv, EdtInv, TypeOK, Holding
    <3> QED BY <2>1, <3>1, EdtLookupMaps DEF HS!Next, EdtLookup
  <2>2. CASE EdtSpawn
    BY <2>2, EdtSpawnMaps DEF HS!Next
  <2>3. CASE EdtDrain
    BY <2>3, EdtDrainMaps DEF HS!Next
  <2> QED BY <1>4, <2>1, <2>2, <2>3, EdtLoopMaps, EdtInterruptMaps, EdtReapMaps,
             EdtResumeMaps, EdtCleanupCurrentMaps, EdtOutlastMaps,
             EdtUnwindMaps DEF EdtNext, HS!Next
<1>5. ASSUME NEW e \in Events, HandlerStep(e) \/ HandlerBody(e) \/ SpuriousWake(e)
      PROVE  UNCHANGED hvars
  <2>1. ThrUnchanged
    BY <1>5 DEF HandlerStep, HandlerStart, HandlerWake, HandlerCmdQuit,
       HandlerQuit, HandlerRequestStop, HandlerJoined, HandlerCheckReap,
       HandlerFinish, HandlerBody, HandlerInterruptPoint, HandlerKill,
       HandlerReturn, SpuriousWake
  <2> QED BY <2>1, OthersMap DEF ThrUnchanged
<1>6. CASE UNCHANGED vars
  BY <1>6, OthersMap DEF vars
<1> QED BY <1>1, <1>2, <1>3, <1>4, <1>5, <1>6 DEF Next, Terminated

\* Dispatch is a preemptive scheduler, through every suspension, resumption and
\* shutdown.
THEOREM Refinement ==
  ASSUME KillersAreTop
  PROVE  Spec => ImplementsHandlerStack
<1>1. Init => HS!Init
  <2> SUFFICES ASSUME Init
               PROVE  HPending = {} /\ HStack = <<>> /\ HFinished = {}
    BY DEF HS!Init
  <2> QED BY DEF Init, HPending, Holding, HStack, Active, HFinished
<1>2. IndInv /\ [Next]_vars => [HS!Next]_<<HPending, HStack, HFinished>>
  BY StepMaps DEF hvars
<1> QED BY <1>1, <1>2, Invariance, PTL DEF Spec, HS!Spec, ImplementsHandlerStack
=============================================================================
