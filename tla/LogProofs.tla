----------------------------- MODULE LogProofs ------------------------------
(***************************************************************************)
(* Theorems about Log, for any threads, streams, levels and bound on the   *)
(* messages.  What a stream takes from a sequence of messages, For, is a   *)
(* recursive function: its laws are proved first, by induction over the    *)
(* natural numbers as a set that has 0 and every successor.                *)
(***************************************************************************)
EXTENDS Log, SequenceTheorems, WellFoundedInduction, TLAPS

-----------------------------------------------------------------------------
(* Induction.                                                              *)

\* A set that has 0 and the successor of each of its numbers has them all.
LEMMA Induction ==
  ASSUME NEW S, 0 \in S, \A n \in Nat : n \in S => n + 1 \in S
  PROVE  \A n \in Nat : n \in S
<1> DEFINE R == OpToRel(<, Nat)
           T == Nat \ S
<1> SUFFICES ASSUME T # {} PROVE FALSE
  OBVIOUS
<1>1. IsWellFoundedOn(R, Nat)
  BY NatLessThanWellFounded
<1>2. R = {ss \in Nat \X Nat : ss[1] < ss[2]}
  BY DEF OpToRel
<1> HIDE DEF R
<1>3. PICK m \in T : \A n \in T : ~(<<n, m>> \in R)
  <2>1. T \subseteq Nat
    OBVIOUS
  <2> HIDE DEF T
  <2> QED BY <1>1, <2>1, WFMin
<1>4. m \in Nat /\ m # 0
  BY <1>3
<1>5. m - 1 \in Nat /\ m - 1 \notin T
  <2>1. m - 1 \in Nat /\ m - 1 < m
    BY <1>4
  <2>2. <<m - 1, m>> \in R
    BY <1>2, <1>4, <2>1
  <2> HIDE DEF T
  <2> QED BY <1>3, <2>1, <2>2
<1>6. (m - 1) + 1 \in S
  BY <1>5
<1> QED BY <1>3, <1>4, <1>6

\* Appending to the second of two sequences.
LEMMA AppendToConcat ==
  ASSUME NEW a \in Seq(Messages), NEW b \in Seq(Messages), NEW e \in Messages
  PROVE  Append(a \o b, e) = a \o Append(b, e)
<1>1. a \o b \in Seq(Messages) /\ <<e>> \in Seq(Messages)
  OBVIOUS
<1>2. Append(a \o b, e) = (a \o b) \o <<e>> /\ Append(b, e) = b \o <<e>>
  BY <1>1, AppendIsConcat
<1>3. (a \o b) \o <<e>> = a \o (b \o <<e>>)
  BY <1>1, ConcatAssociative
<1> QED BY <1>2, <1>3

\* A sequence is its head and its tail.
LEMMA HeadAndTail ==
  ASSUME NEW S, NEW q \in Seq(S), q # <<>>
  PROVE  Head(q) \in S /\ Tail(q) \in Seq(S) /\ <<Head(q)>> \o Tail(q) = q
  BY HeadTailProperties

-----------------------------------------------------------------------------
(* The laws of For.                                                        *)

\* What is kept of the first n messages.
Kept(s, ms) ==
  CHOOSE kept : kept =
    [n \in 0 .. Len(ms) |->
       IF n = 0 THEN <<>>
       ELSE IF Takes(s, ms[n]) THEN Append(kept[n - 1], ms[n]) ELSE kept[n - 1]]

LEMMA ForIsKept ==
  ASSUME NEW s, NEW ms
  PROVE  For(s, ms) = Kept(s, ms)[Len(ms)]
  BY DEF For, Kept

\* The function is there, and does what its definition says.
LEMMA KeptFacts ==
  ASSUME NEW s, NEW ms \in Seq(Messages)
  PROVE  /\ Kept(s, ms)[0] = <<>>
         /\ \A n \in 1 .. Len(ms) : Kept(s, ms)[n] =
              IF Takes(s, ms[n]) THEN Append(Kept(s, ms)[n - 1], ms[n])
                                 ELSE Kept(s, ms)[n - 1]
<1> DEFINE Body(f, n) ==
             IF n = 0 THEN <<>>
             ELSE IF Takes(s, ms[n]) THEN Append(f[n - 1], ms[n]) ELSE f[n - 1]
           S == {k \in Nat : \E f : f = [n \in 0 .. k |-> Body(f, n)]}
<1>1. 0 \in S
  <2> DEFINE f == [n \in 0 .. 0 |-> <<>>]
  <2>1. f = [n \in 0 .. 0 |-> Body(f, n)]
    OBVIOUS
  <2> QED BY <2>1
<1>2. ASSUME NEW k \in Nat, k \in S
      PROVE  k + 1 \in S
  <2>1. PICK f : f = [n \in 0 .. k |-> Body(f, n)]
    BY <1>2
  <2> DEFINE g == [n \in 0 .. k + 1 |-> IF n = k + 1 THEN Body(f, k + 1) ELSE f[n]]
  <2>2. ASSUME NEW n \in 0 .. k + 1
        PROVE  g[n] = Body(g, n)
    <3>1. CASE n = k + 1
      <4>1. g[n - 1] = f[n - 1] /\ n # 0
        BY <3>1
      <4> QED BY <3>1, <4>1
    <3>2. CASE n # k + 1
      <4>1. n \in 0 .. k /\ g[n] = f[n] /\ (n # 0 => g[n - 1] = f[n - 1])
        BY <3>2
      <4>2. f[n] = Body(f, n)
        BY <2>1, <4>1
      <4> QED BY <4>1, <4>2
    <3> QED BY <3>1, <3>2
  <2>3. g = [n \in 0 .. k + 1 |-> Body(g, n)]
    BY <2>2
  <2> HIDE DEF g
  <2> QED BY <2>3
<1>3. Len(ms) \in S
  <2> HIDE DEF S
  <2> QED BY <1>1, <1>2, Induction
<1>4. Kept(s, ms) = [n \in 0 .. Len(ms) |-> Body(Kept(s, ms), n)]
  BY <1>3 DEF Kept
<1>5. \A n \in 0 .. Len(ms) : Kept(s, ms)[n] = Body(Kept(s, ms), n)
  BY <1>4
<1>6. Len(ms) \in Nat
  OBVIOUS
<1> QED BY <1>5, <1>6

\* What is kept is a sequence of messages.
LEMMA KeptType ==
  ASSUME NEW s, NEW ms \in Seq(Messages)
  PROVE  \A n \in 0 .. Len(ms) : Kept(s, ms)[n] \in Seq(Messages)
<1> DEFINE S == {n \in Nat : n <= Len(ms) => Kept(s, ms)[n] \in Seq(Messages)}
<1>1. 0 \in S
  <2>1. Kept(s, ms)[0] = <<>> /\ <<>> \in Seq(Messages)
    BY KeptFacts, EmptySeq
  <2> QED BY <2>1
<1>2. ASSUME NEW n \in Nat, n \in S
      PROVE  n + 1 \in S
  <2> SUFFICES ASSUME n + 1 <= Len(ms)
               PROVE  Kept(s, ms)[n + 1] \in Seq(Messages)
    OBVIOUS
  <2>1. n + 1 \in 1 .. Len(ms) /\ (n + 1) - 1 = n /\ ms[n + 1] \in Messages
    BY ElementOfSeq
  <2>2. Kept(s, ms)[n] \in Seq(Messages)
    BY <1>2, <2>1
  <2>3. Kept(s, ms)[n + 1] = IF Takes(s, ms[n + 1])
                             THEN Append(Kept(s, ms)[n], ms[n + 1])
                             ELSE Kept(s, ms)[n]
    BY <2>1, KeptFacts
  <2>4. Append(Kept(s, ms)[n], ms[n + 1]) \in Seq(Messages)
    BY <2>1, <2>2, AppendProperties
  <2> QED BY <2>2, <2>3, <2>4
<1> HIDE DEF S
<1>3. \A n \in Nat : n \in S
  BY <1>1, <1>2, Induction
<1> QED BY <1>3 DEF S

LEMMA ForType ==
  ASSUME NEW s, NEW ms \in Seq(Messages)
  PROVE  For(s, ms) \in Seq(Messages)
<1>1. Len(ms) \in 0 .. Len(ms)
  OBVIOUS
<1> QED BY <1>1, KeptType, ForIsKept

LEMMA ForEmpty ==
  ASSUME NEW s
  PROVE  For(s, <<>>) = <<>>
<1>1. <<>> \in Seq(Messages) /\ Len(<<>>) = 0
  BY EmptySeq
<1>2. Kept(s, <<>>)[0] = <<>>
  BY <1>1, KeptFacts
<1> QED BY <1>1, <1>2, ForIsKept

\* A message at the end is kept at the end, or not at all.
LEMMA ForAppend ==
  ASSUME NEW s, NEW ms \in Seq(Messages), NEW m \in Messages
  PROVE  For(s, Append(ms, m)) =
           IF Takes(s, m) THEN Append(For(s, ms), m) ELSE For(s, ms)
<1> DEFINE ns == Append(ms, m)
           S  == {n \in Nat : n <= Len(ms) => Kept(s, ns)[n] = Kept(s, ms)[n]}
<1>1. /\ ns \in Seq(Messages) /\ Len(ns) = Len(ms) + 1 /\ Len(ms) \in Nat
      /\ \A i \in 1 .. Len(ms) : ns[i] = ms[i]
      /\ ns[Len(ms) + 1] = m
  BY AppendProperties
<1> HIDE DEF ns
<1>2. 0 \in S
  BY <1>1, KeptFacts
<1>3. ASSUME NEW n \in Nat, n \in S
      PROVE  n + 1 \in S
  <2> SUFFICES ASSUME n + 1 <= Len(ms)
               PROVE  Kept(s, ns)[n + 1] = Kept(s, ms)[n + 1]
    OBVIOUS
  <2>1. /\ n + 1 \in 1 .. Len(ms) /\ n + 1 \in 1 .. Len(ns) /\ (n + 1) - 1 = n
        /\ ns[n + 1] = ms[n + 1]
    BY <1>1
  <2>2. Kept(s, ns)[n] = Kept(s, ms)[n]
    BY <1>3, <1>1, <2>1
  <2> QED BY <1>1, <2>1, <2>2, KeptFacts
<1> HIDE DEF S
<1>4. \A n \in Nat : n \in S
  BY <1>2, <1>3, Induction
<1>5. Kept(s, ns)[Len(ms)] = For(s, ms)
  BY <1>1, <1>4, ForIsKept DEF S
<1>6. Len(ns) \in 1 .. Len(ns) /\ Len(ns) - 1 = Len(ms)
  BY <1>1
<1>7. Kept(s, ns)[Len(ns)] = IF Takes(s, m) THEN Append(For(s, ms), m) ELSE For(s, ms)
  BY <1>1, <1>5, <1>6, KeptFacts
<1> QED BY <1>7, ForIsKept DEF ns

\* A message at the head is kept at the head, or not at all.
LEMMA ForHead ==
  ASSUME NEW s, NEW ms \in Seq(Messages), NEW m \in Messages
  PROVE  For(s, <<m>> \o ms) =
           (IF Takes(s, m) THEN <<m>> ELSE <<>>) \o For(s, ms)
<1> DEFINE ns   == <<m>> \o ms
           head == IF Takes(s, m) THEN <<m>> ELSE <<>>
           S    == {n \in Nat : n <= Len(ms) =>
                      Kept(s, ns)[n + 1] = head \o Kept(s, ms)[n]}
<1>1. head \in Seq(Messages)
  OBVIOUS
<1>2. /\ ns \in Seq(Messages) /\ Len(ns) = Len(ms) + 1 /\ Len(ms) \in Nat
      /\ \A i \in 1 .. Len(ms) : ns[i + 1] = ms[i]
      /\ ns[1] = m
  <2>1. <<m>> \in Seq(Messages) /\ Len(<<m>>) = 1 /\ Len(ms) \in Nat
    OBVIOUS
  <2>2. /\ ns \in Seq(Messages) /\ Len(ns) = 1 + Len(ms)
        /\ \A i \in 1 .. 1 + Len(ms) : ns[i] = IF i <= 1 THEN <<m>>[i] ELSE ms[i - 1]
    BY <2>1, ConcatProperties
  <2> HIDE DEF ns
  <2> QED BY <2>1, <2>2
<1>3. head = IF Takes(s, m) THEN Append(<<>>, m) ELSE <<>>
  OBVIOUS
<1> HIDE DEF ns, head
<1>4. 0 \in S
  <2>1. 1 \in 1 .. Len(ns) /\ Kept(s, ns)[1 - 1] = <<>> /\ Kept(s, ms)[0] = <<>>
    BY <1>2, KeptFacts
  <2>2. Kept(s, ns)[1] = head
    BY <1>2, <1>3, <2>1, KeptFacts
  <2> QED BY <1>1, <2>1, <2>2, ConcatEmptySeq
<1>5. ASSUME NEW n \in Nat, n \in S
      PROVE  n + 1 \in S
  <2> SUFFICES ASSUME n + 1 <= Len(ms)
               PROVE  Kept(s, ns)[n + 2] = head \o Kept(s, ms)[n + 1]
    OBVIOUS
  <2> DEFINE x == ms[n + 1]
             k == Kept(s, ms)[n]
  <2>1. /\ n + 1 \in 1 .. Len(ms) /\ n + 2 \in 1 .. Len(ns) /\ (n + 2) - 1 = n + 1
        /\ (n + 1) - 1 = n /\ n \in 0 .. Len(ms) /\ ns[n + 2] = x
    BY <1>2
  <2>2. x \in Messages /\ k \in Seq(Messages)
    BY <2>1, ElementOfSeq, KeptType
  <2>3. Kept(s, ns)[n + 1] = head \o k
    BY <1>5, <1>2, <2>1
  <2>4. Kept(s, ns)[n + 2] = IF Takes(s, x) THEN Append(head \o k, x) ELSE head \o k
    <3>1. Kept(s, ns)[n + 2] = IF Takes(s, ns[n + 2])
                               THEN Append(Kept(s, ns)[(n + 2) - 1], ns[n + 2])
                               ELSE Kept(s, ns)[(n + 2) - 1]
      BY <1>2, <2>1, KeptFacts
    <3> QED BY <2>1, <2>3, <3>1
  <2>5. Kept(s, ms)[n + 1] = IF Takes(s, x) THEN Append(k, x) ELSE k
    BY <2>1, KeptFacts
  <2> HIDE DEF x, k
  <2>6. Append(head \o k, x) = head \o Append(k, x)
    BY <1>1, <2>2, AppendToConcat
  <2> QED BY <2>4, <2>5, <2>6
<1> HIDE DEF S
<1>6. \A n \in Nat : n \in S
  BY <1>4, <1>5, Induction
<1>7. Kept(s, ns)[Len(ns)] = head \o Kept(s, ms)[Len(ms)]
  BY <1>2, <1>6 DEF S
<1> QED BY <1>7, ForIsKept DEF ns, head

\* A message that the writer takes from the head of the queue and writes: what
\* the streams have and what remains for them is the same.
LEMMA Written ==
  ASSUME NEW s \in Streams, NEW m \in Messages, NEW ms \in Seq(Messages),
         written \in [Streams -> Seq(Messages)], WriteToStreams(m)
  PROVE  /\ written' \in [Streams -> Seq(Messages)]
         /\ written'[s] \o For(s, ms) = written[s] \o For(s, <<m>> \o ms)
<1>1. written'[s] = IF Takes(s, m) THEN Append(written[s], m) ELSE written[s]
  BY DEF WriteToStreams, Takes
<1>2. /\ written[s] \in Seq(Messages) /\ <<m>> \in Seq(Messages)
      /\ For(s, ms) \in Seq(Messages)
  BY ForType
<1>3. written' \in [Streams -> Seq(Messages)]
  <2>1. \A r \in Streams : Append(written[r], m) \in Seq(Messages)
    BY AppendProperties
  <2> QED BY <2>1 DEF WriteToStreams
<1>4. CASE Takes(s, m)
  <2>1. written'[s] = written[s] \o <<m>>
    BY <1>1, <1>2, <1>4, AppendIsConcat
  <2>2. For(s, <<m>> \o ms) = <<m>> \o For(s, ms)
    BY <1>4, ForHead
  <2>3. (written[s] \o <<m>>) \o For(s, ms) = written[s] \o (<<m>> \o For(s, ms))
    BY <1>2, ConcatAssociative
  <2> QED BY <1>3, <2>1, <2>2, <2>3
<1>5. CASE ~Takes(s, m)
  <2>1. For(s, <<m>> \o ms) = For(s, ms)
    BY <1>2, <1>5, ForHead, ConcatEmptySeq
  <2> QED BY <1>1, <1>3, <1>5, <2>1
<1> QED BY <1>4, <1>5

-----------------------------------------------------------------------------
(* The steps.                                                              *)

\* A step that moves no message and does not end the writer.
LEMMA NothingMoves ==
  ASSUME IndInv, TypeOK', UNCHANGED <<messages, accepted, written, msg>>,
         writer = "write" <=> writer' = "write", writer' = "ended" <=> writer = "ended"
  PROVE  Conservation' /\ LogComplete'
<1>1. InHand' = InHand
  BY DEF InHand
<1> QED BY <1>1 DEF IndInv, Conservation, LogComplete

LEMMA InitInv ==
  ASSUME Init
  PROVE  IndInv
<1>1. TypeOK
  BY LogAssumption, EmptySeq DEF Init, TypeOK
<1>2. Conservation
  <2>1. InHand \o messages = <<>> /\ accepted = <<>>
    BY EmptySeq, ConcatEmptySeq DEF Init, InHand
  <2>2. ASSUME NEW s \in Streams
        PROVE  written[s] \o For(s, <<>>) = For(s, <<>>)
    BY ForEmpty, EmptySeq, ConcatEmptySeq DEF Init
  <2> QED BY <2>1, <2>2 DEF Conservation
<1>3. PhasesInv /\ LogComplete
  BY DEF Init, PhasesInv, LogComplete
<1> QED BY <1>1, <1>2, <1>3 DEF IndInv

LEMMA LogInv ==
  ASSUME IndInv, NEW t \in Threads, NEW level \in Levels, Log(t, level)
  PROVE  IndInv'
<1> DEFINE m == [from |-> t, nr |-> sent[t] + 1, level |-> level]
<1>1. /\ TypeOK /\ PhasesInv
      /\ pc[t] = "idle" /\ sent[t] < MaxMsgs
      /\ (main = "up" \/ t \in LateThreads)
      /\ sent' = [sent EXCEPT ![t] = @ + 1]
      /\ held' = [held EXCEPT ![t] = IF running
                                    THEN [from |-> t, nr |-> sent'[t], level |-> level]
                                    ELSE NoMessage]
      /\ UNCHANGED <<running, messages, context, writer, msg, written, main, accepted>>
  BY DEF IndInv, Log, writerVars
<1>2. sent' \in [Threads -> 0 .. MaxMsgs] /\ sent'[t] = sent[t] + 1
      /\ sent[t] + 1 \in 1 .. MaxMsgs
  BY <1>1, LogAssumption DEF TypeOK
<1>3. m \in Messages /\ m.from = t
      /\ held' = [held EXCEPT ![t] = IF running THEN m ELSE NoMessage]
  BY <1>1, <1>2 DEF Messages
<1> HIDE DEF m
<1>4. IF running
      THEN pc' = [pc EXCEPT ![t] = "checked"] /\ refused' = refused
      ELSE pc' = pc /\ refused' = refused \cup {t}
  BY DEF Log, TestRunning
<1>5. TypeOK'
  <2>1. pc' \in [Threads -> {"idle", "checked"}] /\ refused' \subseteq Threads
    BY <1>1, <1>4 DEF TypeOK
  <2>2. /\ held' \in [Threads -> Messages \cup {NoMessage}]
        /\ \A u \in Threads : IF pc'[u] = "checked" THEN held'[u] \in Messages
                                                    ELSE held'[u] = NoMessage
    <3>1. CASE running
      BY <1>1, <1>3, <1>4, <3>1 DEF TypeOK
    <3>2. CASE ~running
      BY <1>1, <1>3, <1>4, <3>2 DEF TypeOK
    <3> QED BY <3>1, <3>2
  <2> QED BY <1>1, <1>2, <2>1, <2>2 DEF TypeOK
<1>6. PhasesInv'
  BY <1>1, <1>3, <1>4 DEF PhasesInv, TypeOK
<1> QED BY <1>1, <1>5, <1>6, NothingMoves DEF IndInv

\* A message that is pushed is the last one that is queued and the last one that
\* was accepted.
LEMMA PushInv ==
  ASSUME IndInv, NEW t \in Threads, Push(t)
  PROVE  IndInv'
<1> DEFINE m == held[t]
<1>1. /\ TypeOK /\ PhasesInv /\ Conservation /\ LogComplete
      /\ pc[t] = "checked" /\ m \in Messages
      /\ messages' = Append(messages, m) /\ accepted' = Append(accepted, m)
      /\ pc' = [pc EXCEPT ![t] = "idle"]
      /\ held' = [held EXCEPT ![t] = NoMessage]
      /\ UNCHANGED <<running, context, sent, refused, writer, msg, written, main>>
  BY DEF IndInv, TypeOK, Push, writerVars
<1>2. m.from = t
  BY <1>1 DEF PhasesInv
<1> HIDE DEF m
<1>3. messages \in Seq(Messages) /\ accepted \in Seq(Messages)
  BY <1>1 DEF TypeOK
<1>4. messages' \in Seq(Messages) /\ accepted' \in Seq(Messages)
  BY <1>1, <1>3, AppendProperties
<1>5. TypeOK'
  BY <1>1, <1>4 DEF TypeOK
<1>6. PhasesInv'
  BY <1>1 DEF PhasesInv, TypeOK
<1>7. Conservation'
  <2> DEFINE q == InHand \o messages
  <2>1. InHand \in Seq(Messages) /\ InHand' = InHand
    BY <1>1 DEF InHand, TypeOK
  <2>2. q \in Seq(Messages)
    BY <1>3, <2>1, ConcatProperties
  <2>3. InHand' \o messages' = Append(q, m)
    BY <1>1, <1>3, <2>1, AppendToConcat
  <2> HIDE DEF q
  <2>4. ASSUME NEW s \in Streams
        PROVE  written[s] \o For(s, Append(q, m)) = For(s, Append(accepted, m))
    <3>1. written[s] \o For(s, q) = For(s, accepted)
      BY <1>1 DEF Conservation, q
    <3>2. /\ written[s] \in Seq(Messages) /\ For(s, q) \in Seq(Messages)
          /\ m \in Messages
      BY <1>1, <2>2, ForType DEF TypeOK
    <3>3. CASE Takes(s, m)
      <4>1. /\ For(s, Append(q, m)) = Append(For(s, q), m)
            /\ For(s, Append(accepted, m)) = Append(For(s, accepted), m)
        BY <1>1, <1>3, <2>2, <3>3, ForAppend
      <4>2. written[s] \o Append(For(s, q), m) = Append(written[s] \o For(s, q), m)
        BY <3>2, AppendToConcat
      <4> QED BY <3>1, <4>1, <4>2
    <3>4. CASE ~Takes(s, m)
      <4>1. /\ For(s, Append(q, m)) = For(s, q)
            /\ For(s, Append(accepted, m)) = For(s, accepted)
        BY <1>1, <1>3, <2>2, <3>4, ForAppend
      <4> QED BY <3>1, <4>1
    <3> QED BY <3>3, <3>4
  <2>5. \A s \in Streams : written'[s] \o For(s, InHand' \o messages') = For(s, accepted')
    BY <1>1, <2>3, <2>4
  <2> QED BY <2>5 DEF Conservation
<1>8. LogComplete'
  <2> SUFFICES ASSUME writer = "ended", NEW i \in 1 .. Len(messages')
               PROVE  messages'[i].from \in LateThreads
    BY <1>1 DEF LogComplete
  <2>1. t \in LateThreads
    BY <1>1 DEF PhasesInv
  <2>2. CASE i = Len(messages) + 1
    BY <1>1, <1>2, <1>3, <2>1, <2>2, AppendProperties
  <2>3. CASE i # Len(messages) + 1
    <3>1. i \in 1 .. Len(messages) /\ messages'[i] = messages[i]
      BY <1>1, <1>3, <2>3, AppendProperties
    <3> QED BY <1>1, <3>1 DEF LogComplete
  <2> QED BY <2>2, <2>3
<1> QED BY <1>5, <1>6, <1>7, <1>8 DEF IndInv

\* The writer tests running, or takes the mutex for its last pass.
LEMMA WriterMovesInv ==
  ASSUME IndInv, WriterTest \/ WriterLock
  PROVE  IndInv'
<1>1. /\ TypeOK /\ PhasesInv
      /\ writer \in {"test", "last"} /\ writer' \in {"poll", "last", "drain"}
      /\ writer' # "poll" => ~running \/ writer = "last"
      /\ UNCHANGED <<messages, msg, written, running, context, pc, held, sent,
                     refused, main, accepted>>
  BY DEF IndInv, WriterTest, WriterLock, WriterUnchanged, threadVars
<1>2. TypeOK'
  BY <1>1 DEF TypeOK
<1>3. PhasesInv'
  BY <1>1 DEF PhasesInv
<1> QED BY <1>1, <1>2, <1>3, NothingMoves DEF IndInv

LEMMA WriterPollInv ==
  ASSUME IndInv, WriterPoll
  PROVE  IndInv'
<1>1. /\ TypeOK /\ PhasesInv /\ Conservation /\ writer = "poll"
      /\ UNCHANGED <<written, running, context, pc, held, sent, refused, main, accepted>>
  BY DEF IndInv, WriterPoll, WriterUnchanged, threadVars
<1>2. CASE messages = <<>>
  <2>1. writer' = "test" /\ UNCHANGED <<messages, msg>>
    BY <1>2 DEF WriterPoll
  <2>2. TypeOK'
    BY <1>1, <2>1 DEF TypeOK
  <2>3. PhasesInv'
    BY <1>1, <2>1 DEF PhasesInv
  <2> QED BY <1>1, <2>1, <2>2, <2>3, NothingMoves DEF IndInv
<1>3. CASE messages # <<>>
  <2>1. writer' = "write" /\ msg' = Head(messages) /\ messages' = Tail(messages)
    BY <1>3 DEF WriterPoll
  <2>2. messages \in Seq(Messages) /\ msg' \in Messages /\ messages' \in Seq(Messages)
        /\ <<msg'>> \o messages' = messages
    BY <1>1, <1>3, <2>1, HeadAndTail DEF TypeOK
  <2>3. InHand' \o messages' = InHand \o messages
    BY <1>1, <2>1, <2>2, ConcatEmptySeq DEF InHand
  <2>4. TypeOK'
    BY <1>1, <2>1, <2>2 DEF TypeOK
  <2>5. PhasesInv' /\ LogComplete'
    BY <1>1, <2>1 DEF PhasesInv, LogComplete
  <2>6. Conservation'
    <3>1. \A s \in Streams : written'[s] \o For(s, InHand' \o messages') = For(s, accepted')
      BY <1>1, <2>3 DEF Conservation
    <3> QED BY <3>1 DEF Conservation
  <2> QED BY <2>4, <2>5, <2>6 DEF IndInv
<1> QED BY <1>2, <1>3

LEMMA WriterWriteInv ==
  ASSUME IndInv, WriterWrite
  PROVE  IndInv'
<1>1. /\ TypeOK /\ PhasesInv /\ Conservation /\ writer = "write" /\ writer' = "test"
      /\ WriteToStreams(msg) /\ msg' = NoMessage /\ msg \in Messages
      /\ messages \in Seq(Messages) /\ written \in [Streams -> Seq(Messages)]
      /\ UNCHANGED <<messages, running, context, pc, held, sent, refused, main, accepted>>
  BY DEF IndInv, TypeOK, WriterWrite, WriterUnchanged, threadVars
<1>2. InHand \o messages = <<msg>> \o messages /\ InHand' \o messages' = messages
  BY <1>1, ConcatEmptySeq DEF InHand
<1>3. written' \in [Streams -> Seq(Messages)]
  BY <1>1, AppendProperties DEF WriteToStreams
<1>4. TypeOK'
  BY <1>1, <1>3 DEF TypeOK
<1>5. PhasesInv' /\ LogComplete'
  BY <1>1 DEF PhasesInv, LogComplete
<1>6. Conservation'
  <2>1. ASSUME NEW s \in Streams
        PROVE  written'[s] \o For(s, InHand' \o messages') = For(s, accepted)
    <3>1. written'[s] \o For(s, messages) = written[s] \o For(s, <<msg>> \o messages)
      BY <1>1, Written
    <3> QED BY <1>1, <1>2, <3>1 DEF Conservation
  <2> QED BY <1>1, <2>1 DEF Conservation
<1> QED BY <1>4, <1>5, <1>6 DEF IndInv

LEMMA WriterDrainInv ==
  ASSUME IndInv, WriterDrain
  PROVE  IndInv'
<1>1. /\ TypeOK /\ PhasesInv /\ Conservation /\ writer = "drain"
      /\ messages \in Seq(Messages) /\ written \in [Streams -> Seq(Messages)]
      /\ UNCHANGED <<msg, running, context, pc, held, sent, refused, main, accepted>>
  BY DEF IndInv, TypeOK, WriterDrain, WriterUnchanged, threadVars
<1>2. CASE messages = <<>>
  <2>1. writer' = "ended" /\ UNCHANGED <<messages, written>>
    BY <1>2 DEF WriterDrain, AllWritten
  <2>2. TypeOK'
    BY <1>1, <2>1 DEF TypeOK
  <2>3. PhasesInv'
    BY <1>1, <2>1 DEF PhasesInv
  <2>4. LogComplete'
    BY <1>2, <2>1 DEF LogComplete
  <2>5. InHand' = InHand
    BY <1>1, <2>1 DEF InHand
  <2>6. Conservation'
    BY <1>1, <2>1, <2>5 DEF Conservation
  <2> QED BY <2>2, <2>3, <2>4, <2>6 DEF IndInv
<1>3. CASE messages # <<>>
  <2> DEFINE m  == Head(messages)
             ms == Tail(messages)
  <2>1. WriteToStreams(m) /\ messages' = ms /\ writer' = writer
    BY <1>3 DEF WriterDrain, AllWritten
  <2>2. m \in Messages /\ ms \in Seq(Messages) /\ <<m>> \o ms = messages
    BY <1>1, <1>3, HeadAndTail
  <2> HIDE DEF m, ms
  <2>3. InHand \o messages = messages /\ InHand' \o messages' = ms
    BY <1>1, <2>1, <2>2, ConcatEmptySeq DEF InHand
  <2>4. written' \in [Streams -> Seq(Messages)]
    BY <1>1, <2>1, <2>2, AppendProperties DEF WriteToStreams
  <2>5. TypeOK'
    BY <1>1, <2>1, <2>2, <2>4 DEF TypeOK
  <2>6. PhasesInv' /\ LogComplete'
    BY <1>1, <2>1 DEF PhasesInv, LogComplete
  <2>7. Conservation'
    <3>1. ASSUME NEW s \in Streams
          PROVE  written'[s] \o For(s, InHand' \o messages') = For(s, accepted)
      <4>1. written'[s] \o For(s, ms) = written[s] \o For(s, <<m>> \o ms)
        BY <1>1, <2>1, <2>2, Written
      <4> QED BY <1>1, <2>2, <2>3, <4>1 DEF Conservation
    <3> QED BY <1>1, <3>1 DEF Conservation
  <2> QED BY <2>5, <2>6, <2>7 DEF IndInv
<1> QED BY <1>2, <1>3

\* quit(): nothing is queued or written here.
LEMMA MainInv ==
  ASSUME IndInv, Quit \/ Join \/ Dispose
  PROVE  IndInv'
<1>1. /\ TypeOK /\ PhasesInv
      /\ UNCHANGED <<messages, pc, held, sent, refused, writer, msg, written, accepted>>
  BY DEF IndInv, Quit, Join, Dispose, MainUnchanged, threadVars, writerVars
<1>2. TypeOK'
  BY <1>1 DEF TypeOK, Quit, Join, Dispose
<1>3. PhasesInv'
  BY <1>1 DEF TypeOK, PhasesInv, Quit, Join, WriterJoined, Dispose
<1> QED BY <1>1, <1>2, <1>3, NothingMoves DEF IndInv

LEMMA NextInv ==
  ASSUME IndInv, [Next]_vars
  PROVE  IndInv'
<1>1. CASE UNCHANGED vars
  <2>1. TypeOK' /\ PhasesInv'
    BY <1>1 DEF IndInv, TypeOK, PhasesInv, vars, threadVars, writerVars
  <2> QED BY <1>1, <2>1, NothingMoves DEF IndInv, vars, writerVars
<1>2. CASE Next
  BY <1>2, LogInv, PushInv, WriterMovesInv, WriterPollInv, WriterWriteInv,
     WriterDrainInv, MainInv DEF Next, Writer
<1> QED BY <1>1, <1>2

-----------------------------------------------------------------------------
(* The theorems.                                                           *)

\* The inductive invariant.
THEOREM Invariance ==
  Spec => []IndInv
<1>1. Init => IndInv
  BY InitInv
<1>2. IndInv /\ [Next]_vars => IndInv'
  BY NextInv
<1> QED BY <1>1, <1>2, PTL DEF Spec

\* Between push_msg() and the streams no message is lost, doubled or reordered,
\* and none goes to a stream that does not take its level; and the writer never
\* touches a context that is deleted.
THEOREM Soundness ==
  Spec => []LogSound
<1>1. IndInv => LogSound
  BY DEF IndInv, LogSound, WriterOnLiveContext, PhasesInv, TypeOK
<1> QED BY <1>1, Invariance, PTL

\* A shutdown loses no message of a thread that had ended when it was called.
THEOREM ShutdownLosesNone ==
  Spec => []LogComplete
<1>1. IndInv => LogComplete
  BY DEF IndInv
<1> QED BY <1>1, Invariance, PTL
=============================================================================
