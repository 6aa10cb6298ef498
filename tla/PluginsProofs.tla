---------------------------- MODULE PluginsProofs ----------------------------
(***************************************************************************)
(* Theorems about Plugins, for any finite set of plugins, any commands and *)
(* any functions that may fail; and about Settings and the configuration,  *)
(* for any files.  What an operation does is a function of the state it    *)
(* finds; the lemmas say for each what it keeps, however it ends, and what *)
(* more when nothing fails.  The loops of the code and of FlattenSeq() are *)
(* recursive functions: LoopExists gives the function, Induction its laws. *)
(***************************************************************************)
EXTENDS Plugins, Settings, FiniteSetTheorems, SequenceTheorems, WellFoundedInduction, TLAPS

-----------------------------------------------------------------------------
(* Loops.                                                                  *)

\* A set that has 0 and the successor of each of its numbers has them all.
LEMMA Induction ==
  ASSUME NEW S, 0 \in S, \A n \in Nat : n \in S => n + 1 \in S
  PROVE  \A n \in Nat : n \in S
<1> DEFINE R == OpToRel(<, Nat)
           T == Nat \ S
<1> SUFFICES ASSUME T # {} PROVE FALSE
  OBVIOUS
<1>1. IsWellFoundedOn(R, Nat)
  BY NatLessThanWellFounded
<1>2. R = {ss \in Nat \X Nat : ss[1] < ss[2]}
  BY DEF OpToRel
<1> HIDE DEF R
<1>3. PICK m \in T : \A n \in T : ~(<<n, m>> \in R)
  <2>1. T \subseteq Nat
    OBVIOUS
  <2> HIDE DEF T
  <2> QED BY <1>1, <2>1, WFMin
<1>4. m \in Nat /\ m # 0
  BY <1>3
<1>5. m - 1 \in Nat /\ m - 1 \notin T
  <2>1. m - 1 \in Nat /\ m - 1 < m
    BY <1>4
  <2>2. <<m - 1, m>> \in R
    BY <1>2, <1>4, <2>1
  <2> HIDE DEF T
  <2> QED BY <1>3, <2>1, <2>2
<1>6. (m - 1) + 1 \in S
  BY <1>5
<1> QED BY <1>3, <1>4, <1>6

\* f gives the states of a loop of k rounds from a, whose round n takes a state x
\* of T to G[<<x, n>>].
Loop(f, T, a, k, G) ==
  f \in [0 .. k -> T] /\ f[0] = a /\ \A n \in 1 .. k : f[n] = G[<<f[n - 1], n>>]

Rounds(T, k) == [T \X (1 .. k) -> T]

LEMMA LoopExists ==
  ASSUME NEW T, NEW a \in T, NEW k \in Nat, NEW G \in Rounds(T, k)
  PROVE  \E f : Loop(f, T, a, k, G)
<1> USE DEF Rounds
<1> DEFINE Is(f, n) == f[0] = a /\ \A i \in 1 .. n : f[i] = G[<<f[i - 1], i>>]
           S == {n \in Nat : n <= k => \E f \in [0 .. n -> T] : Is(f, n)}
<1>1. 0 \in S
  <2> DEFINE f == [i \in 0 .. 0 |-> a]
  <2>1. f \in [0 .. 0 -> T] /\ Is(f, 0)
    OBVIOUS
  <2> QED BY <2>1
<1>2. ASSUME NEW n \in Nat, n \in S
      PROVE  n + 1 \in S
  <2> SUFFICES ASSUME n + 1 <= k
               PROVE  \E f \in [0 .. n + 1 -> T] : Is(f, n + 1)
    OBVIOUS
  <2>1. PICK f \in [0 .. n -> T] : Is(f, n)
    BY <1>2
  <2>2. n + 1 \in 1 .. k /\ f[n] \in T /\ G[<<f[n], n + 1>>] \in T
    OBVIOUS
  <2> DEFINE g == [i \in 0 .. n + 1 |-> IF i = n + 1 THEN G[<<f[n], n + 1>>] ELSE f[i]]
  <2>3. g \in [0 .. n + 1 -> T]
    BY <2>2
  <2>4. g[0] = a
    BY <2>1
  <2>5. ASSUME NEW i \in 1 .. n + 1
        PROVE  g[i] = G[<<g[i - 1], i>>]
    <3>1. CASE i = n + 1
      <4>1. i - 1 = n /\ n \in 0 .. n + 1 /\ n # n + 1 /\ i \in 0 .. n + 1
        BY <3>1
      <4>2. g[i - 1] = f[n]
        BY <4>1
      <4>3. g[i] = G[<<f[n], n + 1>>]
        BY <3>1, <4>1
      <4> HIDE DEF g
      <4> QED BY <3>1, <4>2, <4>3
    <3>2. CASE i # n + 1
      <4>1. i \in 1 .. n /\ i - 1 \in 0 .. n /\ i - 1 # n + 1
        BY <3>2
      <4>2. g[i] = f[i] /\ g[i - 1] = f[i - 1]
        BY <4>1
      <4> QED BY <2>1, <4>1, <4>2
    <3> QED BY <3>1, <3>2
  <2> HIDE DEF g
  <2> QED BY <2>3, <2>4, <2>5
<1>3. k \in S
  <2> HIDE DEF S
  <2> QED BY <1>1, <1>2, Induction
<1> QED BY <1>3 DEF Loop

\* The sequence of a finite set's elements has as many of them as the set.
LEMMA OrderLaw ==
  ASSUME NEW S, IsFiniteSet(S)
  PROVE  SetToSeq(S) \in [1 .. Cardinality(S) -> S] /\ IsInjective(SetToSeq(S))
<1>1. ExistsBijection(1 .. Cardinality(S), S)
  BY FS_CardinalityType
<1>2. \E f \in [1 .. Cardinality(S) -> S] : IsInjective(f)
  BY <1>1 DEF ExistsBijection, Bijection, Injection
<1> QED BY <1>2 DEF SetToSeq

\* The sequence of a finite set's elements has them all.
LEMMA ElementsInOrder ==
  ASSUME NEW S, IsFiniteSet(S)
  PROVE  SetToSeq(S) \in Seq(S) /\ \A e \in S : \E i \in DOMAIN SetToSeq(S) : SetToSeq(S)[i] = e
<1> DEFINE n == Cardinality(S)
           order == SetToSeq(S)
<1>1. n \in Nat /\ ExistsBijection(1 .. n, S)
  BY FS_CardinalityType
<1>2. order \in [1 .. n -> S] /\ IsInjective(order)
  BY OrderLaw
<1>3. order \in Seq(S) /\ DOMAIN order = 1 .. n
  BY <1>1, <1>2
<1>4. order \in Injection(1 .. n, S)
  BY <1>2 DEF Injection
<1>5. IsFiniteSet(1 .. n) /\ Cardinality(1 .. n) = n
  BY <1>1, FS_Interval
<1>6. order \in Surjection(1 .. n, S)
  BY <1>4, <1>5, FS_Injection
<1>7. \A e \in S : \E i \in 1 .. n : order[i] = e
  BY <1>6 DEF Surjection
<1> QED BY <1>3, <1>7

-----------------------------------------------------------------------------
(* The command registry.                                                   *)

\* Of the state, only the commands and the exception differ.
Keeps(u, m) ==
  /\ u.loaded = m.loaded /\ u.enabled = m.enabled /\ u.inited = m.inited
  /\ u.entry = m.entry

\* No command is new.
Shrinks(u, m) == \A n \in Names : u.commands[n] \in {m.commands[n], "none"}

\* unregister_command() takes its command and no other, and throws when it is
\* not there.
LEMMA UnregisterLaw ==
  ASSUME NEW m \in States, NEW n \in Names
  PROVE  LET u == Unregister(m, n)
         IN /\ u \in States /\ Keeps(u, m) /\ u.touched = m.touched
            /\ m.thrown => u = m
            /\ ~u.thrown => ~m.thrown /\ u.commands[n] = "none"
            /\ ~m.thrown /\ m.commands[n] # "none" => ~u.thrown
            /\ u.commands[n] \in {m.commands[n], "none"}
            /\ \A o \in Names \ {n} : u.commands[o] = m.commands[o]
<1>1. CASE m.thrown
  BY <1>1 DEF Unregister, Keeps
<1>2. CASE ~m.thrown /\ m.commands[n] = "none"
  <2>1. Unregister(m, n) = Throw(m)
    BY <1>2 DEF Unregister
  <2>2. /\ Throw(m) \in States /\ Throw(m).thrown = TRUE /\ Throw(m).commands = m.commands
        /\ Keeps(Throw(m), m) /\ Throw(m).touched = m.touched
    BY DEF Throw, States, Keeps
  <2> QED BY <1>2, <2>1, <2>2
<1>3. CASE ~m.thrown /\ m.commands[n] # "none"
  <2> DEFINE u == [m EXCEPT !.commands[n] = "none"]
  <2>1. Unregister(m, n) = u
    BY <1>3 DEF Unregister
  <2>2. /\ u.commands = [m.commands EXCEPT ![n] = "none"] /\ u.thrown = m.thrown
        /\ Keeps(u, m) /\ u.touched = m.touched
    BY DEF States, Keeps
  <2>3. m.commands \in [Names -> Plugins \cup {"cmd", "setup", "none"}]
    BY DEF States
  <2>4. u \in States
    BY <2>3 DEF States
  <2>5. u.commands[n] = "none" /\ \A o \in Names \ {n} : u.commands[o] = m.commands[o]
    BY <2>2, <2>3
  <2> HIDE DEF u
  <2> QED BY <1>3, <2>1, <2>2, <2>4, <2>5
<1> QED BY <1>1, <1>2, <1>3

\* The states a loop of unregister_command() passes through.
Left(m, names) ==
  CHOOSE after : after = [i \in 0 .. Len(names) |->
    IF i = 0 THEN m ELSE Unregister(after[i - 1], names[i])]

LEMMA LeftFacts ==
  ASSUME NEW m \in States, NEW names \in Seq(Names)
  PROVE  /\ UnregisterAll(m, names) = Left(m, names)[Len(names)]
         /\ Left(m, names)[0] = m
         /\ \A i \in 1 .. Len(names) :
              Left(m, names)[i] = Unregister(Left(m, names)[i - 1], names[i])
<1> DEFINE k == Len(names)
           G == [x \in States \X (1 .. k) |-> Unregister(x[1], names[x[2]])]
<1>1. k \in Nat /\ \A i \in 1 .. k : names[i] \in Names
  OBVIOUS
<1>2. G \in Rounds(States, k)
  <2>1. \A x \in States \X (1 .. k) : Unregister(x[1], names[x[2]]) \in States
    BY <1>1, UnregisterLaw
  <2> QED BY <2>1 DEF Rounds
<1>3. \A s \in States, i \in 1 .. k : G[<<s, i>>] = Unregister(s, names[i])
  OBVIOUS
<1>a. Left(m, names) = CHOOSE after : after = [i \in 0 .. k |->
        IF i = 0 THEN m ELSE Unregister(after[i - 1], names[i])]
  BY DEF Left
<1>b. UnregisterAll(m, names) = Left(m, names)[k]
  BY DEF UnregisterAll, Left
<1> HIDE DEF G, k
<1>c. PICK f : Loop(f, States, m, k, G)
  BY <1>1, <1>2, LoopExists
<1>4. f \in [0 .. k -> States] /\ f[0] = m /\ \A i \in 1 .. k : f[i] = G[<<f[i - 1], i>>]
  BY <1>c DEF Loop
<1>5. ASSUME NEW i \in 0 .. k
      PROVE  f[i] = IF i = 0 THEN m ELSE Unregister(f[i - 1], names[i])
  <2>1. CASE i = 0
    BY <1>4, <2>1
  <2>2. CASE i # 0
    <3>1. i \in 1 .. k /\ f[i - 1] \in States
      BY <1>1, <1>4, <2>2
    <3> QED BY <1>3, <1>4, <2>2, <3>1
  <2> QED BY <2>1, <2>2
<1>6. f = [i \in 0 .. k |-> IF i = 0 THEN m ELSE Unregister(f[i - 1], names[i])]
  BY <1>4, <1>5
<1>7. Left(m, names) = [i \in 0 .. k |->
        IF i = 0 THEN m ELSE Unregister(Left(m, names)[i - 1], names[i])]
  BY <1>6, <1>a
<1>8. /\ Left(m, names)[0] = m
      /\ \A i \in 1 .. k : Left(m, names)[i] = Unregister(Left(m, names)[i - 1], names[i])
  BY <1>1, <1>7
<1> QED BY <1>8, <1>b DEF k

\* A sequence of commands is unregistered as far as the first that is not there.
LEMMA UnregisterAllLaw ==
  ASSUME NEW m \in States, NEW names \in Seq(Names)
  PROVE  LET u == UnregisterAll(m, names)
         IN /\ u \in States /\ Keeps(u, m) /\ u.touched = m.touched /\ Shrinks(u, m)
            /\ m.thrown => u = m
            /\ ~u.thrown => ~m.thrown
            /\ ~u.thrown => \A i \in DOMAIN names : u.commands[names[i]] = "none"
            /\ \A n \in Names :
                 (\A i \in DOMAIN names : names[i] # n) => u.commands[n] = m.commands[n]
            /\ ~m.thrown /\ IsInjective(names)
                 /\ (\A i \in DOMAIN names : m.commands[names[i]] # "none")
               => ~u.thrown
<1> DEFINE at(i) == Left(m, names)[i]
           k == Len(names)
           P(i) ==
             /\ at(i) \in States /\ Keeps(at(i), m) /\ at(i).touched = m.touched
             /\ Shrinks(at(i), m)
             /\ m.thrown => at(i) = m
             /\ ~at(i).thrown => ~m.thrown
             /\ ~at(i).thrown => \A j \in 1 .. i : at(i).commands[names[j]] = "none"
             /\ \A n \in Names :
                  (\A j \in 1 .. i : names[j] # n) => at(i).commands[n] = m.commands[n]
             /\ ~m.thrown /\ IsInjective(names)
                  /\ (\A j \in 1 .. k : m.commands[names[j]] # "none")
                => ~at(i).thrown
           S == {i \in Nat : i <= k => P(i)}
<1>1. k \in Nat /\ DOMAIN names = 1 .. k /\ \A i \in 1 .. k : names[i] \in Names
  OBVIOUS
<1>2. /\ UnregisterAll(m, names) = at(k) /\ at(0) = m
      /\ \A i \in 1 .. k : at(i) = Unregister(at(i - 1), names[i])
  BY LeftFacts
<1> HIDE DEF at, k
<1>3. 0 \in S
  <2>1. P(0)
    BY <1>2 DEF Keeps, Shrinks
  <2> QED BY <2>1
<1>4. ASSUME NEW i \in Nat, i \in S
      PROVE  i + 1 \in S
  <2> SUFFICES ASSUME i + 1 <= k PROVE P(i + 1)
    OBVIOUS
  <2> DEFINE a == at(i)
             u == at(i + 1)
             n == names[i + 1]
  <2>1. P(i) /\ i + 1 \in 1 .. k /\ (i + 1) - 1 = i /\ n \in Names
    BY <1>1, <1>4
  <2>2. a \in States /\ n \in Names /\ u = Unregister(a, n)
    BY <1>2, <2>1
  <2> HIDE DEF a, u, n, P
  <2>3. /\ u \in States /\ Keeps(u, a) /\ u.touched = a.touched
        /\ a.thrown => u = a
        /\ ~u.thrown => ~a.thrown /\ u.commands[n] = "none"
        /\ ~a.thrown /\ a.commands[n] # "none" => ~u.thrown
        /\ u.commands[n] \in {a.commands[n], "none"}
        /\ \A o \in Names \ {n} : u.commands[o] = a.commands[o]
    BY <2>2, UnregisterLaw
  <2> USE DEF P
  <2>4. u \in States /\ Keeps(u, m) /\ u.touched = m.touched /\ Shrinks(u, m)
    <3>1. Keeps(a, m) /\ a.touched = m.touched /\ Shrinks(a, m)
      BY <2>1 DEF a
    <3> QED BY <2>1, <2>3, <3>1 DEF Keeps, Shrinks
  <2>5. (m.thrown => u = m) /\ (~u.thrown => ~m.thrown)
    <3>1. (m.thrown => a = m) /\ (~a.thrown => ~m.thrown)
      BY <2>1 DEF a
    <3> QED BY <2>3, <3>1
  <2>6. ASSUME ~u.thrown, NEW j \in 1 .. i + 1
        PROVE  u.commands[names[j]] = "none"
    <3>1. CASE names[j] = n
      BY <2>3, <2>6, <3>1
    <3>2. CASE names[j] # n
      <4>1. j \in 1 .. i /\ names[j] \in Names
        BY <1>1, <2>1, <3>2 DEF n
      <4>2. a.commands[names[j]] = "none"
        BY <2>1, <2>3, <2>6, <4>1 DEF a
      <4> QED BY <2>3, <3>2, <4>1, <4>2
    <3> QED BY <3>1, <3>2
  <2>7. ASSUME NEW o \in Names, \A j \in 1 .. i + 1 : names[j] # o
        PROVE  u.commands[o] = m.commands[o]
    <3>1. o # n /\ \A j \in 1 .. i : names[j] # o
      BY <2>1, <2>7 DEF n
    <3>2. a.commands[o] = m.commands[o]
      BY <2>1, <3>1 DEF a
    <3> QED BY <2>3, <3>1, <3>2
  <2>8. ASSUME ~m.thrown, IsInjective(names), \A j \in 1 .. k : m.commands[names[j]] # "none"
        PROVE  ~u.thrown
    <3>1. ~a.thrown
      BY <2>1, <2>8 DEF a
    <3>2. \A j \in 1 .. i : names[j] # n
      BY <1>1, <2>1, <2>8 DEF IsInjective, n
    <3>3. a.commands[n] = m.commands[n]
      BY <2>1, <3>2 DEF a
    <3> QED BY <2>1, <2>3, <2>8, <3>1, <3>3 DEF n
  <2> QED BY <2>4, <2>5, <2>6, <2>7, <2>8 DEF u
<1>5. P(k)
  <2> HIDE DEF P
  <2>1. \A i \in Nat : i \in S
    <3> HIDE DEF S
    <3> QED BY <1>3, <1>4, Induction
  <2> QED BY <1>1, <2>1
<1> HIDE DEF P, S
<1>6. P(k) /\ UnregisterAll(m, names) = at(k)
  BY <1>2, <1>5
<1> QED BY <1>1, <1>6 DEF P

-----------------------------------------------------------------------------
(* The plugin manager.                                                     *)

\* The commands of an entry, and an entry, are what their types say.
LEMMA EntryFacts ==
  ASSUME NEW m \in States, NEW p \in Plugins
  PROVE  /\ m.entry[p] \in Seq(Command)
         /\ \A i \in DOMAIN m.entry[p] :
              /\ m.entry[p][i] \in Command
              /\ m.entry[p][i].name \in Names
<1>1. m.entry[p] \in Seq(Command)
  BY DEF States
<1>2. \A i \in DOMAIN m.entry[p] : m.entry[p][i] \in Command
  BY <1>1
<1> QED BY <1>1, <1>2 DEF Command

\* remove_plugin_commands() takes commands that the entry names and no others,
\* and all of them when it returns; it returns when they are there, each once.
LEMMA RemoveLaw ==
  ASSUME NEW m \in States, NEW p \in Plugins, ~m.thrown
  PROVE  LET u == RemovePluginCommands(m, p)
         IN /\ u \in States /\ Keeps(u, m) /\ Shrinks(u, m)
            /\ \A n \in Names : ~Owns(m, p, n) => u.commands[n] = m.commands[n]
            /\ ~u.thrown => \A n \in Names : Owns(m, p, n) => u.commands[n] = "none"
            /\ Finds(m, p) => ~u.thrown
<1> DEFINE mine == m.entry[p]
           names == [i \in DOMAIN mine |-> mine[i].name]
           t == [m EXCEPT !.touched = @ \/ \E i \in DOMAIN mine : mine[i].freed]
           u == UnregisterAll(t, names)
<1>1. RemovePluginCommands(m, p) = u
  BY DEF RemovePluginCommands
<1>2. /\ t \in States /\ Keeps(t, m) /\ t.commands = m.commands /\ t.thrown = m.thrown
  BY DEF States, Keeps
<1>3. /\ names \in Seq(Names) /\ DOMAIN names = DOMAIN mine
      /\ \A i \in DOMAIN mine : names[i] = mine[i].name
  <2>1. Len(mine) \in Nat /\ DOMAIN mine = 1 .. Len(mine)
    BY EntryFacts
  <2>2. \A i \in 1 .. Len(mine) : mine[i].name \in Names
    BY <2>1, EntryFacts
  <2> QED BY <2>1, <2>2
<1>4. \A n \in Names : Owns(m, p, n) <=> \E i \in DOMAIN names : names[i] = n
  BY <1>3 DEF Owns
<1>5. Finds(m, p) =>
        IsInjective(names) /\ \A i \in DOMAIN names : t.commands[names[i]] # "none"
  <2> SUFFICES ASSUME Finds(m, p)
               PROVE  IsInjective(names) /\ \A i \in DOMAIN names : t.commands[names[i]] # "none"
    OBVIOUS
  <2>1. \A i \in DOMAIN names : t.commands[names[i]] = p
    BY <1>2, <1>3 DEF Finds
  <2>2. IsInjective(names)
    BY <1>3 DEF Finds, IsInjective
  <2> QED BY <2>1, <2>2, PluginsAssumption
<1> HIDE DEF names, t, mine
<1>6. /\ u \in States /\ Keeps(u, t) /\ Shrinks(u, t)
      /\ ~u.thrown => \A i \in DOMAIN names : u.commands[names[i]] = "none"
      /\ \A n \in Names :
           (\A i \in DOMAIN names : names[i] # n) => u.commands[n] = t.commands[n]
      /\ ~t.thrown /\ IsInjective(names)
           /\ (\A i \in DOMAIN names : t.commands[names[i]] # "none")
         => ~u.thrown
  BY <1>2, <1>3, UnregisterAllLaw
<1> HIDE DEF u
<1>7. Keeps(u, m) /\ Shrinks(u, m)
  BY <1>2, <1>6 DEF Keeps, Shrinks
<1> QED BY <1>1, <1>2, <1>4, <1>5, <1>6, <1>7

\* A plugin's quit function leaves its entry with the commands it named.
LEMMA QuitFuncLaw ==
  ASSUME NEW m \in States, NEW p \in Plugins
  PROVE  LET u == QuitFunc(m, p)
         IN /\ u \in States /\ u.inited = m.inited \ {p}
            /\ u.loaded = m.loaded /\ u.enabled = m.enabled
            /\ u.commands = m.commands /\ u.thrown = m.thrown
            /\ \A q \in Plugins \ {p} : u.entry[q] = m.entry[q]
            /\ DOMAIN u.entry[p] = DOMAIN m.entry[p]
            /\ \A i \in DOMAIN m.entry[p] : u.entry[p][i].name = m.entry[p][i].name
            /\ m.entry[p] = <<>> => u.entry[p] = <<>>
<1> DEFINE mine == m.entry[p]
           freed(c) == [c EXCEPT !.freed = @ \/ p \in FreesAtQuit]
           left == [i \in DOMAIN mine |-> freed(mine[i])]
           u == [m EXCEPT !.inited = @ \ {p}, !.entry[p] = left]
<1>1. QuitFunc(m, p) = u
  BY DEF QuitFunc, States
<1>2. mine \in Seq(Command) /\ Len(mine) \in Nat /\ DOMAIN mine = 1 .. Len(mine)
  BY EntryFacts
<1>3. \A i \in DOMAIN mine :
        left[i] \in Command /\ left[i].name = mine[i].name
  <2>1. \A c \in Command : freed(c) \in Command /\ freed(c).name = c.name
    BY DEF Command
  <2>2. \A i \in DOMAIN mine : mine[i] \in Command /\ left[i] = freed(mine[i])
    BY EntryFacts
  <2> HIDE DEF freed, left, mine
  <2> QED BY <2>1, <2>2
<1>4. left \in Seq(Command) /\ DOMAIN left = DOMAIN mine
  <2> HIDE DEF freed, mine
  <2>1. left \in [DOMAIN mine -> Command]
    BY <1>3
  <2> HIDE DEF left
  <2> QED BY <1>2, <2>1
<1>5. mine = <<>> => left = <<>>
  BY <1>2, <1>4
<1>6. m.entry \in [Plugins -> Seq(Command)]
  BY DEF States
<1> HIDE DEF left, mine
<1>7. /\ u.inited = m.inited \ {p} /\ u.entry = [m.entry EXCEPT ![p] = left]
      /\ u.loaded = m.loaded /\ u.enabled = m.enabled
      /\ u.commands = m.commands /\ u.thrown = m.thrown
  BY DEF States
<1>8. u \in States
  BY <1>4, <1>6 DEF States
<1> HIDE DEF u
<1>9. u.entry[p] = left /\ \A q \in Plugins \ {p} : u.entry[q] = m.entry[q]
  BY <1>6, <1>7
<1> QED BY <1>1, <1>3, <1>4, <1>5, <1>7, <1>8, <1>9 DEF mine

\* The end of unload() of a plugin that is off.
LEMMA CloseLibraryLaw ==
  ASSUME NEW m \in States, NEW p \in Plugins, NEW r, Sound(m), p \notin m.enabled
  PROVE  LET u == CloseLibrary(m, p, r)
         IN /\ u \in States /\ Sound(u)
            /\ u.enabled = m.enabled /\ u.loaded \subseteq m.loaded
            /\ u.commands = m.commands /\ u.thrown = m.thrown
            /\ r.close = "ok" => p \notin u.loaded
            /\ Intact(m) => Intact(u)
<1> DEFINE u == [m EXCEPT !.loaded = @ \ {p}, !.entry[p] = <<>>]
<1>1. CASE r.close # "ok"
  <2>1. CloseLibrary(m, p, r) = m
    BY <1>1 DEF CloseLibrary
  <2> QED BY <1>1, <2>1
<1>2. CASE r.close = "ok"
  <2>1. CloseLibrary(m, p, r) = u
    BY <1>2 DEF CloseLibrary
  <2>2. <<>> \in Seq(Command)
    OBVIOUS
  <2>3. /\ u.loaded = m.loaded \ {p} /\ u.enabled = m.enabled /\ u.inited = m.inited
        /\ u.entry = [m.entry EXCEPT ![p] = <<>>]
        /\ u.commands = m.commands /\ u.thrown = m.thrown
    BY DEF States
  <2>4. m.entry \in [Plugins -> Seq(Command)] /\ m.enabled \subseteq Plugins
    BY DEF States
  <2>5. u \in States
    BY <2>2, <2>4 DEF States
  <2> HIDE DEF u
  <2>6. u.entry[p] = <<>> /\ \A q \in Plugins \ {p} : u.entry[q] = m.entry[q]
    BY <2>3, <2>4
  <2>7. \A q \in m.enabled : u.entry[q] = m.entry[q]
    BY <2>4, <2>6
  <2>8. Sound(u)
    <3>1. u.inited = u.enabled /\ u.enabled \subseteq u.loaded
      BY <2>3 DEF Sound
    <3>2. \A q \in Plugins \ u.loaded : u.entry[q] = <<>>
      BY <2>3, <2>6 DEF Sound
    <3>3. ASSUME NEW n \in Names, u.commands[n] \in Plugins
          PROVE  u.commands[n] \in u.enabled /\ Owns(u, u.commands[n], n)
      <4>1. m.commands[n] \in m.enabled /\ Owns(m, m.commands[n], n)
        BY <2>3, <3>3 DEF Sound
      <4> QED BY <2>3, <2>7, <4>1 DEF Owns
    <3> QED BY <2>3, <3>1, <3>2, <3>3 DEF Sound
  <2>9. Intact(m) => Intact(u)
    BY <2>3, <2>7 DEF Intact, Finds
  <2> QED BY <2>1, <2>3, <2>5, <2>8, <2>9
<1> QED BY <1>1, <1>2

\* The commands of cmd.cpp, plugin.cpp and dispatch.cpp that are there stay.
Spares(u, m) ==
  \A n \in Names : m.commands[n] \in {"cmd", "setup"} => u.commands[n] = m.commands[n]

\* Without its commands, an enabled plugin can be quit: the state stays sound.
LEMMA TurnOffLaw ==
  ASSUME NEW m \in States, NEW p \in m.enabled, Sound(m),
         \A n \in Names : m.commands[n] # p
  PROVE  LET u == QuitFunc([m EXCEPT !.enabled = @ \ {p}], p)
         IN /\ u \in States /\ Sound(u)
            /\ u.enabled = m.enabled \ {p} /\ u.loaded = m.loaded
            /\ u.commands = m.commands /\ u.thrown = m.thrown
            /\ \A q \in Plugins \ {p} : u.entry[q] = m.entry[q]
<1> DEFINE off == [m EXCEPT !.enabled = @ \ {p}]
           u == QuitFunc(off, p)
<1>1. p \in Plugins
  BY DEF States
<1>2. /\ off \in States /\ off.enabled = m.enabled \ {p}
      /\ off.loaded = m.loaded /\ off.inited = m.inited /\ off.entry = m.entry
      /\ off.commands = m.commands /\ off.thrown = m.thrown
  BY DEF States
<1> HIDE DEF off
<1>3. /\ u \in States /\ u.inited = off.inited \ {p}
      /\ u.loaded = off.loaded /\ u.enabled = off.enabled
      /\ u.commands = off.commands /\ u.thrown = off.thrown
      /\ \A q \in Plugins \ {p} : u.entry[q] = off.entry[q]
      /\ off.entry[p] = <<>> => u.entry[p] = <<>>
  BY <1>1, <1>2, QuitFuncLaw
<1> HIDE DEF u
<1>4. Sound(u)
  <2>1. u.inited = u.enabled /\ u.enabled \subseteq u.loaded
    BY <1>2, <1>3 DEF Sound
  <2>2. \A q \in Plugins \ u.loaded : u.entry[q] = <<>>
    BY <1>2, <1>3 DEF Sound
  <2>3. ASSUME NEW n \in Names, u.commands[n] \in Plugins
        PROVE  u.commands[n] \in u.enabled /\ Owns(u, u.commands[n], n)
    <3> DEFINE q == m.commands[n]
    <3>1. q \in m.enabled /\ Owns(m, q, n) /\ q # p /\ q \in Plugins
      BY <1>2, <1>3, <2>3 DEF Sound
    <3>2. u.entry[q] = m.entry[q]
      BY <1>2, <1>3, <3>1
    <3> QED BY <1>2, <1>3, <3>1, <3>2 DEF Owns
  <2>4. ASSUME NEW n \in Names
        PROVE  /\ u.commands[n] = "cmd" => n \in ToSet(CoreNames)
               /\ u.commands[n] = "setup" => n \in ToSet(SetupNames)
    BY <1>2, <1>3 DEF Sound
  <2> QED BY <2>1, <2>2, <2>3, <2>4 DEF Sound
<1> QED BY <1>2, <1>3, <1>4 DEF off, u

\* Without some of its commands too.
LEMMA FewerCommandsLaw ==
  ASSUME NEW m \in States, NEW u \in States, Sound(m), Keeps(u, m), Shrinks(u, m)
  PROVE  Sound(u)
<1>1. ASSUME NEW n \in Names, u.commands[n] \in Plugins
      PROVE  u.commands[n] \in u.enabled /\ Owns(u, u.commands[n], n)
  <2>1. u.commands[n] = m.commands[n]
    BY <1>1, PluginsAssumption DEF Shrinks
  <2> QED BY <1>1, <2>1 DEF Sound, Keeps, Owns
<1>2. ASSUME NEW n \in Names
      PROVE  /\ u.commands[n] = "cmd" => n \in ToSet(CoreNames)
             /\ u.commands[n] = "setup" => n \in ToSet(SetupNames)
  BY DEF Shrinks, Sound
<1>3. /\ u.inited = u.enabled /\ u.enabled \subseteq u.loaded
      /\ \A q \in Plugins \ u.loaded : u.entry[q] = <<>>
  BY DEF Sound, Keeps
<1> QED BY <1>1, <1>2, <1>3 DEF Sound

\* What an operation that turns off keeps, however it ends.
Closes(u, m) ==
  /\ u \in States /\ Sound(u) /\ Shrinks(u, m)
  /\ u.enabled \subseteq m.enabled /\ u.loaded \subseteq m.loaded

\* disable() ends with the plugin turned off or with an exception, and without
\* one when its commands are there and its quit function succeeds.
LEMMA DisableLaw ==
  ASSUME NEW m \in States, NEW p \in m.enabled, NEW r, r.quit \in {"ok", "fail"},
         Sound(m), ~m.thrown
  PROVE  LET u == Disable(m, p, r)
         IN /\ Closes(u, m)
            /\ ~u.thrown => p \notin u.enabled
            /\ Intact(m) /\ r.quit = "ok" => ~u.thrown /\ Intact(u) /\ Spares(u, m)
<1> DEFINE a == RemovePluginCommands(m, p)
           b == QuitFunc([a EXCEPT !.enabled = @ \ {p}], p)
           u == Disable(m, p, r)
<1>1. p \in Plugins
  BY DEF States
<1>2. /\ a \in States /\ Keeps(a, m) /\ Shrinks(a, m)
      /\ \A n \in Names : ~Owns(m, p, n) => a.commands[n] = m.commands[n]
      /\ ~a.thrown => \A n \in Names : Owns(m, p, n) => a.commands[n] = "none"
      /\ Finds(m, p) => ~a.thrown
  BY <1>1, RemoveLaw
<1>3. /\ a.thrown => u = a
      /\ ~a.thrown /\ r.quit = "ok" => u = b
      /\ ~a.thrown /\ r.quit = "fail" => u = Throw(CloseLibrary(b, p, r))
  BY DEF Disable
<1> HIDE DEF a, u
<1>4. Sound(a)
  BY <1>2, FewerCommandsLaw
<1>5. CASE a.thrown
  <2>1. u = a /\ ~(Intact(m) /\ r.quit = "ok")
    BY <1>2, <1>3, <1>5 DEF Intact
  <2> QED BY <1>2, <1>4, <1>5, <2>1 DEF Closes, Keeps, u
<1>6. CASE ~a.thrown
  <2>1. ASSUME NEW n \in Names
        PROVE  a.commands[n] # p
    <3>1. CASE Owns(m, p, n)
      BY <1>1, <1>2, <1>6, <3>1, PluginsAssumption
    <3>2. CASE ~Owns(m, p, n)
      BY <1>1, <1>2, <3>2 DEF Sound
    <3> QED BY <3>1, <3>2
  <2>2. p \in a.enabled
    BY <1>2 DEF Keeps
  <2>3. /\ b \in States /\ Sound(b)
        /\ b.enabled = a.enabled \ {p} /\ b.loaded = a.loaded
        /\ b.commands = a.commands /\ b.thrown = a.thrown
        /\ \A q \in Plugins \ {p} : b.entry[q] = a.entry[q]
    BY <1>2, <1>4, <2>1, <2>2, TurnOffLaw
  <2> HIDE DEF b
  <2>4. Closes(b, m) /\ p \notin b.enabled
    BY <1>2, <2>3 DEF Closes, Keeps, Shrinks
  <2>5. CASE r.quit = "ok"
    <3>1. u = b /\ ~u.thrown
      BY <1>3, <1>6, <2>3, <2>5
    <3>2. ASSUME Intact(m)
          PROVE  Intact(b) /\ Spares(b, m)
      <4>1. \A n \in Names : m.commands[n] # p => b.commands[n] = m.commands[n]
        BY <1>1, <1>2, <2>3, <3>2 DEF Intact, Finds, Owns
      <4>2. ASSUME NEW q \in b.enabled, NEW i \in DOMAIN b.entry[q]
            PROVE  /\ b.commands[b.entry[q][i].name] = q
                   /\ \A j \in DOMAIN b.entry[q] :
                        b.entry[q][i].name = b.entry[q][j].name => i = j
        <5>1. q \in m.enabled /\ q # p /\ q \in Plugins
          BY <1>2, <2>3, <4>2 DEF Keeps, States
        <5>2. b.entry[q] = m.entry[q]
          BY <1>2, <2>3, <5>1 DEF Keeps
        <5>3. m.entry[q][i].name \in Names
          BY <4>2, <5>1, <5>2, EntryFacts
        <5>4. Finds(m, q)
          BY <3>2, <5>1 DEF Intact
        <5> QED BY <4>1, <4>2, <5>1, <5>2, <5>3, <5>4 DEF Finds
      <4>3. Spares(b, m)
        BY <1>1, <4>1, PluginsAssumption DEF Spares
      <4> QED BY <4>2, <4>3 DEF Intact, Finds
    <3> QED BY <2>4, <3>1, <3>2 DEF u
  <2>6. CASE r.quit = "fail"
    <3> DEFINE c == CloseLibrary(b, p, r)
    <3>1. /\ c \in States /\ Sound(c)
          /\ c.enabled = b.enabled /\ c.loaded \subseteq b.loaded
          /\ c.commands = b.commands
      BY <1>1, <2>3, <2>4, CloseLibraryLaw
    <3> HIDE DEF c
    <3>2. Throw(c) \in States /\ Throw(c).thrown /\ Keeps(Throw(c), c) /\ Throw(c).commands = c.commands
      BY <3>1 DEF Throw, States, Keeps
    <3>3. u = Throw(c)
      BY <1>3, <1>6, <2>6 DEF c
    <3>4. Sound(Throw(c))
      BY <3>1, <3>2, FewerCommandsLaw DEF Shrinks
    <3>5. Closes(Throw(c), m)
      BY <2>4, <3>1, <3>2, <3>4 DEF Closes, Keeps, Shrinks
    <3> QED BY <2>6, <3>2, <3>3, <3>5 DEF u
  <2> QED BY <2>5, <2>6
<1> QED BY <1>5, <1>6

\* An exception changes nothing else.
LEMMA ThrowLaw ==
  ASSUME NEW m \in States
  PROVE  /\ Throw(m) \in States /\ Throw(m).thrown /\ Keeps(Throw(m), m)
         /\ Throw(m).commands = m.commands
         /\ Sound(m) => Sound(Throw(m))
         /\ Intact(m) => Intact(Throw(m))
<1>1. /\ Throw(m) \in States /\ Throw(m).thrown /\ Keeps(Throw(m), m)
      /\ Throw(m).commands = m.commands
  BY DEF Throw, States, Keeps
<1>2. Sound(m) => Sound(Throw(m))
  BY <1>1, FewerCommandsLaw DEF Shrinks
<1>3. Intact(m) => Intact(Throw(m))
  BY <1>1 DEF Intact, Finds, Keeps
<1> QED BY <1>1, <1>2, <1>3

\* unload() ends with the plugin turned off and, when its library could be
\* closed, forgotten; or with an exception.
LEMMA UnloadLaw ==
  ASSUME NEW m \in States, NEW p \in Plugins, NEW r, r.quit \in {"ok", "fail"},
         Sound(m), ~m.thrown
  PROVE  LET u == Unload(m, p, r)
         IN /\ Closes(u, m)
            /\ ~u.thrown => p \notin u.enabled /\ (r.close = "ok" => p \notin u.loaded)
            /\ Intact(m) /\ r.quit = "ok" => ~u.thrown /\ Intact(u) /\ Spares(u, m)
<1> DEFINE off == IF p \in m.enabled THEN Disable(m, p, r) ELSE m
           u == CloseLibrary(off, p, r)
<1>1. Unload(m, p, r) = IF off.thrown THEN off ELSE u
  BY DEF Unload
<1>2. /\ Closes(off, m) /\ (~off.thrown => p \notin off.enabled)
      /\ Intact(m) /\ r.quit = "ok" => ~off.thrown /\ Intact(off) /\ Spares(off, m)
  <2>1. CASE p \in m.enabled
    BY <2>1, DisableLaw
  <2>2. CASE p \notin m.enabled
    BY <2>2 DEF Closes, Shrinks, Spares
  <2> QED BY <2>1, <2>2
<1> HIDE DEF off
<1>3. CASE off.thrown
  BY <1>1, <1>2, <1>3
<1>4. CASE ~off.thrown
  <2>1. off \in States /\ Sound(off) /\ p \notin off.enabled
    BY <1>2, <1>4 DEF Closes
  <2>2. /\ u \in States /\ Sound(u)
        /\ u.enabled = off.enabled /\ u.loaded \subseteq off.loaded
        /\ u.commands = off.commands /\ u.thrown = off.thrown
        /\ r.close = "ok" => p \notin u.loaded
        /\ Intact(off) => Intact(u)
    BY <2>1, CloseLibraryLaw
  <2> HIDE DEF u
  <2>3. Closes(u, m)
    BY <1>2, <2>2 DEF Closes, Shrinks
  <2>4. Spares(off, m) => Spares(u, m)
    BY <2>2 DEF Spares
  <2> QED BY <1>1, <1>2, <1>4, <2>1, <2>2, <2>3, <2>4
<1> QED BY <1>3, <1>4

-----------------------------------------------------------------------------
(* enable() and the commands it adds.                                      *)

\* No command is taken from who has it.
Grows(u, m) ==
  \A n \in Names : m.commands[n] # "none" => u.commands[n] = m.commands[n]

\* What register_command() keeps for an enabled plugin.
Adds(u, m) ==
  /\ u \in States /\ Sound(u) /\ Grows(u, m)
  /\ u.loaded = m.loaded /\ u.enabled = m.enabled /\ u.inited = m.inited
  /\ u.thrown = m.thrown
  /\ Intact(m) => Intact(u)

LEMMA RegisterLaw ==
  ASSUME NEW m \in States, NEW p \in m.enabled, NEW c \in Command, Sound(m)
  PROVE  Adds(Register(m, p, c), m)
<1> DEFINE n == c.name
           read == [m EXCEPT !.touched = @ \/ c.freed]
           longer == Append(m.entry[p], c)
           u == [read EXCEPT !.commands[n] = p, !.entry[p] = longer]
<1>1. p \in Plugins /\ n \in Names /\ p # "none"
  BY PluginsAssumption DEF States, Command
<1>2. /\ read \in States /\ Keeps(read, m) /\ read.commands = m.commands
      /\ read.thrown = m.thrown
  BY DEF States, Keeps, Command
<1>3. Register(m, p, c) = IF m.commands[n] = "none" THEN u ELSE read
  BY DEF Register
<1>4. CASE m.commands[n] # "none"
  <2> HIDE DEF read
  <2>1. Sound(read)
    BY <1>2, FewerCommandsLaw DEF Shrinks
  <2>2. Intact(m) => Intact(read)
    BY <1>2 DEF Intact, Finds, Keeps
  <2> QED BY <1>2, <1>3, <1>4, <2>1, <2>2 DEF Adds, Grows, Keeps
<1>5. CASE m.commands[n] = "none"
  <2> HIDE DEF read
  <2>1. /\ u.loaded = m.loaded /\ u.enabled = m.enabled /\ u.inited = m.inited
        /\ u.commands = [m.commands EXCEPT ![n] = p]
        /\ u.entry = [m.entry EXCEPT ![p] = longer]
        /\ u.thrown = m.thrown /\ u.touched = read.touched
    BY <1>2 DEF States, Keeps
  <2>2. /\ m.entry \in [Plugins -> Seq(Command)]
        /\ m.commands \in [Names -> Plugins \cup {"cmd", "setup", "none"}]
    BY DEF States
  <2>3. longer \in Seq(Command)
    BY <1>1, <2>2
  <2> HIDE DEF longer
  <2>4. u \in States
    BY <1>1, <1>2, <2>2, <2>3 DEF States, Keeps
  <2> HIDE DEF u
  <2>5. /\ u.commands[n] = p /\ \A o \in Names \ {n} : u.commands[o] = m.commands[o]
        /\ \A q \in Plugins \ {p} : u.entry[q] = m.entry[q]
        /\ u.entry[p] = Append(m.entry[p], c)
    BY <1>1, <2>1, <2>2 DEF longer
  <2> DEFINE k == Len(m.entry[p])
  <2>6. /\ k \in Nat /\ DOMAIN m.entry[p] = 1 .. k /\ DOMAIN u.entry[p] = 1 .. k + 1
        /\ \A i \in 1 .. k : u.entry[p][i] = m.entry[p][i]
        /\ u.entry[p][k + 1] = c
    <3>1. m.entry[p] \in Seq(Command)
      BY <1>1, <2>2
    <3> QED BY <2>5, <3>1
  <2> HIDE DEF k
  <2>7. \A q \in Plugins, o \in Names : Owns(m, q, o) => Owns(u, q, o)
    BY <2>5, <2>6 DEF Owns
  <2>8. Owns(u, p, n)
    <3>1. k + 1 \in DOMAIN u.entry[p]
      BY <2>6
    <3> QED BY <2>6, <3>1 DEF Owns
  <2>9. Sound(u)
    <3>1. \A q \in Plugins \ u.loaded : u.entry[q] = <<>>
      BY <2>1, <2>5 DEF Sound
    <3>2. ASSUME NEW o \in Names
          PROVE  /\ u.commands[o] \in Plugins =>
                      u.commands[o] \in u.enabled /\ Owns(u, u.commands[o], o)
                 /\ u.commands[o] = "cmd" => o \in ToSet(CoreNames)
                 /\ u.commands[o] = "setup" => o \in ToSet(SetupNames)
      <4>1. CASE o = n
        BY <1>1, <2>1, <2>5, <2>8, <4>1, PluginsAssumption
      <4>2. CASE o # n
        BY <2>1, <2>5, <2>7, <4>2 DEF Sound
      <4> QED BY <4>1, <4>2
    <3> QED BY <2>1, <3>1, <3>2 DEF Sound
  <2>10. Intact(m) => Intact(u)
    <3> SUFFICES ASSUME Intact(m), NEW q \in u.enabled
                 PROVE  Finds(u, q)
      BY DEF Intact
    <3>1. q \in Plugins /\ Finds(m, q) /\ Finds(m, p)
      BY <2>1 DEF Intact, States
    <3>2. CASE q # p
      <4>1. u.entry[q] = m.entry[q]
        BY <2>5, <3>1, <3>2
      <4>2. \A i \in DOMAIN m.entry[q] : m.entry[q][i].name \in Names \ {n}
        BY <1>5, <3>1, EntryFacts, PluginsAssumption DEF Finds
      <4> QED BY <2>5, <3>1, <4>1, <4>2 DEF Finds
    <3>3. CASE q = p
      <4>1. \A i \in 1 .. k :
              m.entry[p][i].name \in Names \ {n} /\ m.commands[m.entry[p][i].name] = p
        BY <1>1, <1>5, <2>6, <3>1, EntryFacts DEF Finds
      <4>2. ASSUME NEW i \in 1 .. k + 1
            PROVE  u.commands[u.entry[p][i].name] = p
        <5>1. CASE i \in 1 .. k
          BY <2>5, <2>6, <4>1, <5>1
        <5>2. CASE i = k + 1
          BY <2>5, <2>6, <5>2
        <5> QED BY <2>6, <5>1, <5>2
      <4>3. ASSUME NEW i \in 1 .. k + 1, NEW j \in 1 .. k + 1,
                   u.entry[p][i].name = u.entry[p][j].name
            PROVE  i = j
        <5>1. CASE i \in 1 .. k /\ j \in 1 .. k
          BY <2>6, <3>1, <4>3, <5>1 DEF Finds
        <5>2. \A x \in 1 .. k : u.entry[p][x].name \in Names \ {n}
          BY <2>6, <4>1
        <5>3. u.entry[p][k + 1].name = n
          BY <2>6
        <5>4. CASE i = k + 1 \/ j = k + 1
          <6>1. i # k + 1 => i \in 1 .. k
            BY <2>6
          <6>2. j # k + 1 => j \in 1 .. k
            BY <2>6
          <6> QED BY <4>3, <5>2, <5>3, <5>4, <6>1, <6>2
        <5> QED BY <2>6, <5>1, <5>4
      <4> QED BY <2>6, <3>3, <4>2, <4>3 DEF Finds
    <3> QED BY <3>2, <3>3
  <2>11. Grows(u, m)
    BY <1>5, <2>5 DEF Grows
  <2> QED BY <1>3, <1>5, <2>1, <2>4, <2>9, <2>10, <2>11 DEF Adds, u
<1> QED BY <1>4, <1>5

LEMMA AddsMore ==
  ASSUME NEW a, NEW b, NEW c, Adds(b, a), Adds(c, b)
  PROVE  Adds(c, a)
<1>1. Grows(c, a)
  BY DEF Adds, Grows
<1> QED BY <1>1 DEF Adds

\* The states the loop of register_command() passes through.
Grown(m, p, cs) ==
  CHOOSE after : after = [i \in 0 .. Len(cs) |->
    IF i = 0 THEN m ELSE Register(after[i - 1], p, cs[i])]

LEMMA RegisterAllLaw ==
  ASSUME NEW m \in States, NEW p \in m.enabled, NEW cs \in Seq(Command), Sound(m)
  PROVE  Adds(RegisterAll(m, p, cs), m)
<1> DEFINE k == Len(cs)
           T == {x \in States : Adds(x, m)}
           G == [x \in T \X (1 .. k) |-> Register(x[1], p, cs[x[2]])]
           h == Grown(m, p, cs)
<1>1. k \in Nat /\ \A i \in 1 .. k : cs[i] \in Command
  OBVIOUS
<1>2. m \in T
  BY DEF Adds, Grows
<1>3. ASSUME NEW x \in T, NEW i \in 1 .. k
      PROVE  Register(x, p, cs[i]) \in T
  <2> DEFINE y == Register(x, p, cs[i])
  <2>1. x \in States /\ Sound(x) /\ p \in x.enabled /\ cs[i] \in Command /\ Adds(x, m)
    BY <1>1 DEF Adds
  <2>2. Adds(y, x)
    BY <2>1, RegisterLaw
  <2> HIDE DEF y
  <2>3. Adds(y, m) /\ y \in States
    BY <2>1, <2>2, AddsMore DEF Adds
  <2> QED BY <2>3 DEF y
<1>4. h = CHOOSE after : after = [i \in 0 .. k |->
            IF i = 0 THEN m ELSE Register(after[i - 1], p, cs[i])]
  BY DEF Grown
<1>5. RegisterAll(m, p, cs) = h[k]
  BY DEF RegisterAll, Grown
<1> HIDE DEF k, T, h
<1>6. G \in Rounds(T, k) /\ \A x \in T, i \in 1 .. k : G[<<x, i>>] = Register(x, p, cs[i])
  <2>1. \A x \in T \X (1 .. k) : Register(x[1], p, cs[x[2]]) \in T
    BY <1>3
  <2> QED BY <2>1 DEF Rounds
<1> HIDE DEF G
<1>7. PICK f : Loop(f, T, m, k, G)
  BY <1>1, <1>2, <1>6, LoopExists
<1>8. f \in [0 .. k -> T] /\ f[0] = m /\ \A i \in 1 .. k : f[i] = G[<<f[i - 1], i>>]
  BY <1>7 DEF Loop
<1>9. ASSUME NEW i \in 0 .. k
      PROVE  f[i] = IF i = 0 THEN m ELSE Register(f[i - 1], p, cs[i])
  <2>1. CASE i = 0
    BY <1>8, <2>1
  <2>2. CASE i # 0
    <3>1. i \in 1 .. k /\ f[i - 1] \in T
      BY <1>1, <1>8, <2>2
    <3> QED BY <1>6, <1>8, <2>2, <3>1
  <2> QED BY <2>1, <2>2
<1>10. f = [i \in 0 .. k |-> IF i = 0 THEN m ELSE Register(f[i - 1], p, cs[i])]
  BY <1>8, <1>9
<1>11. h = [i \in 0 .. k |-> IF i = 0 THEN m ELSE Register(h[i - 1], p, cs[i])]
  BY <1>4, <1>10
<1> DEFINE S == {i \in Nat : i <= k => h[i] \in T}
<1>12. 0 \in S
  BY <1>1, <1>2, <1>11
<1>13. ASSUME NEW i \in Nat, i \in S
       PROVE  i + 1 \in S
  <2> SUFFICES ASSUME i + 1 <= k PROVE h[i + 1] \in T
    OBVIOUS
  <2>1. h[i] \in T /\ i + 1 \in 1 .. k /\ (i + 1) - 1 = i
    BY <1>1, <1>13
  <2>2. h[i + 1] = Register(h[i], p, cs[i + 1])
    BY <1>1, <1>11, <2>1
  <2> QED BY <1>3, <2>1, <2>2
<1>14. h[k] \in T
  <2>1. \A i \in Nat : i \in S
    <3> HIDE DEF S
    <3> QED BY <1>12, <1>13, Induction
  <2> QED BY <1>1, <2>1
<1> QED BY <1>5, <1>14 DEF T

\* The commands a plugin adds are commands.
LEMMA NewCommands ==
  ASSUME NEW p \in Plugins
  PROVE  [i \in DOMAIN CommandsOf[p] |-> [name |-> CommandsOf[p][i], freed |-> FALSE]]
           \in Seq(Command)
<1> DEFINE names == CommandsOf[p]
           k == Len(names)
           new == [i \in 1 .. k |-> [name |-> names[i], freed |-> FALSE]]
<1>1. names \in Seq(STRING) /\ k \in Nat /\ DOMAIN names = 1 .. k
  BY PluginsAssumption
<1>2. \A i \in 1 .. k : names[i] \in Names
  <2>1. \A i \in 1 .. k : names[i] \in ToSet(names)
    BY <1>1 DEF ToSet
  <2>2. ToSet(names) \subseteq Names
    BY DEF Names
  <2> QED BY <2>1, <2>2
<1>3. \A i \in 1 .. k : [name |-> names[i], freed |-> FALSE] \in Command
  BY <1>2 DEF Command
<1>4. new \in Seq(Command)
  BY <1>1, <1>3
<1> QED BY <1>1, <1>4

\* An entry may be replaced while no command is its plugin's.
NewEntry(m, p, cs) == [m EXCEPT !.entry[p] = cs]

LEMMA NewEntryLaw ==
  ASSUME NEW m \in States, NEW p \in m.enabled, NEW cs \in Seq(Command), Sound(m),
         \A n \in Names : m.commands[n] # p
  PROVE  LET u == NewEntry(m, p, cs)
         IN /\ u \in States /\ Sound(u)
            /\ u.loaded = m.loaded /\ u.enabled = m.enabled /\ u.inited = m.inited
            /\ u.commands = m.commands /\ u.thrown = m.thrown
            /\ u.entry[p] = cs /\ \A q \in Plugins \ {p} : u.entry[q] = m.entry[q]
<1> DEFINE u == NewEntry(m, p, cs)
<1> USE DEF NewEntry
<1>1. p \in Plugins /\ m.entry \in [Plugins -> Seq(Command)]
  BY DEF States
<1>2. /\ u.loaded = m.loaded /\ u.enabled = m.enabled /\ u.inited = m.inited
      /\ u.commands = m.commands /\ u.thrown = m.thrown
      /\ u.entry = [m.entry EXCEPT ![p] = cs]
  BY DEF States
<1>3. u \in States
  BY <1>1 DEF States
<1> HIDE DEF u
<1>4. u.entry[p] = cs /\ \A q \in Plugins \ {p} : u.entry[q] = m.entry[q]
  BY <1>1, <1>2
<1>5. Sound(u)
  <2>1. \A q \in Plugins \ u.loaded : u.entry[q] = <<>>
    BY <1>2, <1>4 DEF Sound
  <2>2. ASSUME NEW n \in Names, u.commands[n] \in Plugins
        PROVE  u.commands[n] \in u.enabled /\ Owns(u, u.commands[n], n)
    <3>1. m.commands[n] \in m.enabled /\ Owns(m, m.commands[n], n) /\ m.commands[n] # p
      BY <1>2, <2>2 DEF Sound
    <3> QED BY <1>2, <1>4, <2>2, <3>1 DEF Owns
  <2>3. ASSUME NEW n \in Names
        PROVE  /\ u.commands[n] = "cmd" => n \in ToSet(CoreNames)
               /\ u.commands[n] = "setup" => n \in ToSet(SetupNames)
    BY <1>2 DEF Sound
  <2> QED BY <1>2, <2>1, <2>2, <2>3 DEF Sound
<1> QED BY <1>2, <1>3, <1>4, <1>5 DEF u

\* call_plugin_add_commands() registers what the function of the plugin has added
\* when it succeeds, and leaves a sound state when it does not.
LEMMA AddCommandsLaw ==
  ASSUME NEW m \in States, NEW p \in m.enabled, NEW r \in EnableOutcomes,
         Sound(m), ~m.thrown, \A n \in Names : m.commands[n] # p
  PROVE  LET u == AddCommands(m, p, r)
         IN /\ u \in States /\ Sound(u)
            /\ r.add = "ok" => Spares(u, m)
            /\ r.add = "ok" /\ (\A q \in m.enabled \ {p} : Finds(m, q)) => Intact(u)
<1> DEFINE new  == [i \in DOMAIN CommandsOf[p] |->
                      [name |-> CommandsOf[p][i], freed |-> FALSE]]
           all  == m.entry[p] \o new
           kept == NewEntry(m, p, all)
           part == IF r.added THEN kept ELSE m
           empty == <<>>
           bare == NewEntry(kept, p, empty)
           u == AddCommands(m, p, r)
<1>1. p \in Plugins /\ r.quit \in {"ok", "fail"} /\ r.add \in {"ok", "fail", "throw"}
  BY DEF States, EnableOutcomes, May
<1>2. all \in Seq(Command)
  <2>1. m.entry[p] \in Seq(Command) /\ new \in Seq(Command)
    BY <1>1, EntryFacts, NewCommands
  <2> HIDE DEF new
  <2> QED BY <2>1
<1>3. /\ r.add = "throw" => u = Throw(Unload(part, p, r))
      /\ r.add = "fail" => u = Throw(part)
      /\ r.add = "ok" => u = RegisterAll(bare, p, kept.entry[p])
  <2>1. m.entry \in [Plugins -> Seq(Command)]
    BY DEF States
  <2> HIDE DEF new
  <2> QED BY <1>1, <2>1 DEF AddCommands, NewEntry, new
<1> HIDE DEF all, u
<1>4. /\ kept \in States /\ Sound(kept)
      /\ kept.loaded = m.loaded /\ kept.enabled = m.enabled
      /\ kept.commands = m.commands /\ kept.thrown = m.thrown
      /\ kept.entry[p] = all /\ \A q \in Plugins \ {p} : kept.entry[q] = m.entry[q]
  BY <1>2, NewEntryLaw
<1> HIDE DEF kept
<1>5. CASE r.add = "throw"
  <2>1. part \in States /\ Sound(part) /\ ~part.thrown
    BY <1>4
  <2> HIDE DEF part
  <2>2. Unload(part, p, r) \in States /\ Sound(Unload(part, p, r))
    BY <1>1, <2>1, UnloadLaw DEF Closes
  <2> QED BY <1>3, <1>5, <2>2, ThrowLaw DEF u
<1>6. CASE r.add = "fail"
  <2>1. part \in States /\ Sound(part)
    BY <1>4
  <2> HIDE DEF part
  <2> QED BY <1>3, <1>6, <2>1, ThrowLaw DEF u
<1>7. CASE r.add = "ok"
  <2>1. /\ empty \in Seq(Command) /\ p \in kept.enabled /\ kept \in States
        /\ Sound(kept) /\ \A n \in Names : kept.commands[n] # p
    BY <1>4
  <2> HIDE DEF empty
  <2>2. /\ bare \in States /\ Sound(bare)
        /\ bare.loaded = kept.loaded /\ bare.enabled = kept.enabled
        /\ bare.commands = kept.commands
        /\ bare.entry[p] = empty /\ \A q \in Plugins \ {p} : bare.entry[q] = kept.entry[q]
    BY <2>1, NewEntryLaw
  <2> HIDE DEF bare
  <2>3. Adds(u, bare)
    <3>1. p \in bare.enabled /\ kept.entry[p] \in Seq(Command)
      BY <1>2, <1>4, <2>1, <2>2
    <3> QED BY <1>3, <1>7, <2>2, <3>1, RegisterAllLaw
  <2>4. Spares(u, m)
    BY <1>4, <2>2, <2>3 DEF Adds, Grows, Spares
  <2>5. ASSUME \A q \in m.enabled \ {p} : Finds(m, q)
        PROVE  Intact(bare)
    <3> SUFFICES ASSUME NEW q \in bare.enabled PROVE Finds(bare, q)
      BY DEF Intact
    <3>1. CASE q = p
      BY <2>2, <3>1 DEF Finds, empty
    <3>2. CASE q # p
      <4>1. q \in Plugins /\ Finds(m, q)
        BY <1>4, <2>2, <2>5, <3>2 DEF States
      <4>2. bare.entry[q] = m.entry[q] /\ bare.commands = m.commands
        BY <1>4, <2>2, <3>2, <4>1
      <4> QED BY <4>1, <4>2 DEF Finds
    <3> QED BY <3>1, <3>2
  <2> QED BY <2>3, <2>4, <2>5 DEF Adds, u
<1> QED BY <1>1, <1>5, <1>6, <1>7

\* enable() leaves a sound state however it ends, and disables find the commands
\* of every plugin when nothing but init has failed.
LEMMA EnableLaw ==
  ASSUME NEW m \in States, NEW p \in m.loaded, NEW r \in EnableOutcomes,
         p \notin m.enabled, Sound(m), ~m.thrown
  PROVE  LET u == Enable(m, p, r)
         IN /\ u \in States /\ Sound(u)
            /\ ~Faulty(r) /\ Intact(m) => Intact(u) /\ Spares(u, m)
<1> DEFINE on == [m EXCEPT !.inited = @ \cup {p}, !.enabled = @ \cup {p}]
           u == Enable(m, p, r)
<1>1. /\ p \in Plugins /\ r.quit \in {"ok", "fail"}
      /\ r.init \in {"ok", "fail", "throw"} /\ r.devices \in {"ok", "fail", "throw"}
  BY DEF States, EnableOutcomes, May
<1>2. ~Faulty(r) => r.devices = "ok" /\ r.add = "ok" /\ r.quit = "ok"
  BY DEF Faulty, EnableOutcomes
<1>3. /\ r.init = "throw" => u = Throw(Unload(m, p, r))
      /\ r.init = "fail" => u = Throw(m)
      /\ r.init = "ok" /\ r.devices = "throw" => u = Throw(Unload(on, p, r))
      /\ r.init = "ok" /\ r.devices = "fail" => u = Throw(on)
      /\ r.init = "ok" /\ r.devices = "ok" => u = AddCommands(on, p, r)
  BY DEF Enable
<1>4. /\ on \in States /\ on.loaded = m.loaded /\ on.enabled = m.enabled \cup {p}
      /\ on.inited = m.inited \cup {p} /\ on.entry = m.entry
      /\ on.commands = m.commands /\ on.thrown = m.thrown
  BY <1>1 DEF States
<1> HIDE DEF on, u
<1>5. Sound(on) /\ \A n \in Names : on.commands[n] # p
  <2>1. \A n \in Names : m.commands[n] # p
    BY <1>1 DEF Sound
  <2>2. ASSUME NEW n \in Names
        PROVE  /\ on.commands[n] \in Plugins =>
                    on.commands[n] \in on.enabled /\ Owns(on, on.commands[n], n)
               /\ on.commands[n] = "cmd" => n \in ToSet(CoreNames)
               /\ on.commands[n] = "setup" => n \in ToSet(SetupNames)
    BY <1>4 DEF Sound, Owns
  <2>3. /\ on.inited = on.enabled /\ on.enabled \subseteq on.loaded
        /\ \A q \in Plugins \ on.loaded : on.entry[q] = <<>>
    BY <1>4 DEF Sound
  <2> QED BY <1>4, <2>1, <2>2, <2>3 DEF Sound
<1>6. CASE r.init = "throw"
  <2> DEFINE v == Unload(m, p, r)
  <2>1. /\ v \in States /\ Sound(v)
        /\ Intact(m) /\ r.quit = "ok" => Intact(v) /\ Spares(v, m)
    BY <1>1, UnloadLaw DEF Closes
  <2>2. u = Throw(v)
    BY <1>3, <1>6
  <2> HIDE DEF v
  <2>3. Spares(v, m) => Spares(u, m)
    BY <2>1, <2>2, ThrowLaw DEF Spares
  <2> QED BY <1>2, <2>1, <2>2, <2>3, ThrowLaw DEF u
<1>7. CASE r.init = "fail"
  <2>1. Spares(u, m)
    BY <1>3, <1>7, ThrowLaw DEF Spares
  <2> QED BY <1>3, <1>7, <2>1, ThrowLaw DEF u
<1>8. CASE r.init = "ok" /\ r.devices = "throw"
  <2>1. Unload(on, p, r) \in States /\ Sound(Unload(on, p, r))
    BY <1>1, <1>4, <1>5, UnloadLaw DEF Closes
  <2> QED BY <1>2, <1>3, <1>8, <2>1, ThrowLaw DEF u
<1>9. CASE r.init = "ok" /\ r.devices = "fail"
  BY <1>2, <1>3, <1>4, <1>5, <1>9, ThrowLaw DEF u
<1>10. CASE r.init = "ok" /\ r.devices = "ok"
  <2>1. p \in on.enabled /\ ~on.thrown /\ u = AddCommands(on, p, r)
    BY <1>3, <1>4, <1>10
  <2>2. /\ u \in States /\ Sound(u)
        /\ r.add = "ok" => Spares(u, on)
        /\ r.add = "ok" /\ (\A q \in on.enabled \ {p} : Finds(on, q)) => Intact(u)
    BY <1>4, <1>5, <2>1, AddCommandsLaw
  <2>3. Intact(m) => \A q \in on.enabled \ {p} : Finds(on, q)
    BY <1>4 DEF Intact, Finds
  <2>4. Spares(u, on) => Spares(u, m)
    BY <1>4 DEF Spares
  <2> QED BY <1>2, <2>2, <2>3, <2>4 DEF u
<1> QED BY <1>1, <1>6, <1>7, <1>8, <1>9, <1>10

-----------------------------------------------------------------------------
(* The stop.                                                               *)

\* One round of the manager's quit().
UnloadNext(x, p, r) == IF x.thrown THEN x ELSE Unload(x, p, r[p])

\* The states its loop passes through.
Quitting(m, r) ==
  CHOOSE after : after = [i \in 0 .. Len(SetToSeq(m.loaded)) |->
    IF i = 0 THEN m ELSE UnloadNext(after[i - 1], SetToSeq(m.loaded)[i], r)]

LEMMA ClosesMore ==
  ASSUME NEW a, NEW b, NEW c, Closes(b, a), Closes(c, b)
  PROVE  Closes(c, a) /\ (Spares(b, a) /\ Spares(c, b) => Spares(c, a))
<1>1. Shrinks(c, a)
  BY DEF Closes, Shrinks
<1>2. Spares(b, a) /\ Spares(c, b) => Spares(c, a)
  BY DEF Spares
<1> QED BY <1>1, <1>2 DEF Closes

LEMMA UnloadNextLaw ==
  ASSUME NEW x \in States, Sound(x), NEW p \in Plugins, NEW r \in [Plugins -> QuitOutcomes]
  PROVE  LET u == UnloadNext(x, p, r)
         IN /\ Closes(u, x) /\ (x.thrown => u.thrown)
            /\ ~u.thrown => p \notin u.enabled /\ (r[p].close = "ok" => p \notin u.loaded)
            /\ Intact(x) /\ ~x.thrown /\ r[p].quit = "ok" =>
                 ~u.thrown /\ Intact(u) /\ Spares(u, x)
<1>1. r[p].quit \in {"ok", "fail"}
  <2>1. r[p] \in QuitOutcomes
    OBVIOUS
  <2> QED BY <2>1 DEF QuitOutcomes, May
<1>2. CASE x.thrown
  BY <1>2 DEF UnloadNext, Closes, Shrinks
<1>3. CASE ~x.thrown
  BY <1>1, <1>3, UnloadLaw DEF UnloadNext
<1> QED BY <1>2, <1>3

LEMMA QuittingFacts ==
  ASSUME NEW m \in States, Sound(m), NEW r \in [Plugins -> QuitOutcomes]
  PROVE  LET order == SetToSeq(m.loaded)
             k == Len(order)
         IN /\ k \in Nat /\ DOMAIN order = 1 .. k
            /\ \A i \in 1 .. k : order[i] \in m.loaded
            /\ \A p \in m.loaded : \E i \in 1 .. k : order[i] = p
            /\ QuitManager(m, r) = Quitting(m, r)[k]
            /\ Quitting(m, r)[0] = m
            /\ \A i \in 1 .. k :
                 Quitting(m, r)[i] = UnloadNext(Quitting(m, r)[i - 1], order[i], r)
<1> DEFINE order == SetToSeq(m.loaded)
           k == Len(order)
           T == {x \in States : Sound(x)}
           G == [x \in T \X (1 .. k) |-> UnloadNext(x[1], order[x[2]], r)]
           h == Quitting(m, r)
<1>1. m.loaded \subseteq Plugins /\ IsFiniteSet(m.loaded)
  <2>1. m.loaded \subseteq Plugins
    BY DEF States
  <2> QED BY <2>1, FS_Subset, PluginsAssumption
<1>2. order \in Seq(m.loaded) /\ \A p \in m.loaded : \E i \in DOMAIN order : order[i] = p
  BY <1>1, ElementsInOrder
<1>3. h = CHOOSE after : after = [i \in 0 .. k |->
            IF i = 0 THEN m ELSE UnloadNext(after[i - 1], order[i], r)]
  BY DEF Quitting
<1>4. QuitManager(m, r) = h[k]
  BY DEF QuitManager, Quitting, UnloadNext
<1> HIDE DEF order
<1>5. /\ k \in Nat /\ DOMAIN order = 1 .. k
      /\ \A i \in 1 .. k : order[i] \in m.loaded /\ order[i] \in Plugins
      /\ \A p \in m.loaded : \E i \in 1 .. k : order[i] = p
  BY <1>1, <1>2
<1>6. ASSUME NEW x \in T, NEW i \in 1 .. k
      PROVE  UnloadNext(x, order[i], r) \in T
  BY <1>5, UnloadNextLaw DEF Closes
<1>7. m \in T
  OBVIOUS
<1> HIDE DEF k, T, h
<1>8. G \in Rounds(T, k) /\ \A x \in T, i \in 1 .. k : G[<<x, i>>] = UnloadNext(x, order[i], r)
  <2>1. \A x \in T \X (1 .. k) : UnloadNext(x[1], order[x[2]], r) \in T
    BY <1>6
  <2> QED BY <2>1 DEF Rounds
<1> HIDE DEF G
<1>9. PICK f : Loop(f, T, m, k, G)
  BY <1>5, <1>7, <1>8, LoopExists
<1>10. f \in [0 .. k -> T] /\ f[0] = m /\ \A i \in 1 .. k : f[i] = G[<<f[i - 1], i>>]
  BY <1>9 DEF Loop
<1>11. ASSUME NEW i \in 0 .. k
       PROVE  f[i] = IF i = 0 THEN m ELSE UnloadNext(f[i - 1], order[i], r)
  <2>1. CASE i = 0
    BY <1>10, <2>1
  <2>2. CASE i # 0
    <3>1. i \in 1 .. k /\ f[i - 1] \in T
      BY <1>5, <1>10, <2>2
    <3> QED BY <1>8, <1>10, <2>2, <3>1
  <2> QED BY <2>1, <2>2
<1>12. f = [i \in 0 .. k |-> IF i = 0 THEN m ELSE UnloadNext(f[i - 1], order[i], r)]
  BY <1>10, <1>11
<1>13. h = [i \in 0 .. k |-> IF i = 0 THEN m ELSE UnloadNext(h[i - 1], order[i], r)]
  BY <1>3, <1>12
<1>14. h[0] = m /\ \A i \in 1 .. k : h[i] = UnloadNext(h[i - 1], order[i], r)
  BY <1>5, <1>13
<1> QED BY <1>4, <1>5, <1>14 DEF order, k, h

\* quit() of the manager returns when every plugin is off and every library that
\* can be closed is, which it does unless a quit function fails.
LEMMA QuitManagerLaw ==
  ASSUME NEW m \in States, Sound(m), ~m.thrown, NEW r \in [Plugins -> QuitOutcomes]
  PROVE  LET u == QuitManager(m, r)
         IN /\ Closes(u, m)
            /\ ~u.thrown => u.enabled = {} /\ ("close" \in MayFail \/ u.loaded = {})
            /\ Intact(m) /\ (\A p \in m.loaded : r[p].quit = "ok") =>
                 ~u.thrown /\ Intact(u) /\ Spares(u, m)
<1> DEFINE order == SetToSeq(m.loaded)
           k == Len(order)
           at(i) == Quitting(m, r)[i]
           fine == Intact(m) /\ \A p \in m.loaded : r[p].quit = "ok"
           P(i) ==
             /\ Closes(at(i), m)
             /\ ~at(i).thrown =>
                  \A j \in 1 .. i : /\ order[j] \notin at(i).enabled
                                    /\ "close" \in MayFail \/ order[j] \notin at(i).loaded
             /\ fine => ~at(i).thrown /\ Intact(at(i)) /\ Spares(at(i), m)
           S == {i \in Nat : i <= k => P(i)}
<1>1. /\ k \in Nat
      /\ \A i \in 1 .. k : order[i] \in m.loaded
      /\ \A p \in m.loaded : \E i \in 1 .. k : order[i] = p
      /\ QuitManager(m, r) = at(k) /\ at(0) = m
      /\ \A i \in 1 .. k : at(i) = UnloadNext(at(i - 1), order[i], r)
  BY QuittingFacts
<1>2. m.loaded \subseteq Plugins
  BY DEF States
<1> HIDE DEF order, k, at, fine
<1>3. 0 \in S
  <2>1. Closes(m, m) /\ Spares(m, m) /\ (fine => Intact(m))
    BY DEF Closes, Shrinks, Spares, fine
  <2>2. P(0)
    BY <1>1, <2>1
  <2> QED BY <2>2
<1>4. ASSUME NEW i \in Nat, i \in S
      PROVE  i + 1 \in S
  <2> SUFFICES ASSUME i + 1 <= k PROVE P(i + 1)
    OBVIOUS
  <2> DEFINE a == at(i)
             u == at(i + 1)
             p == order[i + 1]
  <2>1. P(i) /\ i + 1 \in 1 .. k /\ (i + 1) - 1 = i
    BY <1>1, <1>4
  <2>2. /\ Closes(a, m)
        /\ ~a.thrown =>
             \A j \in 1 .. i : /\ order[j] \notin a.enabled
                               /\ "close" \in MayFail \/ order[j] \notin a.loaded
        /\ fine => ~a.thrown /\ Intact(a) /\ Spares(a, m)
    BY <2>1
  <2>3. p \in Plugins /\ p \in m.loaded /\ u = UnloadNext(a, p, r)
    BY <1>1, <1>2, <2>1
  <2> HIDE DEF a, u, p, P
  <2>4. /\ Closes(u, a) /\ (a.thrown => u.thrown)
        /\ ~u.thrown => p \notin u.enabled /\ (r[p].close = "ok" => p \notin u.loaded)
        /\ Intact(a) /\ ~a.thrown /\ r[p].quit = "ok" =>
             ~u.thrown /\ Intact(u) /\ Spares(u, a)
    BY <2>2, <2>3, UnloadNextLaw DEF Closes
  <2>5. Closes(u, m) /\ (Spares(a, m) /\ Spares(u, a) => Spares(u, m))
    BY <2>2, <2>4, ClosesMore
  <2>6. "close" \in MayFail \/ r[p].close = "ok"
    <3>1. r[p] \in QuitOutcomes
      BY <2>3
    <3> QED BY <3>1 DEF QuitOutcomes, May
  <2>7. ASSUME ~u.thrown, NEW j \in 1 .. i + 1
        PROVE  /\ order[j] \notin u.enabled
               /\ "close" \in MayFail \/ order[j] \notin u.loaded
    <3>1. CASE j = i + 1
      BY <2>4, <2>6, <2>7, <3>1 DEF p
    <3>2. CASE j # i + 1
      <4>1. j \in 1 .. i /\ ~a.thrown
        BY <2>4, <2>7, <3>2
      <4> QED BY <2>2, <2>4, <4>1 DEF Closes
    <3> QED BY <3>1, <3>2
  <2>8. fine => ~u.thrown /\ Intact(u) /\ Spares(u, m)
    <3>1. fine => r[p].quit = "ok"
      BY <2>3 DEF fine
    <3> QED BY <2>2, <2>4, <2>5, <3>1
  <2> QED BY <2>5, <2>7, <2>8 DEF P, u
<1>5. P(k)
  <2> HIDE DEF P
  <2>1. \A i \in Nat : i \in S
    <3> HIDE DEF S
    <3> QED BY <1>3, <1>4, Induction
  <2> QED BY <1>1, <2>1
<1>6. ASSUME ~at(k).thrown
      PROVE  at(k).enabled = {} /\ ("close" \in MayFail \/ at(k).loaded = {})
  <2>1. at(k).enabled \subseteq m.loaded /\ at(k).loaded \subseteq m.loaded
    BY <1>5 DEF Closes, Sound
  <2> QED BY <1>1, <1>5, <1>6, <2>1
<1> QED BY <1>1, <1>5, <1>6 DEF fine

\* The names the modules register are commands, no two of them the same.
LEMMA NamesFacts ==
  /\ CoreNames \in Seq(Names) /\ SetupNames \in Seq(Names)
  /\ IsInjective(CoreNames) /\ IsInjective(SetupNames)
  /\ \A i \in DOMAIN CoreNames : CoreNames[i] \in ToSet(CoreNames)
  /\ \A i \in DOMAIN SetupNames : SetupNames[i] \in ToSet(SetupNames)
  /\ \A n \in ToSet(CoreNames) : \E i \in DOMAIN CoreNames : CoreNames[i] = n
  /\ \A n \in ToSet(SetupNames) : \E i \in DOMAIN SetupNames : SetupNames[i] = n
  /\ ToSet(CoreNames) \subseteq Names /\ ToSet(SetupNames) \subseteq Names
  /\ ToSet(CoreNames) \cap ToSet(SetupNames) = {}
<1>1. ASSUME NEW names \in Seq(STRING), ToSet(names) \subseteq Names
      PROVE  /\ names \in Seq(Names)
             /\ \A i \in DOMAIN names : names[i] \in ToSet(names)
             /\ \A n \in ToSet(names) : \E i \in DOMAIN names : names[i] = n
  <2>1. /\ \A i \in DOMAIN names : names[i] \in ToSet(names)
        /\ \A n \in ToSet(names) : \E i \in DOMAIN names : names[i] = n
    BY DEF ToSet
  <2>2. DOMAIN names = 1 .. Len(names) /\ Len(names) \in Nat
    OBVIOUS
  <2>3. \A i \in 1 .. Len(names) : names[i] \in Names
    BY <1>1, <2>1, <2>2
  <2> QED BY <2>1, <2>2, <2>3
<1>2. ToSet(CoreNames) \subseteq Names /\ ToSet(SetupNames) \subseteq Names
  <2>1. \A U, a, b : a \subseteq U \cup a \cup b /\ b \subseteq U \cup a \cup b
    OBVIOUS
  <2> QED BY <2>1 DEF Names
<1>3. CoreNames \in Seq(STRING) /\ SetupNames \in Seq(STRING)
  BY PluginsAssumption
<1> QED BY <1>1, <1>2, <1>3, PluginsAssumption

\* Two states that differ in what was read and thrown only.
LEMMA SameLaw ==
  ASSUME NEW a, NEW b, Keeps(b, a), b.commands = a.commands
  PROVE  /\ Sound(a) => Sound(b)
         /\ Intact(a) => Intact(b)
         /\ \A names, by : Registered(a, names, by) => Registered(b, names, by)
<1>1. Sound(a) => Sound(b)
  BY DEF Keeps, Sound, Owns
<1>2. Intact(a) => Intact(b)
  BY DEF Keeps, Intact, Finds
<1>3. \A names, by : Registered(a, names, by) => Registered(b, names, by)
  BY DEF Registered
<1> QED BY <1>1, <1>2, <1>3

\* What stop() does with the plugin manager.
LEMMA StopManagerLaw ==
  ASSUME NEW m \in States, Sound(m), ~m.thrown, NEW r \in [Plugins -> QuitOutcomes]
  PROVE  LET u == StopManager(m, r)
         IN /\ Closes(u, m)
            /\ ~u.thrown => /\ u.enabled = {} /\ ("close" \in MayFail \/ u.loaded = {})
                            /\ \A n \in ToSet(SetupNames) : u.commands[n] = "none"
            /\ Intact(m) /\ Registered(m, CoreNames, "cmd")
                 /\ Registered(m, SetupNames, "setup")
                 /\ (\A p \in m.loaded : r[p].quit = "ok")
               => ~u.thrown /\ Registered(u, CoreNames, "cmd")
<1> DEFINE torn == UnregisterAll(m, SetupNames)
           q == QuitManager(torn, r)
           u == StopManager(m, r)
           fine == /\ Intact(m) /\ Registered(m, CoreNames, "cmd")
                   /\ Registered(m, SetupNames, "setup")
                   /\ \A p \in m.loaded : r[p].quit = "ok"
<1>1. /\ torn \in States /\ Keeps(torn, m) /\ Shrinks(torn, m)
      /\ ~torn.thrown => \A i \in DOMAIN SetupNames : torn.commands[SetupNames[i]] = "none"
      /\ \A n \in Names :
           (\A i \in DOMAIN SetupNames : SetupNames[i] # n) => torn.commands[n] = m.commands[n]
      /\ (\A i \in DOMAIN SetupNames : m.commands[SetupNames[i]] # "none") => ~torn.thrown
  BY NamesFacts, UnregisterAllLaw
<1>2. u = IF torn.thrown THEN torn ELSE q
  BY DEF StopManager
<1> HIDE DEF torn, u
<1>3. Closes(torn, m)
  BY <1>1, FewerCommandsLaw DEF Closes, Keeps
<1>4. fine => /\ ~torn.thrown /\ Intact(torn) /\ Registered(torn, CoreNames, "cmd")
              /\ \A p \in torn.loaded : r[p].quit = "ok"
  <2> SUFFICES ASSUME fine
               PROVE  /\ ~torn.thrown /\ Intact(torn) /\ Registered(torn, CoreNames, "cmd")
                      /\ \A p \in torn.loaded : r[p].quit = "ok"
    OBVIOUS
  <2>1. ~torn.thrown
    BY <1>1 DEF Registered
  <2>2. \A n \in Names : m.commands[n] # "setup" => torn.commands[n] = m.commands[n]
    BY <1>1 DEF Registered
  <2>3. Registered(torn, CoreNames, "cmd")
    <3> SUFFICES ASSUME NEW i \in DOMAIN CoreNames
                 PROVE  torn.commands[CoreNames[i]] = "cmd"
      BY DEF Registered
    <3>1. CoreNames[i] \in Names /\ m.commands[CoreNames[i]] = "cmd"
      BY NamesFacts DEF Registered
    <3> QED BY <2>2, <3>1
  <2>4. Intact(torn)
    <3> SUFFICES ASSUME NEW p \in torn.enabled PROVE Finds(torn, p)
      BY DEF Intact
    <3>1. p \in Plugins /\ Finds(m, p) /\ torn.entry[p] = m.entry[p]
      BY <1>1 DEF Intact, Keeps, States
    <3>2. p # "setup"
      BY <3>1, PluginsAssumption
    <3>3. \A i \in DOMAIN m.entry[p] : m.entry[p][i].name \in Names
      BY <3>1, EntryFacts
    <3> QED BY <2>2, <3>1, <3>2, <3>3 DEF Finds
  <2> QED BY <1>1, <2>1, <2>3, <2>4 DEF Keeps
<1>5. CASE torn.thrown
  <2>1. u = torn /\ ~fine
    BY <1>2, <1>4, <1>5
  <2> QED BY <1>3, <1>5, <2>1 DEF u
<1>6. CASE ~torn.thrown
  <2>1. torn \in States /\ Sound(torn)
    BY <1>3 DEF Closes
  <2>2. /\ Closes(q, torn)
        /\ ~q.thrown => q.enabled = {} /\ ("close" \in MayFail \/ q.loaded = {})
        /\ Intact(torn) /\ (\A p \in torn.loaded : r[p].quit = "ok") =>
             ~q.thrown /\ Intact(q) /\ Spares(q, torn)
    BY <1>6, <2>1, QuitManagerLaw
  <2> HIDE DEF q
  <2>3. Closes(q, m) /\ u = q
    BY <1>2, <1>3, <1>6, <2>2, ClosesMore
  <2>4. \A n \in ToSet(SetupNames) : q.commands[n] = "none"
    <3>1. \A n \in ToSet(SetupNames) : n \in Names /\ torn.commands[n] = "none"
      BY <1>1, <1>6, NamesFacts
    <3> QED BY <2>2, <3>1 DEF Closes, Shrinks
  <2>5. fine => ~q.thrown /\ Registered(q, CoreNames, "cmd")
    <3> SUFFICES ASSUME fine, NEW i \in DOMAIN CoreNames
                 PROVE  ~q.thrown /\ q.commands[CoreNames[i]] = "cmd"
      BY <1>4, <2>2 DEF Registered
    <3>1. CoreNames[i] \in Names /\ torn.commands[CoreNames[i]] = "cmd"
      BY <1>4, NamesFacts DEF Registered
    <3> QED BY <1>4, <2>2, <3>1 DEF Spares
  <2> QED BY <2>2, <2>3, <2>4, <2>5 DEF u
<1> QED BY <1>5, <1>6

-----------------------------------------------------------------------------
(* The invariant.                                                          *)

\* A command finds a state that the laws are about.
LEMMA StateFacts ==
  ASSUME IndInv
  PROVE  /\ State \in States /\ Sound(State) /\ ~State.thrown
         /\ State.loaded = loaded /\ State.enabled = enabled /\ State.inited = inited
         /\ State.entry = entry /\ State.commands = commands /\ State.touched = touched
  BY DEF IndInv, TypeOK, State, States

\* What it leaves is the next state.
LEMMA BecomeFacts ==
  ASSUME NEW u \in States, Become(u)
  PROVE  Keeps(State', u) /\ State'.commands = u.commands /\ State' \in States
<1>1. /\ State'.loaded = loaded' /\ State'.enabled = enabled' /\ State'.inited = inited'
      /\ State'.entry = entry' /\ State'.commands = commands'
  BY DEF State
<1>2. Keeps(State', u) /\ State'.commands = u.commands
  BY <1>1 DEF Become, Keeps
<1>3. State' \in States
  BY DEF Become, State, States
<1> QED BY <1>2, <1>3

\* The next state keeps the invariant when the record does.
LEMMA NextInv ==
  ASSUME State' \in States, Sound(State'),
         context' \in {"live", "null"}, start' \in {"load", "setup", "up"},
         killed' \in BOOLEAN, stopped' \in BOOLEAN, faulted' \in BOOLEAN,
         start' # "up" => enabled' = {} /\ ~killed' /\ context' = "live",
         ~faulted' /\ ~killed' =>
           /\ Intact(State')
           /\ Registered(State', CoreNames, "cmd")
           /\ start' = "up" => Registered(State', SetupNames, "setup"),
         killed' /\ ~faulted' => stopped',
         stopped' => killed' /\ context' = "null",
         CleanStop'
  PROVE  IndInv'
<1>1. /\ loaded' \subseteq Plugins /\ enabled' \subseteq Plugins /\ inited' \subseteq Plugins
      /\ entry' \in [Plugins -> Seq(Command)]
      /\ commands' \in [Names -> Plugins \cup {"cmd", "setup", "none"}]
      /\ touched' \in BOOLEAN
  BY DEF State, States
<1>2. \A p \in Plugins \ loaded' : entry'[p] = <<>>
  BY DEF Sound, State
<1> QED BY <1>1, <1>2 DEF IndInv, TypeOK

LEMMA InitInv == Init => IndInv
<1> SUFFICES ASSUME Init PROVE IndInv
  OBVIOUS
<1> USE DEF Init
<1>1. /\ State.loaded = {} /\ State.enabled = {} /\ State.inited = {}
      /\ State.entry = entry /\ State.commands = commands
  BY DEF State
<1>2. State \in States
  <2>1. <<>> \in Seq(Command)
    OBVIOUS
  <2> QED BY <2>1 DEF State, States
<1>3. \A n \in Names : commands[n] = IF n \in ToSet(CoreNames) THEN "cmd" ELSE "none"
  OBVIOUS
<1>4. Sound(State)
  BY <1>1, <1>3, PluginsAssumption DEF Sound
<1>5. Intact(State)
  BY <1>1 DEF Intact
<1>6. Registered(State, CoreNames, "cmd")
  BY <1>1, <1>3, NamesFacts DEF Registered
<1>7. TypeOK
  BY <1>2 DEF TypeOK, State, States
<1> QED BY <1>4, <1>5, <1>6, <1>7 DEF IndInv, CleanStop

LEMMA LoadInv ==
  ASSUME IndInv, NEW p \in Plugins, Load(p)
  PROVE  IndInv'
<1> USE DEF Load
<1>1. /\ State'.loaded = loaded \cup {p} /\ State'.enabled = State.enabled
      /\ State'.inited = State.inited /\ State'.entry = State.entry
      /\ State'.commands = State.commands /\ State.loaded = loaded
  BY DEF State
<1>2. State' \in States
  BY DEF IndInv, TypeOK, State, States
<1>3. Sound(State')
  BY <1>1 DEF IndInv, Sound, Owns
<1>4. Intact(State) => Intact(State')
  BY <1>1 DEF Intact, Finds
<1>5. Registered(State, CoreNames, "cmd") => Registered(State', CoreNames, "cmd")
  BY <1>1 DEF Registered
<1>6. CleanStop'
  BY DEF IndInv, CleanStop
<1> QED BY <1>2, <1>3, <1>4, <1>5, <1>6, NextInv DEF IndInv, TypeOK


LEMMA LoadedInv ==
  ASSUME IndInv, Loaded
  PROVE  IndInv'
<1> USE DEF Loaded, managerVars
<1>1. State' = State
  BY DEF State
<1>2. State' \in States /\ Sound(State')
  BY <1>1, StateFacts
<1>3. CleanStop'
  BY DEF IndInv, CleanStop
<1> QED BY <1>1, <1>2, <1>3, NextInv DEF IndInv, TypeOK

LEMMA SetupInv ==
  ASSUME IndInv, Setup
  PROVE  IndInv'
<1> USE DEF Setup
<1>1. /\ State'.loaded = State.loaded /\ State'.enabled = State.enabled
      /\ State'.inited = State.inited /\ State'.entry = State.entry
      /\ State'.commands = commands' /\ State.commands = commands /\ State.enabled = {}
  BY DEF State, IndInv
<1>2. \A n \in Names : commands'[n] = IF n \in ToSet(SetupNames) THEN "setup" ELSE commands[n]
  OBVIOUS
<1>3. State' \in States
  <2>1. commands' \in [Names -> Plugins \cup {"cmd", "setup", "none"}]
    BY DEF IndInv, TypeOK
  <2> QED BY <2>1 DEF IndInv, TypeOK, State, States
<1>4. Sound(State')
  <2>1. Sound(State)
    BY DEF IndInv
  <2>2. ASSUME NEW n \in Names
        PROVE  /\ commands'[n] \notin Plugins
               /\ commands'[n] = "cmd" => n \in ToSet(CoreNames)
               /\ commands'[n] = "setup" => n \in ToSet(SetupNames)
    BY <1>1, <1>2, <2>1, PluginsAssumption DEF Sound
  <2> QED BY <1>1, <2>1, <2>2 DEF Sound
<1>5. Intact(State')
  BY <1>1 DEF Intact
<1>6. Registered(State, CoreNames, "cmd") => Registered(State', CoreNames, "cmd")
  BY <1>1, <1>2, NamesFacts DEF Registered
<1>7. Registered(State', SetupNames, "setup")
  BY <1>1, <1>2, NamesFacts DEF Registered
<1>8. CleanStop'
  BY DEF IndInv, CleanStop
<1> QED BY <1>3, <1>4, <1>5, <1>6, <1>7, <1>8, NextInv DEF IndInv, TypeOK

\* A command that turns a plugin on or off and leaves a state that is sound, and
\* intact when nothing but init has failed.
LEMMA TurnInv ==
  ASSUME IndInv, start = "up", context = "live",
         NEW u \in States, Sound(u), Become(u), NEW fault \in BOOLEAN,
         ~fault /\ Intact(State) => Intact(u) /\ Spares(u, State),
         faulted' = (faulted \/ fault), UNCHANGED <<context, start, killed, stopped>>
  PROVE  IndInv'
<1>1. Keeps(State', u) /\ State'.commands = u.commands /\ State' \in States
  BY BecomeFacts
<1>2. Sound(State') /\ (Intact(u) => Intact(State'))
  BY <1>1, SameLaw
<1>3. ASSUME Spares(u, State)
      PROVE  /\ Registered(State, CoreNames, "cmd") => Registered(State', CoreNames, "cmd")
             /\ Registered(State, SetupNames, "setup") => Registered(State', SetupNames, "setup")
  <2>1. Spares(State', State)
    BY <1>1, <1>3 DEF Spares
  <2>2. /\ \A i \in DOMAIN CoreNames : CoreNames[i] \in Names
        /\ \A i \in DOMAIN SetupNames : SetupNames[i] \in Names
    BY NamesFacts
  <2> QED BY <2>1, <2>2 DEF Spares, Registered
<1>4. ~stopped /\ CleanStop'
  BY DEF IndInv, CleanStop
<1>5. /\ killed \in BOOLEAN /\ stopped \in BOOLEAN /\ faulted' \in BOOLEAN
      /\ ~faulted' => ~faulted /\ ~fault
  BY DEF IndInv, TypeOK
<1>6. ~faulted' /\ ~killed' =>
        /\ Intact(State')
        /\ Registered(State', CoreNames, "cmd")
        /\ start' = "up" => Registered(State', SetupNames, "setup")
  BY <1>2, <1>3, <1>5 DEF IndInv
<1>7. killed' /\ ~faulted' => stopped'
  BY <1>5 DEF IndInv
<1> QED BY <1>1, <1>2, <1>4, <1>5, <1>6, <1>7, NextInv

LEMMA EnableInv ==
  ASSUME IndInv, NEW p \in Plugins, NEW r \in EnableOutcomes, PluginEnable(p, r)
  PROVE  IndInv'
<1>1. /\ State \in States /\ Sound(State) /\ ~State.thrown
      /\ p \in State.loaded /\ p \notin State.enabled
  BY StateFacts DEF PluginEnable
<1> DEFINE u == Enable(State, p, r)
<1>2. /\ u \in States /\ Sound(u)
      /\ ~Faulty(r) /\ Intact(State) => Intact(u) /\ Spares(u, State)
  BY <1>1, EnableLaw
<1>3. /\ start = "up" /\ context = "live" /\ Become(u)
      /\ faulted' = (faulted \/ Faulty(r)) /\ UNCHANGED <<context, start, killed, stopped>>
  BY DEF PluginEnable, MayRun
<1>4. Faulty(r) \in BOOLEAN
  BY DEF Faulty
<1> HIDE DEF u
<1> QED BY <1>2, <1>3, <1>4, TurnInv

LEMMA DisableInv ==
  ASSUME IndInv, NEW p \in Plugins, NEW r \in QuitOutcomes, PluginDisable(p, r)
  PROVE  IndInv'
<1>1. State \in States /\ Sound(State) /\ ~State.thrown /\ p \in State.enabled
  BY StateFacts DEF PluginDisable
<1>2. r.quit \in {"ok", "fail"} /\ (~Faulty(r) => r.quit = "ok")
  BY DEF QuitOutcomes, May, Faulty
<1> DEFINE u == Disable(State, p, r)
<1>3. /\ u \in States /\ Sound(u)
      /\ ~Faulty(r) /\ Intact(State) => Intact(u) /\ Spares(u, State)
  BY <1>1, <1>2, DisableLaw DEF Closes
<1>4. /\ start = "up" /\ context = "live" /\ Become(u)
      /\ faulted' = (faulted \/ Faulty(r)) /\ UNCHANGED <<context, start, killed, stopped>>
  BY DEF PluginDisable, MayRun
<1>5. Faulty(r) \in BOOLEAN
  BY DEF Faulty
<1> HIDE DEF u
<1> QED BY <1>3, <1>4, <1>5, TurnInv

LEMMA KillInv ==
  ASSUME IndInv, NEW r \in [Plugins -> QuitOutcomes], Kill(r)
  PROVE  IndInv'
<1> DEFINE m == State
           manager == StopManager(m, r)
           end == UnregisterAll(manager, CoreNames)
<1>1. /\ m \in States /\ Sound(m) /\ ~m.thrown /\ m.loaded = loaded
  BY StateFacts
<1>2. /\ start = "up" /\ context = "live" /\ Become(end)
      /\ context' = (IF manager.thrown THEN "live" ELSE "null")
      /\ stopped' = ~end.thrown /\ killed' = TRUE
      /\ faulted' = (faulted \/ \E p \in loaded : Faulty(r[p])) /\ start' = start
  BY DEF Kill, MayRun
<1>3. /\ Closes(manager, m)
      /\ ~manager.thrown =>
           /\ manager.enabled = {} /\ ("close" \in MayFail \/ manager.loaded = {})
           /\ \A n \in ToSet(SetupNames) : manager.commands[n] = "none"
      /\ Intact(m) /\ Registered(m, CoreNames, "cmd") /\ Registered(m, SetupNames, "setup")
           /\ (\A p \in m.loaded : r[p].quit = "ok")
         => ~manager.thrown /\ Registered(manager, CoreNames, "cmd")
  BY <1>1, StopManagerLaw
<1> HIDE DEF manager
<1>4. manager \in States /\ Sound(manager)
  BY <1>3 DEF Closes
<1>5. /\ end \in States /\ Keeps(end, manager) /\ Shrinks(end, manager)
      /\ ~end.thrown => ~manager.thrown
      /\ ~end.thrown => \A i \in DOMAIN CoreNames : end.commands[CoreNames[i]] = "none"
      /\ ~manager.thrown /\ (\A i \in DOMAIN CoreNames : manager.commands[CoreNames[i]] # "none")
           => ~end.thrown
  BY <1>4, NamesFacts, UnregisterAllLaw
<1> HIDE DEF end, m
<1>6. Sound(end)
  BY <1>4, <1>5, FewerCommandsLaw
<1>7. Keeps(State', end) /\ State'.commands = end.commands /\ State' \in States
  BY <1>2, <1>5, BecomeFacts
<1>8. Sound(State')
  BY <1>6, <1>7, SameLaw
<1>9. enabled' = end.enabled /\ loaded' = end.loaded /\ commands' = end.commands
  BY <1>2 DEF Become
<1>10. CleanStop'
  <2> SUFFICES ASSUME ~end.thrown
               PROVE  /\ enabled' = {} /\ ("close" \in MayFail \/ loaded' = {})
                      /\ \A n \in Names : commands'[n] = "none"
    BY <1>2 DEF CleanStop
  <2>1. /\ end.enabled = {} /\ ("close" \in MayFail \/ end.loaded = {})
        /\ \A n \in ToSet(SetupNames) : manager.commands[n] = "none"
    BY <1>3, <1>5 DEF Keeps
  <2>2. ASSUME NEW n \in Names
        PROVE  end.commands[n] = "none"
    <3>1. end.commands[n] \in Plugins \cup {"cmd", "setup", "none"}
      BY <1>5 DEF States
    <3>2. end.commands[n] \notin Plugins
      BY <1>6, <2>1 DEF Sound
    <3>3. end.commands[n] # "cmd"
      BY <1>5, <1>6, NamesFacts DEF Sound
    <3>4. end.commands[n] # "setup"
      BY <1>5, <1>6, <2>1, NamesFacts DEF Sound, Shrinks
    <3> QED BY <3>1, <3>2, <3>3, <3>4
  <2> QED BY <1>9, <2>1, <2>2
<1>11. ~faulted' => stopped'
  <2> SUFFICES ASSUME ~faulted' PROVE ~end.thrown
    BY <1>2
  <2>1. ~faulted /\ \A p \in loaded : ~Faulty(r[p])
    BY <1>2
  <2>2. ~killed
    BY <1>2, <2>1 DEF IndInv
  <2>3. Intact(m) /\ Registered(m, CoreNames, "cmd") /\ Registered(m, SetupNames, "setup")
    BY <1>2, <2>1, <2>2 DEF IndInv, m
  <2>4. \A p \in m.loaded : r[p].quit = "ok"
    <3> SUFFICES ASSUME NEW p \in m.loaded PROVE r[p].quit = "ok"
      OBVIOUS
    <3>1. r[p] \in QuitOutcomes /\ ~Faulty(r[p])
      BY <1>1, <2>1 DEF States
    <3> QED BY <3>1 DEF QuitOutcomes, May, Faulty
  <2>5. ~manager.thrown /\ Registered(manager, CoreNames, "cmd")
    BY <1>3, <2>3, <2>4
  <2> QED BY <1>5, <2>5 DEF Registered
<1>12. /\ killed' /\ killed' \in BOOLEAN /\ stopped' \in BOOLEAN /\ faulted' \in BOOLEAN
       /\ context' \in {"live", "null"} /\ start' = "up"
  BY <1>2 DEF IndInv, TypeOK
<1>13. stopped' => context' = "null"
  BY <1>2, <1>5
<1> QED BY <1>7, <1>8, <1>10, <1>11, <1>12, <1>13, NextInv

\* IndInv holds in every reachable state.
THEOREM Invariance == Spec => []IndInv
<1>1. Init => IndInv
  BY InitInv
<1>2. IndInv /\ [Next]_vars => IndInv'
  <2> SUFFICES ASSUME IndInv, [Next]_vars PROVE IndInv'
    OBVIOUS
  <2>1. CASE \E p \in Plugins : Load(p)
    BY <2>1, LoadInv
  <2>2. CASE Loaded
    BY <2>2, LoadedInv
  <2>3. CASE Setup
    BY <2>3, SetupInv
  <2>4. CASE \E p \in Plugins, r \in EnableOutcomes : PluginEnable(p, r)
    BY <2>4, EnableInv
  <2>5. CASE \E p \in Plugins, r \in QuitOutcomes : PluginDisable(p, r)
    BY <2>5, DisableInv
  <2>6. CASE \E r \in [Plugins -> QuitOutcomes] : Kill(r)
    BY <2>6, KillInv
  <2>7. CASE UNCHANGED vars
    <3>1. State' = State
      BY <2>7 DEF vars, managerVars, State
    <3> QED BY <2>7, <3>1 DEF vars, managerVars, IndInv, TypeOK, CleanStop
  <2> QED BY <2>1, <2>2, <2>3, <2>4, <2>5, <2>6, <2>7 DEF Next
<1> QED BY <1>1, <1>2, PTL DEF Spec

-----------------------------------------------------------------------------
(* The properties.                                                         *)

\* Whatever fails or throws, init and quit of a plugin are called in turns
\* (enable(), disable() and unload() of plugin.cpp).
THEOREM InitAndQuitInTurns == Spec => []QuitMatchesInit
<1>1. IndInv => QuitMatchesInit
  BY StateFacts DEF Sound, QuitMatchesInit
<1> QED BY <1>1, Invariance, PTL

\* No command of a closed library can be given (call_plugin_add_commands() and
\* remove_plugin_commands() of plugin.cpp).
THEOREM NoCommandOfClosed == Spec => []CommandOfEnabled
<1>1. IndInv => CommandOfEnabled
  <2> SUFFICES ASSUME IndInv, NEW n \in Names, commands[n] \in Plugins
               PROVE  LET p == commands[n]
                      IN p \in enabled /\ \E i \in DOMAIN entry[p] : entry[p][i].name = n
    BY DEF CommandOfEnabled
  <2> QED BY StateFacts DEF Sound, Owns
<1> QED BY <1>1, Invariance, PTL

\* KILL stops the agent unless a function other than init has failed, and what
\* stop() leaves when it succeeds is clean (kill_func() of cmd.cpp, stop() of
\* msa.cpp).
THEOREM StopsCleanly == Spec => []KillStopsCleanly
<1>1. IndInv => KillStopsCleanly
  BY DEF IndInv, KillStopsCleanly, KillStopsUnlessFaulted
<1> QED BY <1>1, Invariance, PTL

-----------------------------------------------------------------------------
(* Sequences and lines.                                                    *)

\* Of what set a sequence is does not matter.
LEMMA SeqLaw ==
  ASSUME NEW S, NEW s \in Seq(S)
  PROVE  IsSeq(s) /\ \A i \in 1 .. Len(s) : s[i] \in ToSet(s) /\ s[i] \in S
BY DEF IsSeq, ToSet

\* A sequence has a length, and its elements are at 1 .. Len.
LEMMA IsSeqLaw ==
  ASSUME NEW s, IsSeq(s)
  PROVE  Len(s) \in Nat /\ DOMAIN s = 1 .. Len(s) /\ ToSet(s) = {s[i] : i \in 1 .. Len(s)}
BY DEF IsSeq, ToSet

LEMMA EmptyLaw == IsSeq(Empty) /\ Len(Empty) = 0 /\ DOMAIN Empty = {}
BY DEF IsSeq, Empty, ToSet

\* The greater of two numbers.
LEMMA MaxLaw ==
  ASSUME NEW a \in Nat, NEW b \in Nat
  PROVE  Max({a, b}) = IF a >= b THEN a ELSE b
BY DEF Max

\* The smaller of two numbers.
LEMMA MinLaw ==
  ASSUME NEW a \in Nat, NEW b \in Nat
  PROVE  Min({a, b}) = IF a >= b THEN b ELSE a
BY DEF Min

\* The list has the value v where index says, or at the end, and keeps the others.
Places(list, values, index, v) ==
  /\ IsSeq(list) /\ Len(list) >= Len(values)
  /\ index # NoIndex => Len(list) > index /\ list[index + 1] = v
  /\ \A i \in Nat : i < Len(values) /\ i # index => list[i + 1] = values[i + 1]

\* A value is put where its index says, or at the end; no other value goes.
LEMMA PutLaw ==
  ASSUME NEW values, IsSeq(values), NEW index \in Nat \cup {NoIndex}, NEW v
  PROVE  Places(Put(values, index, v), values, index, v)
<1> DEFINE put == Put(values, index, v)
           S == ToSet(values) \cup {v, Empty}
<1> SUFFICES Places(put, values, index, v)
  OBVIOUS
<1>1. Len(values) \in Nat /\ values \in Seq(S)
  BY IsSeqLaw DEF IsSeq, ToSet
<1>2. CASE index = NoIndex
  <2>1. put = Append(values, v)
    BY <1>2 DEF Put
  <2>2. put \in Seq(S) /\ Len(put) = Len(values) + 1
    BY <1>1, <2>1
  <2>3. \A i \in Nat : i < Len(values) => put[i + 1] = values[i + 1]
    BY <1>1, <2>1
  <2> HIDE DEF put
  <2> QED BY <1>1, <1>2, <2>2, <2>3, SeqLaw DEF Places
<1>3. CASE index # NoIndex
  <2> DEFINE n == IF Len(values) >= index + 1 THEN Len(values) ELSE index + 1
  <2>1. index \in Nat /\ n \in Nat /\ n >= Len(values) /\ n > index
    BY <1>1, <1>3
  <2>2. put = [i \in 1 .. n |-> IF i = index + 1 THEN v
                                ELSE IF i <= Len(values) THEN values[i] ELSE Empty]
    BY <1>1, <1>3, <2>1, MaxLaw DEF Put
  <2> HIDE DEF n
  <2>3. put \in [1 .. n -> S]
    BY <1>1, <2>1, <2>2
  <2>4. put \in Seq(S) /\ Len(put) = n
    BY <2>1, <2>3
  <2>5. index + 1 \in 1 .. n /\ put[index + 1] = v
    BY <2>1, <2>2
  <2>6. \A i \in Nat : i < Len(values) /\ i # index => put[i + 1] = values[i + 1]
    BY <1>1, <2>1, <2>2
  <2> HIDE DEF put
  <2> QED BY <2>1, <2>4, <2>5, <2>6, SeqLaw DEF Places
<1> QED BY <1>2, <1>3

\* A section that is found is a section, and one that is not has no key.
LEMMA SectionLaw ==
  ASSUME IsConfig(config), NEW name
  PROVE  /\ IsFiniteSet(DOMAIN Section(name))
         /\ \A key : IsSeq(ValuesIn(Section(name), key))
<1>1. IsFiniteSet({})
  BY FS_EmptySet
<1>2. CASE name \in DOMAIN config
  <2>1. Section(name) = config[name]
    BY <1>2 DEF Section
  <2>2. IsFiniteSet(DOMAIN config[name]) /\ \A key \in DOMAIN config[name] : IsSeq(config[name][key])
    BY <1>2 DEF IsConfig
  <2> QED BY <2>1, <2>2, EmptyLaw DEF ValuesIn
<1>3. CASE name \notin DOMAIN config
  <2>1. Section(name) = Empty
    BY <1>3 DEF Section
  <2> QED BY <1>1, <2>1, EmptyLaw DEF ValuesIn
<1> QED BY <1>2, <1>3

\* A configuration with another section is one.
LEMMA WithSectionLaw ==
  ASSUME NEW c, IsConfig(c), NEW name, NEW sec,
         IsFiniteSet(DOMAIN sec), \A key \in DOMAIN sec : IsSeq(sec[key])
  PROVE  IsConfig(With(c, name, sec))
<1> DEFINE d == With(c, name, sec)
<1>1. DOMAIN d = DOMAIN c \cup {name} /\ d[name] = sec
      /\ \A x \in DOMAIN c : x # name => d[x] = c[x]
  BY DEF With
<1> SUFFICES IsConfig(d)
  OBVIOUS
<1> HIDE DEF d
<1>2. IsFiniteSet(DOMAIN d)
  BY <1>1, FS_AddElement DEF IsConfig
<1>3. ASSUME NEW x \in DOMAIN d
      PROVE  IsFiniteSet(DOMAIN d[x]) /\ \A key \in DOMAIN d[x] : IsSeq(d[x][key])
  <2>1. CASE x = name
    BY <1>1, <2>1
  <2>2. CASE x # name
    <3>1. x \in DOMAIN c /\ d[x] = c[x]
      BY <1>1, <1>3, <2>2
    <3> QED BY <3>1 DEF IsConfig
  <2> QED BY <2>1, <2>2
<1> QED BY <1>2, <1>3 DEF IsConfig

\* The section of a line is that of the line before it but for a header.
LEMMA SectionAtLaw ==
  ASSUME NEW i \in Nat \ {0}
  PROVE  /\ file[i].kind = "header" => SectionAt(i) = file[i].name
         /\ file[i].kind # "header" => SectionAt(i) = SectionAt(i - 1)
<1> DEFINE H(n) == {j \in 1 .. n : file[j].kind = "header"}
<1>1. CASE file[i].kind = "header"
  <2>1. i \in H(i) /\ \A j \in H(i) : i >= j
    BY <1>1
  <2>2. Max(H(i)) = i
    BY <2>1 DEF Max
  <2>3. SectionAt(i) = file[Max(H(i))].name
    BY <2>1 DEF SectionAt
  <2> QED BY <1>1, <2>2, <2>3
<1>2. CASE file[i].kind # "header"
  <2>1. H(i) = H(i - 1)
    BY <1>2
  <2> QED BY <1>2, <2>1 DEF SectionAt
<1> QED BY <1>1, <1>2

-----------------------------------------------------------------------------
(* load().                                                                 *)

\* The list of a key in a configuration.
List(c, name, key) ==
  ValuesIn(IF name \in DOMAIN c THEN c[name] ELSE Empty, key)

LEMMA ListLaw ==
  ASSUME NEW name, NEW key
  PROVE  /\ List(config, name, key) = ValuesIn(Section(name), key)
         /\ List(config', name, key) = ValuesIn(Section(name), key)'
BY DEF List, Section, ValuesIn

\* A pair changes one list, of the section that it is in.
LEMMA ReadPairLaw ==
  ASSUME IsConfig(config), NEW l, l.index \in Nat \cup {NoIndex}, ReadPair(l)
  PROVE  /\ IsConfig(config')
         /\ Places(List(config', section, l.key), List(config, section, l.key),
                   l.index, Unquote(Trim(l.value)))
         /\ \A name, key : (name # section \/ key # l.key) =>
              List(config', name, key) = List(config, name, key)
<1> DEFINE sec == Section(section)
           old == ValuesIn(sec, l.key)
           values == Put(old, l.index, Unquote(Trim(l.value)))
           new == With(sec, l.key, values)
<1>1. config' = With(config, section, new)
  BY DEF ReadPair
<1>2. IsFiniteSet(DOMAIN sec) /\ \A key : IsSeq(ValuesIn(sec, key))
  BY SectionLaw
<1>3. old = List(config, section, l.key)
  BY ListLaw
<1>4. Places(values, old, l.index, Unquote(Trim(l.value)))
  <2> HIDE DEF old
  <2> QED BY <1>2, PutLaw DEF old
<1>5. IsSeq(values)
  BY <1>4 DEF Places
<1> HIDE DEF values
<1>6. /\ DOMAIN new = DOMAIN sec \cup {l.key} /\ new[l.key] = values
      /\ \A key \in DOMAIN sec : key # l.key => new[key] = sec[key]
  BY DEF With
<1>7. IsFiniteSet(DOMAIN new) /\ \A key \in DOMAIN new : IsSeq(new[key])
  <2>1. IsFiniteSet(DOMAIN new)
    BY <1>2, <1>6, FS_AddElement
  <2>2. \A key \in DOMAIN sec : IsSeq(sec[key])
    BY <1>2 DEF ValuesIn
  <2> QED BY <1>5, <1>6, <2>1, <2>2
<1>8. \A key : key # l.key => ValuesIn(new, key) = ValuesIn(sec, key)
  BY <1>6 DEF ValuesIn
<1>9. ValuesIn(new, l.key) = values
  BY <1>6 DEF ValuesIn
<1> HIDE DEF new
<1>10. /\ section \in DOMAIN config' /\ config'[section] = new
       /\ \A name : name # section => /\ name \in DOMAIN config' <=> name \in DOMAIN config
                                      /\ name \in DOMAIN config => config'[name] = config[name]
  BY <1>1 DEF With
<1>11. IsConfig(config')
  BY <1>1, <1>7, WithSectionLaw
<1>12. \A key : List(config', section, key) = ValuesIn(new, key)
  BY <1>10 DEF List
<1>13. \A name, key : name # section => List(config', name, key) = List(config, name, key)
  BY <1>10 DEF List
<1>14. \A key : List(config, section, key) = ValuesIn(sec, key)
  BY ListLaw
<1> HIDE DEF sec
<1>15. \A key : key # l.key => List(config', section, key) = List(config, section, key)
  BY <1>8, <1>12, <1>14
<1> QED BY <1>3, <1>4, <1>9, <1>11, <1>12, <1>13, <1>15

\* A header empties one section.
LEMMA ReadHeaderLaw ==
  ASSUME IsConfig(config), NEW l, ReadHeader(l)
  PROVE  /\ IsConfig(config')
         /\ \A name, key : name # l.name =>
              List(config', name, key) = List(config, name, key)
<1>1. config' = With(config, l.name, Empty)
  BY DEF ReadHeader
<1>2. IsConfig(config')
  BY <1>1, WithSectionLaw, EmptyLaw, FS_EmptySet
<1>3. \A name : name # l.name => /\ name \in DOMAIN config' <=> name \in DOMAIN config
                                 /\ name \in DOMAIN config => config'[name] = config[name]
  BY <1>1 DEF With
<1> QED BY <1>2, <1>3 DEF List

\* Assigned() in terms of the list.
Holds(list, l) ==
  Len(list) > l.index /\ list[l.index + 1] = Unquote(Trim(l.value))

LEMMA AssignedLaw ==
  ASSUME NEW i
  PROVE  /\ Assigned(i) <=> Holds(List(config, SectionAt(i), file[i].key), file[i])
         /\ UNCHANGED file =>
              (Assigned(i)' <=> Holds(List(config', SectionAt(i), file[i].key), file[i]))
<1>1. Assigned(i) <=> Holds(List(config, SectionAt(i), file[i].key), file[i])
  BY DEF Assigned, Holds, List, Section
<1>2. ASSUME UNCHANGED file
      PROVE  Assigned(i)' <=> Holds(List(config', SectionAt(i), file[i].key), file[i])
  BY <1>2 DEF Assigned, Holds, List, Section, SectionAt
<1> QED BY <1>1, <1>2

\* What the invariant says of the lines that were read depends on the file alone,
\* but for what the lists hold.
LEMMA FileKept ==
  ASSUME UNCHANGED file
  PROVE  /\ \A i : /\ SectionAt(i)' = SectionAt(i) /\ (Indexed(i)' <=> Indexed(i))
                   /\ \A n : LastUpTo(i, n)' <=> LastUpTo(i, n)
         /\ UNCHANGED ended => LinesRead' = LinesRead
<1>1. \A i : SectionAt(i)' = SectionAt(i)
  BY DEF SectionAt
<1>2. \A i, n : LastUpTo(i, n)' <=> LastUpTo(i, n)
  BY <1>1 DEF LastUpTo
<1> QED BY <1>1, <1>2 DEF Indexed, LinesRead

\* A line that is still to be read is a line.
LEMMA LineLaw ==
  ASSUME ConfigInv
  PROVE  /\ LinesRead \in Int /\ LinesRead <= Len(file)
         /\ \A i \in 1 .. LinesRead :
              /\ file[i].kind \in {"header", "pair", "junk"}
              /\ file[i].kind = "pair" => file[i].index \in Indices
<1>1. Len(file) \in Nat /\ ToSet(file) = {file[i] : i \in 1 .. Len(file)}
  BY IsSeqLaw DEF ConfigInv, IsFile
<1>2. LinesRead \in Int /\ LinesRead <= Len(file)
  BY <1>1 DEF ConfigInv, LinesRead
<1>3. \A i \in 1 .. LinesRead : file[i] \in ToSet(file)
  BY <1>1, <1>2
<1> QED BY <1>2, <1>3 DEF ConfigInv, IsFile, IsLine

\* What is read of one line: the lists that were there are kept, but for the list
\* of a pair, which gets its value, and for the section that a header drops.
LEMMA OneLineLaw ==
  ASSUME ConfigInv, ReadLine
  PROVE  /\ IsConfig(config')
         /\ correct' = (correct /\ ~Refused(file[pos]))
         /\ section' = SectionAt(pos)
         /\ ~Refused(file[pos]) => file[pos].kind \in {"header", "pair"}
         /\ \A name, key :
              (~Refused(file[pos]) =>
                 /\ name = SectionAt(pos) => file[pos].kind # "header" /\ key # file[pos].key)
              => List(config', name, key) = List(config, name, key)
         /\ ~Refused(file[pos]) /\ file[pos].kind = "pair" =>
              /\ file[pos].index \in Nat \cup {NoIndex}
              /\ Places(List(config', SectionAt(pos), file[pos].key),
                        List(config, SectionAt(pos), file[pos].key),
                        file[pos].index, Unquote(Trim(file[pos].value)))
<1> DEFINE l == file[pos]
<1>1. pos \in 1 .. LinesRead /\ pos \in Nat \ {0}
  BY LineLaw DEF ReadLine, ConfigInv
<1>2. l.kind \in {"header", "pair", "junk"} /\ (l.kind = "pair" => l.index \in Indices)
  BY <1>1, LineLaw
<1>3. IsConfig(config) /\ section = SectionAt(pos - 1) /\ correct \in BOOLEAN
  BY DEF ConfigInv
<1>4. section' = SectionAt(pos)
  <2>1. CASE l.kind = "header"
    BY <1>1, <2>1, SectionAtLaw DEF ReadLine
  <2>2. CASE l.kind # "header"
    BY <1>1, <1>3, <2>2, SectionAtLaw DEF ReadLine
  <2> QED BY <2>1, <2>2
<1>5. l.kind # "header" => SectionAt(pos) = section
  BY <1>1, <1>3, SectionAtLaw
<1>6. l.kind = "header" => SectionAt(pos) = l.name
  BY <1>1, SectionAtLaw
<1>7. correct' = (correct /\ ~Refused(l))
  BY DEF ReadLine, NoErrors
<1>8. ~Refused(l) => l.kind \in {"header", "pair"}
                     /\ (l.kind = "pair" => l.index \in Nat \cup {NoIndex})
  BY <1>2 DEF Refused, Indices
<1>9. CASE Refused(l)
  <2>1. UNCHANGED config
    BY <1>9 DEF ReadLine
  <2> QED BY <1>3, <1>4, <1>7, <1>9, <2>1
<1>10. CASE ~Refused(l) /\ l.kind = "header"
  <2>1. ReadHeader(l)
    BY <1>10 DEF ReadLine
  <2>2. /\ IsConfig(config')
        /\ \A name, key : name # l.name => List(config', name, key) = List(config, name, key)
    BY <1>3, <2>1, ReadHeaderLaw
  <2> QED BY <1>4, <1>6, <1>7, <1>10, <2>2
<1>11. CASE ~Refused(l) /\ l.kind = "pair"
  <2>1. ReadPair(l)
    BY <1>11 DEF ReadLine
  <2>2. /\ IsConfig(config')
        /\ Places(List(config', section, l.key), List(config, section, l.key),
                  l.index, Unquote(Trim(l.value)))
        /\ \A name, key : (name # section \/ key # l.key) =>
             List(config', name, key) = List(config, name, key)
    BY <1>3, <1>8, <1>11, <2>1, ReadPairLaw
  <2> QED BY <1>4, <1>5, <1>7, <1>8, <1>11, <2>2
<1> QED BY <1>8, <1>9, <1>10, <1>11

LEMMA ReadLineInv ==
  ASSUME ConfigInv, ReadLine
  PROVE  ConfigInv'
<1>1. pos \in 1 .. LinesRead /\ pos' = pos + 1 /\ pos' - 1 = pos
  BY LineLaw DEF ReadLine, ConfigInv
<1>2. UNCHANGED <<file, ended, phase, before>> /\ phase = "reading"
  BY DEF ReadLine
<1>3. LinesRead' = LinesRead /\ \A i : SectionAt(i)' = SectionAt(i)
  BY <1>2, FileKept
<1>4. IsFile(file)' /\ (ended \in BOOLEAN)'
  BY <1>2 DEF ConfigInv
<1>5. IsConfig(config)'
  BY OneLineLaw
<1>6. (section = SectionAt(pos - 1))'
  BY <1>1, <1>3, OneLineLaw
<1>7. correct' \in BOOLEAN /\ (correct' => correct /\ ~Refused(file[pos]))
  BY OneLineLaw DEF ConfigInv
<1>8. ASSUME correct', NEW i \in 1 .. pos, Indexed(i), LastUpTo(i, pos)
      PROVE  Holds(List(config', SectionAt(i), file[i].key), file[i])
  <2>1. CASE i = pos
    <3>1. file[i].kind = "pair" /\ file[i].index # NoIndex
      BY <1>8 DEF Indexed
    <3>2. Places(List(config', SectionAt(i), file[i].key), List(config, SectionAt(i), file[i].key),
                 file[i].index, Unquote(Trim(file[i].value)))
      BY <1>7, <1>8, <2>1, <3>1, OneLineLaw
    <3> QED BY <3>1, <3>2 DEF Places, Holds
  <2>2. CASE i # pos
    <3> DEFINE old == List(config, SectionAt(i), file[i].key)
               new == List(config', SectionAt(i), file[i].key)
    <3>1. i \in 1 .. pos - 1 /\ pos \in i + 1 .. pos
      BY <1>1, <2>2
    <3>2. LastUpTo(i, pos - 1)
      BY <1>1, <1>8 DEF LastUpTo
    <3>3. correct /\ Holds(old, file[i])
      BY <1>7, <1>8, <3>1, <3>2, AssignedLaw DEF ConfigInv
    <3>4. SectionAt(pos) = SectionAt(i) =>
            /\ file[pos].kind # "header"
            /\ <<file[pos].key, file[pos].index>> # <<file[i].key, file[i].index>>
      BY <1>8, <3>1 DEF LastUpTo
    <3>5. ~Refused(file[pos])
      BY <1>7, <1>8
    <3>6. CASE SectionAt(pos) = SectionAt(i) /\ file[pos].key = file[i].key
      <4>1. file[pos].kind = "pair" /\ file[pos].index # file[i].index
        BY <3>4, <3>5, <3>6, OneLineLaw
      <4>2. Places(new, old, file[pos].index, Unquote(Trim(file[pos].value)))
        BY <3>5, <3>6, <4>1, OneLineLaw
      <4>3. file[i].index \in Nat
        <5>1. i \in 1 .. LinesRead
          BY <1>1, LineLaw
        <5>2. file[i].index \in Indices /\ file[i].index # NoIndex
          BY <1>8, <5>1, LineLaw DEF Indexed
        <5>3. ~Refused(file[i])
          BY <3>1, <3>3 DEF ConfigInv
        <5> QED BY <1>8, <5>2, <5>3 DEF Indices, Refused, Indexed
      <4>4. IsSeq(old)
        BY SectionLaw, ListLaw DEF ConfigInv
      <4>5. Len(new) \in Nat /\ Len(old) \in Nat
        BY <4>2, <4>4, IsSeqLaw DEF Places
      <4> HIDE DEF old, new
      <4>6. new[file[i].index + 1] = old[file[i].index + 1] /\ Len(new) >= Len(old)
        BY <3>3, <4>1, <4>2, <4>3 DEF Places, Holds
      <4>7. Holds(new, file[i])
        BY <3>3, <4>3, <4>5, <4>6 DEF Holds
      <4> QED BY <4>7 DEF new
    <3>7. CASE ~(SectionAt(pos) = SectionAt(i) /\ file[pos].key = file[i].key)
      <4>1. new = old
        BY <3>4, <3>5, <3>7, OneLineLaw
      <4> QED BY <3>3, <4>1
    <3> QED BY <3>6, <3>7
  <2> QED BY <2>1, <2>2
<1>9. ASSUME correct', NEW i \in 1 .. pos
      PROVE  ~Refused(file[i])' /\ (Indexed(i) /\ LastUpTo(i, pos - 1) => Assigned(i))'
  <2>1. ~Refused(file[i])
    <3>1. CASE i = pos
      BY <1>7, <1>9, <3>1
    <3>2. CASE i # pos
      <4>1. i \in 1 .. pos - 1
        BY <1>1, <3>2
      <4> QED BY <1>7, <1>9, <4>1 DEF ConfigInv
    <3> QED BY <3>1, <3>2
  <2>2. ~Refused(file[i])'
    BY <1>2, <2>1 DEF Refused
  <2>3. /\ Indexed(i)' <=> Indexed(i)
        /\ LastUpTo(i, pos - 1)' <=> LastUpTo(i, pos)
        /\ Assigned(i)' <=> Holds(List(config', SectionAt(i), file[i].key), file[i])
    <3>1. LastUpTo(i, pos - 1)' <=> LastUpTo(i, pos)
      <4>1. \A j : SectionAt(j)' = SectionAt(j)
        BY <1>3
      <4> QED BY <1>1, <1>2, <4>1 DEF LastUpTo
    <3> QED BY <1>2, <3>1, FileKept, AssignedLaw
  <2> QED BY <1>8, <1>9, <2>2, <2>3
<1>10. (pos \in Nat \ {0} /\ (pos = 1 \/ pos <= LinesRead + 1))'
  BY <1>1, <1>3, LineLaw
<1> QED BY <1>1, <1>2, <1>4, <1>5, <1>6, <1>7, <1>9, <1>10 DEF ConfigInv

LEMMA LoadReturnsInv ==
  ASSUME ConfigInv, LoadReturns
  PROVE  ConfigInv'
<1>1. UNCHANGED <<file, ended, pos, section, correct>> /\ pos > LinesRead
  BY DEF LoadReturns
<1>2. /\ LinesRead' = LinesRead
      /\ \A i : /\ SectionAt(i)' = SectionAt(i) /\ (Indexed(i)' <=> Indexed(i))
                /\ \A n : LastUpTo(i, n)' <=> LastUpTo(i, n)
  BY <1>1, FileKept
<1>3. CASE correct
  <2>1. phase' = "loaded" /\ config' = config
    BY <1>3 DEF LoadReturns
  <2>2. \A i : Assigned(i)' <=> Assigned(i)
    BY <1>1, <1>2, <2>1 DEF Assigned, Section
  <2>3. \A i : Refused(file[i])' <=> Refused(file[i])
    BY <1>1 DEF Refused
  <2> QED BY <1>1, <1>2, <1>3, <2>1, <2>2, <2>3 DEF ConfigInv
<1>4. CASE ~correct
  <2>1. phase' = "null" /\ config' = Empty
    BY <1>4 DEF LoadReturns
  <2>2. IsConfig(Empty)
    BY EmptyLaw, FS_EmptySet DEF IsConfig
  <2> QED BY <1>1, <1>2, <1>4, <2>1, <2>2 DEF ConfigInv
<1> QED BY <1>3, <1>4 DEF ConfigInv

-----------------------------------------------------------------------------
(* save().                                                                 *)

\* FlattenSeq() puts the sequences together one after another.
Flattens(h, seqs, S, n) ==
  /\ FlattenSeq(seqs) = h[n]
  /\ \A i \in 1 .. n : /\ h[i] \in Seq(S)
                       /\ h[i] = IF i = 1 THEN seqs[i] ELSE h[i - 1] \o seqs[i]

LEMMA FlattenSteps ==
  ASSUME NEW S, NEW n \in Nat, n # 0, NEW seqs \in [1 .. n -> Seq(S)]
  PROVE  \E parts : Flattens(parts, seqs, S, n)
<1> DEFINE T == Seq(S)
           G == [x \in T \X (1 .. n) |->
                   IF x[2] = 1 THEN seqs[x[2]] ELSE x[1] \o seqs[x[2]]]
           h == CHOOSE flatten : flatten = [i \in 1 .. n |->
                  IF i = 1 THEN seqs[i] ELSE flatten[i - 1] \o seqs[i]]
<1>1. FlattenSeq(seqs) = h[n]
  <2>1. Len(seqs) = n
    OBVIOUS
  <2> QED BY <2>1 DEF FlattenSeq
<1>2. << >> \in T /\ \A i \in 1 .. n : seqs[i] \in T
  OBVIOUS
<1>3. \A x \in T, y \in T : x \o y \in T
  OBVIOUS
<1>4. h = CHOOSE flatten : flatten = [i \in 1 .. n |->
            IF i = 1 THEN seqs[i] ELSE flatten[i - 1] \o seqs[i]]
  OBVIOUS
<1> HIDE DEF T, h
<1>5. G \in Rounds(T, n) /\ \A x \in T, i \in 1 .. n :
        G[<<x, i>>] = IF i = 1 THEN seqs[i] ELSE x \o seqs[i]
  BY <1>2, <1>3 DEF Rounds
<1> HIDE DEF G
<1>6. PICK f : Loop(f, T, << >>, n, G)
  BY <1>2, <1>5, LoopExists
<1>7. f \in [0 .. n -> T] /\ \A i \in 1 .. n : f[i] = G[<<f[i - 1], i>>]
  BY <1>6 DEF Loop
<1> DEFINE g == [i \in 1 .. n |-> f[i]]
<1>8. ASSUME NEW i \in 1 .. n
      PROVE  g[i] = IF i = 1 THEN seqs[i] ELSE g[i - 1] \o seqs[i]
  <2>1. f[i - 1] \in T /\ g[i] = f[i]
    BY <1>7
  <2>2. g[i] = IF i = 1 THEN seqs[i] ELSE f[i - 1] \o seqs[i]
    BY <1>5, <1>7, <2>1
  <2>3. i # 1 => i - 1 \in 1 .. n
    OBVIOUS
  <2> QED BY <2>2, <2>3
<1>9. g = [i \in 1 .. n |-> IF i = 1 THEN seqs[i] ELSE g[i - 1] \o seqs[i]]
  BY <1>8
<1>10. h = [i \in 1 .. n |-> IF i = 1 THEN seqs[i] ELSE h[i - 1] \o seqs[i]]
  <2> HIDE DEF g
  <2> QED BY <1>4, <1>9
<1> DEFINE R == {i \in Nat : i \in 1 .. n => h[i] \in T}
<1>11. 0 \in R
  OBVIOUS
<1>12. ASSUME NEW i \in Nat, i \in R
       PROVE  i + 1 \in R
  <2> SUFFICES ASSUME i + 1 \in 1 .. n PROVE h[i + 1] \in T
    OBVIOUS
  <2>1. h[i + 1] = IF i + 1 = 1 THEN seqs[i + 1] ELSE h[i] \o seqs[i + 1]
    <3>1. (i + 1) - 1 = i
      OBVIOUS
    <3>2. h[i + 1] = IF i + 1 = 1 THEN seqs[i + 1] ELSE h[(i + 1) - 1] \o seqs[i + 1]
      BY <1>10
    <3> QED BY <3>1, <3>2
  <2>2. CASE i = 0
    BY <1>2, <2>1, <2>2
  <2>3. CASE i # 0
    <3>1. h[i] \in T
      BY <1>12, <2>3
    <3>2. seqs[i + 1] \in T
      BY <1>2
    <3> QED BY <1>3, <2>1, <2>3, <3>1, <3>2
  <2> QED BY <2>2, <2>3
<1>13. \A i \in Nat : i \in R
  <2> HIDE DEF R
  <2> QED BY <1>11, <1>12, Induction
<1>14. ASSUME NEW i \in 1 .. n
       PROVE  h[i] \in T /\ h[i] = IF i = 1 THEN seqs[i] ELSE h[i - 1] \o seqs[i]
  <2>1. h[i] \in T
    BY <1>13
  <2> HIDE DEF R
  <2>2. h[i] = IF i = 1 THEN seqs[i] ELSE h[i - 1] \o seqs[i]
    BY <1>10
  <2> QED BY <2>1, <2>2
<1> HIDE DEF R
<1>15. Flattens(h, seqs, S, n)
  BY <1>1, <1>14 DEF T, Flattens
<1> HIDE DEF T, G, g
<1> QED BY <1>15

\* Sequences of elements of S make a sequence of elements of S.
LEMMA FlattenLaw ==
  ASSUME NEW S, NEW n \in Nat, NEW seqs \in [1 .. n -> Seq(S)]
  PROVE  FlattenSeq(seqs) \in Seq(S)
<1>1. seqs \in Seq(Seq(S)) /\ Len(seqs) = n
  OBVIOUS
<1>2. CASE n = 0
  <2>1. seqs = << >>
    BY <1>1, <1>2
  <2>2. FlattenSeq(seqs) = seqs
    BY <1>1, <1>2 DEF FlattenSeq
  <2>3. FlattenSeq(seqs) = << >> /\ << >> \in Seq(S)
    BY <2>1, <2>2
  <2> QED BY <2>3
<1>3. CASE n # 0
  <2>1. n \in 1 .. n
    BY <1>3
  <2>2. PICK h : Flattens(h, seqs, S, n)
    BY <1>3, FlattenSteps
  <2> QED BY <2>1, <2>2 DEF Flattens
<1> QED BY <1>2, <1>3

\* A sequence of lines is a file.
LEMMA FileLaw ==
  ASSUME NEW S, \A l \in S : IsLine(l), NEW f \in Seq(S)
  PROVE  IsFile(f)
<1>1. IsSeq(f) /\ \A i \in 1 .. Len(f) : f[i] \in S
  BY SeqLaw
<1>2. ToSet(f) \subseteq S
  BY <1>1, IsSeqLaw
<1> QED BY <1>1, <1>2 DEF IsFile

\* Files one after another are a file.
LEMMA FilesLaw ==
  ASSUME NEW n \in Nat, NEW files, files = [i \in 1 .. n |-> files[i]],
         \A i \in 1 .. n : IsFile(files[i])
  PROVE  IsFile(FlattenSeq(files))
<1> DEFINE S == UNION {ToSet(files[i]) : i \in 1 .. n}
<1>1. \A l \in S : IsLine(l)
  BY DEF IsFile
<1>2. ASSUME NEW i \in 1 .. n
      PROVE  files[i] \in Seq(S)
  <2>1. files[i] \in Seq(ToSet(files[i]))
    BY DEF IsFile, IsSeq
  <2>2. ToSet(files[i]) \subseteq S
    OBVIOUS
  <2> HIDE DEF S
  <2> QED BY <2>1, <2>2
<1> HIDE DEF S
<1>3. files \in [1 .. n -> Seq(S)]
  BY <1>2
<1> QED BY <1>1, <1>3, FlattenLaw, FileLaw

LEMMA TwoFilesLaw ==
  ASSUME NEW f, NEW g, IsFile(f), IsFile(g)
  PROVE  IsFile(f \o g)
<1> DEFINE S == ToSet(f) \cup ToSet(g)
<1>1. \A l \in S : IsLine(l)
  BY DEF IsFile
<1>2. f \in Seq(ToSet(f)) /\ g \in Seq(ToSet(g))
  BY DEF IsFile, IsSeq
<1>3. ToSet(f) \subseteq S /\ ToSet(g) \subseteq S
  OBVIOUS
<1> HIDE DEF S
<1>4. f \in Seq(S) /\ g \in Seq(S)
  BY <1>2, <1>3
<1>5. f \o g \in Seq(S)
  BY <1>4
<1> QED BY <1>1, <1>5, FileLaw

\* save() writes the pairs of a section.
LEMMA WriteSectionLaw ==
  ASSUME NEW sec, IsFiniteSet(DOMAIN sec), \A key \in DOMAIN sec : IsSeq(sec[key])
  PROVE  IsFile(WriteSection(sec))
<1> DEFINE n == Cardinality(DOMAIN sec)
           key(k) == SetToSeq(DOMAIN sec)[k]
           files == [k \in 1 .. n |->
                      [i \in 1 .. Len(sec[key(k)]) |->
                        Pair(key(k), IndexWritten(sec[key(k)], i),
                             WriteValue(sec[key(k)][i]), TRUE)]]
<1>1. n \in Nat
  BY FS_CardinalityType
<1>2. WriteSection(sec) = FlattenSeq(files)
  BY DEF WriteSection
<1>3. \A k \in 1 .. n : key(k) \in DOMAIN sec
  <2> DEFINE order == SetToSeq(DOMAIN sec)
  <2>1. order \in [1 .. n -> DOMAIN sec]
    BY OrderLaw
  <2> HIDE DEF order
  <2> QED BY <2>1 DEF order
<1>4. ASSUME NEW k \in 1 .. n
      PROVE  IsFile(files[k])
  <2> DEFINE values == sec[key(k)]
             file1 == [i \in 1 .. Len(values) |->
                        Pair(key(k), IndexWritten(values, i), WriteValue(values[i]), TRUE)]
             S == {file1[i] : i \in 1 .. Len(values)}
  <2>1. IsSeq(values)
    BY <1>3
  <2>2. Len(values) \in Nat
    BY <2>1, IsSeqLaw
  <2>3. ASSUME NEW i \in 1 .. Len(values)
        PROVE  IsLine(file1[i])
    <3>1. IndexWritten(values, i) \in Indices
      BY <2>2 DEF IndexWritten, Indices
    <3>2. file1[i] = Pair(key(k), IndexWritten(values, i), WriteValue(values[i]), TRUE)
      OBVIOUS
    <3> HIDE DEF file1, values, key
    <3> QED BY <3>1, <3>2 DEF IsLine, Pair
  <2>4. file1 \in Seq(S)
    <3>1. \A i \in 1 .. Len(values) : file1[i] \in S
      OBVIOUS
    <3>2. file1 = [i \in 1 .. Len(values) |-> file1[i]]
      OBVIOUS
    <3> HIDE DEF values, file1, S
    <3>3. file1 \in [1 .. Len(values) -> S]
      BY <3>1, <3>2
    <3> QED BY <2>2, <3>3
  <2>5. files[k] = file1
    OBVIOUS
  <2>6. \A l \in S : IsLine(l)
    BY <2>3
  <2> HIDE DEF file1, S, files
  <2> QED BY <2>4, <2>5, <2>6, FileLaw
<1>5. files = [i \in 1 .. n |-> files[i]]
  OBVIOUS
<1> HIDE DEF n, files
<1> QED BY <1>1, <1>2, <1>4, <1>5, FilesLaw

\* What save() writes is a file.
LEMMA WriteConfigLaw ==
  ASSUME NEW c, IsConfig(c)
  PROVE  IsFile(WriteConfig(c))
<1> DEFINE rest == DOMAIN c \ {TopName}
           names == SetToSeq(rest)
           top == IF TopName \in DOMAIN c THEN c[TopName] ELSE Empty
           files == [n \in 1 .. Len(names) |->
                      <<Header(names[n], TRUE)>> \o WriteSection(c[names[n]])]
<1>1. \A name \in DOMAIN c : IsFile(WriteSection(c[name]))
  BY WriteSectionLaw DEF IsConfig
<1>2. IsFile(WriteSection(top))
  <2>1. CASE TopName \in DOMAIN c
    BY <1>1, <2>1
  <2>2. CASE TopName \notin DOMAIN c
    BY <2>2, EmptyLaw, FS_EmptySet, WriteSectionLaw
  <2> QED BY <2>1, <2>2
<1>3. names \in Seq(rest)
  <2>1. IsFiniteSet(rest)
    BY FS_RemoveElement DEF IsConfig
  <2> HIDE DEF rest
  <2> QED BY <2>1, ElementsInOrder
<1>4. Len(names) \in Nat /\ \A n \in 1 .. Len(names) : names[n] \in DOMAIN c
  <2> HIDE DEF names
  <2> QED BY <1>3
<1>5. ASSUME NEW n \in 1 .. Len(names)
      PROVE  IsFile(files[n])
  <2> DEFINE h == Header(names[n], TRUE)
  <2>1. IsLine(h)
    BY DEF IsLine, Header
  <2>2. IsFile(<<h>>)
    <3> HIDE DEF h
    <3>1. <<h>> \in Seq({h})
      OBVIOUS
    <3> QED BY <2>1, <3>1, FileLaw
  <2>3. IsFile(WriteSection(c[names[n]]))
    BY <1>1, <1>4
  <2>4. files[n] = <<h>> \o WriteSection(c[names[n]])
    OBVIOUS
  <2> HIDE DEF h, names, files
  <2> QED BY <2>2, <2>3, <2>4, TwoFilesLaw
<1>6. files = [n \in 1 .. Len(names) |-> files[n]]
  OBVIOUS
<1>7. WriteConfig(c) = WriteSection(top) \o FlattenSeq(files)
  BY DEF WriteConfig
<1>8. IsFile(FlattenSeq(files))
  <2> HIDE DEF names, files
  <2> QED BY <1>4, <1>5, <1>6, FilesLaw
<1> HIDE DEF top, files
<1> QED BY <1>2, <1>7, <1>8, TwoFilesLaw

LEMMA SaveAndLoadInv ==
  ASSUME ConfigInv, SaveAndLoad
  PROVE  ConfigInv'
<1>1. /\ file' = WriteConfig(config) /\ ended' = TRUE /\ pos' = 1 /\ config' = Empty
      /\ section' = TopName /\ correct' = TRUE /\ phase' = "reading"
  BY DEF SaveAndLoad
<1>2. IsFile(file')
  BY <1>1, WriteConfigLaw DEF ConfigInv
<1>3. IsConfig(config')
  BY <1>1, EmptyLaw, FS_EmptySet DEF IsConfig
<1>4. (SectionAt(pos - 1) = TopName)'
  BY <1>1 DEF SectionAt
<1> QED BY <1>1, <1>2, <1>3, <1>4 DEF ConfigInv

\* A step that leaves the configuration alone.
LEMMA ConfigKept ==
  ASSUME UNCHANGED <<loadVars, phase>>
  PROVE  /\ ConfigInv => ConfigInv'
         /\ \A name : Section(name)' = Section(name)
<1>1. UNCHANGED <<file, ended, pos, config, section, correct, before, phase>>
  BY DEF loadVars
<1>2. \A name : Section(name)' = Section(name)
  BY <1>1 DEF Section
<1>3. /\ LinesRead' = LinesRead
      /\ \A i : /\ SectionAt(i)' = SectionAt(i) /\ (Indexed(i)' <=> Indexed(i))
                /\ \A n : LastUpTo(i, n)' <=> LastUpTo(i, n)
  BY <1>1, FileKept
<1>4. \A i : Assigned(i)' <=> Assigned(i)
  BY <1>1, <1>2, <1>3 DEF Assigned
<1>5. \A i : Refused(file[i])' <=> Refused(file[i])
  BY <1>1 DEF Refused
<1> QED BY <1>1, <1>2, <1>3, <1>4, <1>5 DEF ConfigInv

-----------------------------------------------------------------------------
(* What the modules start with.                                            *)

\* What a key that has a value is as a number.
LEMMA GetAsIntLaw ==
  ASSUME NEW sec, NEW key, Head(sec[key]) # Empty
  PROVE  \E n \in Nat : GetAsInt(sec, key) = {n}
BY SettingsAssumption DEF GetAsInt

\* A number that passed check_range() is the one that get_or() converts again.
LEMMA CheckedIsRead ==
  ASSUME NEW sec, NEW key, NEW min, CheckRange(sec, key, min), NEW n \in GetOr(sec, key),
         Has(sec, key) => Head(sec[key]) # Empty
  PROVE  Has(sec, key) => n \in Nat /\ n >= min /\ n <= MaxSleep
BY GetAsIntLaw DEF CheckRange, GetOr

LEMMA StartEventInv ==
  ASSUME SettingsInv, StartEvent
  PROVE  SettingsInv'
<1> DEFINE sec == Section(EVENT)
<1>1. UNCHANGED <<loadVars, phase, level, streams>> /\ started = "logging" /\ started' = "yes"
  BY DEF StartEvent
<1>2. ConfigInv' /\ \A name : Section(name)' = Section(name)
  BY <1>1, ConfigKept DEF SettingsInv
<1>3. /\ CheckRange(sec, IDLE_SLEEP_TIME, MinSleep) /\ sleep' \in GetOr(sec, IDLE_SLEEP_TIME)
      /\ CheckRange(sec, TICK_RESOLUTION, sleep') /\ tick' \in GetOr(sec, TICK_RESOLUTION)
  BY DEF StartEvent, LeastTick
<1>4. TimesInRange'
  <2> SUFFICES ASSUME ~BlankTime'
               PROVE  /\ sleep' \in MinSleep .. MaxSleep
                      /\ Has(sec, TICK_RESOLUTION) => tick' \in sleep' .. MaxSleep
    BY <1>2 DEF TimesInRange
  <2>1. \A key \in {IDLE_SLEEP_TIME, TICK_RESOLUTION} : Has(sec, key) => Head(sec[key]) # Empty
    BY <1>2 DEF BlankTime, Has
  <2> HIDE DEF sec
  <2>2. {MinSleep, MaxSleep, DefaultTime} \subseteq Nat
        /\ MinSleep <= DefaultTime /\ DefaultTime <= MaxSleep
    BY SettingsAssumption
  <2>3. sleep' \in MinSleep .. MaxSleep
    <3>1. CASE Has(sec, IDLE_SLEEP_TIME)
      BY <1>3, <2>1, <2>2, <3>1, CheckedIsRead
    <3>2. CASE ~Has(sec, IDLE_SLEEP_TIME)
      BY <1>3, <2>2, <3>2 DEF GetOr
    <3> QED BY <3>1, <3>2
  <2>4. Has(sec, TICK_RESOLUTION) => tick' \in Nat /\ tick' >= sleep' /\ tick' <= MaxSleep
    BY <1>3, <2>1, CheckedIsRead
  <2> QED BY <2>2, <2>3, <2>4
<1>5. Running /\ Running'
  BY <1>1 DEF Running
<1>6. (phase = "loaded")' /\ streams' = [i \in 1 .. StreamCount(Section(LOG)) |-> Stream(Section(LOG), i)]
  BY <1>1, <1>5 DEF SettingsInv
<1> QED BY <1>1, <1>2, <1>4, <1>6 DEF SettingsInv

LEMMA StartLogInv ==
  ASSUME SettingsInv, StartLog
  PROVE  SettingsInv'
<1>1. UNCHANGED <<loadVars, phase, sleep, tick>> /\ phase = "loaded" /\ phase' = "loaded"
  BY DEF StartLog
<1>2. ConfigInv' /\ \A name : Section(name)' = Section(name)
  BY <1>1, ConfigKept DEF SettingsInv
<1>3. CASE started' = "aborts"
  BY <1>2, <1>3 DEF SettingsInv, Running, TimesInRange
<1>4. CASE /\ started' = "logging"
           /\ streams' = [i \in 1 .. StreamCount(Section(LOG)) |-> Stream(Section(LOG), i)]
  BY <1>1, <1>2, <1>4 DEF SettingsInv, Running, TimesInRange
<1> QED BY <1>3, <1>4 DEF StartLog

LEMMA OtherSteps ==
  ASSUME SettingsInv, UNCHANGED startVars \/ StartEventFails
  PROVE  SettingsInv'
<1>1. UNCHANGED <<loadVars, phase, level, streams, sleep, tick>>
  BY DEF startVars, settingVars, StartEventFails
<1>2. ConfigInv' /\ \A name : Section(name)' = Section(name)
  BY <1>1, ConfigKept DEF SettingsInv
<1>3. CASE UNCHANGED startVars
  <2>1. UNCHANGED started
    BY <1>3 DEF startVars
  <2>2. BlankTime' <=> BlankTime
    BY <1>2 DEF BlankTime, Has
  <2>3. TimesInRange'
    BY <1>1, <1>2, <2>1, <2>2 DEF SettingsInv, TimesInRange, Has
  <2> QED BY <1>1, <1>2, <2>1, <2>3 DEF SettingsInv, Running
<1>4. CASE StartEventFails
  <2>1. started' = "failed"
    BY <1>4 DEF StartEventFails
  <2> QED BY <1>2, <2>1 DEF SettingsInv, Running, TimesInRange
<1> QED BY <1>3, <1>4

LEMMA LoadingInv ==
  ASSUME SettingsInv, started = "no", ConfigNext, UNCHANGED <<settingVars, started>>
  PROVE  SettingsInv'
<1>1. ConfigInv'
  BY ReadLineInv, LoadReturnsInv, SaveAndLoadInv DEF SettingsInv, ConfigNext
<1> QED BY <1>1 DEF SettingsInv, TimesInRange, Running

LEMMA SettingsInvInit ==
  ASSUME SettingsInit
  PROVE  SettingsInv
<1>1. IsFile(file) /\ ended \in BOOLEAN
  BY ConfigAssumption DEF SettingsInit, ConfigInit
<1>2. IsConfig(config)
  BY EmptyLaw, FS_EmptySet DEF SettingsInit, ConfigInit, IsConfig
<1>3. SectionAt(0) = TopName
  BY DEF SectionAt
<1> QED BY <1>1, <1>2, <1>3 DEF SettingsInit, ConfigInit, SettingsInv, ConfigInv,
                                TimesInRange, Running

\* The inductive invariant.
THEOREM SettingsInvariance == SettingsSpec => []SettingsInv
<1>1. SettingsInit => SettingsInv
  BY SettingsInvInit
<1>2. SettingsInv /\ [SettingsNext]_startVars => SettingsInv'
  BY StartEventInv, StartLogInv, OtherSteps, LoadingInv DEF SettingsNext
<1> QED BY <1>1, <1>2, PTL DEF SettingsSpec

\* Whatever the file says, the agent runs with times that check_range() lets
\* through, but for keys without a value.
THEOREM TimesAreChecked == SettingsSpec => []TimesInRange
<1>1. SettingsInv => TimesInRange
  BY DEF SettingsInv
<1> QED BY <1>1, SettingsInvariance, PTL

\* Of each key and index the last value of the file counts.
LEMMA LastAssignment == ConfigInv => LastAssignmentHolds
<1> SUFFICES ASSUME ConfigInv, phase = "loaded", NEW i \in 1 .. LinesRead,
                    Indexed(i), Lasts(i)
             PROVE  Assigned(i)
  BY DEF LastAssignmentHolds
<1>1. pos - 1 = LinesRead /\ correct
  BY LineLaw DEF ConfigInv
<1> QED BY <1>1 DEF ConfigInv, Lasts

THEOREM LastValueCounts == SettingsSpec => []LastAssignmentHolds
<1>1. SettingsInv => LastAssignmentHolds
  BY LastAssignment DEF SettingsInv
<1> QED BY <1>1, SettingsInvariance, PTL

\* There are no more streams than locations.
LEMMA StreamCountLaw ==
  ASSUME ConfigInv, NEW sec, sec = Section(LOG)
  PROVE  /\ StreamCount(sec) \in Nat
         /\ StreamCount(sec) <= Len(ValuesIn(sec, LOCATION))
<1>1. \A key : IsSeq(ValuesIn(sec, key))
  BY SectionLaw DEF ConfigInv
<1>2. Len(ValuesIn(sec, STREAM_TYPE)) \in Nat /\ Len(ValuesIn(sec, LOCATION)) \in Nat
  BY <1>1, IsSeqLaw
<1> QED BY <1>2, MinLaw DEF StreamCount

\* The level, the location and the mode that the file gives to a stream are that
\* stream's.
LEMMA StreamsOfFile == SettingsInv => IndexedSettingOfStream
<1> SUFFICES ASSUME SettingsInv, Running, NEW i \in 1 .. LinesRead, Indexed(i), Lasts(i),
                    SectionAt(i) = LOG, file[i].index < Len(streams)
             PROVE  LET l == file[i] IN
                      /\ l.key = LEVEL => streams[l.index + 1].level = Unquote(Trim(l.value))
                      /\ l.key = LOCATION =>
                           streams[l.index + 1].location = Unquote(Trim(l.value))
                      /\ l.key = OPEN_MODE =>
                           streams[l.index + 1].mode = Unquote(Trim(l.value))
  BY DEF IndexedSettingOfStream
<1> DEFINE l == file[i]
           sec == Section(LOG)
           n == StreamCount(sec)
           v == Unquote(Trim(l.value))
           values == ValuesIn(sec, l.key)
<1>1. ConfigInv /\ phase = "loaded" /\ streams = [j \in 1 .. n |-> Stream(sec, j)]
  BY DEF SettingsInv
<1>2. n \in Nat /\ n <= Len(ValuesIn(sec, LOCATION))
  BY <1>1, StreamCountLaw
<1>3. Assigned(i)
  BY <1>1, LastAssignment DEF LastAssignmentHolds
<1>4. Len(values) > l.index /\ values[l.index + 1] = v
  BY <1>3 DEF Assigned
<1>5. l.index \in Nat
  <2>1. l.index \in Indices /\ l.kind = "pair" /\ l.index # NoIndex
    BY <1>1, LineLaw DEF Indexed
  <2>2. ~Refused(l)
    <3>1. correct /\ i \in 1 .. pos - 1
      BY <1>1, LineLaw DEF ConfigInv
    <3> QED BY <1>1, <3>1 DEF ConfigInv
  <2> QED BY <2>1, <2>2 DEF Indices, Refused
<1>6. IsSeq(values)
  BY <1>1, SectionLaw DEF ConfigInv
<1>7. Len(values) \in Nat /\ l.index + 1 \in 1 .. Len(values)
  BY <1>4, <1>5, <1>6, IsSeqLaw
<1>8. l.key \in DOMAIN sec /\ values = sec[l.key]
  BY <1>7, EmptyLaw DEF ValuesIn
<1>9. l.index + 1 \in 1 .. n /\ streams[l.index + 1] = Stream(sec, l.index + 1)
  <2> HIDE DEF n, l
  <2>1. Len(streams) = n
    BY <1>1, <1>2
  <2>2. l.index < n
    BY <2>1 DEF l
  <2> QED BY <1>1, <1>2, <1>5, <2>2
<1> HIDE DEF sec, n, v, values, l
<1>10. l.key = LEVEL => streams[l.index + 1].level = v
  BY <1>4, <1>7, <1>8, <1>9 DEF Stream, SettingOf, values
<1>11. l.key = LOCATION => streams[l.index + 1].location = v
  BY <1>4, <1>8, <1>9 DEF Stream
<1>12. l.key = OPEN_MODE => streams[l.index + 1].mode = v
  BY <1>4, <1>7, <1>8, <1>9 DEF Stream, SettingOf, values
<1> QED BY <1>10, <1>11, <1>12 DEF l, v

THEOREM SettingsReachStreams == SettingsSpec => []IndexedSettingOfStream
<1>1. SettingsInv => IndexedSettingOfStream
  BY StreamsOfFile
<1> QED BY <1>1, SettingsInvariance, PTL

-----------------------------------------------------------------------------
(* What was saved is loaded again.                                         *)

\* What load() makes of a line that it does not refuse.
After(st, l) ==
  IF l.kind = "header" THEN [config |-> With(st.config, l.name, Empty), section |-> l.name]
  ELSE LET sec    == IF st.section \in DOMAIN st.config THEN st.config[st.section] ELSE Empty
           values == Put(ValuesIn(sec, l.key), l.index, Unquote(Trim(l.value)))
       IN [config  |-> With(st.config, st.section, With(sec, l.key, values)),
           section |-> st.section]

\* The lines f lead from s to t, through the states tr.
Leads(s, f, t, tr) ==
  /\ tr[0] = s /\ tr[Len(f)] = t
  /\ \A i \in 1 .. Len(f) : /\ f[i].kind \in {"header", "pair"} /\ ~Refused(f[i])
                            /\ tr[i] = After(tr[i - 1], f[i])

Reads(s, f, t) == \E tr : Leads(s, f, t, tr)

\* The elements of two sequences put together.
LEMMA ConcatLaw ==
  ASSUME NEW f, NEW g, IsSeq(f), IsSeq(g)
  PROVE  /\ IsSeq(f \o g) /\ Len(f \o g) = Len(f) + Len(g)
         /\ \A i \in 1 .. Len(f) : (f \o g)[i] = f[i]
         /\ \A i \in 1 .. Len(g) : (f \o g)[Len(f) + i] = g[i]
<1> DEFINE S == ToSet(f) \cup ToSet(g)
<1>1. f \in Seq(ToSet(f)) /\ g \in Seq(ToSet(g))
  BY DEF IsSeq
<1>2. ToSet(f) \subseteq S /\ ToSet(g) \subseteq S
  OBVIOUS
<1> HIDE DEF S
<1>3. f \in Seq(S) /\ g \in Seq(S)
  BY <1>1, <1>2
<1>4. f \o g \in Seq(S) /\ Len(f \o g) = Len(f) + Len(g)
  BY <1>3
<1>5. \A i \in 1 .. Len(f) : (f \o g)[i] = f[i]
  BY <1>3
<1>6. \A i \in 1 .. Len(g) : (f \o g)[Len(f) + i] = g[i]
  BY <1>3
<1>7. IsSeq(f \o g)
  BY <1>4, SeqLaw
<1> QED BY <1>4, <1>5, <1>6, <1>7

\* Sequences with the same elements are the same.
LEMMA SameElements ==
  ASSUME NEW f, NEW g, IsSeq(f), IsSeq(g), Len(f) = Len(g),
         \A i \in 1 .. Len(f) : f[i] = g[i]
  PROVE  f = g
<1>1. PICK S : f \in Seq(S) /\ g \in Seq(S)
  <2>1. f \in Seq(ToSet(f)) /\ g \in Seq(ToSet(g))
    BY DEF IsSeq
  <2>2. f \in Seq(ToSet(f) \cup ToSet(g)) /\ g \in Seq(ToSet(f) \cup ToSet(g))
    BY <2>1
  <2> QED BY <2>2
<1>2. Len(f) = Len(g) /\ \A i \in 1 .. Len(f) : f[i] = g[i]
  OBVIOUS
<1>3. f = g
  BY <1>1, <1>2, SeqEqual
<1> QED BY <1>3

\* Lines are read one after another.
LEMMA ReadsBoth ==
  ASSUME NEW s, NEW t, NEW u, NEW f, NEW g, IsSeq(f), IsSeq(g), Reads(s, f, t), Reads(t, g, u)
  PROVE  Reads(s, f \o g, u)
<1>1. PICK a : Leads(s, f, t, a)
  BY DEF Reads
<1>2. PICK b : Leads(t, g, u, b)
  BY DEF Reads
<1> DEFINE m == Len(f)
           n == Len(g)
           h == f \o g
           c == [i \in 0 .. m + n |-> IF i <= m THEN a[i] ELSE b[i - m]]
<1>3. /\ Len(h) = m + n /\ m \in Nat /\ n \in Nat
      /\ \A i \in 1 .. m : h[i] = f[i]
      /\ \A i \in 1 .. n : h[m + i] = g[i]
  BY ConcatLaw, IsSeqLaw
<1>4. a[0] = s /\ a[m] = t /\ b[0] = t /\ b[n] = u
  BY <1>1, <1>2 DEF Leads
<1>5. \A i \in 0 .. m : c[i] = a[i]
  BY <1>3
<1>6. \A i \in 0 .. n : c[m + i] = b[i]
  <2>1. ASSUME NEW i \in 0 .. n
        PROVE  c[m + i] = b[i]
    <3>1. m + i \in 0 .. m + n /\ (m + i) - m = i
      BY <1>3
    <3>2. CASE i = 0
      BY <1>3, <1>4, <3>1, <3>2
    <3>3. CASE i # 0
      <4>1. ~(m + i <= m)
        BY <1>3, <3>3
      <4> QED BY <3>1, <4>1
    <3> QED BY <3>2, <3>3
  <2> QED BY <2>1
<1> HIDE DEF c, h
<1>7. ASSUME NEW i \in 1 .. Len(h)
      PROVE  /\ h[i].kind \in {"header", "pair"} /\ ~Refused(h[i])
             /\ c[i] = After(c[i - 1], h[i])
  <2>1. CASE i \in 1 .. m
    <3>1. h[i] = f[i] /\ c[i] = a[i] /\ c[i - 1] = a[i - 1]
      <4>1. i \in 0 .. m /\ i - 1 \in 0 .. m
        BY <1>3, <2>1
      <4> QED BY <1>3, <1>5, <2>1, <4>1
    <3>2. /\ f[i].kind \in {"header", "pair"} /\ ~Refused(f[i])
          /\ a[i] = After(a[i - 1], f[i])
      BY <1>1, <2>1 DEF Leads
    <3> QED BY <3>1, <3>2
  <2>2. CASE i \notin 1 .. m
    <3> DEFINE j == i - m
    <3>1. j \in 1 .. n /\ i = m + j /\ i - 1 = m + (j - 1) /\ j \in 0 .. n /\ j - 1 \in 0 .. n
      BY <1>3, <2>2
    <3> HIDE DEF j
    <3>2. h[i] = g[j] /\ c[i] = b[j] /\ c[i - 1] = b[j - 1]
      BY <1>3, <1>6, <3>1
    <3>3. /\ g[j].kind \in {"header", "pair"} /\ ~Refused(g[j])
          /\ b[j] = After(b[j - 1], g[j])
      BY <1>2, <3>1 DEF Leads
    <3> QED BY <3>2, <3>3
  <2> QED BY <2>1, <2>2
<1>8. c[0] = s /\ c[Len(h)] = u
  <2>1. 0 \in 0 .. m /\ n \in 0 .. n
    BY <1>3
  <2> QED BY <1>3, <1>4, <1>5, <1>6, <2>1
<1>9. Leads(s, h, u, c)
  BY <1>7, <1>8 DEF Leads
<1> QED BY <1>9 DEF Reads, h

LEMMA ReadsNone ==
  ASSUME NEW s
  PROVE  Reads(s, <<>>, s)
<1> DEFINE c == [i \in 0 .. 0 |-> s]
<1>1. c[0] = s /\ Len(<<>>) = 0
  OBVIOUS
<1> HIDE DEF c
<1>2. Leads(s, <<>>, s, c)
  BY <1>1 DEF Leads
<1> QED BY <1>2 DEF Reads

LEMMA ReadsOne ==
  ASSUME NEW s, NEW l, l.kind \in {"header", "pair"}, ~Refused(l)
  PROVE  IsSeq(<<l>>) /\ Reads(s, <<l>>, After(s, l))
<1> DEFINE t == After(s, l)
           c == [i \in 0 .. 1 |-> IF i = 0 THEN s ELSE t]
           f == <<l>>
<1>1. c[0] = s /\ c[1] = t /\ Len(f) = 1 /\ f[1] = l /\ f \in Seq({l})
  OBVIOUS
<1>2. t = After(c[0], f[1])
  BY <1>1
<1>3. IsSeq(f)
  BY <1>1, SeqLaw
<1> HIDE DEF c, t, f
<1>4. \A i \in 1 .. Len(f) : i = 1 /\ i - 1 = 0
  BY <1>1
<1>5. Leads(s, f, t, c)
  BY <1>1, <1>2, <1>4 DEF Leads
<1> QED BY <1>3, <1>5 DEF Reads, t, f

\* A blank is no quote.
LEMMA QuoteLaw == Quote # Blank
BY Zenon DEF Quote, Blank

\* What begins and ends with no blank is not trimmed.
LEMMA TrimLaw ==
  ASSUME NEW v, IsSeq(v), v # Empty, v[1] # Blank, v[Len(v)] # Blank
  PROVE  Trim(v) = v
<1> DEFINE n == Len(v)
           kept == {i \in 1 .. n : v[i] # Blank}
<1>1. v \in Seq(ToSet(v))
  BY DEF IsSeq
<1>2. n \in Nat \ {0}
  BY <1>1 DEF Empty
<1>3. 1 \in kept /\ n \in kept /\ \A i \in kept : i \in Nat /\ 1 <= i /\ i <= n
  BY <1>2
<1>4. Trim(v) = IF kept = {} THEN Empty ELSE SubSeq(v, Min(kept), Max(kept))
  BY DEF Trim
<1> HIDE DEF kept, n
<1>5. Min(kept) = 1
  <2>1. Min(kept) = CHOOSE x \in kept : \A y \in kept : x <= y
    BY DEF Min
  <2>2. Min(kept) \in kept /\ Min(kept) <= 1
    BY <1>3, <2>1
  <2> QED BY <1>3, <2>2
<1>6. Max(kept) = n
  <2>1. Max(kept) = CHOOSE x \in kept : \A y \in kept : x >= y
    BY DEF Max
  <2>2. Max(kept) \in kept /\ Max(kept) >= n
    BY <1>3, <2>1
  <2>3. Max(kept) \in Nat /\ Max(kept) <= n
    BY <1>3, <2>2
  <2> QED BY <1>2, <2>2, <2>3
<1>7. Trim(v) = SubSeq(v, 1, n)
  BY <1>3, <1>4, <1>5, <1>6
<1>8. SubSeq(v, 1, n) = v
  BY <1>1 DEF n
<1> QED BY <1>7, <1>8

\* A value that save() writes is the one that load() reads, if it ends in no
\* blank and has no quotes around it.
LEMMA WrittenIsRead ==
  ASSUME NEW v, IsSeq(v), Plain(v)
  PROVE  Unquote(Trim(WriteValue(v))) = v
<1>1. CASE v = Empty
  <2>1. WriteValue(v) = Empty
    BY <1>1 DEF WriteValue
  <2>2. Trim(Empty) = Empty
    BY EmptyLaw DEF Trim
  <2>3. Unquote(Empty) = Empty
    BY DEF Unquote, IsQuoted
  <2> QED BY <1>1, <2>1, <2>2, <2>3
<1>2. CASE v # Empty
  <2>1. v \in Seq(ToSet(v)) /\ v # << >>
    BY <1>2 DEF IsSeq, Empty
  <2>2. Len(v) \in Nat \ {0} /\ Head(v) = v[1] /\ Last(v) = v[Len(v)]
    BY <2>1 DEF Last
  <2>3. v[Len(v)] # Blank /\ ~IsQuoted(v)
    BY <1>2, <2>2 DEF Plain
  <2>4. CASE v[1] = Blank
    <3> DEFINE a == <<Quote>>
               w == a \o v \o a
               n == Len(v)
    <3>1. WriteValue(v) = w
      BY <1>2, <2>2, <2>4 DEF WriteValue
    <3>2. IsSeq(a) /\ Len(a) = 1 /\ a[1] = Quote
      <4>1. a \in Seq({Quote}) /\ Len(a) = 1 /\ a[1] = Quote
        OBVIOUS
      <4> HIDE DEF a
      <4> QED BY <4>1, SeqLaw
    <3> HIDE DEF a
    <3>3. /\ IsSeq(a \o v) /\ Len(a \o v) = n + 1 /\ (a \o v)[1] = Quote
          /\ \A i \in 1 .. n : (a \o v)[i + 1] = v[i]
      <4>1. /\ IsSeq(a \o v) /\ Len(a \o v) = Len(a) + Len(v)
            /\ \A i \in 1 .. Len(a) : (a \o v)[i] = a[i]
            /\ \A i \in 1 .. Len(v) : (a \o v)[Len(a) + i] = v[i]
        <5> HIDE DEF w, n
        <5>1. IsSeq(a) /\ IsSeq(v)
          BY <3>2
        <5> QED BY <5>1, ConcatLaw
      <4>2. \A i \in 1 .. Len(v) : i + 1 = Len(a) + i
        BY <2>2, <3>2
      <4> QED BY <2>2, <3>2, <4>1, <4>2
    <3>4. /\ IsSeq(w) /\ Len(w) = n + 2
          /\ \A i \in 1 .. n + 1 : w[i] = (a \o v)[i]
          /\ w[n + 2] = Quote
      <4> DEFINE b == a \o v
      <4> HIDE DEF b
      <4>1. IsSeq(b) /\ Len(b) = n + 1
        BY <3>3 DEF b
      <4>2. /\ IsSeq(b \o a) /\ Len(b \o a) = Len(b) + Len(a)
            /\ \A i \in 1 .. Len(b) : (b \o a)[i] = b[i]
            /\ \A i \in 1 .. Len(a) : (b \o a)[Len(b) + i] = a[i]
        <5>1. IsSeq(b) /\ IsSeq(a)
          BY <3>2, <4>1
        <5> HIDE DEF w
        <5> QED BY <5>1, ConcatLaw
      <4>3. Len(b) + 1 = n + 2
        BY <2>2, <4>1
      <4>4. (b \o a)[n + 2] = Quote
        BY <3>2, <4>2, <4>3
      <4> QED BY <2>2, <3>2, <4>1, <4>2, <4>4 DEF b
    <3> HIDE DEF w, n
    <3>5. w[1] = Quote /\ w[n + 2] = Quote /\ \A i \in 1 .. n : w[i + 1] = v[i]
      <4>1. n \in Nat \ {0}
        BY <2>2 DEF n
      <4>2. \A i \in 1 .. n : i + 1 \in 1 .. n + 1
        BY <4>1
      <4>3. 1 \in 1 .. n + 1
        BY <4>1
      <4> QED BY <3>3, <3>4, <4>2, <4>3
    <3>6. w \in Seq(ToSet(w)) /\ w # << >> /\ n \in Nat \ {0}
      BY <2>2, <3>4 DEF IsSeq, n
    <3>7. Trim(w) = w
      BY <3>4, <3>5, <3>6, QuoteLaw, TrimLaw DEF Empty
    <3>8. IsQuoted(w)
      <4>1. Head(w) = w[1] /\ Last(w) = w[Len(w)]
        BY <3>6 DEF Last
      <4> QED BY <3>4, <3>5, <3>6, <4>1 DEF IsQuoted, Empty
    <3>9. SubSeq(w, 2, n + 1) = v
      <4> DEFINE r == SubSeq(w, 2, n + 1)
      <4>1. r \in Seq(ToSet(w)) /\ Len(r) = n /\ \A i \in 1 .. n : r[i] = w[i + 1]
        BY <3>4, <3>6
      <4> HIDE DEF r
      <4>2. IsSeq(r) /\ \A i \in 1 .. Len(r) : r[i] = v[i]
        BY <3>5, <4>1, SeqLaw
      <4>3. Len(r) = Len(v)
        BY <4>1 DEF n
      <4>4. r = v
        <5> HIDE DEF n
        <5>1. IsSeq(r) /\ IsSeq(v) /\ \A i \in 1 .. Len(r) : r[i] = v[i]
          BY <4>2
        <5> QED BY <4>3, <5>1, SameElements
      <4> QED BY <4>4 DEF r
    <3>10. Len(w) - 1 = n + 1
      BY <3>4, <3>6
    <3> QED BY <3>1, <3>7, <3>8, <3>9, <3>10 DEF Unquote
  <2>5. CASE v[1] # Blank
    <3>1. WriteValue(v) = v
      BY <2>2, <2>5 DEF WriteValue
    <3>2. Trim(v) = v
      BY <1>2, <2>3, <2>5, TrimLaw
    <3> QED BY <2>3, <3>1, <3>2 DEF Unquote
  <2> QED BY <2>4, <2>5
<1> QED BY <1>1, <1>2


\* The first i values of a list.
Firsts(vals, i) == [j \in 1 .. i |-> vals[j]]

\* A list as save() takes it to be.
Savable(vals) ==
  /\ vals # Empty /\ IsSeq(vals)
  /\ \A i \in 1 .. Len(vals) : IsSeq(vals[i]) /\ Plain(vals[i])

LEMMA FirstsLaw ==
  ASSUME NEW vals, IsSeq(vals)
  PROVE  Firsts(vals, 0) = Empty /\ Firsts(vals, Len(vals)) = vals
<1>1. vals \in Seq(ToSet(vals)) /\ Len(vals) \in Nat
  BY DEF IsSeq
<1>2. [j \in 1 .. Len(vals) |-> vals[j]] = vals
  BY <1>1
<1>3. [j \in 1 .. 0 |-> vals[j]] = << >>
  OBVIOUS
<1> QED BY <1>2, <1>3 DEF Firsts, Empty

\* A list that is written value by value is put together value by value.
LEMMA PutNext ==
  ASSUME NEW vals, IsSeq(vals), NEW i \in 1 .. Len(vals)
  PROVE  Put(Firsts(vals, i - 1), IndexWritten(vals, i), vals[i]) = Firsts(vals, i)
<1>1. Len(vals) \in Nat /\ i \in Nat /\ 1 <= i /\ i <= Len(vals) /\ i - 1 \in Nat /\ (i - 1) + 1 = i
  BY IsSeqLaw
<1>2. CASE Len(vals) = 1
  <2>1. IndexWritten(vals, i) = NoIndex /\ i = 1 /\ i - 1 = 0
    BY <1>2 DEF IndexWritten
  <2>2. Put(Firsts(vals, 0), NoIndex, vals[1]) = Append(<< >>, vals[1])
    BY FirstsLaw DEF Put, Empty
  <2>3. Append(<< >>, vals[1]) = <<vals[1]>>
    OBVIOUS
  <2>4. Firsts(vals, 1) = <<vals[1]>>
    BY DEF Firsts
  <2> QED BY <2>1, <2>2, <2>3, <2>4
<1>3. CASE Len(vals) # 1
  <2> DEFINE f == Firsts(vals, i - 1)
  <2>1. IndexWritten(vals, i) = i - 1 /\ i - 1 # NoIndex
    <3>1. Len(vals) > 1
      <4> DEFINE n == Len(vals)
      <4>1. n \in Nat /\ 1 <= i /\ i <= n /\ n # 1
        BY <1>1, <1>3
      <4> HIDE DEF n
      <4>2. n > 1
        BY <1>1, <4>1
      <4> QED BY <4>2 DEF n
    <3> QED BY <1>1, <3>1, ConfigAssumption DEF IndexWritten
  <2>2. Len(f) = i - 1 /\ \A j \in 1 .. i - 1 : f[j] = vals[j]
    BY <1>1 DEF Firsts
  <2> HIDE DEF f
  <2>3. Max({Len(f), (i - 1) + 1}) = i
    BY <1>1, <2>2, MaxLaw
  <2>4. Put(f, i - 1, vals[i]) =
          [j \in 1 .. i |-> IF j = i THEN vals[i] ELSE IF j <= Len(f) THEN f[j] ELSE Empty]
    BY <1>1, <2>1, <2>3 DEF Put
  <2>5. \A j \in 1 .. i :
          (IF j = i THEN vals[i] ELSE IF j <= Len(f) THEN f[j] ELSE Empty) = vals[j]
    BY <1>1, <2>2
  <2>6. Put(f, i - 1, vals[i]) = [j \in 1 .. i |-> vals[j]]
    BY <2>4, <2>5
  <2> QED BY <2>1, <2>6 DEF f, Firsts
<1> QED BY <1>2, <1>3

\* The last of two values counts.
LEMMA WithTwice ==
  ASSUME NEW f, NEW k, NEW a, NEW b
  PROVE  With(With(f, k, a), k, b) = With(f, k, b)
<1> DEFINE g == With(f, k, a)
<1>1. DOMAIN g = DOMAIN f \cup {k} /\ \A x \in DOMAIN f : x # k => g[x] = f[x]
  BY DEF With
<1> HIDE DEF g
<1>2. With(g, k, b) = With(f, k, b)
  BY <1>1 DEF With
<1> QED BY <1>2 DEF g

\* A state of load(), and the section of a name in a configuration.
Reading(c, name) == [config |-> c, section |-> name]
Inside(c, name) == IF name \in DOMAIN c THEN c[name] ELSE Empty

\* The lines of a key.
PairLine(key, vals, i) == Pair(key, IndexWritten(vals, i), WriteValue(vals[i]), TRUE)

LEMMA AfterPair ==
  ASSUME NEW c, NEW name, NEW key, NEW vals, Savable(vals), NEW i \in 1 .. Len(vals)
  PROVE  /\ PairLine(key, vals, i).kind \in {"header", "pair"}
         /\ ~Refused(PairLine(key, vals, i))
         /\ After(Reading(c, name), PairLine(key, vals, i)) =
              Reading(With(c, name, With(Inside(c, name), key,
                      Put(ValuesIn(Inside(c, name), key), IndexWritten(vals, i), vals[i]))), name)
<1> DEFINE l == PairLine(key, vals, i)
<1>1. /\ l.kind = "pair" /\ l.key = key /\ l.ok /\ l.index = IndexWritten(vals, i)
      /\ l.value = WriteValue(vals[i])
  BY DEF PairLine, Pair
<1>2. Len(vals) \in Nat
  BY IsSeqLaw DEF Savable
<1>3. IndexWritten(vals, i) # BadIndex
  BY <1>2, ConfigAssumption DEF IndexWritten
<1>4. Unquote(Trim(WriteValue(vals[i]))) = vals[i]
  BY WrittenIsRead DEF Savable
<1> HIDE DEF l
<1>5. l.kind \in {"header", "pair"} /\ ~Refused(l)
  BY <1>1, <1>3 DEF Refused
<1> DEFINE s == Reading(c, name)
<1>6. s.config = c /\ s.section = name
  BY DEF Reading
<1> HIDE DEF s
<1>7. After(s, l) = Reading(With(c, name, With(Inside(c, name), key,
                      Put(ValuesIn(Inside(c, name), key), IndexWritten(vals, i), vals[i]))), name)
  BY <1>1, <1>4, <1>6 DEF After, Inside, Reading
<1> QED BY <1>5, <1>7 DEF l, s

\* The list of a key that is not in its section yet is read as it was written.
LEMMA KeyReads ==
  ASSUME NEW c, NEW name, NEW key, key \notin DOMAIN Inside(c, name), NEW vals, Savable(vals),
         NEW f, f = [i \in 1 .. Len(vals) |-> PairLine(key, vals, i)]
  PROVE  /\ IsSeq(f)
         /\ Reads(Reading(c, name), f,
                  Reading(With(c, name, With(Inside(c, name), key, vals)), name))
<1> DEFINE n == Len(vals)
           sec == Inside(c, name)
           Read(i) == With(c, name, With(sec, key, Firsts(vals, i)))
           tr == [i \in 0 .. n |-> IF i = 0 THEN Reading(c, name) ELSE Reading(Read(i), name)]
<1>1. IsSeq(vals) /\ n \in Nat /\ n # 0
  BY IsSeqLaw DEF Savable, Empty, IsSeq
<1>2. f \in Seq({PairLine(key, vals, i) : i \in 1 .. n}) /\ Len(f) = n
  BY <1>1
<1>3. IsSeq(f)
  BY <1>2, SeqLaw
<1>4. ASSUME NEW i \in 1 .. n
      PROVE  f[i].kind \in {"header", "pair"} /\ ~Refused(f[i])
             /\ tr[i] = After(tr[i - 1], f[i])
  <2>1. f[i] = PairLine(key, vals, i) /\ tr[i] = Reading(Read(i), name)
    OBVIOUS
  <2>2. CASE i = 1
    <3>1. tr[i - 1] = Reading(c, name)
      BY <2>2
    <3>2. ValuesIn(sec, key) = Firsts(vals, i - 1)
      BY <1>1, <2>2, FirstsLaw DEF ValuesIn
    <3>3. Put(ValuesIn(sec, key), IndexWritten(vals, i), vals[i]) = Firsts(vals, i)
      BY <1>1, <3>2, PutNext
    <3>4. /\ PairLine(key, vals, i).kind \in {"header", "pair"}
          /\ ~Refused(PairLine(key, vals, i))
          /\ After(Reading(c, name), PairLine(key, vals, i)) =
               Reading(With(c, name, With(sec, key,
                       Put(ValuesIn(sec, key), IndexWritten(vals, i), vals[i]))), name)
      BY AfterPair
    <3> HIDE DEF tr, sec
    <3> QED BY <2>1, <3>1, <3>3, <3>4
  <2>3. CASE i # 1
    <3> DEFINE j == i - 1
               old == With(sec, key, Firsts(vals, j))
               d == With(c, name, old)
    <3>1. j \in 1 .. n /\ tr[j] = Reading(d, name)
      BY <1>1, <2>3
    <3>2. Inside(d, name) = old
      <4> HIDE DEF old
      <4> QED BY DEF Inside, With
    <3>3. ValuesIn(old, key) = Firsts(vals, j)
      BY DEF ValuesIn, With
    <3>4. Put(ValuesIn(old, key), IndexWritten(vals, i), vals[i]) = Firsts(vals, i)
      BY <1>1, <3>3, PutNext
    <3>5. With(d, name, With(old, key, Firsts(vals, i))) = Read(i)
      BY WithTwice
    <3>6. /\ PairLine(key, vals, i).kind \in {"header", "pair"}
          /\ ~Refused(PairLine(key, vals, i))
          /\ After(Reading(d, name), PairLine(key, vals, i)) =
               Reading(With(d, name, With(Inside(d, name), key,
                       Put(ValuesIn(Inside(d, name), key), IndexWritten(vals, i), vals[i]))), name)
      <4> HIDE DEF d
      <4> QED BY AfterPair
    <3> HIDE DEF tr, d, old, sec
    <3> QED BY <2>1, <3>1, <3>2, <3>4, <3>5, <3>6
  <2> QED BY <2>2, <2>3
<1>5. tr[0] = Reading(c, name) /\ tr[n] = Reading(Read(n), name)
  BY <1>1
<1>6. Firsts(vals, n) = vals
  BY <1>1, FirstsLaw
<1>7. Read(n) = With(c, name, With(sec, key, vals))
  BY <1>6
<1> HIDE DEF tr, Read, n, sec
<1>8. Leads(Reading(c, name), f, Reading(Read(n), name), tr)
  BY <1>2, <1>4, <1>5 DEF Leads
<1>9. Reads(Reading(c, name), f, Reading(With(c, name, With(sec, key, vals)), name))
  BY <1>7, <1>8 DEF Reads
<1> QED BY <1>3, <1>9 DEF sec

\* Files are read one after another.
LEMMA FlattenReads ==
  ASSUME NEW n \in Nat, NEW files, files = [i \in 1 .. n |-> files[i]], NEW st,
         \A i \in 1 .. n : IsSeq(files[i]) /\ Reads(st[i - 1], files[i], st[i])
  PROVE  IsSeq(FlattenSeq(files)) /\ Reads(st[0], FlattenSeq(files), st[n])
<1> DEFINE S == UNION {ToSet(files[i]) : i \in 1 .. n}
<1>1. ASSUME NEW i \in 1 .. n
      PROVE  files[i] \in Seq(S)
  <2>1. files[i] \in Seq(ToSet(files[i]))
    BY DEF IsSeq
  <2>2. ToSet(files[i]) \subseteq S
    OBVIOUS
  <2> HIDE DEF S
  <2> QED BY <2>1, <2>2
<1> HIDE DEF S
<1>2. files \in [1 .. n -> Seq(S)]
  BY <1>1
<1>3. IsSeq(FlattenSeq(files))
  <2>1. FlattenSeq(files) \in Seq(S)
    BY <1>2, FlattenLaw
  <2> QED BY <2>1, SeqLaw
<1>4. CASE n = 0
  <2>1. files \in Seq(Seq(S)) /\ Len(files) = 0
    BY <1>2, <1>4
  <2>2. files = << >>
    BY <2>1
  <2>3. FlattenSeq(files) = files
    BY <2>1 DEF FlattenSeq
  <2>4. FlattenSeq(files) = << >>
    BY <2>2, <2>3
  <2> QED BY <1>3, <1>4, <2>4, ReadsNone
<1>5. CASE n # 0
  <2>0. PICK h : Flattens(h, files, S, n)
    BY <1>2, <1>5, FlattenSteps
  <2>1. /\ FlattenSeq(files) = h[n]
        /\ \A i \in 1 .. n : /\ h[i] \in Seq(S)
                             /\ h[i] = IF i = 1 THEN files[i] ELSE h[i - 1] \o files[i]
    BY <2>0 DEF Flattens
  <2> DEFINE R == {i \in Nat : i \in 1 .. n => Reads(st[0], h[i], st[i])}
  <2>2. 0 \in R
    OBVIOUS
  <2>3. ASSUME NEW i \in Nat, i \in R
        PROVE  i + 1 \in R
    <3> SUFFICES ASSUME i + 1 \in 1 .. n PROVE Reads(st[0], h[i + 1], st[i + 1])
      OBVIOUS
    <3>1. (i + 1) - 1 = i
      OBVIOUS
    <3>2. IsSeq(files[i + 1]) /\ Reads(st[i], files[i + 1], st[i + 1])
      BY <3>1
    <3>3. h[i + 1] = IF i + 1 = 1 THEN files[i + 1] ELSE h[i] \o files[i + 1]
      BY <2>1, <3>1
    <3>4. CASE i = 0
      BY <3>2, <3>3, <3>4
    <3>5. CASE i # 0
      <4>1. h[i] \in Seq(S) /\ Reads(st[0], h[i], st[i])
        BY <2>1, <2>3, <3>5
      <4>2. IsSeq(h[i])
        BY <4>1, SeqLaw
      <4>3. IsSeq(h[i]) /\ IsSeq(files[i + 1]) /\ Reads(st[0], h[i], st[i])
            /\ Reads(st[i], files[i + 1], st[i + 1])
        BY <3>2, <4>1, <4>2
      <4>4. Reads(st[0], h[i] \o files[i + 1], st[i + 1])
        BY <4>3, ReadsBoth
      <4> QED BY <3>3, <3>5, <4>4
    <3> QED BY <3>4, <3>5
  <2>4. n \in R
    <3> HIDE DEF R
    <3> QED BY <2>2, <2>3, Induction
  <2> QED BY <1>3, <1>5, <2>1, <2>4
<1> QED BY <1>4, <1>5

\* A function without arguments is the empty section.
LEMMA NoKeys ==
  ASSUME NEW f, f = [x \in DOMAIN f |-> f[x]], DOMAIN f = {}
  PROVE  f = Empty
<1>1. f \in [1 .. 0 -> {}]
  OBVIOUS
<1>2. f \in Seq({}) /\ Len(f) = 0
  BY <1>1
<1>3. f = << >>
  BY <1>2
<1> QED BY <1>3 DEF Empty

\* A section as save() takes it to be.
SavableSection(sec) ==
  /\ sec = [key \in DOMAIN sec |-> sec[key]] /\ IsFiniteSet(DOMAIN sec)
  /\ \A key \in DOMAIN sec : Savable(sec[key])

\* What is read of a section when the keys of K were.
Part(sec, K) == [key \in K |-> sec[key]]

LEMMA PartWith ==
  ASSUME NEW sec, NEW K, NEW key
  PROVE  With(Part(sec, K), key, sec[key]) = Part(sec, K \cup {key})
BY DEF With, Part

\* The pairs that save() writes are read into an empty section.
LEMMA SectionReads ==
  ASSUME NEW c, NEW name, Inside(c, name) = Empty, NEW sec, SavableSection(sec)
  PROVE  /\ IsSeq(WriteSection(sec))
         /\ Reads(Reading(c, name), WriteSection(sec),
                  Reading(IF sec = Empty THEN c ELSE With(c, name, sec), name))
<1> DEFINE n == Cardinality(DOMAIN sec)
           order == SetToSeq(DOMAIN sec)
           K(k) == {order[j] : j \in 1 .. k}
           files == [k \in 1 .. n |->
                      [i \in 1 .. Len(sec[order[k]]) |-> PairLine(order[k], sec[order[k]], i)]]
           st == [k \in 0 .. n |->
                   IF k = 0 THEN Reading(c, name)
                   ELSE Reading(With(c, name, Part(sec, K(k))), name)]
<1>1. IsFiniteSet(DOMAIN sec) /\ \A key \in DOMAIN sec : Savable(sec[key])
  BY DEF SavableSection
<1>2. n \in Nat /\ (n = 0 <=> DOMAIN sec = {})
  BY <1>1, FS_CardinalityType, FS_EmptySet
<1>3. order \in [1 .. n -> DOMAIN sec] /\ IsInjective(order)
  BY <1>1, OrderLaw
<1>4. \A key \in DOMAIN sec : \E k \in 1 .. n : order[k] = key
  <2>1. \A key \in DOMAIN sec : \E k \in DOMAIN order : order[k] = key
    BY <1>1, ElementsInOrder
  <2> HIDE DEF order
  <2> QED BY <1>3, <2>1
<1>5. \A j \in 1 .. n, k \in 1 .. n : order[j] = order[k] => j = k
  <2> HIDE DEF order
  <2> QED BY <1>3 DEF IsInjective
<1>6. WriteSection(sec) = FlattenSeq(files)
  BY DEF WriteSection, PairLine
<1>7. files = [k \in 1 .. n |-> files[k]]
  OBVIOUS
<1> HIDE DEF n, order
<1>8. ASSUME NEW k \in 1 .. n
      PROVE  IsSeq(files[k]) /\ Reads(st[k - 1], files[k], st[k])
  <2> DEFINE key == order[k]
             vals == sec[key]
             f == files[k]
  <2>1. key \in DOMAIN sec /\ Savable(vals)
    BY <1>1, <1>3
  <2>2. f = [i \in 1 .. Len(vals) |-> PairLine(key, vals, i)]
    OBVIOUS
  <2>3. k \in Nat /\ k >= 1 /\ k \in 0 .. n /\ k - 1 \in 0 .. n /\ (k = 1 <=> k - 1 = 0)
    BY <1>2
  <2>4. st[k] = Reading(With(c, name, Part(sec, K(k))), name)
    BY <2>3
  <2>5. K(k) = K(k - 1) \cup {key}
    <3>1. 1 .. k = (1 .. k - 1) \cup {k}
      BY <2>3
    <3> QED BY <3>1
  <2>6. key \notin K(k - 1)
    <3>1. \A j \in 1 .. k - 1 : j \in 1 .. n /\ j # k
      BY <1>2, <2>3
    <3> QED BY <1>5, <3>1
  <2>7. CASE k = 1
    <3>1. st[k - 1] = Reading(c, name)
      BY <2>3, <2>7
    <3>2. DOMAIN Inside(c, name) = {}
      BY EmptyLaw
    <3>3. K(k) = {key}
      BY <2>7
    <3>4. With(Inside(c, name), key, vals) = Part(sec, K(k))
      BY <3>2, <3>3 DEF With, Part
    <3> HIDE DEF files, st, K, f, vals, key
    <3>5. key \notin DOMAIN Inside(c, name)
      BY <3>2
    <3>6. /\ IsSeq(f)
          /\ Reads(Reading(c, name), f,
                   Reading(With(c, name, With(Inside(c, name), key, vals)), name))
      BY <2>1, <2>2, <3>5, KeyReads
    <3> QED BY <2>4, <3>1, <3>4, <3>6 DEF f
  <2>8. CASE k # 1
    <3> DEFINE old == Part(sec, K(k - 1))
               d == With(c, name, old)
    <3>1. st[k - 1] = Reading(d, name)
      BY <2>3, <2>8
    <3>2. DOMAIN old = K(k - 1)
      BY DEF Part
    <3>3. With(old, key, vals) = Part(sec, K(k))
      <4> HIDE DEF K, key
      <4> QED BY <2>5, PartWith
    <3> HIDE DEF files, st, K, f, vals, key, old
    <3>4. Inside(d, name) = old
      BY DEF Inside, With
    <3>5. key \notin DOMAIN Inside(d, name)
      BY <2>6, <3>2, <3>4
    <3>6. With(d, name, With(old, key, vals)) = With(c, name, With(old, key, vals))
      BY WithTwice
    <3> HIDE DEF d
    <3>7. /\ IsSeq(f)
          /\ Reads(Reading(d, name), f,
                   Reading(With(d, name, With(Inside(d, name), key, vals)), name))
      BY <2>1, <2>2, <3>5, KeyReads
    <3> QED BY <2>4, <3>1, <3>3, <3>4, <3>6, <3>7 DEF f
  <2> QED BY <2>7, <2>8
<1>9. st[0] = Reading(c, name)
  BY <1>2
<1>10. st[n] = Reading(IF sec = Empty THEN c ELSE With(c, name, sec), name)
  <2>1. CASE n = 0
    <3>1. sec = Empty
      BY <1>2, <2>1, NoKeys DEF SavableSection
    <3> QED BY <1>9, <2>1, <3>1
  <2>2. CASE n # 0
    <3>1. K(n) = DOMAIN sec
      BY <1>3, <1>4
    <3>2. Part(sec, DOMAIN sec) = sec
      BY DEF Part, SavableSection
    <3>3. sec # Empty
      BY <1>2, <2>2, EmptyLaw
    <3>4. n \in 0 .. n
      BY <1>2
    <3>5. st[n] = Reading(With(c, name, Part(sec, K(n))), name)
      BY <2>2, <3>4
    <3> HIDE DEF st, K
    <3> QED BY <3>1, <3>2, <3>3, <3>5
  <2> QED BY <2>1, <2>2
<1> HIDE DEF files, st
<1>11. IsSeq(FlattenSeq(files)) /\ Reads(st[0], FlattenSeq(files), st[n])
  BY <1>2, <1>7, <1>8, FlattenReads
<1> QED BY <1>6, <1>9, <1>10, <1>11

SavableConfig(c) ==
  /\ c = [name \in DOMAIN c |-> c[name]] /\ IsFiniteSet(DOMAIN c)
  /\ \A name \in DOMAIN c : SavableSection(c[name])

Start == Reading(Empty, TopName)

\* What save() writes is read as it was, but for a blank section without keys.
LEMMA ConfigReads ==
  ASSUME NEW c, SavableConfig(c)
  PROVE  \E t : Reads(Start, WriteConfig(c), t) /\ NotEmpty(t.config) = NotEmpty(c)
<1> DEFINE rest == DOMAIN c \ {TopName}
           names == SetToSeq(rest)
           m == Len(names)
           top == IF TopName \in DOMAIN c THEN c[TopName] ELSE Empty
           T == IF top = Empty THEN {} ELSE {TopName}
           K(n) == T \cup {names[j] : j \in 1 .. n}
           files == [n \in 1 .. m |-> <<Header(names[n], TRUE)>> \o WriteSection(c[names[n]])]
           st == [n \in 0 .. m |->
                   Reading(Part(c, K(n)), IF n = 0 THEN TopName ELSE names[n])]
<1>1. \A name \in DOMAIN c : SavableSection(c[name])
  BY DEF SavableConfig
<1>2. names \in Seq(rest) /\ \A e \in rest : \E i \in DOMAIN names : names[i] = e
  <2>1. IsFiniteSet(rest)
    BY FS_RemoveElement DEF SavableConfig
  <2> HIDE DEF rest
  <2> QED BY <2>1, ElementsInOrder
<1>3. WriteConfig(c) = WriteSection(top) \o FlattenSeq(files)
  BY DEF WriteConfig
<1>4. files = [n \in 1 .. m |-> files[n]]
  OBVIOUS
<1> HIDE DEF names
<1>5. m \in Nat /\ DOMAIN names = 1 .. m /\ \A n \in 1 .. m : names[n] \in rest
  BY <1>2
<1>6. SavableSection(top)
  <2>1. CASE TopName \in DOMAIN c
    BY <1>1, <2>1
  <2>2. CASE TopName \notin DOMAIN c
    <3>1. Empty = [x \in DOMAIN Empty |-> Empty[x]]
      BY DEF Empty
    <3> QED BY <2>2, <3>1, EmptyLaw, FS_EmptySet DEF SavableSection
  <2> QED BY <2>1, <2>2
<1>7. IsSeq(WriteSection(top)) /\ Reads(Start, WriteSection(top), st[0])
  <2>1. Inside(Empty, TopName) = Empty
    BY EmptyLaw DEF Inside
  <2>2. Part(c, K(0)) = IF top = Empty THEN Empty ELSE With(Empty, TopName, top)
    <3>1. K(0) = T
      OBVIOUS
    <3>2. CASE top = Empty
      <4>1. DOMAIN Part(c, {}) = {} /\ Part(c, {}) = [x \in DOMAIN Part(c, {}) |-> Part(c, {})[x]]
        BY DEF Part
      <4>2. Part(c, {}) = Empty
        BY <4>1, NoKeys
      <4> QED BY <3>1, <3>2, <4>2
    <3>3. CASE top # Empty
      <4>1. TopName \in DOMAIN c /\ top = c[TopName]
        BY <3>3
      <4>2. With(Empty, TopName, top) = Part(c, {TopName})
        BY <4>1, EmptyLaw DEF With, Part
      <4> HIDE DEF top
      <4> QED BY <3>1, <3>3, <4>2
    <3> QED BY <3>2, <3>3
  <2>3. st[0] = Reading(Part(c, K(0)), TopName)
    BY <1>5
  <2> HIDE DEF top, st, K, T
  <2>4. /\ IsSeq(WriteSection(top))
        /\ Reads(Reading(Empty, TopName), WriteSection(top),
                 Reading(IF top = Empty THEN Empty ELSE With(Empty, TopName, top), TopName))
    BY <1>6, <2>1, SectionReads
  <2> QED BY <2>2, <2>3, <2>4 DEF Start
<1>8. ASSUME NEW n \in 1 .. m
      PROVE  IsSeq(files[n]) /\ Reads(st[n - 1], files[n], st[n])
  <2> DEFINE name == names[n]
             sec == c[name]
             l == Header(name, TRUE)
             old == Part(c, K(n - 1))
             with == With(old, name, Empty)
             s == st[n - 1]
             t == Reading(with, name)
  <2>1. name \in DOMAIN c /\ SavableSection(sec)
    BY <1>1, <1>5
  <2>2. n \in Nat /\ n >= 1 /\ n \in 0 .. m /\ n - 1 \in 0 .. m
    BY <1>5
  <2>3. s.config = old
    <3>1. s = Reading(old, IF n - 1 = 0 THEN TopName ELSE names[n - 1])
      BY <2>2
    <3> QED BY <3>1 DEF Reading
  <2>4. st[n] = Reading(Part(c, K(n)), name)
    BY <2>2
  <2>5. K(n) = K(n - 1) \cup {name}
    <3>1. 1 .. n = (1 .. n - 1) \cup {n}
      BY <2>2
    <3> QED BY <3>1
  <2>6. l.kind \in {"header", "pair"} /\ ~Refused(l) /\ l.kind = "header" /\ l.name = name
    BY DEF Header, Refused
  <2>7. files[n] = <<l>> \o WriteSection(sec)
    OBVIOUS
  <2> HIDE DEF names, files, st, K, T, sec, l, s, old, name
  <2>8. IsSeq(<<l>>) /\ Reads(s, <<l>>, t)
    <3>1. After(s, l) = t
      BY <2>3, <2>6 DEF After, Reading
    <3> QED BY <2>6, <3>1, ReadsOne
  <2>9. Inside(with, name) = Empty
    BY DEF Inside, With
  <2>10. (IF sec = Empty THEN with ELSE With(with, name, sec)) = Part(c, K(n))
    <3>1. With(with, name, sec) = With(old, name, sec)
      BY WithTwice
    <3>2. With(old, name, sec) = Part(c, K(n))
      <4>1. With(Part(c, K(n - 1)), name, c[name]) = Part(c, K(n - 1) \cup {name})
        BY PartWith
      <4> QED BY <2>5, <4>1 DEF old, sec
    <3> QED BY <3>1, <3>2
  <2> HIDE DEF with
  <2>11. /\ IsSeq(WriteSection(sec))
         /\ Reads(t, WriteSection(sec), st[n])
    <3>1. /\ IsSeq(WriteSection(sec))
          /\ Reads(Reading(with, name), WriteSection(sec),
                   Reading(IF sec = Empty THEN with ELSE With(with, name, sec), name))
      BY <2>1, <2>9, SectionReads
    <3> QED BY <2>4, <2>10, <3>1
  <2> DEFINE h == <<l>>
             w == WriteSection(sec)
  <2>12. IsSeq(h) /\ IsSeq(w) /\ Reads(s, h, t) /\ Reads(t, w, st[n])
    BY <2>8, <2>11
  <2>13. files[n] = h \o w
    BY <2>7
  <2> HIDE DEF h, w, t
  <2>14. Reads(s, h \o w, st[n])
    BY <2>12, ReadsBoth
  <2>15. IsSeq(h \o w)
    BY <2>12, ConcatLaw
  <2> QED BY <2>13, <2>14, <2>15 DEF s
<1>9. st[m] = Reading(Part(c, K(m)), IF m = 0 THEN TopName ELSE names[m])
  BY <1>5
<1>10. NotEmpty(Part(c, K(m))) = NotEmpty(c)
  <2> DEFINE d == Part(c, K(m))
  <2>1. DOMAIN d = K(m) /\ \A x \in K(m) : d[x] = c[x]
    BY DEF Part
  <2>2. \A x : x \in K(m) <=> x \in rest \/ (x = TopName /\ top # Empty)
    BY <1>2, <1>5
  <2> HIDE DEF d, K, T
  <2>3. {x \in DOMAIN d : d[x] # Empty} = {x \in DOMAIN c : c[x] # Empty}
    BY <2>1, <2>2
  <2>4. NotEmpty(d) = NotEmpty(c)
    BY <2>1, <2>3 DEF NotEmpty
  <2> QED BY <2>4 DEF d
<1> HIDE DEF files, st, top, K, T, m
<1>11. IsSeq(FlattenSeq(files)) /\ Reads(st[0], FlattenSeq(files), st[m])
  <2>1. m \in Nat
    BY <1>5
  <2> QED BY <1>4, <1>8, <2>1, FlattenReads
<1>12. Reads(Start, WriteConfig(c), st[m])
  <2> DEFINE f == WriteSection(top)
             g == FlattenSeq(files)
  <2>1. IsSeq(f) /\ IsSeq(g) /\ Reads(Start, f, st[0]) /\ Reads(st[0], g, st[m])
    BY <1>7, <1>11
  <2>2. WriteConfig(c) = f \o g
    BY <1>3
  <2> HIDE DEF f, g
  <2>3. Reads(Start, f \o g, st[m])
    BY <2>1, ReadsBoth
  <2> QED BY <2>2, <2>3
<1>13. st[m].config = Part(c, K(m))
  BY <1>9 DEF Reading
<1> QED BY <1>10, <1>12, <1>13

\* A configuration whose keys all have values, as load() makes it.
WholeList(vals) == vals # Empty /\ \A i \in 1 .. Len(vals) : IsSeq(vals[i])
WholeSection(sec) ==
  /\ sec = [key \in DOMAIN sec |-> sec[key]]
  /\ \A key \in DOMAIN sec : WholeList(sec[key])
Whole(c) ==
  /\ c = [name \in DOMAIN c |-> c[name]]
  /\ \A name \in DOMAIN c : WholeSection(c[name])

LEMMA EmptyIsWhole == WholeSection(Empty) /\ Whole(Empty)
<1>1. Empty = [x \in DOMAIN Empty |-> Empty[x]]
  BY DEF Empty
<1> QED BY <1>1, EmptyLaw DEF WholeSection, Whole

LEMMA WholeIsSavable ==
  ASSUME NEW c, IsConfig(c), Whole(c), AllPlain(c)
  PROVE  SavableConfig(c)
<1>1. ASSUME NEW name \in DOMAIN c, NEW key \in DOMAIN c[name]
      PROVE  Savable(c[name][key])
  <2> DEFINE vals == c[name][key]
  <2>1. IsSeq(vals)
    BY DEF IsConfig
  <2>2. WholeList(vals)
    BY DEF Whole, WholeSection
  <2>3. \A i \in 1 .. Len(vals) : Plain(vals[i])
    BY DEF AllPlain
  <2> HIDE DEF vals
  <2>4. Savable(vals)
    BY <2>1, <2>2, <2>3 DEF Savable, WholeList
  <2> QED BY <2>4 DEF vals
<1>2. ASSUME NEW name \in DOMAIN c
      PROVE  SavableSection(c[name])
  BY <1>1 DEF SavableSection, Whole, WholeSection, IsConfig
<1> QED BY <1>2 DEF SavableConfig, Whole, IsConfig

\* A set of naturals has a smallest number, and one of those up to n a greatest.
LEMMA LeastLaw ==
  ASSUME NEW S \in SUBSET Nat, S # {}
  PROVE  \E m \in S : \A i \in S : m <= i
<1> DEFINE R == OpToRel(<, Nat)
<1>1. IsWellFoundedOn(R, Nat)
  BY NatLessThanWellFounded
<1>2. R = {ss \in Nat \X Nat : ss[1] < ss[2]}
  BY DEF OpToRel
<1> HIDE DEF R
<1>3. PICK m \in S : \A i \in S : ~(<<i, m>> \in R)
  BY <1>1, WFMin
<1>4. ASSUME NEW i \in S
      PROVE  m <= i
  <2>1. i \in Nat /\ m \in Nat /\ ~(<<i, m>> \in R)
    BY <1>3
  <2> QED BY <1>2, <2>1
<1> QED BY <1>4

LEMMA ExtremesLaw ==
  ASSUME NEW n \in Nat, NEW S \in SUBSET (1 .. n), S # {}
  PROVE  Min(S) \in S /\ Max(S) \in S
<1>1. Min(S) \in S
  <2>1. \E m \in S : \A i \in S : m <= i
    BY LeastLaw
  <2> QED BY <2>1 DEF Min
<1>2. Max(S) \in S
  <2> DEFINE T == {n - i : i \in S}
  <2>1. T \in SUBSET Nat /\ T # {}
    <3>1. \A i \in S : n - i \in Nat
      OBVIOUS
    <3>2. \A j \in T : j \in Nat
      BY <3>1
    <3>3. PICK k \in S : TRUE
      OBVIOUS
    <3>4. n - k \in T
      BY <3>3
    <3> HIDE DEF T
    <3> QED BY <3>2, <3>4
  <2>2. PICK m \in T : \A i \in T : m <= i
    <3> HIDE DEF T
    <3> QED BY <2>1, LeastLaw
  <2>3. PICK k \in S : m = n - k
    BY <2>2
  <2>4. ASSUME NEW i \in S
        PROVE  k >= i
    <3>1. m <= n - i
      BY <2>2
    <3> QED BY <2>3, <3>1
  <2> QED BY <2>4 DEF Max
<1> QED BY <1>1, <1>2

\* A part of a sequence of characters is one.
LEMMA PartOfText ==
  ASSUME NEW s, IsSeq(s)
  PROVE  IsSeq(Unquote(Trim(s)))
<1>1. IsSeq(Trim(s))
  <2> DEFINE kept == {i \in 1 .. Len(s) : s[i] # Blank}
  <2>1. Trim(s) = IF kept = {} THEN Empty ELSE SubSeq(s, Min(kept), Max(kept))
    BY DEF Trim
  <2>2. CASE kept = {}
    BY <2>1, <2>2, EmptyLaw
  <2>3. CASE kept # {}
    <3> DEFINE S == ToSet(s)
    <3>1. s \in Seq(S) /\ Len(s) \in Nat
      BY DEF IsSeq
    <3>2. \A i \in kept : i \in 1 .. Len(s)
      OBVIOUS
    <3>3. Min(kept) \in kept /\ Max(kept) \in kept
      <4>1. kept \in SUBSET (1 .. Len(s))
        OBVIOUS
      <4> HIDE DEF kept
      <4> QED BY <2>3, <3>1, <4>1, ExtremesLaw
    <3> DEFINE a == Min(kept)
               b == Max(kept)
    <3>4. a \in 1 .. Len(s) /\ b \in 1 .. Len(s)
      BY <3>2, <3>3
    <3> HIDE DEF kept, S
    <3>5. SubSeq(s, a, b) \in Seq(S)
      <4> HIDE DEF a, b
      <4> QED BY <3>1, <3>4
    <3> QED BY <2>1, <2>3, <3>5, SeqLaw
  <2> QED BY <2>2, <2>3
<1> DEFINE t == Trim(s)
<1> HIDE DEF t
<1>2. IsSeq(t)
  BY <1>1 DEF t
<1>3. IsSeq(Unquote(t))
  <2>1. t \in Seq(ToSet(t)) /\ Len(t) \in Nat
    BY <1>2 DEF IsSeq
  <2>2. CASE ~IsQuoted(t)
    BY <1>2, <2>2 DEF Unquote
  <2>3. CASE IsQuoted(t)
    <3> DEFINE S == ToSet(t)
    <3> HIDE DEF S
    <3>1. t \in Seq(S)
      BY <2>1 DEF S
    <3>2. SubSeq(t, 2, Len(t) - 1) \in Seq(S)
      BY <2>1, <3>1
    <3> QED BY <2>3, <3>2, SeqLaw DEF Unquote
  <2> QED BY <2>2, <2>3
<1> QED BY <1>3 DEF t

\* A value that is put into a list of texts leaves one.
LEMMA PutTexts ==
  ASSUME NEW values, IsSeq(values), \A i \in 1 .. Len(values) : IsSeq(values[i]),
         NEW index \in Nat \cup {NoIndex}, NEW v, IsSeq(v)
  PROVE  WholeList(Put(values, index, v))
<1> DEFINE put == Put(values, index, v)
<1>1. Len(values) \in Nat /\ values \in Seq(ToSet(values))
  BY DEF IsSeq
<1>2. CASE index = NoIndex
  <2> DEFINE n == Len(values)
             S == ToSet(values) \cup {v}
  <2>1. put = Append(values, v)
    BY <1>2 DEF Put
  <2>2. values \in Seq(S) /\ v \in S
    BY <1>1
  <2> HIDE DEF S, put
  <2>3. put \in Seq(S) /\ Len(put) = n + 1 /\ put[n + 1] = v
        /\ \A i \in 1 .. n : put[i] = values[i]
    BY <2>1, <2>2
  <2>4. \A i \in 1 .. n + 1 : i = n + 1 \/ i \in 1 .. n
    BY <1>1
  <2>5. put # Empty
    BY <1>1, <2>3, EmptyLaw
  <2> HIDE DEF n
  <2>6. \A i \in 1 .. Len(put) : IsSeq(put[i])
    BY <2>3, <2>4 DEF n
  <2>7. WholeList(put)
    BY <2>5, <2>6 DEF WholeList
  <2> QED BY <2>7 DEF put
<1>3. CASE index # NoIndex
  <2> DEFINE n == IF Len(values) >= index + 1 THEN Len(values) ELSE index + 1
  <2>1. index \in Nat /\ n \in Nat /\ n > 0
    BY <1>1, <1>3
  <2>2. put = [i \in 1 .. n |-> IF i = index + 1 THEN v
                                ELSE IF i <= Len(values) THEN values[i] ELSE Empty]
    BY <1>1, <1>3, <2>1, MaxLaw DEF Put
  <2> HIDE DEF n, put
  <2>3. ASSUME NEW i \in 1 .. n
        PROVE  IsSeq(put[i])
    <3>1. i \in Nat /\ i >= 1
      BY <2>1
    <3>2. i <= Len(values) => i \in 1 .. Len(values)
      BY <1>1, <3>1
    <3>3. put[i] = IF i = index + 1 THEN v ELSE IF i <= Len(values) THEN values[i] ELSE Empty
      BY <2>2
    <3> QED BY <3>2, <3>3, EmptyLaw
  <2>4. Len(put) = n /\ DOMAIN put = 1 .. n
    BY <2>1, <2>2
  <2>5. put # Empty
    <3>1. 1 \in 1 .. n
      BY <2>1
    <3> QED BY <2>4, <3>1, EmptyLaw
  <2>6. WholeList(put)
    BY <2>3, <2>4, <2>5 DEF WholeList
  <2> QED BY <2>6 DEF put
<1> QED BY <1>2, <1>3

\* A whole configuration stays one when a section is put into it.
LEMMA WholeWith ==
  ASSUME NEW c, Whole(c), NEW name, NEW sec, WholeSection(sec)
  PROVE  Whole(With(c, name, sec))
<1> DEFINE d == With(c, name, sec)
<1>1. /\ DOMAIN d = DOMAIN c \cup {name} /\ d[name] = sec
      /\ \A x \in DOMAIN c : x # name => d[x] = c[x]
      /\ d = [x \in DOMAIN d |-> d[x]]
  BY DEF With
<1> HIDE DEF d
<1>2. ASSUME NEW x \in DOMAIN d
      PROVE  WholeSection(d[x])
  BY <1>1 DEF Whole
<1>3. Whole(d)
  BY <1>1, <1>2 DEF Whole
<1> QED BY <1>3 DEF d

LEMMA WholeSectionWith ==
  ASSUME NEW sec, WholeSection(sec), NEW key, NEW vals, WholeList(vals)
  PROVE  WholeSection(With(sec, key, vals))
<1> DEFINE d == With(sec, key, vals)
<1>1. /\ DOMAIN d = DOMAIN sec \cup {key} /\ d[key] = vals
      /\ \A x \in DOMAIN sec : x # key => d[x] = sec[x]
      /\ d = [x \in DOMAIN d |-> d[x]]
  BY DEF With
<1> HIDE DEF d
<1>2. ASSUME NEW x \in DOMAIN d
      PROVE  WholeList(d[x])
  BY <1>1 DEF WholeSection
<1>3. WholeSection(d)
  BY <1>1, <1>2 DEF WholeSection
<1> QED BY <1>3 DEF d

\* Every line leaves a whole configuration.
LEMMA ReadLineWhole ==
  ASSUME ConfigInv, Whole(config), HasTexts(file), ReadLine
  PROVE  Whole(config')
<1> DEFINE l == file[pos]
           sec == Section(section)
           old == ValuesIn(sec, l.key)
           v == Unquote(Trim(l.value))
           values == Put(old, l.index, v)
<1>1. pos \in 1 .. LinesRead /\ pos \in 1 .. Len(file)
  BY LineLaw DEF ReadLine, ConfigInv
<1>2. l \in ToSet(file)
  <2>1. ToSet(file) = {file[i] : i \in 1 .. Len(file)}
    BY IsSeqLaw DEF ConfigInv, IsFile
  <2> QED BY <1>1, <2>1
<1>3. l.kind \in {"header", "pair", "junk"} /\ (l.kind = "pair" => l.index \in Indices)
  BY <1>1, LineLaw
<1>4. CASE Refused(l)
  <2>1. UNCHANGED config
    BY <1>4 DEF ReadLine
  <2> QED BY <2>1
<1>5. CASE ~Refused(l) /\ l.kind = "header"
  <2>1. config' = With(config, l.name, Empty)
    BY <1>5 DEF ReadLine, ReadHeader
  <2> HIDE DEF l
  <2> QED BY <2>1, EmptyIsWhole, WholeWith
<1>6. CASE ~Refused(l) /\ l.kind = "pair"
  <2>1. config' = With(config, section, With(sec, l.key, values))
    BY <1>6 DEF ReadLine, ReadPair
  <2>2. l.index \in Nat \cup {NoIndex}
    BY <1>3, <1>6 DEF Refused, Indices
  <2>3. IsSeq(l.value)
    BY <1>2, <1>6 DEF HasTexts
  <2> HIDE DEF l
  <2>4. IsSeq(v)
    BY <2>3, PartOfText
  <2>5. WholeSection(sec)
    BY EmptyIsWhole DEF Section, Whole
  <2>6. IsSeq(old)
    BY SectionLaw DEF ConfigInv
  <2> HIDE DEF sec
  <2>7. \A i \in 1 .. Len(old) : IsSeq(old[i])
    <3>1. CASE l.key \in DOMAIN sec
      <4>1. old = sec[l.key]
        BY <3>1 DEF ValuesIn
      <4>2. WholeList(sec[l.key])
        BY <2>5, <3>1 DEF WholeSection
      <4> QED BY <4>1, <4>2 DEF WholeList
    <3>2. CASE l.key \notin DOMAIN sec
      <4>1. old = Empty
        BY <3>2 DEF ValuesIn
      <4> QED BY <4>1, EmptyLaw
    <3> QED BY <3>1, <3>2
  <2> HIDE DEF old, v
  <2>8. WholeList(values)
    BY <2>2, <2>4, <2>6, <2>7, PutTexts
  <2> HIDE DEF values
  <2>9. WholeSection(With(sec, l.key, values))
    BY <2>5, <2>8, WholeSectionWith
  <2> QED BY <2>1, <2>9, WholeWith
<1>7. ~Refused(l) => l.kind \in {"header", "pair"}
  BY <1>3 DEF Refused
<1> QED BY <1>4, <1>5, <1>6, <1>7

\* The file is what c was written to, and what was read of it is what load() makes
\* of the lines before pos.
Rereads(c) ==
  /\ file = WriteConfig(c) /\ ended /\ correct /\ phase # "null"
  /\ \A t, tr : Leads(Start, file, t, tr) => Reading(config, section) = tr[pos - 1]

\* What was saved is whole, and is being read again.
SavedInv ==
  /\ before = Empty => Whole(config) /\ HasTexts(file)
  /\ before # Empty =>
       \E c : before = <<c>> /\ IsConfig(c) /\ Whole(c) /\ (AllPlain(c) => Rereads(c))

\* A line that is not refused is read as After() says.
LEMMA ReadLineAfter ==
  ASSUME ReadLine, ~Refused(file[pos]), file[pos].kind \in {"header", "pair"}
  PROVE  Reading(config', section') = After(Reading(config, section), file[pos])
<1> DEFINE l == file[pos]
           s == Reading(config, section)
<1>1. s.config = config /\ s.section = section
  BY DEF Reading
<1>2. CASE l.kind = "header"
  <2>1. section' = l.name /\ config' = With(config, l.name, Empty)
    BY <1>2 DEF ReadLine, ReadHeader
  <2>2. After(s, l) = Reading(With(config, l.name, Empty), l.name)
    <3> HIDE DEF s, l
    <3> QED BY <1>1, <1>2 DEF After, Reading
  <2> QED BY <2>1, <2>2
<1>3. CASE l.kind = "pair"
  <2> DEFINE sec == Section(section)
             new == With(config, section,
                         With(sec, l.key, Put(ValuesIn(sec, l.key), l.index, Unquote(Trim(l.value)))))
  <2>1. section' = section /\ config' = new
    BY <1>3 DEF ReadLine, ReadPair
  <2>2. After(s, l) = Reading(new, section)
    <3>1. sec = IF section \in DOMAIN config THEN config[section] ELSE Empty
      BY DEF Section
    <3> HIDE DEF s, l, sec
    <3>2. l.kind # "header"
      BY <1>3
    <3> QED BY <1>1, <3>1, <3>2 DEF After, Reading
  <2> HIDE DEF new, sec, s, l
  <2> QED BY <2>1, <2>2 DEF s, l
<1> QED BY <1>2, <1>3

\* Every line that save() wrote is read.
LEMMA ReadLineRereads ==
  ASSUME ConfigInv, ReadLine, NEW c, IsConfig(c), Whole(c), AllPlain(c), Rereads(c)
  PROVE  Rereads(c)'
<1>1. UNCHANGED <<file, ended, phase>> /\ pos' = pos + 1
  BY DEF ReadLine
<1>2. pos \in 1 .. Len(file) /\ pos' - 1 = pos
  BY <1>1, LineLaw DEF ReadLine, ConfigInv
<1>3. ASSUME NEW t, NEW tr, Leads(Start, file, t, tr)
      PROVE  ~Refused(file[pos]) /\ Reading(config', section') = tr[pos]
  <2>1. /\ file[pos].kind \in {"header", "pair"} /\ ~Refused(file[pos])
        /\ tr[pos] = After(tr[pos - 1], file[pos])
    BY <1>2, <1>3 DEF Leads
  <2>2. Reading(config, section) = tr[pos - 1]
    BY <1>3 DEF Rereads
  <2> QED BY <2>1, <2>2, ReadLineAfter
<1>4. SavableConfig(c)
  BY WholeIsSavable
<1>5. PICK t : Reads(Start, file, t)
  BY <1>4, ConfigReads DEF Rereads
<1>6. PICK tr : Leads(Start, file, t, tr)
  BY <1>5 DEF Reads
<1>7. correct'
  <2>1. ~Refused(file[pos])
    BY <1>3, <1>6
  <2> QED BY <2>1 DEF ReadLine, NoErrors, Rereads
<1>8. \A u, ur : Leads(Start, file', u, ur) => Reading(config', section') = ur[pos' - 1]
  BY <1>1, <1>2, <1>3
<1>9. (file = WriteConfig(c) /\ ended /\ phase # "null")'
  BY <1>1 DEF Rereads
<1> QED BY <1>7, <1>8, <1>9 DEF Rereads

LEMMA ReadLineSaved ==
  ASSUME ConfigInv, SavedInv, ReadLine
  PROVE  SavedInv'
<1>1. UNCHANGED <<file, before>>
  BY DEF ReadLine
<1>2. CASE before = Empty
  <2>1. Whole(config') /\ HasTexts(file)
    BY <1>2, ReadLineWhole DEF SavedInv
  <2>2. HasTexts(file)'
    BY <1>1, <2>1 DEF HasTexts
  <2> QED BY <1>1, <1>2, <2>1, <2>2 DEF SavedInv
<1>3. CASE before # Empty
  <2>1. PICK c : before = <<c>> /\ IsConfig(c) /\ Whole(c) /\ (AllPlain(c) => Rereads(c))
    BY <1>3 DEF SavedInv
  <2>2. AllPlain(c) => Rereads(c)'
    BY <2>1, ReadLineRereads
  <2> QED BY <1>1, <1>3, <2>1, <2>2 DEF SavedInv
<1> QED BY <1>2, <1>3

LEMMA LoadReturnsSaved ==
  ASSUME SavedInv, LoadReturns
  PROVE  SavedInv'
<1>1. UNCHANGED <<file, ended, pos, section, correct, before>>
  BY DEF LoadReturns
<1>2. CASE before = Empty
  <2>1. Whole(config')
    BY <1>2, EmptyIsWhole DEF SavedInv, LoadReturns
  <2>2. HasTexts(file)'
    BY <1>1, <1>2 DEF HasTexts, SavedInv
  <2> QED BY <1>1, <1>2, <2>1, <2>2 DEF SavedInv
<1>3. CASE before # Empty
  <2>1. PICK c : before = <<c>> /\ IsConfig(c) /\ Whole(c) /\ (AllPlain(c) => Rereads(c))
    BY <1>3 DEF SavedInv
  <2>2. ASSUME AllPlain(c)
        PROVE  Rereads(c)'
    <3>1. Rereads(c)
      BY <2>1, <2>2
    <3>2. phase' = "loaded" /\ config' = config
      BY <3>1 DEF LoadReturns, Rereads
    <3> QED BY <1>1, <3>1, <3>2 DEF Rereads
  <2> QED BY <1>1, <1>3, <2>1, <2>2 DEF SavedInv
<1> QED BY <1>2, <1>3

LEMMA SaveAndLoadSaved ==
  ASSUME ConfigInv, SavedInv, SaveAndLoad
  PROVE  SavedInv'
<1>1. /\ before = Empty /\ before' = <<config>> /\ file' = WriteConfig(config)
      /\ ended' = TRUE /\ pos' = 1 /\ config' = Empty /\ section' = TopName
      /\ correct' = TRUE /\ phase' = "reading"
  BY DEF SaveAndLoad
<1>2. PICK c : c = config
  OBVIOUS
<1>3. IsConfig(c) /\ Whole(c)
  BY <1>1, <1>2 DEF ConfigInv, SavedInv
<1>4. \A t, tr : Leads(Start, file', t, tr) => Reading(config', section') = tr[pos' - 1]
  <2>1. pos' - 1 = 0 /\ Reading(config', section') = Start
    BY <1>1 DEF Start
  <2> QED BY <2>1 DEF Leads
<1>5. Rereads(c)'
  BY <1>1, <1>2, <1>4 DEF Rereads
<1>6. before' = <<c>> /\ before' # Empty
  BY <1>1, <1>2 DEF Empty
<1> QED BY <1>3, <1>5, <1>6 DEF SavedInv

LEMMA SavedKept ==
  ASSUME SavedInv, UNCHANGED <<file, ended, pos, config, section, correct, phase, before>>
  PROVE  SavedInv'
<1>1. HasTexts(file) => HasTexts(file)'
  BY DEF HasTexts
<1>2. \A c : Rereads(c) => Rereads(c)'
  BY DEF Rereads
<1> QED BY <1>1, <1>2 DEF SavedInv

\* The inductive invariant, which with SettingsInv is one.
THEOREM SavedInvariance == SettingsSpec => []SavedInv
<1>1. SettingsInit => SavedInv
  <2> SUFFICES ASSUME SettingsInit PROVE SavedInv
    OBVIOUS
  <2>1. HasTexts(file) /\ config = Empty /\ before = Empty
    BY ConfigAssumption DEF SettingsInit, ConfigInit
  <2> QED BY <2>1, EmptyIsWhole DEF SavedInv
<1>2. SettingsInv /\ SavedInv /\ [SettingsNext]_startVars => SavedInv'
  <2> SUFFICES ASSUME SettingsInv, SavedInv, [SettingsNext]_startVars PROVE SavedInv'
    OBVIOUS
  <2>1. ConfigInv
    BY DEF SettingsInv
  <2>2. CASE ConfigNext
    BY <2>1, <2>2, ReadLineSaved, LoadReturnsSaved, SaveAndLoadSaved DEF ConfigNext
  <2>3. CASE UNCHANGED <<loadVars, phase>>
    BY <2>3, SavedKept DEF loadVars
  <2>4. ConfigNext \/ UNCHANGED <<loadVars, phase>>
    BY DEF SettingsNext, StartEvent, StartEventFails, StartLog, startVars
  <2> QED BY <2>2, <2>3, <2>4
<1> QED BY <1>1, <1>2, SettingsInvariance, PTL DEF SettingsSpec

\* A configuration that was saved is loaded again, if its values end neither in a
\* blank nor have quotes around them.
THEOREM SavingKeepsValues == SettingsSpec => []SavedLoadsBack
<1>1. SettingsInv /\ SavedInv => SavedLoadsBack
  <2> SUFFICES ASSUME SettingsInv, SavedInv, before # Empty, AllPlain(Head(before))
               PROVE  phase # "null" /\
                      (phase = "loaded" => NotEmpty(config) = NotEmpty(Head(before)))
    BY DEF SavedLoadsBack
  <2>1. PICK c : before = <<c>> /\ IsConfig(c) /\ Whole(c) /\ (AllPlain(c) => Rereads(c))
    BY DEF SavedInv
  <2>2. Head(before) = c
    BY <2>1
  <2>3. Rereads(c) /\ SavableConfig(c)
    BY <2>1, <2>2, WholeIsSavable
  <2>4. ASSUME phase = "loaded"
        PROVE  NotEmpty(config) = NotEmpty(c)
    <3>1. pos - 1 = Len(file)
      <4>1. ConfigInv /\ ended
        BY <2>3 DEF SettingsInv, Rereads
      <4>2. Len(file) \in Nat
        BY <4>1, IsSeqLaw DEF ConfigInv, IsFile
      <4>3. LinesRead = Len(file)
        BY <4>1 DEF LinesRead
      <4> QED BY <2>4, <4>1, <4>2, <4>3 DEF ConfigInv
    <3>2. PICK t : Reads(Start, file, t) /\ NotEmpty(t.config) = NotEmpty(c)
      BY <2>3, ConfigReads DEF Rereads
    <3>3. PICK tr : Leads(Start, file, t, tr)
      BY <3>2 DEF Reads
    <3>4. Reading(config, section) = t
      BY <2>3, <3>1, <3>3 DEF Rereads, Leads
    <3>5. t.config = config
      BY <3>4 DEF Reading
    <3> QED BY <3>2, <3>5
  <2>5. phase # "null"
    BY <2>3 DEF Rereads
  <2> QED BY <2>2, <2>4, <2>5
<1> QED BY <1>1, SettingsInvariance, SavedInvariance, PTL
=============================================================================
