---------------------------- MODULE CommandsProofs --------------------------
(***************************************************************************)
(* Theorems about Commands, for any lines, texts to echo and options, and  *)
(* for any identifiers made of letters, and at the end about Timers, for   *)
(* any timers, periods and widths of an ID.                                *)
(***************************************************************************)
EXTENDS Commands, Timers, FiniteSetTheorems, SequenceTheorems, WellFoundedInduction, TLAPS

\* A set that has 0 and the successor of each of its numbers has them all.
LEMMA Induction ==
  ASSUME NEW S, 0 \in S, \A n \in Nat : n \in S => n + 1 \in S
  PROVE  \A n \in Nat : n \in S
<1> DEFINE R == OpToRel(<, Nat)
           T == Nat \ S
<1> SUFFICES ASSUME T # {} PROVE FALSE
  OBVIOUS
<1>1. IsWellFoundedOn(R, Nat)
  BY NatLessThanWellFounded
<1>2. R = {ss \in Nat \X Nat : ss[1] < ss[2]}
  BY DEF OpToRel
<1> HIDE DEF R
<1>3. PICK m \in T : \A n \in T : ~(<<n, m>> \in R)
  <2>1. T \subseteq Nat
    OBVIOUS
  <2> HIDE DEF T
  <2> QED BY <1>1, <2>1, WFMin
<1>4. m \in Nat /\ m # 0
  BY <1>3
<1>5. m - 1 \in Nat /\ m - 1 \notin T
  <2>1. m - 1 \in Nat /\ m - 1 < m
    BY <1>4
  <2>2. <<m - 1, m>> \in R
    BY <1>2, <1>4, <2>1
  <2> HIDE DEF T
  <2> QED BY <1>3, <2>1, <2>2
<1>6. (m - 1) + 1 \in S
  BY <1>5
<1> QED BY <1>3, <1>4, <1>6

\* f gives the states of a loop of k rounds from a, whose round n takes a state x
\* of T to G[<<x, n>>].
Loop(f, T, a, k, G) ==
  f \in [0 .. k -> T] /\ f[0] = a /\ \A n \in 1 .. k : f[n] = G[<<f[n - 1], n>>]

Rounds(T, k) == [T \X (1 .. k) -> T]

\* A loop of k rounds has its states, whatever function a round is.
LEMMA LoopExists ==
  ASSUME NEW T, NEW a \in T, NEW k \in Nat, NEW G \in Rounds(T, k)
  PROVE  \E f : Loop(f, T, a, k, G)
<1> USE DEF Rounds
<1> DEFINE Is(f, n) == f[0] = a /\ \A i \in 1 .. n : f[i] = G[<<f[i - 1], i>>]
           S == {n \in Nat : n <= k => \E f \in [0 .. n -> T] : Is(f, n)}
<1>1. 0 \in S
  <2> DEFINE f == [i \in 0 .. 0 |-> a]
  <2>1. f \in [0 .. 0 -> T] /\ Is(f, 0)
    OBVIOUS
  <2> QED BY <2>1
<1>2. ASSUME NEW n \in Nat, n \in S
      PROVE  n + 1 \in S
  <2> SUFFICES ASSUME n + 1 <= k
               PROVE  \E f \in [0 .. n + 1 -> T] : Is(f, n + 1)
    OBVIOUS
  <2>1. PICK f \in [0 .. n -> T] : Is(f, n)
    BY <1>2
  <2>2. n + 1 \in 1 .. k /\ f[n] \in T /\ G[<<f[n], n + 1>>] \in T
    OBVIOUS
  <2> DEFINE g == [i \in 0 .. n + 1 |-> IF i = n + 1 THEN G[<<f[n], n + 1>>] ELSE f[i]]
  <2>3. g \in [0 .. n + 1 -> T]
    BY <2>2
  <2>4. g[0] = a
    BY <2>1
  <2>5. ASSUME NEW i \in 1 .. n + 1
        PROVE  g[i] = G[<<g[i - 1], i>>]
    <3>1. CASE i = n + 1
      <4>1. i - 1 = n /\ n \in 0 .. n + 1 /\ n # n + 1 /\ i \in 0 .. n + 1
        BY <3>1
      <4>2. g[i - 1] = f[n]
        BY <4>1
      <4>3. g[i] = G[<<f[n], n + 1>>]
        BY <3>1, <4>1
      <4> HIDE DEF g
      <4> QED BY <3>1, <4>2, <4>3
    <3>2. CASE i # n + 1
      <4>1. i \in 1 .. n /\ i - 1 \in 0 .. n /\ i - 1 # n + 1
        BY <3>2
      <4>2. g[i] = f[i] /\ g[i - 1] = f[i - 1]
        BY <4>1
      <4> QED BY <2>1, <4>1, <4>2
    <3> QED BY <3>1, <3>2
  <2> HIDE DEF g
  <2> QED BY <2>3, <2>4, <2>5
<1>3. k \in S
  <2> HIDE DEF S
  <2> QED BY <1>1, <1>2, Induction
<1> QED BY <1>3 DEF Loop

\* What the rounds of a loop keep holds of all its states.
LEMMA LoopKeeps ==
  ASSUME NEW T, NEW k \in Nat, NEW h, h[0] \in T,
         \A i \in 1 .. k : h[i - 1] \in T => h[i] \in T
  PROVE  \A i \in 0 .. k : h[i] \in T
<1> DEFINE S == {i \in Nat : i <= k => h[i] \in T}
<1>1. 0 \in S
  OBVIOUS
<1>2. ASSUME NEW i \in Nat, i \in S
      PROVE  i + 1 \in S
  <2> SUFFICES ASSUME i + 1 <= k PROVE h[i + 1] \in T
    OBVIOUS
  <2>1. h[i] \in T /\ i + 1 \in 1 .. k /\ (i + 1) - 1 = i
    BY <1>2
  <2> QED BY <2>1
<1>3. \A i \in Nat : i \in S
  <2> HIDE DEF S
  <2> QED BY <1>1, <1>2, Induction
<1> QED BY <1>3

\* The states of the tokenizer.
Tokenizing(s) ==
  CHOOSE after : after = [n \in 0 .. Len(s) |->
    IF n = 0 THEN NoTokens ELSE Tokenize(after[n - 1], s[n])]

\* shell_tokenize() is a loop over the characters (cmd.cpp:347-414).
LEMMA TokenizingLaw ==
  ASSUME NEW s, Len(s) \in Nat,
         NEW T, NoTokens \in T, \A x \in T, i \in 1 .. Len(s) : Tokenize(x, s[i]) \in T
  PROVE  /\ Tokenizing(s) \in [0 .. Len(s) -> T]
         /\ Tokenizing(s)[0] = NoTokens
         /\ \A i \in 1 .. Len(s) : Tokenizing(s)[i] = Tokenize(Tokenizing(s)[i - 1], s[i])
<1> DEFINE k == Len(s)
           G == [x \in T \X (1 .. k) |-> Tokenize(x[1], s[x[2]])]
           h == Tokenizing(s)
           Is(f) == f = [n \in 0 .. k |-> IF n = 0 THEN NoTokens ELSE Tokenize(f[n - 1], s[n])]
<1>1. k \in Nat
  OBVIOUS
<1>2. G \in Rounds(T, k) /\ \A x \in T, i \in 1 .. k : G[<<x, i>>] = Tokenize(x, s[i])
  <2>1. \A x \in T \X (1 .. k) : Tokenize(x[1], s[x[2]]) \in T
    OBVIOUS
  <2> QED BY <2>1 DEF Rounds
<1>3. (\E f : Is(f)) => Is(h)
  BY DEF Tokenizing
<1> HIDE DEF G, h, k
<1>4. PICK f : f \in [0 .. k -> T] /\ f[0] = NoTokens /\ \A i \in 1 .. k : f[i] = G[<<f[i - 1], i>>]
  <2>1. NoTokens \in T /\ G \in Rounds(T, k)
    BY <1>2
  <2>2. \E f : Loop(f, T, NoTokens, k, G)
    BY <1>1, <2>1, LoopExists
  <2> QED BY <2>2 DEF Loop
<1>5. ASSUME NEW i \in 1 .. k
      PROVE  f[i] = Tokenize(f[i - 1], s[i])
  <2>1. f[i - 1] \in T
    BY <1>1, <1>4
  <2> QED BY <1>2, <1>4, <2>1
<1>6. Is(f)
  <2>1. \A n \in 0 .. k : n # 0 => n \in 1 .. k
    BY <1>1
  <2> QED BY <1>4, <1>5, <2>1
<1>7. Is(h)
  <2> HIDE DEF Is
  <2> QED BY <1>3, <1>6
<1>8. 0 \in 0 .. k /\ \A n \in 1 .. k : n \in 0 .. k /\ n # 0
  BY <1>1
<1>9. h[0] = NoTokens /\ \A i \in 1 .. k : h[i] = Tokenize(h[i - 1], s[i])
  BY <1>7, <1>8
<1>10. \A i \in 0 .. k : h[i] \in T
  <2>1. ASSUME NEW i \in 1 .. k, h[i - 1] \in T
        PROVE  h[i] \in T
    BY <1>9, <2>1 DEF k
  <2> QED BY <1>1, <1>9, <2>1, LoopKeeps
<1>11. h \in [0 .. k -> T]
  BY <1>7, <1>10
<1> QED BY <1>9, <1>11 DEF h, k

\* Appending adds an element of the kind.
LEMMA Appends ==
  ASSUME NEW S, NEW s \in Seq(S), NEW e \in S
  PROVE  Append(s, e) \in Seq(S) /\ Append(s, e) # <<>>
<1>1. Append(s, e) \in Seq(S) /\ Len(Append(s, e)) = Len(s) + 1 /\ Len(s) \in Nat
  OBVIOUS
<1>2. Len(<<>>) = 0
  OBVIOUS
<1> QED BY <1>1, <1>2

\* The tokens are what the last state of that loop has put out.
LEMMA TokensAre ==
  ASSUME NEW s
  PROVE  Tokens(s) = Push(Tokenizing(s)[Len(s)]).out
BY DEF Tokens, Over, Tokenizing

\* Words of characters of C.
Words(C) == Seq(C) \ {<<>>}

TokStates(C) == [out: Seq(Words(C)), cur: Seq(C), quote: Quotes \cup {""}]

\* Ending a token keeps the kind of state.
LEMMA PushKeeps ==
  ASSUME NEW C, NEW st \in TokStates(C)
  PROVE  Push(st) \in TokStates(C)
<1>1. st.cur # <<>> => Append(st.out, st.cur) \in Seq(Words(C))
  <2> SUFFICES ASSUME st.cur # <<>> PROVE Append(st.out, st.cur) \in Seq(Words(C))
    OBVIOUS
  <2>1. st.cur \in Words(C) /\ st.out \in Seq(Words(C))
    BY DEF Words, TokStates
  <2> QED BY <2>1, Appends
<1>2. <<>> \in Seq(C)
  OBVIOUS
<1> QED BY <1>1, <1>2 DEF TokStates, Push

\* One character does, too.
LEMMA TokenizeKeeps ==
  ASSUME NEW C, NEW st \in TokStates(C), NEW ch \in C
  PROVE  Tokenize(st, ch) \in TokStates(C)
<1>1. st.cur \in Seq(C)
  BY DEF TokStates
<1>2. Append(st.cur, ch) \in Seq(C)
  BY <1>1, Appends
<1>3. [st EXCEPT !.cur = Append(@, ch)] \in TokStates(C)
  BY <1>2 DEF TokStates
<1>4. ch \in Quotes => [st EXCEPT !.quote = ch] \in TokStates(C)
  BY DEF TokStates
<1>5. [st EXCEPT !.quote = ""] \in TokStates(C)
  BY DEF TokStates
<1> QED BY <1>3, <1>4, <1>5, PushKeeps DEF Tokenize

\* Tokens are words of the characters of the line (shell_tokenize).
LEMMA TokensType ==
  ASSUME NEW C, NEW s \in Seq(C)
  PROVE  Tokens(s) \in Seq(Words(C))
<1> DEFINE T == TokStates(C)
<1>1. NoTokens \in T
  BY DEF NoTokens, TokStates
<1>2. \A x \in T, i \in 1 .. Len(s) : Tokenize(x, s[i]) \in T
  BY TokenizeKeeps
<1>3. Tokenizing(s)[Len(s)] \in T
  <2> HIDE DEF T
  <2>1. Len(s) \in Nat /\ Len(s) \in 0 .. Len(s)
    OBVIOUS
  <2> QED BY <1>1, <1>2, <2>1, TokenizingLaw
<1> QED BY <1>3, PushKeeps, TokensAre DEF TokStates

\* The round of TakeOptions, and of ParamList.
Take(opts, p, c) ==
  IF p.error # <<>> THEN p
  ELSE IF p.wants # "" THEN Fail(p, p.wants)
  ELSE IF ~Declared(opts, c) THEN Fail(p, c)
  ELSE IF TakesArg(opts, c) THEN [p EXCEPT !.wants = c]
  ELSE [p EXCEPT !.options = Append(@, [name |-> c, arg |-> <<>>])]

Param(opts, pl, tok) ==
  CASE pl.error # <<>> -> pl
    [] pl.error = <<>> /\ pl.wants # "" -> TakeArgument(pl, tok)
    [] pl.error = <<>> /\ pl.wants = "" /\ pl.parsing /\ tok = <<"-", "-">> ->
         [pl EXCEPT !.parsing = FALSE]
    [] pl.error = <<>> /\ pl.wants = "" /\ IsOption(pl, tok) ->
         TakeOptions(opts, pl, tok)
    [] OTHER -> [pl EXCEPT !.args = Append(@, tok)]

\* The states of TakeOptions, and of ParamList.
Taking(opts, pl, s) ==
  CHOOSE after : after = [n \in 0 .. Len(s) |->
    IF n = 0 THEN pl ELSE Take(opts, after[n - 1], s[n])]

\* Options in one token are taken in a loop over its characters.
LEMMA TakingLaw ==
  ASSUME NEW opts, NEW pl, NEW s, Len(s) \in Nat,
         NEW T, pl \in T, \A x \in T, i \in 1 .. Len(s) : Take(opts, x, s[i]) \in T
  PROVE  /\ Taking(opts, pl, s) \in [0 .. Len(s) -> T]
         /\ Taking(opts, pl, s)[0] = pl
         /\ \A i \in 1 .. Len(s) : Taking(opts, pl, s)[i] = Take(opts, Taking(opts, pl, s)[i - 1], s[i])
<1> DEFINE k == Len(s)
           G == [x \in T \X (1 .. k) |-> Take(opts, x[1], s[x[2]])]
           h == Taking(opts, pl, s)
           Is(f) == f = [n \in 0 .. k |-> IF n = 0 THEN pl ELSE Take(opts, f[n - 1], s[n])]
<1>1. k \in Nat
  OBVIOUS
<1>2. G \in Rounds(T, k) /\ \A x \in T, i \in 1 .. k : G[<<x, i>>] = Take(opts, x, s[i])
  <2>1. \A x \in T \X (1 .. k) : Take(opts, x[1], s[x[2]]) \in T
    OBVIOUS
  <2> QED BY <2>1 DEF Rounds
<1>3. (\E f : Is(f)) => Is(h)
  BY DEF Taking
<1> HIDE DEF G, h, k
<1>4. PICK f : f \in [0 .. k -> T] /\ f[0] = pl /\ \A i \in 1 .. k : f[i] = G[<<f[i - 1], i>>]
  <2>1. pl \in T /\ G \in Rounds(T, k)
    BY <1>2
  <2>2. \E f : Loop(f, T, pl, k, G)
    BY <1>1, <2>1, LoopExists
  <2> QED BY <2>2 DEF Loop
<1>5. ASSUME NEW i \in 1 .. k
      PROVE  f[i] = Take(opts, f[i - 1], s[i])
  <2>1. f[i - 1] \in T
    BY <1>1, <1>4
  <2> QED BY <1>2, <1>4, <2>1
<1>6. Is(f)
  <2>1. \A n \in 0 .. k : n # 0 => n \in 1 .. k
    BY <1>1
  <2> QED BY <1>4, <1>5, <2>1
<1>7. Is(h)
  <2> HIDE DEF Is
  <2> QED BY <1>3, <1>6
<1>8. 0 \in 0 .. k /\ \A n \in 1 .. k : n \in 0 .. k /\ n # 0
  BY <1>1
<1>9. h[0] = pl /\ \A i \in 1 .. k : h[i] = Take(opts, h[i - 1], s[i])
  BY <1>7, <1>8
<1>10. \A i \in 0 .. k : h[i] \in T
  <2>1. ASSUME NEW i \in 1 .. k, h[i - 1] \in T
        PROVE  h[i] \in T
    BY <1>9, <2>1 DEF k
  <2> QED BY <1>1, <1>9, <2>1, LoopKeeps
<1>11. h \in [0 .. k -> T]
  BY <1>7, <1>10
<1> QED BY <1>9, <1>11 DEF h, k

\* TakeOptions is the last state of that loop.
LEMMA TakeOptionsIs ==
  ASSUME NEW opts, NEW pl, NEW tok
  PROVE  TakeOptions(opts, pl, tok) = Taking(opts, pl, Tail(tok))[Len(Tail(tok))]
BY DEF TakeOptions, Over, Taking, Take

Parsing(opts, s) ==
  CHOOSE after : after = [n \in 0 .. Len(s) |->
    IF n = 0 THEN NoParams ELSE Param(opts, after[n - 1], s[n])]

\* ParamList's constructor is a loop over the tokens (cmd.cpp:422-480).
LEMMA ParsingLaw ==
  ASSUME NEW opts, NEW s, Len(s) \in Nat,
         NEW T, NoParams \in T, \A x \in T, i \in 1 .. Len(s) : Param(opts, x, s[i]) \in T
  PROVE  /\ Parsing(opts, s) \in [0 .. Len(s) -> T]
         /\ Parsing(opts, s)[0] = NoParams
         /\ \A i \in 1 .. Len(s) : Parsing(opts, s)[i] = Param(opts, Parsing(opts, s)[i - 1], s[i])
<1> DEFINE k == Len(s)
           G == [x \in T \X (1 .. k) |-> Param(opts, x[1], s[x[2]])]
           h == Parsing(opts, s)
           Is(f) == f = [n \in 0 .. k |-> IF n = 0 THEN NoParams ELSE Param(opts, f[n - 1], s[n])]
<1>1. k \in Nat
  OBVIOUS
<1>2. G \in Rounds(T, k) /\ \A x \in T, i \in 1 .. k : G[<<x, i>>] = Param(opts, x, s[i])
  <2>1. \A x \in T \X (1 .. k) : Param(opts, x[1], s[x[2]]) \in T
    OBVIOUS
  <2> QED BY <2>1 DEF Rounds
<1>3. (\E f : Is(f)) => Is(h)
  BY DEF Parsing
<1> HIDE DEF G, h, k
<1>4. PICK f : f \in [0 .. k -> T] /\ f[0] = NoParams /\ \A i \in 1 .. k : f[i] = G[<<f[i - 1], i>>]
  <2>1. NoParams \in T /\ G \in Rounds(T, k)
    BY <1>2
  <2>2. \E f : Loop(f, T, NoParams, k, G)
    BY <1>1, <2>1, LoopExists
  <2> QED BY <2>2 DEF Loop
<1>5. ASSUME NEW i \in 1 .. k
      PROVE  f[i] = Param(opts, f[i - 1], s[i])
  <2>1. f[i - 1] \in T
    BY <1>1, <1>4
  <2> QED BY <1>2, <1>4, <2>1
<1>6. Is(f)
  <2>1. \A n \in 0 .. k : n # 0 => n \in 1 .. k
    BY <1>1
  <2> QED BY <1>4, <1>5, <2>1
<1>7. Is(h)
  <2> HIDE DEF Is
  <2> QED BY <1>3, <1>6
<1>8. 0 \in 0 .. k /\ \A n \in 1 .. k : n \in 0 .. k /\ n # 0
  BY <1>1
<1>9. h[0] = NoParams /\ \A i \in 1 .. k : h[i] = Param(opts, h[i - 1], s[i])
  BY <1>7, <1>8
<1>10. \A i \in 0 .. k : h[i] \in T
  <2>1. ASSUME NEW i \in 1 .. k, h[i - 1] \in T
        PROVE  h[i] \in T
    BY <1>9, <2>1 DEF k
  <2> QED BY <1>1, <1>9, <2>1, LoopKeeps
<1>11. h \in [0 .. k -> T]
  BY <1>7, <1>10
<1> QED BY <1>9, <1>11 DEF h, k

\* An option that was taken is declared, and has an argument if it takes one.
Taken(opts, C) ==
  {o \in [name: C, arg: Seq(C)] :
     Declared(opts, o.name) /\ (o.arg = <<>> <=> ~TakesArg(opts, o.name))}

Params(opts, C) ==
  {p \in [args: Seq(Words(C)), options: Seq(Taken(opts, C)), parsing: BOOLEAN,
          wants: C \cup {""}, error: Seq(C)] :
     p.wants # "" => Declared(opts, p.wants) /\ TakesArg(opts, p.wants)}

\* An error is made of characters of the line.
LEMMA FailKeeps ==
  ASSUME NEW C, NEW opts, NEW p \in Params(opts, C), p.wants # ""
  PROVE  Fail(p, p.wants) \in Params(opts, C)
<1>1. p.wants \in C /\ p.error \in Seq(C)
  BY DEF Params
<1>2. Append(p.error, p.wants) \in Seq(C)
  BY <1>1, Appends
<1> QED BY <1>2 DEF Params, Fail

\* Taking one character as an option keeps the kind of parameters.
LEMMA TakeKeeps ==
  ASSUME NEW C, NEW opts, NEW p \in Params(opts, C), NEW c \in C
  PROVE  Take(opts, p, c) \in Params(opts, C)
<1>1. [p EXCEPT !.error = Append(@, c)] \in Params(opts, C)
  <2>1. Append(p.error, c) \in Seq(C)
    BY Appends DEF Params
  <2> QED BY <2>1 DEF Params
<1>2. p.wants # "" => Fail(p, p.wants) \in Params(opts, C)
  BY FailKeeps
<1>3. Declared(opts, c) /\ TakesArg(opts, c) => [p EXCEPT !.wants = c] \in Params(opts, C)
  BY DEF Params
<1>4. Declared(opts, c) /\ ~TakesArg(opts, c) =>
        [p EXCEPT !.options = Append(@, [name |-> c, arg |-> <<>>])] \in Params(opts, C)
  <2> SUFFICES ASSUME Declared(opts, c), ~TakesArg(opts, c)
               PROVE  [p EXCEPT !.options = Append(@, [name |-> c, arg |-> <<>>])]
                        \in Params(opts, C)
    OBVIOUS
  <2>1. <<>> \in Seq(C)
    OBVIOUS
  <2>2. [name |-> c, arg |-> <<>>] \in Taken(opts, C)
    BY <2>1 DEF Taken
  <2>3. Append(p.options, [name |-> c, arg |-> <<>>]) \in Seq(Taken(opts, C))
    BY <2>2, Appends DEF Params
  <2> QED BY <2>3 DEF Params
<1> QED BY <1>1, <1>2, <1>3, <1>4 DEF Take, Fail

\* So does taking a token of options.
LEMMA TakeOptionsKeeps ==
  ASSUME NEW C, NEW opts, NEW pl \in Params(opts, C), NEW tok \in Words(C)
  PROVE  TakeOptions(opts, pl, tok) \in Params(opts, C)
<1> DEFINE s == Tail(tok)
<1>1. s \in Seq(C) /\ Len(s) \in Nat /\ Len(s) \in 0 .. Len(s)
  BY DEF Words
<1>2. \A x \in Params(opts, C), i \in 1 .. Len(s) : Take(opts, x, s[i]) \in Params(opts, C)
  BY <1>1, TakeKeeps
<1> HIDE DEF s
<1>3. Taking(opts, pl, s)[Len(s)] \in Params(opts, C)
  BY <1>1, <1>2, TakingLaw
<1> QED BY <1>3, TakeOptionsIs DEF s

\* So does any token.
LEMMA ParamKeeps ==
  ASSUME NEW C, NEW opts, NEW p \in Params(opts, C), NEW tok \in Words(C)
  PROVE  Param(opts, p, tok) \in Params(opts, C)
<1>1. p.error = <<>> /\ p.wants # "" => TakeArgument(p, tok) \in Params(opts, C)
  <2> SUFFICES ASSUME p.wants # "" PROVE TakeArgument(p, tok) \in Params(opts, C)
    OBVIOUS
  <2> DEFINE o == [name |-> p.wants, arg |-> tok]
  <2>1. o \in Taken(opts, C)
    BY DEF Params, Taken, Words
  <2>2. Append(p.options, o) \in Seq(Taken(opts, C))
    BY <2>1, Appends DEF Params
  <2>3. [p EXCEPT !.options = Append(@, o), !.wants = ""] \in Params(opts, C)
    BY <2>2 DEF Params
  <2>4. Fail(p, p.wants) \in Params(opts, C)
    BY FailKeeps
  <2> QED BY <2>3, <2>4 DEF TakeArgument
<1>2. TakeOptions(opts, p, tok) \in Params(opts, C)
  BY TakeOptionsKeeps
<1>3. [p EXCEPT !.parsing = FALSE] \in Params(opts, C)
  BY DEF Params
<1>4. [p EXCEPT !.args = Append(@, tok)] \in Params(opts, C)
  <2>1. Append(p.args, tok) \in Seq(Words(C))
    BY Appends DEF Params
  <2> QED BY <2>1 DEF Params
<1> QED BY <1>1, <1>2, <1>3, <1>4 DEF Param

\* What parameters are made of tokens (ParamList).
LEMMA ParamListType ==
  ASSUME NEW C, NEW opts, NEW tokens \in Seq(Words(C)), tokens # <<>>
  PROVE  ParamList(tokens, opts) \in Params(opts, C)
<1> DEFINE s == Tail(tokens)
           all == Parsing(opts, s)[Len(s)]
<1>1. s \in Seq(Words(C)) /\ Len(s) \in Nat /\ Len(s) \in 0 .. Len(s)
  OBVIOUS
<1>2. NoParams \in Params(opts, C)
  <2>1. <<>> \in Seq(Words(C)) /\ <<>> \in Seq(Taken(opts, C)) /\ <<>> \in Seq(C)
    OBVIOUS
  <2> QED BY <2>1 DEF NoParams, Params
<1>3. \A x \in Params(opts, C), i \in 1 .. Len(s) : Param(opts, x, s[i]) \in Params(opts, C)
  BY <1>1, ParamKeeps
<1>4. ParamList(tokens, opts) = IF all.wants # "" THEN Fail(all, all.wants) ELSE all
  BY DEF ParamList, Over, Parsing, Param
<1> HIDE DEF s
<1>5. all \in Params(opts, C)
  BY <1>1, <1>2, <1>3, ParsingLaw
<1> HIDE DEF all
<1>6. all.wants # "" => Fail(all, all.wants) \in Params(opts, C)
  BY <1>5, FailKeeps
<1> QED BY <1>4, <1>5, <1>6

\* A set of positions that has the last one, and each one when it has those after
\* it, has them all.
LEMMA Downward ==
  ASSUME NEW k \in Nat, NEW S, \A i \in 1 .. k : (\A j \in i + 1 .. k : j \in S) => i \in S
  PROVE  \A i \in 1 .. k : i \in S
<1> DEFINE R == {n \in Nat : \A i \in 1 .. k : i > k - n => i \in S}
<1>1. 0 \in R
  OBVIOUS
<1>2. ASSUME NEW n \in Nat, n \in R
      PROVE  n + 1 \in R
  <2> SUFFICES ASSUME NEW i \in 1 .. k, i > k - (n + 1) PROVE i \in S
    OBVIOUS
  <2>1. \A j \in i + 1 .. k : j \in 1 .. k /\ j > k - n
    OBVIOUS
  <2> QED BY <1>2, <2>1
<1>3. \A n \in Nat : n \in R
  <2> HIDE DEF R
  <2> QED BY <1>1, <1>2, Induction
<1>4. k \in R
  BY <1>3
<1> QED BY <1>4

\* A recursive function of positions whose value at each one is made of those
\* after it exists.
Looks(G, T, k) ==
  /\ G \in [[1 .. k -> T] \X (1 .. k) -> T]
  /\ \A f, g \in [1 .. k -> T], i \in 1 .. k :
       (\A j \in i + 1 .. k : f[j] = g[j]) => G[<<f, i>>] = G[<<g, i>>]

\* A function on 1 .. k that looks only ahead exists.
LEMMA DownwardExists ==
  ASSUME NEW T, NEW a \in T, NEW k \in Nat, NEW G, Looks(G, T, k)
  PROVE  \E f \in [1 .. k -> T] : \A i \in 1 .. k : f[i] = G[<<f, i>>]
<1> DEFINE Is(f, n) == \A i \in 1 .. k : i > k - n => f[i] = G[<<f, i>>]
           R == {n \in Nat : n <= k => \E f \in [1 .. k -> T] : Is(f, n)}
<1>1. 0 \in R
  <2>1. [i \in 1 .. k |-> a] \in [1 .. k -> T]
    OBVIOUS
  <2>2. Is([i \in 1 .. k |-> a], 0)
    OBVIOUS
  <2> QED BY <2>1, <2>2
<1>2. ASSUME NEW n \in Nat, n \in R
      PROVE  n + 1 \in R
  <2> SUFFICES ASSUME n + 1 <= k PROVE \E f \in [1 .. k -> T] : Is(f, n + 1)
    OBVIOUS
  <2>1. PICK f \in [1 .. k -> T] : Is(f, n)
    BY <1>2
  <2> DEFINE m == k - n
             g == [f EXCEPT ![m] = G[<<f, m>>]]
  <2>2. m \in 1 .. k /\ \A i \in 1 .. k : i > k - (n + 1) => i = m \/ i > k - n
    OBVIOUS
  <2>3. G[<<f, m>>] \in T
    BY <2>2 DEF Looks
  <2> HIDE DEF m
  <2>4. g \in [1 .. k -> T] /\ g[m] = G[<<f, m>>] /\ \A i \in 1 .. k : i # m => g[i] = f[i]
    BY <2>2, <2>3
  <2> HIDE DEF g
  <2>5. \A i \in 1 .. k : i >= m => G[<<g, i>>] = G[<<f, i>>]
    <3> SUFFICES ASSUME NEW i \in 1 .. k, i >= m PROVE G[<<g, i>>] = G[<<f, i>>]
      OBVIOUS
    <3>1. \A j \in i + 1 .. k : g[j] = f[j]
      BY <2>2, <2>4
    <3> QED BY <2>4, <3>1 DEF Looks
  <2>6. ASSUME NEW i \in 1 .. k, i > k - (n + 1)
        PROVE  g[i] = G[<<g, i>>]
    <3>1. CASE i = m
      BY <2>2, <2>4, <2>5, <3>1
    <3>2. CASE i # m
      <4>1. i > k - n /\ i >= m
        BY <2>2, <2>6, <3>2 DEF m
      <4>2. f[i] = G[<<f, i>>]
        BY <2>1, <4>1
      <4> QED BY <2>4, <2>5, <3>2, <4>1, <4>2
    <3> QED BY <3>1, <3>2
  <2> QED BY <2>4, <2>6
<1>3. \A n \in Nat : n \in R
  <2> HIDE DEF R
  <2> QED BY <1>1, <1>2, Induction
<1>4. k \in R
  BY <1>3
<1>5. PICK f \in [1 .. k -> T] : Is(f, k)
  BY <1>4
<1> QED BY <1>5

\* The least of some natural numbers.
LEMMA MinOf ==
  ASSUME NEW S \in SUBSET Nat, S # {}
  PROVE  Min(S) \in S /\ \A n \in S : Min(S) <= n
<1> DEFINE R == {n \in Nat : (\E i \in S : i <= n) => \E x \in S : \A y \in S : x <= y}
<1>1. 0 \in R
  OBVIOUS
<1>2. ASSUME NEW n \in Nat, n \in R
      PROVE  n + 1 \in R
  <2> SUFFICES ASSUME NEW i \in S, i <= n + 1 PROVE \E x \in S : \A y \in S : x <= y
    OBVIOUS
  <2>1. CASE \E j \in S : j <= n
    BY <1>2, <2>1
  <2>2. CASE ~\E j \in S : j <= n
    <3>1. \A y \in S : y \in Nat /\ i \in Nat /\ i <= y
      BY <2>2
    <3> QED BY <3>1
  <2> QED BY <2>1, <2>2
<1>3. \A n \in Nat : n \in R
  <2> HIDE DEF R
  <2> QED BY <1>1, <1>2, Induction
<1>4. PICK n \in S : TRUE
  OBVIOUS
<1>5. n \in R /\ n \in Nat /\ n <= n
  BY <1>3
<1>6. \E x \in S : \A y \in S : x <= y
  BY <1>5
<1> QED BY <1>6 DEF Min

\* The options that HELP shows from position i on.
Showing(opts) ==
  CHOOSE shown : shown = [i \in 1 .. Len(opts) + 1 |->
    IF i > Len(opts) THEN [flags |-> <<>>, withArg |-> <<>>]
    ELSE IF i < Len(opts) /\ opts[i + 1] = ":"
         THEN [shown[i + 2] EXCEPT !.withArg = <<opts[i]>> \o @]
         ELSE [shown[i + 1] EXCEPT !.flags = <<opts[i]>> \o @]]

ShownOf(C) == [flags: Seq(C), withArg: Seq(C)]

\* An element put before a sequence.
LEMMA PutFirst ==
  ASSUME NEW S, NEW a \in S, NEW q \in Seq(S)
  PROVE  /\ <<a>> \o q \in Seq(S)
         /\ a \in ToSet(<<a>> \o q) /\ ToSet(q) \subseteq ToSet(<<a>> \o q)
<1> DEFINE t == <<a>> \o q
<1>1. t \in Seq(S) /\ Len(t) = Len(q) + 1 /\ t[1] = a
  OBVIOUS
<1>2. ASSUME NEW i \in 1 .. Len(q)
      PROVE  t[i + 1] = q[i] /\ i + 1 \in 1 .. Len(t)
  OBVIOUS
<1>3. a \in ToSet(t)
  <2>1. 1 \in 1 .. Len(t) /\ t[1] = a
    BY <1>1
  <2> HIDE DEF t
  <2> QED BY <2>1 DEF ToSet
<1>4. ToSet(q) \subseteq ToSet(t)
  <2> HIDE DEF t
  <2> QED BY <1>2 DEF ToSet
<1> QED BY <1>1, <1>3, <1>4

\* What is shown, with one of its fields changed.
LEMMA ShownUpdate ==
  ASSUME NEW r, NEW q, r = [flags |-> r.flags, withArg |-> r.withArg]
  PROVE  /\ [r EXCEPT !.withArg = q \o @] = [flags |-> r.flags, withArg |-> q \o r.withArg]
         /\ [r EXCEPT !.flags = q \o @] = [flags |-> q \o r.flags, withArg |-> r.withArg]
<1>1. ASSUME NEW a, NEW b, NEW f, NEW w, r = [flags |-> f, withArg |-> w]
      PROVE  /\ [r EXCEPT !.withArg = a] = [flags |-> f, withArg |-> a]
             /\ [r EXCEPT !.flags = b] = [flags |-> b, withArg |-> w]
  BY <1>1
<1> QED BY <1>1

\* What HELP shows from each position on, from the last one back.
LEMMA ShowingLaw ==
  ASSUME NEW C, NEW opts \in Seq(C)
  PROVE  LET h == Showing(opts) IN
           /\ h \in [1 .. Len(opts) + 1 -> ShownOf(C)]
           /\ \A i \in 1 .. Len(opts) :
                h[i] = IF i < Len(opts) /\ opts[i + 1] = ":"
                       THEN [h[i + 2] EXCEPT !.withArg = <<opts[i]>> \o @]
                       ELSE [h[i + 1] EXCEPT !.flags = <<opts[i]>> \o @]
<1> DEFINE k == Len(opts) + 1
           None == [flags |-> <<>>, withArg |-> <<>>]
           Pair(i) == i < Len(opts) /\ opts[i + 1] = ":"
           WithArg(r, i) == [r EXCEPT !.withArg = <<opts[i]>> \o @]
           Flag(r, i) == [r EXCEPT !.flags = <<opts[i]>> \o @]
           At(f, i) == IF i > Len(opts) THEN None
                       ELSE IF Pair(i) THEN WithArg(f[i + 2], i) ELSE Flag(f[i + 1], i)
           Is(f) == f = [i \in 1 .. k |-> At(f, i)]
           T == ShownOf(C)
           G == [x \in [1 .. k -> T] \X (1 .. k) |-> At(x[1], x[2])]
           h == Showing(opts)
<1>1. k \in Nat /\ Len(opts) \in Nat
  OBVIOUS
<1>2. (\E f : Is(f)) => Is(h)
  BY DEF Showing
<1>3. None \in T
  BY DEF ShownOf
<1>4. ASSUME NEW f, NEW i \in 1 .. k, \A j \in i + 1 .. k : f[j] \in T
      PROVE  At(f, i) \in T
  <2>1. CASE i > Len(opts)
    BY <1>3, <2>1
  <2>2. CASE i <= Len(opts)
    <3>1. opts[i] \in C
      BY <2>2
    <3>2. ASSUME NEW r \in T
          PROVE  WithArg(r, i) \in T /\ Flag(r, i) \in T
      <4>1. /\ r.flags \in Seq(C) /\ r.withArg \in Seq(C)
            /\ r = [flags |-> r.flags, withArg |-> r.withArg]
        BY DEF ShownOf
      <4>2. <<opts[i]>> \o r.flags \in Seq(C) /\ <<opts[i]>> \o r.withArg \in Seq(C)
        BY <3>1, <4>1
      <4>3. /\ WithArg(r, i) = [flags |-> r.flags, withArg |-> <<opts[i]>> \o r.withArg]
            /\ Flag(r, i) = [flags |-> <<opts[i]>> \o r.flags, withArg |-> r.withArg]
        BY <4>1, ShownUpdate
      <4> HIDE DEF WithArg, Flag
      <4> QED BY <4>1, <4>2, <4>3 DEF ShownOf
    <3>3. i + 1 \in i + 1 .. k /\ (Pair(i) => i + 2 \in i + 1 .. k)
      BY <2>2
    <3>4. f[i + 1] \in T /\ (Pair(i) => f[i + 2] \in T)
      BY <1>4, <3>3
    <3>5. ~(i > Len(opts))
      BY <2>2
    <3> HIDE DEF T, Pair, WithArg, Flag
    <3> QED BY <3>2, <3>4, <3>5
  <2> QED BY <2>1, <2>2
<1>5. ASSUME NEW f, NEW g, NEW i \in 1 .. k, \A j \in i + 1 .. k : f[j] = g[j]
      PROVE  At(f, i) = At(g, i)
  <2>1. CASE i > Len(opts)
    BY <2>1
  <2>2. CASE i <= Len(opts)
    <3>1. i + 1 \in i + 1 .. k /\ (Pair(i) => i + 2 \in i + 1 .. k)
      BY <2>2
    <3>2. f[i + 1] = g[i + 1] /\ (Pair(i) => f[i + 2] = g[i + 2])
      BY <1>5, <3>1
    <3> HIDE DEF Pair, WithArg, Flag
    <3> QED BY <3>2
  <2> QED BY <2>1, <2>2
<1>6. Looks(G, T, k) /\ \A f \in [1 .. k -> T], i \in 1 .. k : G[<<f, i>>] = At(f, i)
  <2> HIDE DEF At, T, k
  <2>1. \A f \in [1 .. k -> T], i \in 1 .. k : At(f, i) \in T
    <3> SUFFICES ASSUME NEW f \in [1 .. k -> T], NEW i \in 1 .. k PROVE At(f, i) \in T
      OBVIOUS
    <3>1. \A j \in i + 1 .. k : f[j] \in T
      BY <1>1
    <3> QED BY <1>4, <3>1
  <2>2. G \in [[1 .. k -> T] \X (1 .. k) -> T]
    <3>1. \A x \in [1 .. k -> T] \X (1 .. k) : x[1] \in [1 .. k -> T] /\ x[2] \in 1 .. k
      OBVIOUS
    <3> QED BY <2>1, <3>1
  <2>3. \A f \in [1 .. k -> T], i \in 1 .. k : G[<<f, i>>] = At(f, i)
    OBVIOUS
  <2> HIDE DEF G
  <2> QED BY <1>5, <2>2, <2>3 DEF Looks
<1> HIDE DEF G
<1>7. \E f : Is(f)
  <2> HIDE DEF T, At, k, None
  <2>1. PICK f \in [1 .. k -> T] : \A i \in 1 .. k : f[i] = G[<<f, i>>]
    BY <1>1, <1>3, <1>6, DownwardExists
  <2>2. \A i \in 1 .. k : f[i] = At(f, i)
    BY <1>6, <2>1
  <2> QED BY <2>1, <2>2
<1>8. Is(h)
  BY <1>2, <1>7
<1> HIDE DEF h
<1>9. \A i \in 1 .. k : h[i] = At(h, i)
  <2> HIDE DEF At, k
  <2> QED BY <1>8
<1>10. \A i \in 1 .. k : h[i] \in T
  <2> HIDE DEF T, At, k
  <2> DEFINE S == {i \in 1 .. k : h[i] \in T}
  <2>1. ASSUME NEW i \in 1 .. k, \A j \in i + 1 .. k : j \in S
        PROVE  i \in S
    BY <1>4, <1>9, <2>1
  <2>2. \A i \in 1 .. k : i \in S
    <3> HIDE DEF S
    <3> QED BY <1>1, <2>1, Downward
  <2> QED BY <2>2
<1>11. h \in [1 .. k -> T]
  <2> HIDE DEF T, At, k
  <2> QED BY <1>8, <1>10
<1>12. ASSUME NEW i \in 1 .. Len(opts)
       PROVE  h[i] = IF Pair(i) THEN WithArg(h[i + 2], i) ELSE Flag(h[i + 1], i)
  <2>1. i \in 1 .. k /\ ~(i > Len(opts))
    OBVIOUS
  <2> HIDE DEF Pair, WithArg, Flag
  <2> QED BY <1>9, <2>1
<1> QED BY <1>11, <1>12 DEF h

\* HelpOptions is what it shows from the first one on.
LEMMA HelpOptionsIs ==
  ASSUME NEW opts
  PROVE  HelpOptions(opts) = Showing(opts)[1]
BY DEF HelpOptions, Showing

\* Where HELP puts the option declared at position p.
Shows(r, opts, p) ==
  IF p < Len(opts) /\ opts[p + 1] = ":" THEN opts[p] \in ToSet(r.withArg)
                                        ELSE opts[p] \in ToSet(r.flags)

\* HELP shows every option that is declared, in its form.
LEMMA HelpShowsEach ==
  ASSUME NEW C, NEW opts \in Seq(C), NEW p \in 1 .. Len(opts), opts[p] # ":"
  PROVE  Shows(HelpOptions(opts), opts, p)
<1> DEFINE k == Len(opts) + 1
           h == Showing(opts)
           S == {i \in 1 .. k : \A q \in i .. Len(opts) : opts[q] # ":" => Shows(h[i], opts, q)}
<1>1. k \in Nat /\ Len(opts) \in Nat /\ 1 \in 1 .. k
  OBVIOUS
<1>2. /\ h \in [1 .. k -> ShownOf(C)]
      /\ \A i \in 1 .. Len(opts) :
           h[i] = IF i < Len(opts) /\ opts[i + 1] = ":"
                  THEN [h[i + 2] EXCEPT !.withArg = <<opts[i]>> \o @]
                  ELSE [h[i + 1] EXCEPT !.flags = <<opts[i]>> \o @]
  BY ShowingLaw
<1> HIDE DEF h
<1>3. ASSUME NEW i \in 1 .. k, \A j \in i + 1 .. k : j \in S
      PROVE  i \in S
  <2> SUFFICES ASSUME NEW q \in i .. Len(opts), opts[q] # ":" PROVE Shows(h[i], opts, q)
    OBVIOUS
  <2>1. i \in 1 .. Len(opts) /\ q \in 1 .. Len(opts)
    OBVIOUS
  <2>2. CASE i < Len(opts) /\ opts[i + 1] = ":"
    <3>1. i + 2 \in i + 1 .. k /\ i + 2 \in 1 .. k
      BY <2>2
    <3>2. h[i] = [h[i + 2] EXCEPT !.withArg = <<opts[i]>> \o @] /\ h[i + 2] \in ShownOf(C)
      BY <1>2, <2>1, <2>2, <3>1
    <3>3. CASE q = i
      <4>1. opts[q] \in ToSet(h[i].withArg)
        <5>1. h[i].withArg = <<opts[i]>> \o h[i + 2].withArg /\ h[i + 2].withArg \in Seq(C) /\ opts[i] \in C
          BY <2>1, <3>2 DEF ShownOf
        <5> QED BY <3>3, <5>1, PutFirst
      <4> QED BY <2>2, <3>3, <4>1 DEF Shows
    <3>4. CASE q # i
      <4>1. q \in i + 2 .. Len(opts)
        BY <2>1, <2>2, <3>4
      <4>2. Shows(h[i + 2], opts, q)
        BY <1>3, <3>1, <4>1
      <4>3. h[i].flags = h[i + 2].flags /\ ToSet(h[i + 2].withArg) \subseteq ToSet(h[i].withArg)
        <5>1. /\ h[i].withArg = <<opts[i]>> \o h[i + 2].withArg /\ h[i].flags = h[i + 2].flags
              /\ h[i + 2].withArg \in Seq(C) /\ opts[i] \in C
          BY <2>1, <3>2 DEF ShownOf
        <5> QED BY <5>1, PutFirst
      <4> QED BY <4>2, <4>3 DEF Shows
    <3> QED BY <3>3, <3>4
  <2>3. CASE ~(i < Len(opts) /\ opts[i + 1] = ":")
    <3>1. i + 1 \in i + 1 .. k /\ i + 1 \in 1 .. k
      BY <2>1
    <3>2. h[i] = [h[i + 1] EXCEPT !.flags = <<opts[i]>> \o @] /\ h[i + 1] \in ShownOf(C)
      BY <1>2, <2>1, <2>3, <3>1
    <3>3. CASE q = i
      <4>1. opts[q] \in ToSet(h[i].flags)
        <5>1. h[i].flags = <<opts[i]>> \o h[i + 1].flags /\ h[i + 1].flags \in Seq(C) /\ opts[i] \in C
          BY <2>1, <3>2 DEF ShownOf
        <5> QED BY <3>3, <5>1, PutFirst
      <4> QED BY <2>3, <3>3, <4>1 DEF Shows
    <3>4. CASE q # i
      <4>1. q \in i + 1 .. Len(opts)
        BY <2>1, <3>4
      <4>2. Shows(h[i + 1], opts, q)
        BY <1>3, <3>1, <4>1
      <4>3. h[i].withArg = h[i + 1].withArg /\ ToSet(h[i + 1].flags) \subseteq ToSet(h[i].flags)
        <5>1. /\ h[i].flags = <<opts[i]>> \o h[i + 1].flags /\ h[i].withArg = h[i + 1].withArg
              /\ h[i + 1].flags \in Seq(C) /\ opts[i] \in C
          BY <2>1, <3>2 DEF ShownOf
        <5> QED BY <5>1, PutFirst
      <4> QED BY <4>2, <4>3 DEF Shows
    <3> QED BY <3>3, <3>4
  <2> QED BY <2>2, <2>3
<1>4. \A i \in 1 .. k : i \in S
  <2> HIDE DEF S, k
  <2> QED BY <1>1, <1>3, Downward
<1>5. 1 \in S
  BY <1>1, <1>4
<1>6. Shows(h[1], opts, p)
  BY <1>5
<1> QED BY <1>6, HelpOptionsIs DEF h

\* HELP shows with an argument the options that ParamList takes one for
\* (help_func, and ParamList's constructor, of cmd.cpp).
LEMMA HelpShows ==
  ASSUME NEW C, NEW opts \in Seq(C), NEW c, Declared(opts, c)
  PROVE  IF TakesArg(opts, c) THEN c \in ToSet(HelpOptions(opts).withArg)
                              ELSE c \in ToSet(HelpOptions(opts).flags)
<1> DEFINE S == {q \in 1 .. Len(opts) : opts[q] = c}
           p == Min(S)
<1>1. S \in SUBSET Nat /\ S # {}
  BY DEF Declared
<1>2. p \in S
  <2> HIDE DEF S
  <2> QED BY <1>1, MinOf
<1>3. p \in 1 .. Len(opts) /\ opts[p] = c /\ c # ":"
  BY <1>2 DEF Declared
<1>4. TakesArg(opts, c) <=> p < Len(opts) /\ opts[p + 1] = ":"
  BY DEF TakesArg
<1> HIDE DEF p
<1>5. Shows(HelpOptions(opts), opts, p)
  BY <1>3, HelpShowsEach
<1> QED BY <1>3, <1>4, <1>5 DEF Shows

-----------------------------------------------------------------------------
(* What the agent says.                                                    *)

\* Which positions are escaped (find_unescaped, remove_escapes): those behind a
\* "\" that is not.
LEMMA EscapedLaw ==
  ASSUME NEW s, Len(s) \in Nat, NEW pos \in Nat
  PROVE  /\ EscapedFrom(s, pos) \in [pos .. Len(s) -> BOOLEAN]
         /\ \A i \in pos .. Len(s) :
              EscapedFrom(s, pos)[i] <=>
                i > pos /\ s[i - 1] = "\\" /\ ~EscapedFrom(s, pos)[i - 1]
<1> DEFINE Is(f) == f = [i \in pos .. Len(s) |-> i > pos /\ s[i - 1] = "\\" /\ ~f[i - 1]]
           h == EscapedFrom(s, pos)
<1>1. (\E f : Is(f)) => Is(h)
  BY DEF EscapedFrom
<1> HIDE DEF h
<1>2. \E f : Is(f)
  <2>1. CASE Len(s) < pos
    <3>1. pos .. Len(s) = {}
      BY <2>1
    <3>2. Is([i \in {} |-> TRUE])
      BY <3>1
    <3> QED BY <3>2
  <2>2. CASE pos <= Len(s)
    <3> DEFINE k == Len(s) - pos
               G == [x \in BOOLEAN \X (1 .. k) |-> s[pos + x[2] - 1] = "\\" /\ ~x[1]]
    <3>1. k \in Nat
      BY <2>2
    <3>2. G \in Rounds(BOOLEAN, k) /\ \A x \in BOOLEAN, n \in 1 .. k :
            G[<<x, n>>] <=> s[pos + n - 1] = "\\" /\ ~x
      BY DEF Rounds
    <3> HIDE DEF G, k
    <3>3. PICK f : f \in [0 .. k -> BOOLEAN] /\ f[0] = FALSE
                     /\ \A n \in 1 .. k : f[n] = G[<<f[n - 1], n>>]
      <4>1. FALSE \in BOOLEAN
        OBVIOUS
      <4>2. \E f : Loop(f, BOOLEAN, FALSE, k, G)
        BY <3>1, <3>2, <4>1, LoopExists
      <4> QED BY <4>2 DEF Loop
    <3>4. ASSUME NEW n \in 1 .. k
          PROVE  f[n] <=> s[pos + n - 1] = "\\" /\ ~f[n - 1]
      <4>1. n - 1 \in 0 .. k
        BY <3>1
      <4>2. f[n - 1] \in BOOLEAN
        BY <3>3, <4>1
      <4>3. G[<<f[n - 1], n>>] <=> s[pos + n - 1] = "\\" /\ ~f[n - 1]
        BY <3>2, <4>2
      <4> QED BY <3>3, <4>3
    <3> DEFINE e == [i \in pos .. Len(s) |-> f[i - pos]]
    <3>5. ASSUME NEW i \in pos .. Len(s)
          PROVE  e[i] = (i > pos /\ s[i - 1] = "\\" /\ ~e[i - 1])
      <4>1. CASE i = pos
        <5>1. i - pos = 0 /\ ~(i > pos)
          BY <4>1
        <5>2. e[i] = FALSE
          BY <3>3, <5>1
        <5> QED BY <5>1, <5>2
      <4>2. CASE i # pos
        <5>1. /\ i > pos /\ i - pos \in 1 .. k /\ i - 1 \in pos .. Len(s)
              /\ (i - pos) - 1 = (i - 1) - pos /\ pos + (i - pos) - 1 = i - 1
          BY <2>2, <4>2 DEF k
        <5>2. i - pos \in 0 .. k /\ f[i - pos] \in BOOLEAN
          BY <3>1, <3>3, <5>1
        <5>3. e[i] = f[i - pos] /\ e[i - 1] = f[(i - 1) - pos]
          BY <5>1
        <5>4. f[i - pos] <=> s[i - 1] = "\\" /\ ~f[(i - 1) - pos]
          BY <3>4, <5>1
        <5> HIDE DEF e
        <5>5. e[i] \in BOOLEAN
          BY <5>2, <5>3
        <5>6. e[i] <=> (i > pos /\ s[i - 1] = "\\" /\ ~e[i - 1])
          BY <5>1, <5>3, <5>4
        <5> QED BY <5>5, <5>6
      <4> QED BY <4>1, <4>2
    <3>6. e = [i \in pos .. Len(s) |-> e[i]]
      OBVIOUS
    <3> HIDE DEF e
    <3>7. Is(e)
      BY <3>5, <3>6
    <3> QED BY <3>7
  <2> QED BY <2>1, <2>2
<1>3. Is(h)
  BY <1>1, <1>2
<1>4. \A i \in pos .. Len(s) : h[i] = (i > pos /\ s[i - 1] = "\\" /\ ~h[i - 1])
  BY <1>3
<1>5. \A i \in pos .. Len(s) : h[i] \in BOOLEAN
  BY <1>4
<1>6. h \in [pos .. Len(s) -> BOOLEAN]
  BY <1>3, <1>5
<1> QED BY <1>4, <1>6 DEF h

\* The greatest of some bounded natural numbers.
LEMMA MaxOf ==
  ASSUME NEW S \in SUBSET Nat, S # {}, NEW k \in Nat, \A n \in S : n <= k
  PROVE  Max(S) \in S /\ \A n \in S : Max(S) >= n
<1> DEFINE R == {k - n : n \in S}
<1>1. R \in SUBSET Nat /\ R # {}
  <2>1. \A n \in S : k - n \in Nat
    OBVIOUS
  <2>2. \A m \in R : m \in Nat
    BY <2>1
  <2>3. PICK n \in S : TRUE
    OBVIOUS
  <2>4. k - n \in R
    OBVIOUS
  <2> QED BY <2>2, <2>4
<1>2. Min(R) \in R /\ \A m \in R : Min(R) <= m
  <2> HIDE DEF R
  <2> QED BY <1>1, MinOf
<1>3. PICK x \in S : Min(R) = k - x
  BY <1>2
<1>4. ASSUME NEW n \in S
      PROVE  x >= n
  <2>1. k - n \in R
    OBVIOUS
  <2>2. k - x <= k - n
    BY <1>2, <1>3, <2>1
  <2> QED BY <2>2
<1> QED BY <1>4 DEF Max

\* Characters that a variable of theirs can hang on (find_next_variable).
Flaw(s) == \E i \in 1 .. Len(s) - 1 : s[i] = "$" /\ s[i + 1] \in Digits

\* The values of the variables are texts over C.
Valued(C) == \A v \in substitutions : v.value \in Seq(C)

\* The value of a variable, known or not, is a text.
LEMMA GetValueType ==
  ASSUME NEW C, NEW name, Valued(C)
  PROVE  GetValue(name) \in Seq(C)
<1>1. CASE \E v \in substitutions : v.name = name
  <2> DEFINE w == CHOOSE v \in substitutions : v.name = name
  <2>1. w \in substitutions
    BY <1>1
  <2>2. GetValue(name) = w.value
    BY <1>1 DEF GetValue
  <2> QED BY <2>1, <2>2 DEF Valued
<1>2. CASE ~\E v \in substitutions : v.name = name
  <2>1. GetValue(name) = <<>>
    BY <1>2 DEF GetValue
  <2> QED BY <2>1
<1> QED BY <1>1, <1>2

\* Where expand() stops, a "$" and the whole of an identifier follow.
LEMMA StopsAt ==
  ASSUME NEW C, NEW s \in Seq(C), NEW pos \in 1 .. Len(s) + 1, Stops(s, pos) # {}
  PROVE  LET i == Min(Stops(s, pos)) IN
           /\ i \in pos .. Len(s) - 1 /\ s[i] = "$" /\ s[i + 1] \in Ident
           /\ i \in Stops(s, pos)
           /\ IdentEnd(s, i + 1) \in i + 1 .. Len(s)
           /\ \A k \in i + 1 .. IdentEnd(s, i + 1) : s[k] \in Ident
           /\ IdentEnd(s, i + 1) < Len(s) => s[IdentEnd(s, i + 1) + 1] \notin Ident
<1> DEFINE i == Min(Stops(s, pos))
           S == {j \in i + 1 .. Len(s) : \A k \in i + 1 .. j : s[k] \in Ident}
<1>1. \A n \in Stops(s, pos) : n \in pos .. Len(s) - 1 /\ s[n] = "$" /\ s[n + 1] \in Ident
  BY DEF Stops, FindUnescaped
<1>2. Stops(s, pos) \in SUBSET Nat
  BY <1>1
<1>3. i \in Stops(s, pos)
  BY <1>2, MinOf
<1>4. i \in pos .. Len(s) - 1 /\ s[i] = "$" /\ s[i + 1] \in Ident
  BY <1>1, <1>3
<1> HIDE DEF i
<1>5. i + 1 \in S /\ S \in SUBSET Nat /\ (\A n \in S : n <= Len(s)) /\ Len(s) \in Nat
  BY <1>4
<1>6. IdentEnd(s, i + 1) = Max(S)
  BY DEF IdentEnd
<1>7. Max(S) \in S /\ \A n \in S : Max(S) >= n
  <2> HIDE DEF S
  <2> QED BY <1>5, MaxOf
<1> DEFINE e == Max(S)
<1>8. ASSUME e < Len(s), s[e + 1] \in Ident
      PROVE  FALSE
  <2>1. e \in S /\ e \in Nat /\ e + 1 \in i + 1 .. Len(s)
    BY <1>4, <1>7, <1>8
  <2> HIDE DEF e
  <2>2. \A k \in i + 1 .. e + 1 : k = e + 1 \/ k \in i + 1 .. e
    BY <1>4, <2>1
  <2>3. e + 1 \in S
    BY <1>8, <2>1, <2>2
  <2>4. e >= e + 1
    BY <1>7, <2>3 DEF e
  <2> QED BY <2>1, <2>4
<1> QED BY <1>3, <1>4, <1>6, <1>7, <1>8 DEF i

\* expand_variables() from pos on, with f for what it makes of later positions.
ExpandAt(f, s, pos) ==
  IF Stops(s, pos) = {}
  THEN [hangs |-> FALSE, text |-> SubSeq(s, pos, Len(s))]
  ELSE LET i == Min(Stops(s, pos)) IN
       IF s[i + 1] \in Digits
       THEN [hangs |-> TRUE, text |-> <<>>]
       ELSE LET end  == IdentEnd(s, i + 1)
                rest == f[end + 1]
            IN [hangs |-> rest.hangs,
                text |-> SubSeq(s, pos, i - 1)
                           \o GetValue(SubSeq(s, i + 1, end)) \o rest.text]

Expanding(s) ==
  CHOOSE expanded : expanded = [pos \in 1 .. Len(s) + 1 |-> ExpandAt(expanded, s, pos)]

\* ExpandVariables is the expansion from the first character on.
LEMMA ExpandVariablesIs ==
  ASSUME NEW s
  PROVE  ExpandVariables(s) = Expanding(s)[1]
BY DEF ExpandVariables, Expanding, ExpandAt

Expansions(C) == [hangs: BOOLEAN, text: Seq(C)]

\* The expansion from one position is of the kind if those behind it are.
LEMMA ExpandAtType ==
  ASSUME NEW C, Valued(C), NEW s \in Seq(C), NEW pos \in 1 .. Len(s) + 1,
         NEW f, \A j \in pos + 1 .. Len(s) + 1 : f[j] \in Expansions(C)
  PROVE  ExpandAt(f, s, pos) \in Expansions(C)
<1>1. CASE Stops(s, pos) = {}
  <2>1. SubSeq(s, pos, Len(s)) \in Seq(C)
    OBVIOUS
  <2> QED BY <1>1, <2>1 DEF ExpandAt, Expansions
<1>2. CASE Stops(s, pos) # {}
  <2> DEFINE i == Min(Stops(s, pos))
             end == IdentEnd(s, i + 1)
  <2>1. i \in pos .. Len(s) - 1 /\ end \in i + 1 .. Len(s)
    BY <1>2, StopsAt
  <2>2. ExpandAt(f, s, pos) =
          IF s[i + 1] \in Digits
          THEN [hangs |-> TRUE, text |-> <<>>]
          ELSE [hangs |-> f[end + 1].hangs,
                text |-> SubSeq(s, pos, i - 1)
                           \o GetValue(SubSeq(s, i + 1, end)) \o f[end + 1].text]
    BY <1>2 DEF ExpandAt
  <2> HIDE DEF i, end
  <2>3. end + 1 \in pos + 1 .. Len(s) + 1
    BY <2>1
  <2>4. f[end + 1].hangs \in BOOLEAN /\ f[end + 1].text \in Seq(C)
    BY <2>3 DEF Expansions
  <2>5. SubSeq(s, pos, i - 1) \in Seq(C)
    BY <2>1
  <2>6. GetValue(SubSeq(s, i + 1, end)) \in Seq(C)
    BY GetValueType
  <2>7. SubSeq(s, pos, i - 1) \o GetValue(SubSeq(s, i + 1, end)) \o f[end + 1].text \in Seq(C)
    BY <2>4, <2>5, <2>6
  <2>8. <<>> \in Seq(C)
    OBVIOUS
  <2> QED BY <2>2, <2>4, <2>7, <2>8 DEF Expansions
<1> QED BY <1>1, <1>2

\* The expansion from each position is made of those behind it (expand_variables).
LEMMA ExpandingLaw ==
  ASSUME NEW C, Valued(C), NEW s \in Seq(C)
  PROVE  /\ Expanding(s) \in [1 .. Len(s) + 1 -> Expansions(C)]
         /\ \A pos \in 1 .. Len(s) + 1 : Expanding(s)[pos] = ExpandAt(Expanding(s), s, pos)
<1> DEFINE k == Len(s) + 1
           Is(f) == f = [pos \in 1 .. k |-> ExpandAt(f, s, pos)]
           T == Expansions(C)
           G == [x \in [1 .. k -> T] \X (1 .. k) |-> ExpandAt(x[1], s, x[2])]
           h == Expanding(s)
<1>1. k \in Nat
  OBVIOUS
<1>2. (\E f : Is(f)) => Is(h)
  BY DEF Expanding
<1> HIDE DEF h
<1>3. ASSUME NEW f, NEW pos \in 1 .. k, \A j \in pos + 1 .. k : f[j] \in T
      PROVE  ExpandAt(f, s, pos) \in T
  BY <1>3, ExpandAtType
<1>4. ASSUME NEW f, NEW g, NEW pos \in 1 .. k, \A j \in pos + 1 .. k : f[j] = g[j]
      PROVE  ExpandAt(f, s, pos) = ExpandAt(g, s, pos)
  <2>1. CASE Stops(s, pos) = {}
    BY <2>1 DEF ExpandAt
  <2>2. CASE Stops(s, pos) # {}
    <3> DEFINE i == Min(Stops(s, pos))
               end == IdentEnd(s, i + 1)
    <3>1. i \in pos .. Len(s) - 1 /\ end \in i + 1 .. Len(s)
      BY <2>2, StopsAt
    <3> HIDE DEF i, end
    <3>2. end + 1 \in pos + 1 .. k
      BY <3>1
    <3>3. f[end + 1] = g[end + 1]
      BY <1>4, <3>2
    <3> QED BY <2>2, <3>3 DEF ExpandAt, i, end
  <2> QED BY <2>1, <2>2
<1> HIDE DEF k, T
<1>5. Looks(G, T, k) /\ \A f \in [1 .. k -> T], pos \in 1 .. k : G[<<f, pos>>] = ExpandAt(f, s, pos)
  <2>1. \A f \in [1 .. k -> T], i \in 1 .. k : ExpandAt(f, s, i) \in T
    <3> SUFFICES ASSUME NEW f \in [1 .. k -> T], NEW i \in 1 .. k PROVE ExpandAt(f, s, i) \in T
      OBVIOUS
    <3>1. \A j \in i + 1 .. k : f[j] \in T
      BY <1>1
    <3> QED BY <1>3, <3>1
  <2>2. G \in [[1 .. k -> T] \X (1 .. k) -> T]
    <3>1. \A x \in [1 .. k -> T] \X (1 .. k) : x[1] \in [1 .. k -> T] /\ x[2] \in 1 .. k
      OBVIOUS
    <3> QED BY <2>1, <3>1
  <2>3. \A f \in [1 .. k -> T], i \in 1 .. k : G[<<f, i>>] = ExpandAt(f, s, i)
    OBVIOUS
  <2> HIDE DEF G
  <2>4. ASSUME NEW f \in [1 .. k -> T], NEW g \in [1 .. k -> T], NEW i \in 1 .. k,
               \A j \in i + 1 .. k : f[j] = g[j]
        PROVE  G[<<f, i>>] = G[<<g, i>>]
    <3>1. ExpandAt(f, s, i) = ExpandAt(g, s, i)
      BY <1>4, <2>4
    <3> QED BY <2>3, <3>1
  <2>5. Looks(G, T, k)
    BY <2>2, <2>4 DEF Looks
  <2> QED BY <2>3, <2>5
<1> HIDE DEF G
<1>6. \E f : Is(f)
  <2>1. [hangs |-> FALSE, text |-> <<>>] \in T
    BY DEF T, Expansions
  <2>2. PICK f \in [1 .. k -> T] : \A i \in 1 .. k : f[i] = G[<<f, i>>]
    BY <1>1, <1>5, <2>1, DownwardExists
  <2>3. \A i \in 1 .. k : f[i] = ExpandAt(f, s, i)
    BY <1>5, <2>2
  <2> QED BY <2>2, <2>3
<1>7. Is(h)
  BY <1>2, <1>6
<1>8. \A i \in 1 .. k : h[i] = ExpandAt(h, s, i)
  BY <1>7
<1>9. \A i \in 1 .. k : h[i] \in T
  <2> DEFINE S == {i \in 1 .. k : h[i] \in T}
  <2>1. ASSUME NEW i \in 1 .. k, \A j \in i + 1 .. k : j \in S
        PROVE  i \in S
    BY <1>3, <1>8, <2>1
  <2>2. \A i \in 1 .. k : i \in S
    <3> HIDE DEF S
    <3> QED BY <1>1, <2>1, Downward
  <2> QED BY <2>2
<1>10. h \in [1 .. k -> T]
  BY <1>7, <1>9
<1> QED BY <1>8, <1>10 DEF h, k, T

\* expand() hangs only at a "$" before a digit of the text itself, not of a value.
LEMMA ExpandHangs ==
  ASSUME NEW C, Valued(C), NEW s \in Seq(C), ExpandVariables(s).hangs
  PROVE  Flaw(s)
<1> DEFINE k == Len(s) + 1
           h == Expanding(s)
           S == {i \in 1 .. k : h[i].hangs => Flaw(s)}
<1>1. k \in Nat /\ 1 \in 1 .. k
  OBVIOUS
<1>2. \A pos \in 1 .. k : h[pos] = ExpandAt(h, s, pos)
  BY ExpandingLaw
<1> HIDE DEF h
<1>3. ASSUME NEW pos \in 1 .. k, \A j \in pos + 1 .. k : j \in S
      PROVE  pos \in S
  <2> SUFFICES ASSUME h[pos].hangs PROVE Flaw(s)
    OBVIOUS
  <2>1. h[pos] = ExpandAt(h, s, pos)
    BY <1>2
  <2>2. Stops(s, pos) # {}
    BY <2>1 DEF ExpandAt
  <2> DEFINE i == Min(Stops(s, pos))
             end == IdentEnd(s, i + 1)
  <2>3. i \in pos .. Len(s) - 1 /\ end \in i + 1 .. Len(s) /\ s[i] = "$"
    BY <2>2, StopsAt
  <2>4. CASE s[i + 1] \in Digits
    BY <2>3, <2>4 DEF Flaw
  <2>5. CASE s[i + 1] \notin Digits
    <3>1. ExpandAt(h, s, pos) =
            [hangs |-> h[end + 1].hangs,
             text |-> SubSeq(s, pos, i - 1)
                        \o GetValue(SubSeq(s, i + 1, end)) \o h[end + 1].text]
      BY <2>2, <2>5 DEF ExpandAt
    <3>2. end + 1 \in pos + 1 .. k
      BY <2>3
    <3> HIDE DEF i, end
    <3>3. h[end + 1].hangs
      BY <2>1, <3>1
    <3> QED BY <1>3, <3>2, <3>3
  <2> QED BY <2>4, <2>5
<1>4. \A i \in 1 .. k : i \in S
  <2> HIDE DEF S, k
  <2> QED BY <1>1, <1>3, Downward
<1>5. 1 \in S
  BY <1>1, <1>4
<1> QED BY <1>5, ExpandVariablesIs DEF h

\* A text of characters but the one that escapes.
Plain == Chars \ {"\\"}

\* The characters that mean something are not each other.
LEMMA CharsDiffer ==
  /\ Space \notin {DoubleQuote, "'", "$", "\\", ":", "-", "e", "E", ""} \cup {"\n"}
  /\ DoubleQuote \notin {"'", "$", "\\", ":", "-", "e", "E", ""} \cup {"\n"}
  /\ Space \notin {"0", "1", "2", "3", "4", "5", "6", "7", "8", "9"}
  /\ DoubleQuote \notin {"0", "1", "2", "3", "4", "5", "6", "7", "8", "9"}
  /\ Space \notin {"E", "H", "K", "T", "X"} /\ DoubleQuote \notin {"E", "H", "K", "T", "X"}
BY Zenon DEF Space, DoubleQuote

\* The marks are characters, and neither letters nor digits.
LEMMA MarksAre ==
  /\ {Space, DoubleQuote, "'", "$", "\\", ":", "\n"} \subseteq Chars
  /\ Letters \cap {Space, DoubleQuote, "'", "$", "\\", ":", "\n"} = {}
  /\ Digits \cap {Space, DoubleQuote, "'", "$", "\\", ":", "\n"} = {}
  /\ Letters \cap Digits = {} /\ Digits \subseteq Chars /\ Letters \subseteq Chars
BY AgentAssumption, CharsDiffer DEF Marks, Ident

\* The elements of two sequences put together.
LEMMA Concat ==
  ASSUME NEW S, NEW a \in Seq(S), NEW b \in Seq(S)
  PROVE  /\ a \o b \in Seq(S) /\ Len(a \o b) = Len(a) + Len(b)
         /\ \A i \in 1 .. Len(a) : (a \o b)[i] = a[i]
         /\ \A i \in 1 .. Len(b) : (a \o b)[Len(a) + i] = b[i]
<1>1. /\ a \o b \in Seq(S) /\ Len(a \o b) = Len(a) + Len(b)
      /\ \A i \in 1 .. Len(a) + Len(b) :
           (a \o b)[i] = IF i <= Len(a) THEN a[i] ELSE b[i - Len(a)]
  BY ConcatProperties
<1>2. \A i \in 1 .. Len(a) : i \in 1 .. Len(a) + Len(b) /\ i <= Len(a)
  OBVIOUS
<1>3. \A i \in 1 .. Len(b) : /\ Len(a) + i \in 1 .. Len(a) + Len(b) /\ ~(Len(a) + i <= Len(a))
                             /\ (Len(a) + i) - Len(a) = i
  OBVIOUS
<1> QED BY <1>1, <1>2, <1>3

\* A flaw of two texts together is in one of them, or where they meet.
LEMMA FlawOfPart ==
  ASSUME NEW S, NEW a \in Seq(S), NEW b \in Seq(S), Flaw(a \o b)
  PROVE  \/ Flaw(a) \/ Flaw(b)
         \/ Len(a) > 0 /\ Len(b) > 0 /\ a[Len(a)] = "$" /\ b[1] \in Digits
<1> DEFINE c == a \o b
<1>1. PICK i \in 1 .. Len(c) - 1 : c[i] = "$" /\ c[i + 1] \in Digits
  BY DEF Flaw
<1>2. /\ Len(c) = Len(a) + Len(b) /\ Len(a) \in Nat /\ Len(b) \in Nat
      /\ \A j \in 1 .. Len(a) : c[j] = a[j]
      /\ \A j \in 1 .. Len(b) : c[Len(a) + j] = b[j]
  BY Concat
<1> HIDE DEF c
<1>3. CASE i + 1 <= Len(a)
  <2>1. i \in 1 .. Len(a) - 1 /\ i \in 1 .. Len(a) /\ i + 1 \in 1 .. Len(a)
    BY <1>1, <1>2, <1>3
  <2> QED BY <1>1, <1>2, <2>1 DEF Flaw
<1>4. CASE i = Len(a)
  <2>1. i \in 1 .. Len(a) /\ 1 \in 1 .. Len(b)
    BY <1>1, <1>2, <1>4
  <2> QED BY <1>1, <1>2, <1>4, <2>1
<1>5. CASE i > Len(a)
  <2> DEFINE j == i - Len(a)
  <2>1. j \in 1 .. Len(b) - 1 /\ j \in 1 .. Len(b) /\ j + 1 \in 1 .. Len(b)
        /\ Len(a) + j = i /\ Len(a) + (j + 1) = i + 1
    BY <1>1, <1>2, <1>5
  <2> HIDE DEF j
  <2>2. b[j] = c[i] /\ b[j + 1] = c[i + 1]
    BY <1>2, <2>1
  <2> QED BY <1>1, <2>1, <2>2 DEF Flaw
<1> QED BY <1>1, <1>2, <1>3, <1>4, <1>5

\* Names of variables are of letters.
LEMMA NameChars ==
  ASSUME NEW n \in {AgentName, UserTitle}
  PROVE  /\ n \in Seq(Letters) /\ n \in Seq(Plain) /\ n \in Seq(Chars)
         /\ Len(n) \in Nat \ {0}
         /\ \A i \in 1 .. Len(n) : n[i] \in Letters
         /\ "$" \notin Letters /\ "\\" \notin Letters /\ Letters \cap Digits = {}
<1>1. /\ n \in Seq(Letters) /\ n # <<>>
      /\ "$" \notin Letters /\ "\\" \notin Letters /\ Letters \cap Digits = {}
  BY AgentAssumption, MarksAre
<1>2. Letters \subseteq Plain /\ Letters \subseteq Chars
  BY MarksAre, CharsDiffer DEF Plain
<1>3. Len(n) \in Nat \ {0} /\ \A i \in 1 .. Len(n) : n[i] \in Letters
  BY <1>1
<1>4. n \in Seq(Plain) /\ n \in Seq(Chars)
  BY <1>1, <1>2
<1> QED BY <1>1, <1>3, <1>4

\* "$" and the name of a variable, before something that is no identifier.
LEMMA VariableNoFlaw ==
  ASSUME NEW n \in {AgentName, UserTitle}
  PROVE  /\ <<"$">> \o n \in Seq(Plain) /\ <<"$">> \o n \in Seq(Chars)
         /\ ~Flaw(<<"$">> \o n)
         /\ Len(<<"$">> \o n) = Len(n) + 1
         /\ (<<"$">> \o n)[1] = "$"
         /\ \A i \in 1 .. Len(n) : (<<"$">> \o n)[i + 1] = n[i]
         /\ (<<"$">> \o n)[Len(<<"$">> \o n)] \in Letters
<1> DEFINE a == <<"$">>
           t == a \o n
<1>1. a \in Seq(Plain) /\ a \in Seq(Chars) /\ Len(a) = 1 /\ a[1] = "$" /\ 1 \in 1 .. Len(a)
  <2>1. "$" \in Plain /\ "$" \in Chars
    BY MarksAre DEF Plain
  <2> QED BY <2>1
<1> HIDE DEF a
<1>2. /\ t \in Seq(Plain) /\ t \in Seq(Chars) /\ Len(t) = Len(a) + Len(n)
      /\ \A i \in 1 .. Len(a) : t[i] = a[i]
      /\ \A i \in 1 .. Len(n) : t[Len(a) + i] = n[i]
  <2>1. n \in Seq(Plain) /\ n \in Seq(Chars)
    BY NameChars
  <2>2. t \in Seq(Plain)
    BY <1>1, <2>1, Concat
  <2> QED BY <1>1, <2>1, <2>2, Concat
<1>3. Len(t) = Len(n) + 1 /\ t[1] = "$" /\ \A i \in 1 .. Len(n) : t[i + 1] = n[i]
  <2>1. \A i \in 1 .. Len(n) : 1 + i = i + 1
    BY NameChars
  <2> QED BY <1>1, <1>2, <2>1, NameChars
<1>4. t[Len(t)] \in Letters
  <2>1. Len(n) \in 1 .. Len(n)
    BY NameChars
  <2> QED BY <1>3, <2>1, NameChars
<1>5. ~Flaw(t)
  <2> SUFFICES ASSUME Flaw(t) PROVE FALSE
    OBVIOUS
  <2>1. CASE Flaw(a)
    BY <1>1, <2>1 DEF Flaw
  <2>2. CASE Flaw(n)
    <3>1. PICK i \in 1 .. Len(n) - 1 : n[i] = "$"
      BY <2>2 DEF Flaw
    <3>2. i \in 1 .. Len(n)
      BY NameChars
    <3> QED BY <3>1, <3>2, NameChars
  <2>3. CASE n[1] \in Digits
    <3>1. 1 \in 1 .. Len(n)
      BY NameChars
    <3> QED BY <2>3, <3>1, NameChars
  <2> QED BY <1>1, <2>1, <2>2, <2>3, NameChars, FlawOfPart
<1> QED BY <1>2, <1>3, <1>4, <1>5 DEF a

\* What say() expands, and how it ends.
Full(text) ==
  <<"$">> \o AgentName \o <<":", Space, DoubleQuote>> \o text \o <<DoubleQuote, "\n">>

\* What say() expands is made of the text and of what is around it.
LEMMA FullType ==
  ASSUME NEW C, {"$", ":", Space, DoubleQuote, "\n"} \cup Letters \subseteq C, NEW text \in Seq(C)
  PROVE  Full(text) \in Seq(C)
<1>1. <<"$">> \in Seq(C) /\ <<":", Space, DoubleQuote>> \in Seq(C) /\ <<DoubleQuote, "\n">> \in Seq(C)
  OBVIOUS
<1>2. AgentName \in Seq(C)
  <2>1. AgentName \in Seq(Letters)
    BY NameChars
  <2> QED BY <2>1
<1> QED BY <1>1, <1>2, Concat DEF Full

\* What say() puts around a text has no flaw and makes none.
LEMMA FullNoFlaw ==
  ASSUME NEW text \in Seq(Chars), Flaw(Full(text))
  PROVE  Flaw(text)
<1> DEFINE a == <<"$">> \o AgentName
           b == <<":", Space, DoubleQuote>>
           c == <<DoubleQuote, "\n">>
<1>1. a \in Seq(Chars) /\ ~Flaw(a) /\ a[Len(a)] # "$"
  BY VariableNoFlaw, NameChars
<1>2. b \in Seq(Chars) /\ Len(b) = 3 /\ b[1] = ":" /\ b[2] = Space /\ b[3] = DoubleQuote
  BY MarksAre
<1>3. c \in Seq(Chars) /\ Len(c) = 2 /\ c[1] = DoubleQuote /\ c[2] = "\n"
  BY MarksAre
<1>4. Full(text) = a \o b \o text \o c
  BY DEF Full
<1> HIDE DEF a, b, c
<1>5. {":", DoubleQuote, "\n", Space} \cap Digits = {} /\ DoubleQuote # "$"
  BY MarksAre, CharsDiffer
<1>6. ~Flaw(b) /\ ~Flaw(c)
  <2>1. \A i \in 1 .. Len(b) - 1 : i = 1 \/ i = 2
    BY <1>2
  <2>2. \A i \in 1 .. Len(c) - 1 : i = 1
    BY <1>3
  <2>3. Space # "$" /\ ":" # "$" /\ DoubleQuote # "$"
    BY CharsDiffer
  <2>4. ~Flaw(b)
    BY <1>2, <2>1, <2>3 DEF Flaw
  <2>5. ~Flaw(c)
    BY <1>3, <2>2, <2>3 DEF Flaw
  <2> QED BY <2>4, <2>5
<1>7. a \o b \in Seq(Chars) /\ ~Flaw(a \o b) /\ (a \o b)[Len(a \o b)] = DoubleQuote
  <2>1. 3 \in 1 .. Len(b)
    BY <1>2
  <2>2. (a \o b)[Len(a) + 3] = b[3] /\ Len(a \o b) = Len(a) + 3 /\ a \o b \in Seq(Chars)
    <3>1. /\ Len(a \o b) = Len(a) + Len(b) /\ a \o b \in Seq(Chars)
          /\ \A i \in 1 .. Len(b) : (a \o b)[Len(a) + i] = b[i]
      <4>1. a \in Seq(Chars) /\ b \in Seq(Chars)
        BY <1>1, <1>2
      <4> QED BY <4>1, Concat
    <3> QED BY <1>2, <2>1, <3>1
  <2>3. ~Flaw(a \o b)
    <3> SUFFICES ASSUME Flaw(a \o b) PROVE FALSE
      OBVIOUS
    <3>1. a \in Seq(Chars) /\ b \in Seq(Chars) /\ Flaw(a \o b)
      BY <1>1, <1>2
    <3>2. \/ Flaw(a) \/ Flaw(b)
          \/ Len(a) > 0 /\ Len(b) > 0 /\ a[Len(a)] = "$" /\ b[1] \in Digits
      BY <3>1, FlawOfPart
    <3> QED BY <1>1, <1>6, <3>2
  <2> QED BY <1>2, <2>2, <2>3
<1>8. Flaw(a \o b \o text) => Flaw(text)
  <2>1. Flaw(a \o b \o text) =>
          \/ Flaw(a \o b) \/ Flaw(text)
          \/ Len(a \o b) > 0 /\ Len(text) > 0 /\ (a \o b)[Len(a \o b)] = "$" /\ text[1] \in Digits
    BY <1>7, FlawOfPart
  <2> QED BY <1>5, <1>7, <2>1
<1>9. a \o b \o text \in Seq(Chars)
  BY <1>7, Concat
<1> DEFINE d == a \o b \o text
<1>10. d \in Seq(Chars) /\ Flaw(d \o c) /\ Full(text) = d \o c
  BY <1>4, <1>9
<1> HIDE DEF d
<1>11. \/ Flaw(d) \/ Flaw(c)
       \/ Len(d) > 0 /\ Len(c) > 0 /\ d[Len(d)] = "$" /\ c[1] \in Digits
  BY <1>3, <1>10, FlawOfPart
<1> QED BY <1>3, <1>5, <1>6, <1>8, <1>11 DEF d

\* What may come of a text that is written: s is expanded, fs may go wrong.
Writes(s, fs) ==
  {[end |-> "said", text |-> RemoveEscapes(s.text)]}
    \cup {[end |-> "throws", text |-> <<>>] : f \in fs \cap {"throws"}}
    \cup {[end |-> "said", text |-> <<>>] : f \in fs \cap {"silent"}}

\* say() in terms of the text that it expands (agent.cpp:85-90).
LEMMA SayIs ==
  ASSUME NEW text, NEW fs
  PROVE  Say(text, fs) =
           LET s == ExpandVariables(Full(text)) IN
             CASE s.hangs -> {[end |-> "hangs", text |-> <<>>]}
               [] ~s.hangs /\ BadEscape(s.text) -> {[end |-> "throws", text |-> <<>>]}
               [] ~s.hangs /\ ~BadEscape(s.text) -> Writes(s, fs)
BY DEF Say, Full, Writes

\* A write throws only if something makes it (output.cpp:118-144).
LEMMA WritesEnd ==
  ASSUME NEW s, NEW fs, NEW r \in Writes(s, fs)
  PROVE  r.end = "said" \/ (r.end = "throws" /\ "throws" \in fs)
BY DEF Writes

\* say() ends in one of three ways (agent.cpp, var.cpp).
LEMMA SayEnds ==
  ASSUME NEW text \in Seq(Chars), Valued(Chars), NEW fs, NEW r \in Say(text, fs)
  PROVE  /\ r.end \in {"said", "hangs", "throws"}
         /\ r.end = "hangs" => Flaw(text)
<1>1. Full(text) \in Seq(Chars)
  <2>1. {"$", ":", Space, DoubleQuote, "\n"} \cup Letters \subseteq Chars
    BY MarksAre
  <2> QED BY <2>1, FullType
<1> DEFINE x == ExpandVariables(Full(text))
<1>2. x \in Expansions(Chars)
  <2>1. 1 \in 1 .. Len(Full(text)) + 1
    BY <1>1
  <2> QED BY <1>1, <2>1, ExpandingLaw, ExpandVariablesIs
<1>3. x.hangs \in BOOLEAN
  BY <1>2 DEF Expansions
<1>4. x.hangs => Flaw(text)
  BY <1>1, ExpandHangs, FullNoFlaw
<1>5. Say(text, fs) =
             CASE x.hangs -> {[end |-> "hangs", text |-> <<>>]}
               [] ~x.hangs /\ BadEscape(x.text) -> {[end |-> "throws", text |-> <<>>]}
               [] ~x.hangs /\ ~BadEscape(x.text) -> Writes(x, fs)
  BY SayIs
<1> HIDE DEF x
<1>6. CASE x.hangs
  <2>1. r = [end |-> "hangs", text |-> <<>>]
    BY <1>5, <1>6
  <2> QED BY <1>4, <1>6, <2>1
<1>7. CASE ~x.hangs /\ BadEscape(x.text)
  <2>1. r = [end |-> "throws", text |-> <<>>]
    BY <1>5, <1>7
  <2> QED BY <2>1
<1>8. CASE ~x.hangs /\ ~BadEscape(x.text)
  <2>1. r \in Writes(x, fs)
    BY <1>5, <1>8
  <2> QED BY <2>1, WritesEnd
<1> QED BY <1>3, <1>6, <1>7, <1>8

\* say() throws only for a "\" in the text or in a value, or if a write does.
LEMMA NoEscapeNoThrow ==
  ASSUME NEW text \in Seq(Plain), Valued(Plain), NEW fs, NEW r \in Say(text, fs), r.end = "throws"
  PROVE  "throws" \in fs
<1> DEFINE x == ExpandVariables(Full(text))
<1>1. Full(text) \in Seq(Plain)
  <2>1. {"$", ":", Space, DoubleQuote, "\n"} \cup Letters \subseteq Plain
    BY MarksAre, CharsDiffer DEF Plain
  <2> QED BY <2>1, FullType
<1>2. x \in Expansions(Plain)
  <2>1. 1 \in 1 .. Len(Full(text)) + 1
    BY <1>1
  <2> QED BY <1>1, <2>1, ExpandingLaw, ExpandVariablesIs
<1>3. x.text \in Seq(Plain) /\ x.hangs \in BOOLEAN
  BY <1>2 DEF Expansions
<1>5. Say(text, fs) =
             CASE x.hangs -> {[end |-> "hangs", text |-> <<>>]}
               [] ~x.hangs /\ BadEscape(x.text) -> {[end |-> "throws", text |-> <<>>]}
               [] ~x.hangs /\ ~BadEscape(x.text) -> Writes(x, fs)
  BY SayIs
<1> HIDE DEF x
<1>4. ~BadEscape(x.text)
  <2> SUFFICES ASSUME NEW i \in 1 .. Len(x.text), EscapedFrom(x.text, 1)[i] PROVE FALSE
    BY DEF BadEscape
  <2>1. i > 1 /\ x.text[i - 1] = "\\"
    <3>1. Len(x.text) \in Nat /\ 1 \in Nat
      BY <1>3
    <3> QED BY <3>1, EscapedLaw
  <2>2. i - 1 \in 1 .. Len(x.text)
    BY <1>3, <2>1
  <2>3. x.text[i - 1] \in Plain
    BY <1>3, <2>2
  <2> QED BY <2>1, <2>3 DEF Plain
<1>6. CASE x.hangs
  <2>1. r = [end |-> "hangs", text |-> <<>>]
    BY <1>5, <1>6
  <2> QED BY <2>1
<1>7. CASE ~x.hangs
  <2>1. r \in Writes(x, fs)
    BY <1>4, <1>5, <1>7
  <2> QED BY <2>1, WritesEnd
<1> QED BY <1>3, <1>6, <1>7

\* What comes of texts comes of one of them.
LEMMA SayAllFrom ==
  ASSUME NEW texts, NEW fs, NEW r \in SayAll(texts, fs)
  PROVE  \E i \in 1 .. Len(texts) : r \in Say(texts[i], fs)
BY DEF SayAll

\* A round of Join.
JoinTo(ts, x, i) == x \o (IF i = 1 THEN <<>> ELSE <<Space>>) \o ts[i]

\* The rounds of Join.
Joining(ts) ==
  CHOOSE after : after = [n \in 0 .. Len(ts) |->
    IF n = 0 THEN <<>> ELSE JoinTo(ts, after[n - 1], n)]

\* The arguments of ECHO are joined in a loop (cmd.cpp:246-256).
LEMMA JoiningLaw ==
  ASSUME NEW ts, Len(ts) \in Nat,
         NEW T, <<>> \in T, \A x \in T, i \in 1 .. Len(ts) : JoinTo(ts, x, i) \in T
  PROVE  /\ Joining(ts) \in [0 .. Len(ts) -> T]
         /\ Joining(ts)[0] = <<>>
         /\ \A i \in 1 .. Len(ts) : Joining(ts)[i] = JoinTo(ts, Joining(ts)[i - 1], i)
<1> DEFINE k == Len(ts)
           G == [x \in T \X (1 .. k) |-> JoinTo(ts, x[1], x[2])]
           h == Joining(ts)
           Is(f) == f = [n \in 0 .. k |-> IF n = 0 THEN <<>> ELSE JoinTo(ts, f[n - 1], n)]
<1>1. k \in Nat
  OBVIOUS
<1>2. G \in Rounds(T, k) /\ \A x \in T, i \in 1 .. k : G[<<x, i>>] = JoinTo(ts, x, i)
  <2>1. \A x \in T \X (1 .. k) : JoinTo(ts, x[1], x[2]) \in T
    OBVIOUS
  <2> QED BY <2>1 DEF Rounds
<1>3. (\E f : Is(f)) => Is(h)
  BY DEF Joining
<1> HIDE DEF G, h, k
<1>4. PICK f : f \in [0 .. k -> T] /\ f[0] = <<>> /\ \A i \in 1 .. k : f[i] = G[<<f[i - 1], i>>]
  <2>1. <<>> \in T /\ G \in Rounds(T, k)
    BY <1>2
  <2>2. \E f : Loop(f, T, <<>>, k, G)
    BY <1>1, <2>1, LoopExists
  <2> QED BY <2>2 DEF Loop
<1>5. ASSUME NEW i \in 1 .. k
      PROVE  f[i] = JoinTo(ts, f[i - 1], i)
  <2>1. f[i - 1] \in T
    BY <1>1, <1>4
  <2> QED BY <1>2, <1>4, <2>1
<1>6. Is(f)
  <2>1. \A n \in 0 .. k : n # 0 => n \in 1 .. k
    BY <1>1
  <2> QED BY <1>4, <1>5, <2>1
<1>7. Is(h)
  <2> HIDE DEF Is
  <2> QED BY <1>3, <1>6
<1>8. 0 \in 0 .. k /\ \A n \in 1 .. k : n \in 0 .. k /\ n # 0
  BY <1>1
<1>9. h[0] = <<>> /\ \A i \in 1 .. k : h[i] = JoinTo(ts, h[i - 1], i)
  BY <1>7, <1>8
<1>10. \A i \in 0 .. k : h[i] \in T
  <2>1. ASSUME NEW i \in 1 .. k, h[i - 1] \in T
        PROVE  h[i] \in T
    BY <1>9, <2>1 DEF k
  <2> QED BY <1>1, <1>9, <2>1, LoopKeeps
<1>11. h \in [0 .. k -> T]
  BY <1>7, <1>10
<1> QED BY <1>9, <1>11 DEF h, k

\* They are joined with spaces and nothing else.
LEMMA JoinType ==
  ASSUME NEW C, Space \in C, NEW ts \in Seq(Seq(C))
  PROVE  Join(ts) \in Seq(C)
<1>1. Join(ts) = Joining(ts)[Len(ts)]
  BY DEF Join, Joining, JoinTo
<1>2. <<>> \in Seq(C) /\ <<Space>> \in Seq(C) /\ Len(ts) \in Nat
  OBVIOUS
<1>3. ASSUME NEW x \in Seq(C), NEW i \in 1 .. Len(ts)
      PROVE  JoinTo(ts, x, i) \in Seq(C)
  <2>1. ts[i] \in Seq(C) /\ (IF i = 1 THEN <<>> ELSE <<Space>>) \in Seq(C)
    BY <1>2
  <2> QED BY <2>1, Concat DEF JoinTo
<1>4. \A x \in Seq(C), i \in 1 .. Len(ts) : JoinTo(ts, x, i) \in Seq(C)
  BY <1>3
<1>5. Joining(ts) \in [0 .. Len(ts) -> Seq(C)]
  BY <1>2, <1>4, JoiningLaw
<1> QED BY <1>1, <1>2, <1>5

\* to_upper() keeps a character or makes it one of a command's name.
LEMMA UpperType ==
  ASSUME NEW s \in Seq(Chars)
  PROVE  /\ Upper(s) \in Seq(Chars) /\ Len(Upper(s)) = Len(s)
         /\ \A i \in 1 .. Len(s) :
              Upper(s)[i] = s[i] \/ Upper(s)[i] \in {"E", "H", "K", "T", "X"}
<1>1. \A i \in 1 .. Len(s) :
        /\ Upper(s)[i] = s[i] \/ Upper(s)[i] \in {"E", "H", "K", "T", "X"}
        /\ s[i] \in Chars
  BY DEF Upper
<1>2. \A i \in 1 .. Len(s) : Upper(s)[i] \in Chars
  BY <1>1, CommandsAssumption
<1>3. Upper(s) = [i \in 1 .. Len(s) |-> Upper(s)[i]] /\ Len(s) \in Nat
  BY DEF Upper
<1>4. Upper(s) \in Seq(Chars) /\ Len(Upper(s)) = Len(s)
  BY <1>2, <1>3
<1> QED BY <1>1, <1>4

-----------------------------------------------------------------------------
(* What the text of a command takes from its line.                         *)

HangCause(l) ==
  LET chars == ToSet(l) \cup Shown(l) IN "$" \in chars /\ Digits \cap chars # {}

ThrowCause(l, fs) ==
  \/ "\\" \in ToSet(l)
  \/ \E v \in substitutions : "\\" \in ToSet(v.value)
  \/ "throws" \in fs

\* What is wrong with the text is wrong with the line l: a variable before a
\* digit, and also a "\".
HangsOf(l, text) == text \in Seq(Chars) /\ (Flaw(text) => HangCause(l))

OfLine(l, text) == HangsOf(l, text) /\ ("\\" \notin ToSet(l) => text \in Seq(Plain))

\* A sequence is one of its elements.
LEMMA ElementsOf ==
  ASSUME NEW S, NEW s \in Seq(S)
  PROVE  /\ s \in Seq(ToSet(s)) /\ ToSet(s) \subseteq S
         /\ \A i \in 1 .. Len(s) : s[i] \in ToSet(s)
<1>1. \A i \in 1 .. Len(s) : s[i] \in ToSet(s)
  BY DEF ToSet
<1>2. ToSet(s) \subseteq S
  BY DEF ToSet
<1> QED BY <1>1, <1>2

\* How say() ends with a text that comes of a line depends on the line's flaws.
LEMMA SayOfLine ==
  ASSUME NEW l, NEW text, HangsOf(l, text), Valued(Chars), NEW fs, NEW r \in Say(text, fs)
  PROVE  /\ r.end \in {"said", "hangs", "throws"}
         /\ r.end = "hangs" => HangCause(l)
         /\ r.end = "throws" /\ OfLine(l, text) => ThrowCause(l, fs)
<1>1. text \in Seq(Chars)
  BY DEF HangsOf
<1>2. r.end \in {"said", "hangs", "throws"} /\ (r.end = "hangs" => HangCause(l))
  BY <1>1, SayEnds DEF HangsOf
<1>3. ASSUME ~ThrowCause(l, fs), OfLine(l, text)
      PROVE  r.end # "throws"
  <2>1. text \in Seq(Plain)
    BY <1>3 DEF OfLine, ThrowCause
  <2>2. ASSUME NEW v \in substitutions
        PROVE  v.value \in Seq(Plain)
    <3>1. v.value \in Seq(Chars) /\ "\\" \notin ToSet(v.value)
      BY <1>3 DEF Valued, ThrowCause
    <3>2. v.value \in Seq(ToSet(v.value)) /\ ToSet(v.value) \subseteq Chars
      BY <3>1, ElementsOf
    <3>3. ToSet(v.value) \subseteq Plain
      BY <3>1, <3>2 DEF Plain
    <3> QED BY <3>2, <3>3
  <2>3. "throws" \notin fs
    BY <1>3 DEF ThrowCause
  <2>4. Valued(Plain)
    BY <2>2 DEF Valued
  <2> QED BY <2>1, <2>3, <2>4, NoEscapeNoThrow
<1> QED BY <1>2, <1>3

\* A text of characters of a line comes of the line.
LEMMA WordsOfLine ==
  ASSUME NEW l \in Seq(Chars), NEW text \in Seq(ToSet(l) \cup {Space})
  PROVE  OfLine(l, text)
<1>1. ToSet(l) \cup {Space} \subseteq Chars
  BY ElementsOf, MarksAre
<1>2. text \in Seq(Chars)
  BY <1>1
<1>3. Flaw(text) => HangCause(l)
  <2> SUFFICES ASSUME NEW i \in 1 .. Len(text) - 1, text[i] = "$", text[i + 1] \in Digits
               PROVE  HangCause(l)
    BY DEF Flaw
  <2>1. text[i] \in ToSet(l) \cup {Space} /\ text[i + 1] \in ToSet(l) \cup {Space}
    OBVIOUS
  <2>2. Space # "$" /\ Space \notin Digits
    BY CharsDiffer, MarksAre
  <2> QED BY <2>1, <2>2 DEF HangCause
<1>4. "\\" \notin ToSet(l) => ToSet(l) \cup {Space} \subseteq Plain
  BY <1>1, CharsDiffer DEF Plain
<1>5. "\\" \notin ToSet(l) => text \in Seq(Plain)
  BY <1>4
<1> QED BY <1>2, <1>3, <1>5 DEF OfLine, HangsOf

\* So does the name of its command.
LEMMA UpperOfLine ==
  ASSUME NEW l \in Seq(Chars), NEW w \in Seq(ToSet(l))
  PROVE  OfLine(l, Upper(w)) /\ Upper(w) \in Seq(Chars)
<1>1. ToSet(l) \subseteq Chars
  BY ElementsOf
<1>2. w \in Seq(Chars) /\ Len(w) \in Nat
  BY <1>1
<1>3. /\ Upper(w) \in Seq(Chars) /\ Len(Upper(w)) = Len(w)
      /\ \A i \in 1 .. Len(w) :
           Upper(w)[i] = w[i] \/ Upper(w)[i] \in {"E", "H", "K", "T", "X"}
  BY <1>2, UpperType
<1>4. Flaw(Upper(w)) => HangCause(l)
  <2> SUFFICES ASSUME NEW i \in 1 .. Len(w) - 1, Upper(w)[i] = "$", Upper(w)[i + 1] \in Digits
               PROVE  HangCause(l)
    BY <1>3 DEF Flaw
  <2>1. i \in 1 .. Len(w) /\ i + 1 \in 1 .. Len(w)
    BY <1>2
  <2>2. w[i] = "$"
    BY <1>3, <2>1
  <2>3. {"E", "H", "K", "T", "X"} \cap Digits = {}
    BY AgentAssumption
  <2>4. w[i + 1] \in Digits
    BY <1>3, <2>1, <2>3
  <2>5. w[i] \in ToSet(l) /\ w[i + 1] \in ToSet(l)
    BY <2>1
  <2> QED BY <2>2, <2>4, <2>5 DEF HangCause
<1>5. ASSUME "\\" \notin ToSet(l)
      PROVE  Upper(w) \in Seq(Plain)
  <2>1. ASSUME NEW i \in 1 .. Len(w)
        PROVE  Upper(w)[i] \in Plain
    <3>1. w[i] \in ToSet(l) /\ Upper(w)[i] \in Chars
      BY <1>3
    <3>2. w[i] # "\\"
      BY <1>5, <3>1
    <3> QED BY <1>3, <3>1, <3>2 DEF Plain
  <2> QED BY <1>2, <1>3, <2>1
<1> QED BY <1>3, <1>4, <1>5 DEF OfLine, HangsOf

\* So does what addresses the user (cmd.cpp:157, 180, 279, timer.cpp:291-336).
LEMMA ToUserOfLine ==
  ASSUME NEW l \in Seq(Chars), NEW c, OfLine(l, c)
  PROVE  OfLine(l, ToUser(c))
<1> DEFINE a == <<"$">> \o UserTitle
           b == <<Space>>
           d == a \o b
<1>1. a \in Seq(Chars) /\ a \in Seq(Plain) /\ ~Flaw(a) /\ a[Len(a)] \in Letters
  BY VariableNoFlaw
<1>2. b \in Seq(Chars) /\ b \in Seq(Plain) /\ ~Flaw(b) /\ Len(b) = 1 /\ b[1] = Space /\ 1 \in 1 .. Len(b)
  <2>1. Space \in Chars /\ Space \in Plain
    BY MarksAre, CharsDiffer DEF Plain
  <2>2. b \in Seq(Chars) /\ b \in Seq(Plain) /\ Len(b) = 1 /\ b[1] = Space
    BY <2>1
  <2> QED BY <2>2 DEF Flaw
<1>3. c \in Seq(Chars) /\ OfLine(l, c)
  BY DEF OfLine, HangsOf
<1>4. ToUser(c) = a \o b \o c
  BY DEF ToUser
<1> HIDE DEF a, b
<1>5. Space # "$" /\ Space \notin Digits /\ "$" \notin Letters
  BY CharsDiffer, MarksAre
<1>6. d \in Seq(Chars) /\ d \in Seq(Plain) /\ d[Len(d)] = Space
  <2>1. d \in Seq(Plain)
    BY <1>1, <1>2, Concat
  <2>2. /\ d \in Seq(Chars) /\ Len(d) = Len(a) + Len(b)
        /\ \A i \in 1 .. Len(b) : d[Len(a) + i] = b[i]
    <3>1. a \in Seq(Chars) /\ b \in Seq(Chars)
      BY <1>1, <1>2
    <3> QED BY <3>1, Concat
  <2> QED BY <1>2, <2>1, <2>2
<1>7. ~Flaw(d)
  <2> SUFFICES ASSUME Flaw(a \o b) PROVE FALSE
    OBVIOUS
  <2>1. a \in Seq(Chars) /\ b \in Seq(Chars) /\ Flaw(a \o b)
    BY <1>1, <1>2
  <2>2. \/ Flaw(a) \/ Flaw(b)
        \/ Len(a) > 0 /\ Len(b) > 0 /\ a[Len(a)] = "$" /\ b[1] \in Digits
    BY <2>1, FlawOfPart
  <2> QED BY <1>1, <1>2, <1>5, <2>2
<1>8. ToUser(c) = d \o c
  BY <1>4
<1> HIDE DEF d
<1>9. d \o c \in Seq(Chars)
  BY <1>3, <1>6, Concat
<1>10. Flaw(d \o c) => HangCause(l)
  <2> SUFFICES ASSUME Flaw(d \o c) PROVE HangCause(l)
    OBVIOUS
  <2>1. d \in Seq(Chars) /\ c \in Seq(Chars) /\ Flaw(d \o c)
    BY <1>3, <1>6
  <2>2. \/ Flaw(d) \/ Flaw(c)
        \/ Len(d) > 0 /\ Len(c) > 0 /\ d[Len(d)] = "$" /\ c[1] \in Digits
    BY <2>1, FlawOfPart
  <2> QED BY <1>3, <1>5, <1>6, <1>7, <2>2 DEF OfLine, HangsOf
<1>11. "\\" \notin ToSet(l) => d \o c \in Seq(Plain)
  BY <1>3, <1>6, Concat DEF OfLine
<1>12. OfLine(l, d \o c)
  BY <1>9, <1>10, <1>11 DEF OfLine, HangsOf
<1> QED BY <1>8, <1>12

-----------------------------------------------------------------------------
(* One line.                                                               *)

\* The tokens of a line that is not blank, its command and its parameters.
LEMMA LineType ==
  ASSUME NEW l \in Seq(Chars), Tokens(l) # <<>>
  PROVE  /\ Head(Tokens(l)) \in Seq(ToSet(l))
         /\ Parsed(l) \in Params(OptionsOf(CmdName(l)), ToSet(l))
<1>1. l \in Seq(ToSet(l))
  BY ElementsOf
<1>2. Tokens(l) \in Seq(Words(ToSet(l)))
  BY <1>1, TokensType
<1>3. Head(Tokens(l)) \in Words(ToSet(l))
  BY <1>2
<1>4. Head(Tokens(l)) \in Seq(ToSet(l))
  BY <1>3 DEF Words
<1>5. ParamList(Tokens(l), OptionsOf(CmdName(l))) \in Params(OptionsOf(CmdName(l)), ToSet(l))
  BY <1>2, ParamListType
<1> QED BY <1>4, <1>5 DEF Parsed

\* So does all that the commands say.
LEMMA TextsOfLine ==
  ASSUME NEW l \in Seq(Chars), NEW opts, NEW pl \in Params(opts, ToSet(l))
  PROVE  /\ OfLine(l, <<>>)
         /\ OfLine(l, pl.error)
         /\ OfLine(l, Join(pl.args))
         /\ \A i \in 1 .. Len(Echoes(pl).says) : OfLine(l, Echoes(pl).says[i])
         /\ \A i \in 1 .. Len(Times(pl).says) : OfLine(l, Times(pl).says[i])
         /\ Join(Tail(pl.args)) \in Seq(Chars) \/ pl.args = <<>>
<1> DEFINE C == ToSet(l) \cup {Space}
<1>1. Seq(ToSet(l)) \subseteq Seq(C) /\ C \subseteq Chars
  <2>1. ToSet(l) \subseteq C
    OBVIOUS
  <2>2. C \subseteq Chars
    BY ElementsOf, MarksAre
  <2> HIDE DEF C
  <2>3. ASSUME NEW s \in Seq(ToSet(l)) PROVE s \in Seq(C)
    BY <2>1
  <2> QED BY <2>2, <2>3
<1>2. pl.error \in Seq(ToSet(l)) /\ pl.args \in Seq(Words(ToSet(l)))
  BY DEF Params
<1>3. pl.args \in Seq(Seq(C))
  <2>1. Words(ToSet(l)) \subseteq Seq(C)
    BY <1>1 DEF Words
  <2> HIDE DEF C
  <2> QED BY <1>2, <2>1
<1>4. <<>> \in Seq(C) /\ Space \in C
  OBVIOUS
<1>5. ASSUME NEW s \in Seq(C) PROVE OfLine(l, s)
  BY WordsOfLine
<1>6. OfLine(l, <<>>)
  BY <1>4, <1>5
<1>7. OfLine(l, pl.error)
  BY <1>1, <1>2, <1>5
<1> HIDE DEF C
<1>8. OfLine(l, Join(pl.args)) /\ \A i \in 1 .. Len(Echoes(pl).says) : OfLine(l, Echoes(pl).says[i])
  <2>1. Join(pl.args) \in Seq(C)
    BY <1>3, <1>4, JoinType
  <2>2. OfLine(l, Join(pl.args))
    BY <1>5, <2>1
  <2>3. Echoes(pl).says = <<Join(pl.args)>>
    BY DEF Echoes
  <2> HIDE DEF Join
  <2>4. \A i \in 1 .. Len(Echoes(pl).says) : Echoes(pl).says[i] = Join(pl.args)
    BY <2>3
  <2> QED BY <2>2, <2>4
<1>9. ASSUME pl.args # <<>>
      PROVE  Head(pl.args) \in Seq(ToSet(l)) /\ Head(pl.args) \in Seq(C)
  <2>1. Head(pl.args) \in Words(ToSet(l))
    BY <1>2, <1>9
  <2> QED BY <1>1, <2>1 DEF Words
<1>11. \A i \in 1 .. Len(Times(pl).says) : OfLine(l, Times(pl).says[i])
  <2>1. OfLine(l, ToUser(<<>>))
    BY <1>6, ToUserOfLine
  <2>2. PICK t : Times(pl).says = <<t>> /\ OfLine(l, t)
    <3>1. CASE Len(pl.args) < 2
      BY <2>1, <3>1 DEF Times
    <3>2. CASE ~(Len(pl.args) < 2)
      <4>1. pl.args # <<>>
        BY <3>2
      <4>2. OfLine(l, ToUser(Head(pl.args)))
        BY <1>5, <1>9, <4>1, ToUserOfLine
      <4>3. Times(pl).says = <<ToUser(<<>>)>> \/ Times(pl).says = <<ToUser(Head(pl.args))>>
        BY <3>2 DEF Times
      <4> QED BY <2>1, <4>2, <4>3
    <3> QED BY <3>1, <3>2
  <2> QED BY <2>2
<1>12. pl.args # <<>> => Join(Tail(pl.args)) \in Seq(Chars)
  <2> SUFFICES ASSUME pl.args # <<>> PROVE Join(Tail(pl.args)) \in Seq(Chars)
    OBVIOUS
  <2>1. Tail(pl.args) \in Seq(Seq(C))
    BY <1>3
  <2>2. Join(Tail(pl.args)) \in Seq(C)
    BY <1>4, <2>1, JoinType
  <2> QED BY <1>1, <2>2
<1> QED BY <1>6, <1>7, <1>8, <1>11, <1>12

\* What HELP shows of the options is made of them.
LEMMA HelpOptionsType ==
  ASSUME NEW C, NEW opts \in Seq(C)
  PROVE  HelpOptions(opts).flags \in Seq(C) /\ HelpOptions(opts).withArg \in Seq(C)
<1>1. Showing(opts) \in [1 .. Len(opts) + 1 -> ShownOf(C)]
  BY ShowingLaw
<1>2. 1 \in 1 .. Len(opts) + 1
  OBVIOUS
<1>3. Showing(opts)[1] \in ShownOf(C)
  BY <1>1, <1>2
<1> QED BY <1>3, HelpOptionsIs DEF ShownOf

\* How a command is called is made of its name, options and usage (cmd.cpp:229).
LEMMA CallType ==
  ASSUME NEW C, Space \in C, NEW c, c.name \in Seq(C), c.options \in Seq(C), c.usage \in Seq(C)
  PROVE  Call(c) \in Seq(C)
<1> DEFINE shown == HelpOptions(c.options)
           args == [k \in 1 .. Len(shown.withArg) |-> <<shown.withArg[k]>>]
           first == <<c.name, shown.flags>>
           last == <<c.usage>>
<1>1. shown.flags \in Seq(C) /\ shown.withArg \in Seq(C)
  BY HelpOptionsType
<1>2. Call(c) = Join(first \o args \o last)
  BY DEF Call
<1> HIDE DEF shown
<1>3. args \in Seq(Seq(C))
  <2>1. ASSUME NEW k \in 1 .. Len(shown.withArg)
        PROVE  <<shown.withArg[k]>> \in Seq(C)
    <3>1. shown.withArg[k] \in C
      BY <1>1
    <3> QED BY <3>1
  <2>2. Len(shown.withArg) \in Nat
    BY <1>1
  <2> QED BY <2>1, <2>2
<1>4. first \in Seq(Seq(C)) /\ last \in Seq(Seq(C))
  BY <1>1
<1> HIDE DEF args, first, last
<1>5. first \o args \o last \in Seq(Seq(C))
  BY <1>3, <1>4, Concat
<1> QED BY <1>2, <1>5, JoinType

\* A text hangs only for what is in the line or shown for it.
LEMMA ShownHangs ==
  ASSUME NEW l \in Seq(Chars), NEW C \in SUBSET Chars, NEW text \in Seq(C),
         \A ch \in C : ch = "$" \/ ch \in Digits => ch \in ToSet(l) \cup Shown(l)
  PROVE  HangsOf(l, text)
<1>1. text \in Seq(Chars)
  OBVIOUS
<1>2. ASSUME NEW i \in 1 .. Len(text) - 1, text[i] = "$", text[i + 1] \in Digits
      PROVE  HangCause(l)
  <2>1. text[i] \in C /\ text[i + 1] \in C
    OBVIOUS
  <2>2. "$" \in ToSet(l) \cup Shown(l) /\ text[i + 1] \in ToSet(l) \cup Shown(l)
    BY <1>2, <2>1
  <2> QED BY <1>2, <2>2 DEF HangCause
<1> QED BY <1>1, <1>2 DEF HangsOf, Flaw

\* What HELP says hangs only for the line, or for what it shows (cmd.cpp:171-244).
LEMMA HelpsHang ==
  ASSUME CommandsTypeOK, NEW l \in Seq(Chars), Runs(l, HELP)
  PROVE  \A i \in 1 .. Len(Helps(Parsed(l)).says) : HangsOf(l, Helps(Parsed(l)).says[i])
<1> DEFINE pl == Parsed(l)
<1>1. pl \in Params(OptionsOf(CmdName(l)), ToSet(l))
  <2>1. Tokens(l) # <<>>
    BY DEF Runs, Invokes
  <2> QED BY <2>1, LineType
<1>2. ASSUME NEW c \in commands
      PROVE  /\ c.name \in Seq(Chars) /\ c.options \in Seq(Chars)
             /\ c.desc \in Seq(Chars) /\ c.usage \in Seq(Chars)
  BY CommandsAssumption DEF CommandsTypeOK
<1>4. HangsOf(l, <<>>)
  <2>1. <<>> \in Seq(Chars) /\ Len(<<>>) = 0
    OBVIOUS
  <2>2. ~Flaw(<<>>)
    BY <2>1 DEF Flaw
  <2> QED BY <2>1, <2>2 DEF HangsOf
<1>5. CASE pl.args = <<>>
  <2>1. Shown(l) = UNION {ToSet(c.name) : c \in commands}
    BY <1>5 DEF Shown
  <2>2. ASSUME NEW n, Command(n) # {}
        PROVE  HangsOf(l, n)
    <3>1. PICK c \in commands : c.name = n
      BY <2>2 DEF Command
    <3>2. n \in Seq(ToSet(n)) /\ ToSet(n) \subseteq Chars
      BY <1>2, <3>1, ElementsOf
    <3>3. \A ch \in ToSet(n) : ch \in Shown(l)
      BY <2>1, <3>1
    <3> QED BY <3>2, <3>3, ShownHangs
  <2>3. Helps(pl).says = NamesShown
    BY <1>5 DEF Helps
  <2>4. ASSUME NEW i \in 1 .. Len(NamesShown)
        PROVE  HangsOf(l, NamesShown[i])
    <3>1. /\ NamesShown = [k \in 1 .. 5 |-> IF Command(Names[k]) = {} THEN <<>> ELSE Names[k]]
          /\ Len(NamesShown) = 5
      BY DEF NamesShown, Names
    <3>2. NamesShown[i] = IF Command(Names[i]) = {} THEN <<>> ELSE Names[i]
      BY <3>1
    <3> QED BY <1>4, <2>2, <3>2
  <2> QED BY <2>3, <2>4 DEF pl
<1>6. CASE pl.args # <<>>
  <2> DEFINE w == Head(pl.args)
  <2>1. w \in Seq(ToSet(l))
    <3>1. pl.args \in Seq(Words(ToSet(l)))
      BY <1>1 DEF Params
    <3>2. w \in Words(ToSet(l))
      BY <1>6, <3>1
    <3> QED BY <3>2 DEF Words
  <2>2. OfLine(l, Upper(w)) /\ Upper(w) \in Seq(Chars)
    BY <2>1, UpperOfLine
  <2>3. CASE Command(Upper(w)) = {}
    <3>1. Helps(pl).says = <<ToUser(Upper(w))>>
      BY <1>6, <2>3 DEF Helps
    <3>2. HangsOf(l, ToUser(Upper(w)))
      BY <2>2, ToUserOfLine DEF OfLine
    <3>3. ASSUME NEW i \in 1 .. Len(Helps(pl).says)
          PROVE  Helps(pl).says[i] = ToUser(Upper(w))
      BY <3>1
    <3> QED BY <3>2, <3>3 DEF pl
  <2>4. CASE Command(Upper(w)) # {}
    <3> DEFINE c == CHOOSE d \in Command(Upper(w)) : TRUE
    <3>1. c \in Command(Upper(w))
      BY <2>4
    <3>2. Helps(pl).says = <<c.name, c.desc, Call(c)>>
      BY <1>6, <2>4 DEF Helps
    <3>3. Shown(l) = UNION {ToSet(d.desc) \cup ToSet(d.options) \cup ToSet(d.usage) :
                              d \in Command(Upper(w))}
      BY <1>6 DEF Shown
    <3> HIDE DEF c
    <3>4. c \in commands /\ c.name = Upper(w)
      BY <3>1 DEF Command
    <3>5. ToSet(c.desc) \cup ToSet(c.options) \cup ToSet(c.usage) \subseteq Shown(l)
      BY <3>1, <3>3
    <3>6. HangsOf(l, c.name)
      BY <2>2, <3>4 DEF OfLine
    <3>7. HangsOf(l, c.desc)
      <4>1. c.desc \in Seq(ToSet(c.desc)) /\ ToSet(c.desc) \subseteq Chars
        BY <1>2, <3>4, ElementsOf
      <4> QED BY <3>5, <4>1, ShownHangs
    <3>8. HangsOf(l, Call(c))
      <4> DEFINE C == ToSet(c.name) \cup ToSet(c.options) \cup ToSet(c.usage) \cup {Space}
      <4>1. /\ c.name \in Seq(ToSet(c.name)) /\ ToSet(c.name) \subseteq Chars
            /\ c.options \in Seq(ToSet(c.options)) /\ ToSet(c.options) \subseteq Chars
            /\ c.usage \in Seq(ToSet(c.usage)) /\ ToSet(c.usage) \subseteq Chars
        BY <1>2, <3>4, ElementsOf
      <4>2. C \in SUBSET Chars /\ Space \in C
        BY <4>1, MarksAre
      <4>3. /\ ToSet(c.name) \subseteq C /\ ToSet(c.options) \subseteq C
            /\ ToSet(c.usage) \subseteq C
        OBVIOUS
      <4>4. ASSUME NEW ch \in C, ch = "$" \/ ch \in Digits
            PROVE  ch \in ToSet(l) \cup Shown(l)
        <5>1. ch # Space
          BY <4>4, CharsDiffer, MarksAre
        <5>2. CASE ch \in ToSet(c.name)
          <6>1. PICK i \in 1 .. Len(Upper(w)) : Upper(w)[i] = ch
            BY <3>4, <5>2 DEF ToSet
          <6>2. ToSet(l) \subseteq Chars
            BY ElementsOf
          <6>3. w \in Seq(Chars)
            BY <2>1, <6>2
          <6>4. ch \notin {"E", "H", "K", "T", "X"}
            BY <4>4, AgentAssumption
          <6>5. Len(Upper(w)) = Len(w) /\ w[i] = ch
            BY <6>1, <6>3, <6>4, UpperType
          <6>6. w[i] \in ToSet(l)
            BY <2>1, <6>5
          <6> QED BY <6>5, <6>6
        <5> QED BY <3>5, <4>4, <5>1, <5>2
      <4> HIDE DEF C
      <4>5. c.name \in Seq(C) /\ c.options \in Seq(C) /\ c.usage \in Seq(C)
        BY <4>1, <4>3
      <4>6. Call(c) \in Seq(C)
        BY <4>2, <4>5, CallType
      <4> QED BY <4>2, <4>4, <4>6, ShownHangs
    <3>9. ASSUME NEW i \in 1 .. Len(Helps(pl).says)
          PROVE  Helps(pl).says[i] \in {c.name, c.desc, Call(c)}
      BY <3>2
    <3> QED BY <3>6, <3>7, <3>8, <3>9 DEF pl
  <2> QED BY <2>3, <2>4
<1> QED BY <1>5, <1>6

-----------------------------------------------------------------------------
(* What ECHO says of quoted text.                                          *)

\* The variable of the agent's name is the one that the agent registered.
NamedAgent ==
  Registered(AgentName) = {[name |-> AgentName, value |-> Name, external |-> TRUE]}

\* A character that reads back as c, and the rounds of Escape and RemoveEscapes.
EscapedChar(c) == IF c \in Escapable THEN <<"\\", c>> ELSE <<c>>

EscapeTo(s, x, i) == x \o EscapedChar(s[i])

KeepTo(s, e, x, i) == IF s[i] = "\\" /\ ~e[i] THEN x ELSE Append(x, s[i])

\* The rounds of Escape.
Escaping(s) ==
  CHOOSE after : after = [n \in 0 .. Len(s) |->
    IF n = 0 THEN <<>> ELSE EscapeTo(s, after[n - 1], n)]

\* Quoted escapes a text in a loop over its characters.
LEMMA EscapingLaw ==
  ASSUME NEW s, Len(s) \in Nat,
         NEW T, <<>> \in T, \A x \in T, i \in 1 .. Len(s) : EscapeTo(s, x, i) \in T
  PROVE  /\ Escaping(s) \in [0 .. Len(s) -> T]
         /\ Escaping(s)[0] = <<>>
         /\ \A i \in 1 .. Len(s) : Escaping(s)[i] = EscapeTo(s, Escaping(s)[i - 1], i)
<1> DEFINE k == Len(s)
           G == [x \in T \X (1 .. k) |-> EscapeTo(s, x[1], x[2])]
           h == Escaping(s)
           Is(f) == f = [n \in 0 .. k |-> IF n = 0 THEN <<>> ELSE EscapeTo(s, f[n - 1], n)]
<1>1. k \in Nat
  OBVIOUS
<1>2. G \in Rounds(T, k) /\ \A x \in T, i \in 1 .. k : G[<<x, i>>] = EscapeTo(s, x, i)
  <2>1. \A x \in T \X (1 .. k) : EscapeTo(s, x[1], x[2]) \in T
    OBVIOUS
  <2> QED BY <2>1 DEF Rounds
<1>3. (\E f : Is(f)) => Is(h)
  BY DEF Escaping
<1> HIDE DEF G, h, k
<1>4. PICK f : f \in [0 .. k -> T] /\ f[0] = <<>> /\ \A i \in 1 .. k : f[i] = G[<<f[i - 1], i>>]
  <2>1. <<>> \in T /\ G \in Rounds(T, k)
    BY <1>2
  <2>2. \E f : Loop(f, T, <<>>, k, G)
    BY <1>1, <2>1, LoopExists
  <2> QED BY <2>2 DEF Loop
<1>5. ASSUME NEW i \in 1 .. k
      PROVE  f[i] = EscapeTo(s, f[i - 1], i)
  <2>1. f[i - 1] \in T
    BY <1>1, <1>4
  <2> QED BY <1>2, <1>4, <2>1
<1>6. Is(f)
  <2>1. \A n \in 0 .. k : n # 0 => n \in 1 .. k
    BY <1>1
  <2> QED BY <1>4, <1>5, <2>1
<1>7. Is(h)
  <2> HIDE DEF Is
  <2> QED BY <1>3, <1>6
<1>8. 0 \in 0 .. k /\ \A n \in 1 .. k : n \in 0 .. k /\ n # 0
  BY <1>1
<1>9. h[0] = <<>> /\ \A i \in 1 .. k : h[i] = EscapeTo(s, h[i - 1], i)
  BY <1>7, <1>8
<1>10. \A i \in 0 .. k : h[i] \in T
  <2>1. ASSUME NEW i \in 1 .. k, h[i - 1] \in T
        PROVE  h[i] \in T
    BY <1>9, <2>1 DEF k
  <2> QED BY <1>1, <1>9, <2>1, LoopKeeps
<1>11. h \in [0 .. k -> T]
  BY <1>7, <1>10
<1> QED BY <1>9, <1>11 DEF h, k

\* The rounds of RemoveEscapes, for the escaped positions e.
Keeping(s, e) ==
  CHOOSE after : after = [n \in 0 .. Len(s) |->
    IF n = 0 THEN <<>> ELSE KeepTo(s, e, after[n - 1], n)]

\* remove_escapes() is a loop over the characters (var.cpp:130-164).
LEMMA KeepingLaw ==
  ASSUME NEW s, NEW e, Len(s) \in Nat,
         NEW T, <<>> \in T, \A x \in T, i \in 1 .. Len(s) : KeepTo(s, e, x, i) \in T
  PROVE  /\ Keeping(s, e) \in [0 .. Len(s) -> T]
         /\ Keeping(s, e)[0] = <<>>
         /\ \A i \in 1 .. Len(s) : Keeping(s, e)[i] = KeepTo(s, e, Keeping(s, e)[i - 1], i)
<1> DEFINE k == Len(s)
           G == [x \in T \X (1 .. k) |-> KeepTo(s, e, x[1], x[2])]
           h == Keeping(s, e)
           Is(f) == f = [n \in 0 .. k |-> IF n = 0 THEN <<>> ELSE KeepTo(s, e, f[n - 1], n)]
<1>1. k \in Nat
  OBVIOUS
<1>2. G \in Rounds(T, k) /\ \A x \in T, i \in 1 .. k : G[<<x, i>>] = KeepTo(s, e, x, i)
  <2>1. \A x \in T \X (1 .. k) : KeepTo(s, e, x[1], x[2]) \in T
    OBVIOUS
  <2> QED BY <2>1 DEF Rounds
<1>3. (\E f : Is(f)) => Is(h)
  BY DEF Keeping
<1> HIDE DEF G, h, k
<1>4. PICK f : f \in [0 .. k -> T] /\ f[0] = <<>> /\ \A i \in 1 .. k : f[i] = G[<<f[i - 1], i>>]
  <2>1. <<>> \in T /\ G \in Rounds(T, k)
    BY <1>2
  <2>2. \E f : Loop(f, T, <<>>, k, G)
    BY <1>1, <2>1, LoopExists
  <2> QED BY <2>2 DEF Loop
<1>5. ASSUME NEW i \in 1 .. k
      PROVE  f[i] = KeepTo(s, e, f[i - 1], i)
  <2>1. f[i - 1] \in T
    BY <1>1, <1>4
  <2> QED BY <1>2, <1>4, <2>1
<1>6. Is(f)
  <2>1. \A n \in 0 .. k : n # 0 => n \in 1 .. k
    BY <1>1
  <2> QED BY <1>4, <1>5, <2>1
<1>7. Is(h)
  <2> HIDE DEF Is
  <2> QED BY <1>3, <1>6
<1>8. 0 \in 0 .. k /\ \A n \in 1 .. k : n \in 0 .. k /\ n # 0
  BY <1>1
<1>9. h[0] = <<>> /\ \A i \in 1 .. k : h[i] = KeepTo(s, e, h[i - 1], i)
  BY <1>7, <1>8
<1>10. \A i \in 0 .. k : h[i] \in T
  <2>1. ASSUME NEW i \in 1 .. k, h[i - 1] \in T
        PROVE  h[i] \in T
    BY <1>9, <2>1 DEF k
  <2> QED BY <1>1, <1>9, <2>1, LoopKeeps
<1>11. h \in [0 .. k -> T]
  BY <1>7, <1>10
<1> QED BY <1>9, <1>11 DEF h, k

\* RemoveEscapes is the last state of that loop.
LEMMA RemoveEscapesIs ==
  ASSUME NEW s
  PROVE  RemoveEscapes(s) = Keeping(s, EscapedFrom(s, 1))[Len(s)]
BY DEF RemoveEscapes, Keeping, KeepTo

\* An escaped text has a "\" and the text's own characters.
LEMMA EscapingType ==
  ASSUME NEW C, "\\" \in C, NEW s \in Seq(C)
  PROVE  /\ Escape(s) = Escaping(s)[Len(s)]
         /\ Escaping(s) \in [0 .. Len(s) -> Seq(C)]
         /\ Escaping(s)[0] = <<>>
         /\ \A i \in 1 .. Len(s) : Escaping(s)[i] = EscapeTo(s, Escaping(s)[i - 1], i)
         /\ Escape(s) \in Seq(C)
<1>1. Escape(s) = Escaping(s)[Len(s)]
  BY DEF Escape, Escaping, EscapeTo, EscapedChar
<1>2. <<>> \in Seq(C) /\ Len(s) \in Nat /\ Len(s) \in 0 .. Len(s)
  OBVIOUS
<1>3. ASSUME NEW x \in Seq(C), NEW i \in 1 .. Len(s)
      PROVE  EscapeTo(s, x, i) \in Seq(C)
  <2>1. s[i] \in C
    OBVIOUS
  <2>2. EscapedChar(s[i]) \in Seq(C)
    BY <2>1 DEF EscapedChar
  <2> QED BY <2>2, Concat DEF EscapeTo
<1>4. /\ Escaping(s) \in [0 .. Len(s) -> Seq(C)]
      /\ Escaping(s)[0] = <<>>
      /\ \A i \in 1 .. Len(s) : Escaping(s)[i] = EscapeTo(s, Escaping(s)[i - 1], i)
  <2>1. \A x \in Seq(C), i \in 1 .. Len(s) : EscapeTo(s, x, i) \in Seq(C)
    BY <1>3
  <2> QED BY <1>2, <2>1, EscapingLaw
<1> QED BY <1>1, <1>2, <1>4

\* Texts that are typed in quotes have none, escaped or not.
Unquoted == Chars \ {"'"}

\* A text to be quoted, and escaped, has no "'".
LEMMA TextType ==
  ASSUME NEW text \in Texts
  PROVE  /\ text \in Seq(Chars) /\ text \in Seq(Unquoted) /\ Len(text) \in Nat
         /\ "\\" \in Unquoted /\ "\\" \in Chars
         /\ Escape(text) \in Seq(Unquoted) /\ Escape(text) \in Seq(Chars)
<1>1. text \in Seq(Unquoted)
  BY CommandsAssumption DEF Unquoted
<1>2. Unquoted \subseteq Chars /\ "\\" \in Unquoted /\ "\\" \in Chars
  BY MarksAre DEF Unquoted
<1>3. text \in Seq(Chars) /\ Len(text) \in Nat
  BY <1>1, <1>2
<1>4. Escape(text) \in Seq(Unquoted)
  BY <1>1, <1>2, EscapingType
<1>5. Escape(text) \in Seq(Chars)
  BY <1>3, <1>2, EscapingType
<1> QED BY <1>1, <1>2, <1>3, <1>4, <1>5

\* The characters of the line that quotes a text.
LEMMA QuotedIs ==
  ASSUME NEW text \in Texts
  PROVE  LET l == Quoted(text)
             E == Escape(text)
         IN /\ l \in Seq(Chars) /\ Len(l) = Len(E) + 7
            /\ l[1] = "e" /\ l[2] = Space /\ l[3] = "-" /\ l[4] = "-" /\ l[5] = Space
            /\ l[6] = "'" /\ l[Len(E) + 7] = "'"
            /\ \A i \in 1 .. Len(E) : l[6 + i] = E[i]
<1> DEFINE E == Escape(text)
           p == <<"e", Space, "-", "-", Space, "'">>
           q == <<"'">>
           d == p \o E
<1>1. /\ p \in Seq(Chars) /\ Len(p) = 6
      /\ p[1] = "e" /\ p[2] = Space /\ p[3] = "-" /\ p[4] = "-" /\ p[5] = Space /\ p[6] = "'"
  <2>1. {"e", "-", "'"} \subseteq Chars /\ Space \in Chars
    BY MarksAre, CommandsAssumption
  <2> QED BY <2>1
<1>2. q \in Seq(Chars) /\ Len(q) = 1 /\ q[1] = "'"
  BY MarksAre
<1>3. E \in Seq(Chars) /\ Len(E) \in Nat
  BY TextType
<1>4. Quoted(text) = d \o q
  BY DEF Quoted
<1> HIDE DEF p, q, E
<1>5. /\ d \in Seq(Chars) /\ Len(d) = Len(p) + Len(E)
      /\ \A i \in 1 .. Len(p) : d[i] = p[i]
      /\ \A i \in 1 .. Len(E) : d[Len(p) + i] = E[i]
  <2>1. p \in Seq(Chars) /\ E \in Seq(Chars)
    BY <1>1, <1>3
  <2> QED BY <2>1, Concat
<1> HIDE DEF d
<1>6. /\ d \o q \in Seq(Chars) /\ Len(d \o q) = Len(d) + Len(q)
      /\ \A i \in 1 .. Len(d) : (d \o q)[i] = d[i]
      /\ \A i \in 1 .. Len(q) : (d \o q)[Len(d) + i] = q[i]
  <2>1. d \in Seq(Chars) /\ q \in Seq(Chars)
    BY <1>2, <1>5
  <2> QED BY <2>1, Concat
<1> DEFINE l == d \o q
<1> HIDE DEF l
<1>7. Len(d) = 6 + Len(E) /\ Len(l) = Len(E) + 7 /\ l \in Seq(Chars)
  BY <1>1, <1>2, <1>3, <1>5, <1>6 DEF l
<1>8. \A i \in 1 .. 6 : l[i] = p[i]
  <2>1. \A i \in 1 .. 6 : i \in 1 .. Len(p) /\ i \in 1 .. Len(d)
    BY <1>1, <1>3, <1>7
  <2> QED BY <2>1, <1>5, <1>6 DEF l
<1>9. \A i \in 1 .. Len(E) : l[6 + i] = E[i]
  <2>1. \A i \in 1 .. Len(E) : 6 + i \in 1 .. Len(d)
    BY <1>3, <1>7
  <2> QED BY <2>1, <1>1, <1>5, <1>6 DEF l
<1>10. l[Len(E) + 7] = "'"
  <2>1. 1 \in 1 .. Len(q) /\ Len(d) + 1 = Len(E) + 7
    BY <1>2, <1>3, <1>7
  <2> QED BY <2>1, <1>2, <1>6 DEF l
<1> QED BY <1>1, <1>4, <1>7, <1>8, <1>9, <1>10 DEF l, E

\* It is a line.
LEMMA QuotedType ==
  ASSUME NEW text \in Texts
  PROVE  Quoted(text) \in Seq(Chars)
BY QuotedIs

\* The elements of a sequence with one appended.
LEMMA AppendIs ==
  ASSUME NEW S, NEW s \in Seq(S), NEW c \in S
  PROVE  /\ Append(s, c) \in Seq(S) /\ Len(Append(s, c)) = Len(s) + 1
         /\ \A i \in 1 .. Len(s) : Append(s, c)[i] = s[i]
         /\ Append(s, c)[Len(s) + 1] = c
BY AppendProperties

\* Sequences with the same elements are the same.
LEMMA SameSequence ==
  ASSUME NEW S, NEW s \in Seq(S), NEW t \in Seq(S), Len(s) = Len(t),
         \A i \in 1 .. Len(s) : s[i] = t[i]
  PROVE  s = t
OBVIOUS

\* Appending to short sequences, which the tokenizer's states are.
LEMMA AppendShort ==
  ASSUME NEW S, NEW a \in S, NEW b \in S, NEW c \in S
  PROVE  /\ Append(<<>>, c) = <<c>> /\ Append(<<a>>, c) = <<a, c>>
         /\ Append(<<a, b>>, c) = <<a, b, c>>
<1>1. Append(<<>>, c) = <<c>>
  OBVIOUS
<1>2. ASSUME NEW s \in Seq(S), NEW t \in Seq(S), Len(t) = Len(s) + 1,
             \A i \in 1 .. Len(s) : t[i] = s[i], t[Len(s) + 1] = c
      PROVE  Append(s, c) = t
  <2> DEFINE r == Append(s, c)
  <2>1. /\ r \in Seq(S) /\ Len(r) = Len(s) + 1
        /\ \A i \in 1 .. Len(s) : r[i] = s[i]
        /\ r[Len(s) + 1] = c
    BY AppendIs
  <2> HIDE DEF r
  <2>2. \A i \in 1 .. Len(r) : i \in 1 .. Len(s) \/ i = Len(s) + 1
    BY <2>1
  <2>3. \A i \in 1 .. Len(r) : r[i] = t[i]
    BY <1>2, <2>1, <2>2
  <2>4. r = t
    BY <1>2, <2>1, <2>3, SameSequence
  <2> QED BY <2>4 DEF r
<1>3. Append(<<a>>, c) = <<a, c>>
  <2>1. /\ <<a>> \in Seq(S) /\ Len(<<a>>) = 1 /\ <<a>>[1] = a
        /\ <<a, c>> \in Seq(S) /\ Len(<<a, c>>) = 2 /\ <<a, c>>[1] = a /\ <<a, c>>[2] = c
    OBVIOUS
  <2> DEFINE s == <<a>>
             t == <<a, c>>
  <2>2. s \in Seq(S) /\ Len(s) = 1 /\ s[1] = a /\ t \in Seq(S) /\ Len(t) = 2 /\ t[1] = a /\ t[2] = c
    BY <2>1
  <2> HIDE DEF s, t
  <2>3. Len(t) = Len(s) + 1 /\ (\A i \in 1 .. Len(s) : t[i] = s[i]) /\ t[Len(s) + 1] = c
    BY <2>2
  <2>4. Append(s, c) = t
    BY <1>2, <2>2, <2>3
  <2> QED BY <2>4 DEF s, t
<1>4. Append(<<a, b>>, c) = <<a, b, c>>
  <2> DEFINE s == <<a, b>>
             t == <<a, b, c>>
  <2>1. s \in Seq(S) /\ Len(s) = 2 /\ s[1] = a /\ s[2] = b
    OBVIOUS
  <2>2. t \in Seq(S) /\ Len(t) = 3 /\ t[1] = a /\ t[2] = b /\ t[3] = c
    OBVIOUS
  <2> HIDE DEF s, t
  <2>3. \A i \in 1 .. Len(s) : i = 1 \/ i = 2
    BY <2>1
  <2>4. Len(t) = Len(s) + 1 /\ (\A i \in 1 .. Len(s) : t[i] = s[i]) /\ t[Len(s) + 1] = c
    BY <2>1, <2>2, <2>3
  <2>5. Append(s, c) = t
    BY <1>2, <2>1, <2>2, <2>4
  <2> QED BY <2>5 DEF s, t
<1> QED BY <1>1, <1>3, <1>4

State(o, c, q) == [out |-> o, cur |-> c, quote |-> q]

\* Out of quotes, a space ends a token and a "'" begins a quote.
LEMMA TokenizeOutside ==
  ASSUME NEW o, NEW c
  PROVE  /\ c # <<>> => Tokenize(State(o, c, ""), Space) = State(Append(o, c), <<>>, "")
         /\ Tokenize(State(o, c, ""), "'") = State(o, c, "'")
         /\ Tokenize(State(o, c, ""), "e") = State(o, Append(c, "e"), "")
         /\ Tokenize(State(o, c, ""), "-") = State(o, Append(c, "-"), "")
<1>1. /\ Space \in Spaces /\ Space \notin Quotes /\ "'" \in Quotes /\ "'" \notin Spaces
      /\ \A ch \in {"e", "-"} : ch \notin Spaces /\ ch \notin Quotes
  <2>1. {"e", "-", "'"} \cap {Space, DoubleQuote} = {} /\ Space # DoubleQuote
    BY CharsDiffer
  <2> QED BY <2>1 DEF Spaces, Quotes
<1> DEFINE st == [out |-> o, cur |-> c, quote |-> ""]
<1>2. st.quote = ""
  OBVIOUS
<1>9. [st EXCEPT !.quote = "'"] = State(o, c, "'")
  <2> DEFINE r == [st EXCEPT !.quote = "'"]
  <2>1. r \in [out: {o}, cur: {c}, quote: {"'"}]
    OBVIOUS
  <2> HIDE DEF r
  <2>2. r = [out |-> o, cur |-> c, quote |-> "'"]
    BY <2>1
  <2> QED BY <2>2 DEF r, State
<1>6. c # <<>> => Push(st) = State(Append(o, c), <<>>, "")
  <2> SUFFICES ASSUME c # <<>> PROVE Push(st) = State(Append(o, c), <<>>, "")
    OBVIOUS
  <2> DEFINE r == Push(st)
  <2>1. r \in [out: {Append(o, c)}, cur: {<<>>}, quote: {""}]
    BY DEF Push
  <2> HIDE DEF r
  <2>2. r = [out |-> Append(o, c), cur |-> <<>>, quote |-> ""]
    BY <2>1
  <2> QED BY <2>2 DEF r, State
<1>7. ASSUME NEW ch
      PROVE  [st EXCEPT !.cur = Append(@, ch)] = State(o, Append(c, ch), "")
  <2> DEFINE r == [st EXCEPT !.cur = Append(@, ch)]
  <2>1. r \in [out: {o}, cur: {Append(c, ch)}, quote: {""}]
    OBVIOUS
  <2> HIDE DEF r
  <2>2. r = [out |-> o, cur |-> Append(c, ch), quote |-> ""]
    BY <2>1
  <2> QED BY <2>2 DEF r, State
<1>10. st = State(o, c, "")
  BY DEF State
<1> HIDE DEF st
<1>3. Tokenize(st, Space) = Push(st)
  BY <1>1, <1>2 DEF Tokenize
<1>4. Tokenize(st, "'") = [st EXCEPT !.quote = "'"]
  BY <1>1, <1>2 DEF Tokenize
<1>5. ASSUME NEW ch \in {"e", "-"}
      PROVE  Tokenize(st, ch) = [st EXCEPT !.cur = Append(@, ch)]
  BY <1>1, <1>2 DEF Tokenize
<1>8. Tokenize(st, "e") = State(o, Append(c, "e"), "") /\ Tokenize(st, "-") = State(o, Append(c, "-"), "")
  BY <1>5, <1>7
<1> QED BY <1>3, <1>4, <1>6, <1>8, <1>9, <1>10

\* The tokenizer inside the quotes, after n characters of E.
InQuotes(E, n) ==
  {st \in TokStates(Chars) :
     /\ st.out = <<<<"e">>, <<"-", "-">>>> /\ st.quote = "'"
     /\ Len(st.cur) = n /\ \A i \in 1 .. n : st.cur[i] = E[i]}

\* The tokens of the line that quotes a text: the escaped text is one of them.
LEMMA QuotedTokens ==
  ASSUME NEW text \in Texts
  PROVE  Tokens(Quoted(text)) =
           IF Escape(text) = <<>> THEN <<<<"e">>, <<"-", "-">>>>
                                  ELSE <<<<"e">>, <<"-", "-">>, Escape(text)>>
<1> DEFINE l == Quoted(text)
           E == Escape(text)
           h == Tokenizing(l)
           T == TokStates(Chars)
           out == <<<<"e">>, <<"-", "-">>>>
<1>1. /\ l \in Seq(Chars) /\ Len(l) = Len(E) + 7
      /\ l[1] = "e" /\ l[2] = Space /\ l[3] = "-" /\ l[4] = "-" /\ l[5] = Space
      /\ l[6] = "'" /\ l[Len(E) + 7] = "'"
      /\ \A i \in 1 .. Len(E) : l[6 + i] = E[i]
  BY QuotedIs
<1>2. E \in Seq(Unquoted) /\ E \in Seq(Chars) /\ Len(E) \in Nat
  BY TextType
<1>3. Tokens(l) = Push(h[Len(l)]).out
  BY TokensAre
<1>4. h \in [0 .. Len(l) -> T] /\ h[0] = NoTokens /\ \A i \in 1 .. Len(l) : h[i] = Tokenize(h[i - 1], l[i])
  <2>1. NoTokens \in T /\ Len(l) \in Nat
    BY <1>1 DEF NoTokens, TokStates
  <2>2. \A x \in T, i \in 1 .. Len(l) : Tokenize(x, l[i]) \in T
    BY <1>1, TokenizeKeeps
  <2> HIDE DEF l, T
  <2> QED BY <2>1, <2>2, TokenizingLaw
<1> HIDE DEF h, l, E, T
<1>6. h[6] = [out |-> out, cur |-> <<>>, quote |-> "'"]
  <2>1. /\ h[1] = Tokenize(h[0], "e") /\ h[2] = Tokenize(h[1], Space)
        /\ h[3] = Tokenize(h[2], "-") /\ h[4] = Tokenize(h[3], "-")
        /\ h[5] = Tokenize(h[4], Space) /\ h[6] = Tokenize(h[5], "'")
    <3>1. \A i \in 1 .. 6 : i \in 1 .. Len(l)
      BY <1>1, <1>2
    <3> QED BY <1>1, <1>4, <3>1
  <2>2. h[0] = State(<<>>, <<>>, "")
    BY <1>4 DEF NoTokens, State
  <2> DEFINE e == <<"e">>
             d == <<"-">>
             dd == <<"-", "-">>
  <2>3. Append(<<>>, "e") = e /\ Append(<<>>, "-") = d /\ Append(d, "-") = dd
    BY AppendShort
  <2>4. e # <<>> /\ dd # <<>>
    OBVIOUS
  <2>12. out = <<e, dd>>
    OBVIOUS
  <2> HIDE DEF e, d, dd, out
  <2> DEFINE es == <<e>>
  <2>5. Append(<<>>, e) = es /\ Append(es, dd) = out
    <3>1. e \in {e, dd} /\ dd \in {e, dd}
      OBVIOUS
    <3> QED BY <2>12, <3>1, AppendShort
  <2> HIDE DEF es
  <2>6. h[1] = State(<<>>, e, "")
    BY <2>1, <2>2, <2>3, TokenizeOutside
  <2>7. h[2] = State(es, <<>>, "")
    BY <2>1, <2>4, <2>5, <2>6, TokenizeOutside
  <2>8. h[3] = State(es, d, "")
    BY <2>1, <2>3, <2>7, TokenizeOutside
  <2>9. h[4] = State(es, dd, "")
    BY <2>1, <2>3, <2>8, TokenizeOutside
  <2>10. h[5] = State(out, <<>>, "")
    BY <2>1, <2>4, <2>5, <2>9, TokenizeOutside
  <2>11. h[6] = State(out, <<>>, "'")
    BY <2>1, <2>10, TokenizeOutside
  <2> QED BY <2>11 DEF State
<1> DEFINE S == {n \in Nat : n <= Len(E) => h[6 + n] \in InQuotes(E, n)}
<1>7. 0 \in S
  <2>1. 6 + 0 = 6 /\ 6 \in 0 .. Len(l)
    BY <1>1, <1>2
  <2>2. h[6] \in T
    BY <1>4, <2>1
  <2> QED BY <1>6, <2>1, <2>2 DEF InQuotes, T
<1>8. ASSUME NEW n \in Nat, n \in S
      PROVE  n + 1 \in S
  <2> SUFFICES ASSUME n + 1 <= Len(E) PROVE h[6 + (n + 1)] \in InQuotes(E, n + 1)
    OBVIOUS
  <2> DEFINE c == E[n + 1]
             st == h[6 + n]
  <2>1. n + 1 \in 1 .. Len(E) /\ 6 + (n + 1) \in 1 .. Len(l) /\ (6 + (n + 1)) - 1 = 6 + n
    BY <1>1, <1>2
  <2>2. c \in Unquoted /\ c \in Chars /\ l[6 + (n + 1)] = c
    BY <1>1, <1>2, <2>1
  <2>3. h[6 + (n + 1)] = Tokenize(st, c)
    BY <1>4, <2>1, <2>2
  <2>4. st \in InQuotes(E, n)
    BY <1>2, <1>8
  <2> HIDE DEF st, c
  <2>5. Tokenize(st, c) = [st EXCEPT !.cur = Append(@, c)]
    BY <2>2, <2>4 DEF Tokenize, InQuotes, Unquoted
  <2>6. /\ Append(st.cur, c) \in Seq(Chars) /\ Len(Append(st.cur, c)) = n + 1
        /\ \A i \in 1 .. n + 1 : Append(st.cur, c)[i] = E[i]
    <3>1. st.cur \in Seq(Chars) /\ Len(st.cur) = n /\ \A i \in 1 .. n : st.cur[i] = E[i]
      BY <2>4 DEF InQuotes, TokStates
    <3> QED BY <2>2, <3>1 DEF c
  <2> QED BY <2>3, <2>4, <2>5, <2>6 DEF InQuotes, TokStates
<1>9. h[6 + Len(E)] \in InQuotes(E, Len(E))
  <2>1. Len(E) \in S
    <3> HIDE DEF S
    <3> QED BY <1>2, <1>7, <1>8, Induction
  <2> QED BY <1>2, <2>1
<1> DEFINE st == h[6 + Len(E)]
<1>10. st.cur = E /\ st.out = out /\ st.quote = "'" /\ st \in TokStates(Chars)
  <2>1. st.cur \in Seq(Chars) /\ Len(st.cur) = Len(E) /\ \A i \in 1 .. Len(E) : st.cur[i] = E[i]
    BY <1>9 DEF InQuotes, TokStates
  <2>2. st.cur = E
    <3> DEFINE w == st.cur
    <3> HIDE DEF w
    <3>1. w \in Seq(Chars) /\ Len(w) = Len(E) /\ \A i \in 1 .. Len(E) : w[i] = E[i]
      BY <2>1 DEF w
    <3>2. w = E
      BY <1>2, <3>1
    <3> QED BY <3>2 DEF w
  <2> QED BY <1>9, <2>2 DEF InQuotes
<1>11. h[Len(l)] = [st EXCEPT !.quote = ""]
  <2>1. Len(l) \in 1 .. Len(l) /\ Len(l) - 1 = 6 + Len(E) /\ l[Len(l)] = "'"
    BY <1>1, <1>2
  <2>2. h[Len(l)] = Tokenize(st, "'")
    BY <1>4, <2>1
  <2> HIDE DEF st
  <2> QED BY <1>10, <2>2 DEF Tokenize
<1>12. Push(h[Len(l)]).out = IF E = <<>> THEN out ELSE Append(out, E)
  <2> HIDE DEF st
  <2> QED BY <1>10, <1>11 DEF Push, TokStates
<1>13. Append(out, E) = <<<<"e">>, <<"-", "-">>, E>>
  <2> DEFINE x == <<"e">>
             y == <<"-", "-">>
  <2> HIDE DEF x, y
  <2>1. x \in {x, y, E} /\ y \in {x, y, E} /\ E \in {x, y, E}
    OBVIOUS
  <2>2. Append(<<x, y>>, E) = <<x, y, E>>
    BY <2>1, AppendShort
  <2> QED BY <2>2 DEF x, y
<1> QED BY <1>3, <1>12, <1>13 DEF l, E

\* After "--" no token is read as options.
LEMMA ParamDashes ==
  ASSUME NEW p, p.error = <<>>, p.wants = "", p.parsing
  PROVE  Param(<<>>, p, <<"-", "-">>) = [p EXCEPT !.parsing = FALSE]
<1>1. ~IsOption(p, <<"-", "-">>)
  BY DEF IsOption
<1> QED BY <1>1 DEF Param

\* ECHO takes no options, and after "--" every token is an argument.
LEMMA QuotedParsed ==
  ASSUME NEW text \in Texts, Command(ECHO) = {Default(ECHO, <<>>)}
  PROVE  LET l == Quoted(text) IN
           /\ Tokens(l) # <<>> /\ CmdName(l) = ECHO
           /\ Parsed(l).error = <<>>
           /\ Parsed(l).args = IF Escape(text) = <<>> THEN <<>> ELSE <<Escape(text)>>
<1> DEFINE l == Quoted(text)
           E == Escape(text)
<1> HIDE DEF l, E
<1>1. Tokens(l) = IF E = <<>> THEN <<<<"e">>, <<"-", "-">>>> ELSE <<<<"e">>, <<"-", "-">>, E>>
  BY QuotedTokens DEF l, E
<1>2. Tokens(l) # <<>> /\ Head(Tokens(l)) = <<"e">>
  BY <1>1
<1>3. Upper(<<"e">>) = <<"E">>
  <2>1. Upper(<<"e">>) = [i \in 1 .. 1 |-> "E"]
    BY DEF Upper
  <2> QED BY <2>1
<1>4. CmdName(l) = ECHO
  BY <1>2, <1>3, CommandsAssumption DEF CmdName
<1>5. OptionsOf(ECHO) = <<>>
  <2>1. \A c \in Command(ECHO) : c.options = <<>>
    BY DEF Default
  <2>2. (CHOOSE c \in Command(ECHO) : TRUE) \in Command(ECHO)
    OBVIOUS
  <2> QED BY <2>1, <2>2 DEF OptionsOf
<1>6. Parsed(l) = ParamList(Tokens(l), <<>>)
  BY <1>4, <1>5 DEF Parsed
<1> DEFINE s == Tail(Tokens(l))
           h == Parsing(<<>>, s)
           T == Params(<<>>, Chars)
<1>7. s = IF E = <<>> THEN <<<<"-", "-">>>> ELSE <<<<"-", "-">>, E>>
  BY <1>1
<1>8. E \in Seq(Chars)
  BY TextType DEF E
<1>9. s \in Seq(Words(Chars)) /\ Len(s) \in Nat
  <2>1. Tokens(l) \in Seq(Words(Chars))
    BY TokensType, QuotedType DEF l
  <2> QED BY <1>2, <2>1
<1> HIDE DEF s
<1>10. h \in [0 .. Len(s) -> T] /\ h[0] = NoParams /\ \A i \in 1 .. Len(s) : h[i] = Param(<<>>, h[i - 1], s[i])
  <2>1. NoParams \in T
    <3>1. <<>> \in Seq(Words(Chars)) /\ <<>> \in Seq(Taken(<<>>, Chars)) /\ <<>> \in Seq(Chars)
      OBVIOUS
    <3> QED BY <3>1 DEF NoParams, Params
  <2>2. \A x \in T, i \in 1 .. Len(s) : Param(<<>>, x, s[i]) \in T
    BY <1>9, ParamKeeps
  <2> HIDE DEF T
  <2> QED BY <1>9, <2>1, <2>2, ParsingLaw
<1> DEFINE all == h[Len(s)]
<1>11. ParamList(Tokens(l), <<>>) = IF all.wants # "" THEN Fail(all, all.wants) ELSE all
  BY SMTT(60) DEF ParamList, Over, Parsing, Param, s
<1> HIDE DEF h
<1>12. h[1] = [NoParams EXCEPT !.parsing = FALSE]
  <2>1. 1 \in 1 .. Len(s) /\ s[1] = <<"-", "-">>
    BY <1>7
  <2>4. h[1] = Param(<<>>, h[1 - 1], s[1]) /\ h[0] = NoParams
    BY <1>10, <2>1
  <2>5. 1 - 1 = 0
    OBVIOUS
  <2>2. h[1] = Param(<<>>, NoParams, <<"-", "-">>)
    BY <2>1, <2>4, <2>5
  <2>3. NoParams.error = <<>> /\ NoParams.wants = "" /\ NoParams.parsing
    BY DEF NoParams
  <2> QED BY <2>2, <2>3, ParamDashes
<1>13. CASE E = <<>>
  <2>1. Len(s) = 1
    BY <1>7, <1>13
  <2>2. all = [NoParams EXCEPT !.parsing = FALSE]
    BY <1>12, <2>1
  <2> HIDE DEF all
  <2>3. all.wants = "" /\ all.error = <<>> /\ all.args = <<>>
    BY <2>2 DEF NoParams
  <2> QED BY <1>2, <1>4, <1>6, <1>11, <1>13, <2>3 DEF l, E
<1>14. CASE E # <<>>
  <2>1. Len(s) = 2 /\ s[2] = E /\ 2 \in 1 .. Len(s)
    BY <1>7, <1>14
  <2>2. all = Param(<<>>, h[1], E)
    BY <1>10, <2>1
  <2> HIDE DEF all
  <2>3. all = [h[1] EXCEPT !.args = Append(@, E)]
    BY <1>12, <2>2 DEF Param, NoParams, IsOption
  <2>4. Append(<<>>, E) = <<E>>
    OBVIOUS
  <2>5. all.wants = "" /\ all.error = <<>> /\ all.args = <<E>>
    BY <1>12, <2>3, <2>4 DEF NoParams
  <2> QED BY <1>2, <1>4, <1>6, <1>11, <1>14, <2>5 DEF l, E
<1> QED BY <1>13, <1>14

\* What ECHO is to say of it is the escaped text.
LEMMA QuotedEchoes ==
  ASSUME NEW text \in Texts, Command(ECHO) = {Default(ECHO, <<>>)}
  PROVE  Echoes(Parsed(Quoted(text))).says = <<Escape(text)>>
<1> DEFINE E == Escape(text)
           ts == IF E = <<>> THEN <<>> ELSE <<E>>
<1>1. E \in Seq(Chars)
  BY TextType
<1>2. Echoes(Parsed(Quoted(text))).says = <<Join(ts)>>
  BY QuotedParsed DEF Echoes
<1> HIDE DEF E
<1>3. Join(ts) = Joining(ts)[Len(ts)]
  BY DEF Join, Joining, JoinTo
<1>4. ts \in Seq(Seq(Chars)) /\ Len(ts) \in Nat
  BY <1>1
<1>5. Joining(ts)[0] = <<>> /\ \A i \in 1 .. Len(ts) : Joining(ts)[i] = JoinTo(ts, Joining(ts)[i - 1], i)
  <2>1. <<>> \in Seq(Chars) /\ <<Space>> \in Seq(Chars)
    BY MarksAre
  <2>2. ASSUME NEW x \in Seq(Chars), NEW i \in 1 .. Len(ts)
        PROVE  JoinTo(ts, x, i) \in Seq(Chars)
    <3>1. ts[i] \in Seq(Chars) /\ (IF i = 1 THEN <<>> ELSE <<Space>>) \in Seq(Chars)
      BY <1>4, <2>1
    <3> HIDE DEF ts
    <3> QED BY <3>1, Concat DEF JoinTo
  <2>3. \A x \in Seq(Chars), i \in 1 .. Len(ts) : JoinTo(ts, x, i) \in Seq(Chars)
    BY <2>2
  <2> HIDE DEF ts
  <2> QED BY <1>4, <2>1, <2>3, JoiningLaw
<1>6. CASE E = <<>>
  <2>1. ts = <<>> /\ Len(ts) = 0
    BY <1>6
  <2> QED BY <1>2, <1>3, <1>5, <1>6, <2>1 DEF E
<1>7. CASE E # <<>>
  <2>1. Len(ts) = 1 /\ ts[1] = E /\ 1 \in 1 .. Len(ts) /\ 1 - 1 = 0
    BY <1>7
  <2>2. Joining(ts)[1] = JoinTo(ts, <<>>, 1)
    BY <1>5, <2>1
  <2>3. JoinTo(ts, <<>>, 1) = <<>> \o <<>> \o E
    BY <2>1 DEF JoinTo
  <2>4. <<>> \o <<>> \o E = E
    BY <1>1
  <2> QED BY <1>2, <1>3, <2>1, <2>2, <2>3, <2>4 DEF E
<1> QED BY <1>6, <1>7

\* The text E is in s, behind position a.
Holds(s, a, E) == a + Len(E) <= Len(s) /\ \A i \in 1 .. Len(E) : s[a + i] = E[i]

\* There, every "$" is escaped, and nothing that may not be; what follows is not.
Sound(s, e, a, E) ==
  /\ \A j \in a + 1 .. a + Len(E) : (e[j] => s[j] \in Escapable) /\ (s[j] = "$" => e[j])
  /\ a + Len(E) < Len(s) => ~e[a + Len(E) + 1]

\* y is x with the first n characters of t behind it.
Extended(y, x, t, n) ==
  /\ y \in Seq(Chars) /\ Len(y) = Len(x) + n
  /\ \A i \in 1 .. Len(x) : y[i] = x[i]
  /\ \A i \in 1 .. n : y[Len(x) + i] = t[i]

\* One more character of t is copied.
LEMMA ExtendedBy ==
  ASSUME NEW x \in Seq(Chars), NEW y, NEW t, NEW n \in Nat, Extended(y, x, t, n), NEW c \in Chars,
         t[n + 1] = c
  PROVE  Extended(Append(y, c), x, t, n + 1)
<1>1. /\ Append(y, c) \in Seq(Chars) /\ Len(Append(y, c)) = Len(y) + 1
      /\ \A i \in 1 .. Len(y) : Append(y, c)[i] = y[i]
      /\ Append(y, c)[Len(y) + 1] = c
  <2>1. y \in Seq(Chars)
    BY DEF Extended
  <2> QED BY <2>1, AppendIs
<1>2. /\ Len(y) = Len(x) + n /\ Len(x) \in Nat
      /\ \A i \in 1 .. Len(x) : y[i] = x[i]
      /\ \A i \in 1 .. n : y[Len(x) + i] = t[i]
  BY DEF Extended
<1> DEFINE z == Append(y, c)
<1> HIDE DEF z
<1>3. \A i \in 1 .. Len(x) : z[i] = x[i]
  <2>1. \A i \in 1 .. Len(x) : i \in 1 .. Len(y)
    BY <1>2
  <2> QED BY <1>1, <1>2, <2>1 DEF z
<1>4. ASSUME NEW i \in 1 .. n + 1
      PROVE  z[Len(x) + i] = t[i]
  <2>1. CASE i = n + 1
    <3>1. Len(x) + i = Len(y) + 1
      BY <1>2, <2>1
    <3> QED BY <1>1, <2>1, <3>1 DEF z
  <2>2. CASE i # n + 1
    <3>1. i \in 1 .. n /\ Len(x) + i \in 1 .. Len(y)
      BY <1>2, <2>2
    <3> QED BY <1>1, <1>2, <3>1 DEF z
  <2> QED BY <2>1, <2>2
<1>5. z \in Seq(Chars) /\ Len(z) = Len(x) + (n + 1)
  BY <1>1, <1>2 DEF z
<1> QED BY <1>3, <1>4, <1>5 DEF Extended, z

\* What is kept of a text is a text.
LEMMA KeepingType ==
  ASSUME NEW s \in Seq(Chars), NEW e
  PROVE  /\ Keeping(s, e) \in [0 .. Len(s) -> Seq(Chars)]
         /\ Keeping(s, e)[0] = <<>>
         /\ \A i \in 1 .. Len(s) : Keeping(s, e)[i] = KeepTo(s, e, Keeping(s, e)[i - 1], i)
<1>1. <<>> \in Seq(Chars) /\ Len(s) \in Nat
  OBVIOUS
<1>2. ASSUME NEW x \in Seq(Chars), NEW i \in 1 .. Len(s)
      PROVE  KeepTo(s, e, x, i) \in Seq(Chars)
  <2>1. s[i] \in Chars
    OBVIOUS
  <2>2. Append(x, s[i]) \in Seq(Chars)
    BY <2>1, Appends
  <2> QED BY <2>2 DEF KeepTo
<1>3. \A x \in Seq(Chars), i \in 1 .. Len(s) : KeepTo(s, e, x, i) \in Seq(Chars)
  BY <1>2
<1> QED BY <1>1, <1>3, KeepingLaw

\* Characters between which nothing escapes are kept (remove_escapes).
LEMMA Copies ==
  ASSUME NEW s \in Seq(Chars), NEW e, NEW a \in 0 .. Len(s), NEW t, NEW k \in Nat, a + k <= Len(s),
         \A i \in 1 .. k : s[a + i] = t[i] /\ t[i] # "\\"
  PROVE  Extended(Keeping(s, e)[a + k], Keeping(s, e)[a], t, k)
<1> DEFINE K == Keeping(s, e)
           x == K[a]
           S == {n \in Nat : n <= k => Extended(K[a + n], x, t, n)}
<1>1. /\ K \in [0 .. Len(s) -> Seq(Chars)]
      /\ \A i \in 1 .. Len(s) : K[i] = KeepTo(s, e, K[i - 1], i)
  BY KeepingType
<1> HIDE DEF K
<1>2. x \in Seq(Chars)
  BY <1>1
<1>3. 0 \in S
  <2>1. a + 0 = a
    OBVIOUS
  <2> HIDE DEF x
  <2>2. Extended(x, x, t, 0)
    BY <1>2 DEF Extended
  <2> QED BY <2>1, <2>2 DEF x
<1>4. ASSUME NEW n \in Nat, n \in S
      PROVE  n + 1 \in S
  <2> SUFFICES ASSUME n + 1 <= k PROVE Extended(K[a + (n + 1)], x, t, n + 1)
    OBVIOUS
  <2>1. /\ n + 1 \in 1 .. k /\ a + (n + 1) \in 1 .. Len(s) /\ (a + (n + 1)) - 1 = a + n
        /\ n <= k
    OBVIOUS
  <2>2. K[a + (n + 1)] = KeepTo(s, e, K[a + n], a + (n + 1))
    BY <1>1, <2>1
  <2> DEFINE c == s[a + (n + 1)]
  <2>3. c \in Chars /\ t[n + 1] = c /\ c # "\\"
    BY <2>1
  <2> HIDE DEF c
  <2>4. K[a + (n + 1)] = Append(K[a + n], c)
    BY <2>2, <2>3 DEF KeepTo, c
  <2>5. Extended(K[a + n], x, t, n)
    BY <1>4, <2>1
  <2> HIDE DEF x
  <2> QED BY <1>2, <2>3, <2>4, <2>5, ExtendedBy
<1>5. k \in S
  <2> HIDE DEF S
  <2> QED BY <1>3, <1>4, Induction
<1> QED BY <1>5 DEF K

\* One character of the text, escaped or not.
LEMMA CharEscaped ==
  ASSUME NEW s \in Seq(Chars), NEW pos \in Nat, NEW p \in Nat, pos <= p + 1, NEW c \in Chars,
         Holds(s, p, EscapedChar(c)), ~EscapedFrom(s, pos)[p + 1]
  PROVE  /\ Sound(s, EscapedFrom(s, pos), p, EscapedChar(c))
         /\ Keeping(s, EscapedFrom(s, pos))[p + Len(EscapedChar(c))]
              = Append(Keeping(s, EscapedFrom(s, pos))[p], c)
<1> DEFINE e == EscapedFrom(s, pos)
           K == Keeping(s, e)
<1>1. \A i \in pos .. Len(s) : e[i] <=> i > pos /\ s[i - 1] = "\\" /\ ~e[i - 1]
  <2>1. Len(s) \in Nat
    OBVIOUS
  <2> QED BY <2>1, EscapedLaw
<1>2. \A i \in 1 .. Len(s) : K[i] = KeepTo(s, e, K[i - 1], i)
  BY KeepingType
<1>3. ~e[p + 1] /\ Holds(s, p, EscapedChar(c))
  OBVIOUS
<1> HIDE DEF e, K
<1>4. CASE c \in Escapable
  <2>1. EscapedChar(c) = <<"\\", c>> /\ Len(EscapedChar(c)) = 2
    BY <1>4 DEF EscapedChar
  <2>2. p + 2 <= Len(s) /\ s[p + 1] = "\\" /\ s[p + 2] = c
    BY <1>3, <2>1 DEF Holds
  <2>3. /\ p + 2 \in pos .. Len(s) /\ p + 2 > pos /\ (p + 2) - 1 = p + 1 /\ (p + 1) - 1 = p
        /\ p + 1 \in 1 .. Len(s) /\ p + 2 \in 1 .. Len(s)
    BY <2>2
  <2>4. e[p + 2]
    BY <1>1, <1>3, <2>2, <2>3
  <2>5. p + 2 < Len(s) => ~e[p + 2 + 1]
    <3>1. (p + 2 + 1) - 1 = p + 2 /\ (p + 2 < Len(s) => p + 2 + 1 \in pos .. Len(s))
      BY <2>2
    <3> QED BY <1>1, <2>4, <3>1
  <2>6. \A j \in p + 1 .. p + 2 : j = p + 1 \/ j = p + 2
    OBVIOUS
  <2>7. Sound(s, e, p, EscapedChar(c))
    BY <1>3, <1>4, <2>1, <2>2, <2>4, <2>5, <2>6 DEF Sound
  <2>8. K[p + 1] = K[p]
    BY <1>2, <1>3, <2>2, <2>3 DEF KeepTo
  <2>9. K[p + 2] = Append(K[p + 1], c)
    BY <1>2, <2>2, <2>3, <2>4 DEF KeepTo
  <2> QED BY <2>1, <2>7, <2>8, <2>9 DEF e, K
<1>5. CASE c \notin Escapable
  <2>1. EscapedChar(c) = <<c>> /\ Len(EscapedChar(c)) = 1
    BY <1>5 DEF EscapedChar
  <2>2. p + 1 <= Len(s) /\ s[p + 1] = c
    BY <1>3, <2>1 DEF Holds
  <2>3. p + 1 \in 1 .. Len(s) /\ (p + 1) - 1 = p
    BY <2>2
  <2>4. c # "\\" /\ c # "$"
    BY <1>5 DEF Escapable
  <2>5. p + 1 < Len(s) => ~e[p + 1 + 1]
    <3>1. (p + 1 + 1) - 1 = p + 1 /\ (p + 1 < Len(s) => p + 1 + 1 \in pos .. Len(s))
      BY <2>2
    <3> QED BY <1>1, <2>2, <2>4, <3>1
  <2>6. \A j \in p + 1 .. p + 1 : j = p + 1
    OBVIOUS
  <2>7. Sound(s, e, p, EscapedChar(c))
    BY <1>3, <2>1, <2>2, <2>4, <2>5, <2>6 DEF Sound
  <2>8. K[p + 1] = Append(K[p], c)
    BY <1>2, <2>2, <2>3, <2>4 DEF KeepTo
  <2> QED BY <2>1, <2>7, <2>8 DEF e, K
<1> QED BY <1>4, <1>5

\* A part of a text that is x and then y is x, and behind it y.
LEMMA HoldsBoth ==
  ASSUME NEW s \in Seq(Chars), NEW a \in Nat, NEW x \in Seq(Chars), NEW y \in Seq(Chars),
         Holds(s, a, x \o y)
  PROVE  Holds(s, a, x) /\ Holds(s, a + Len(x), y)
<1>1. /\ Len(x \o y) = Len(x) + Len(y) /\ Len(x) \in Nat /\ Len(y) \in Nat
      /\ \A i \in 1 .. Len(x) : (x \o y)[i] = x[i]
      /\ \A i \in 1 .. Len(y) : (x \o y)[Len(x) + i] = y[i]
  BY Concat
<1> DEFINE z == x \o y
<1> HIDE DEF z
<1>2. a + Len(z) <= Len(s) /\ \A i \in 1 .. Len(z) : s[a + i] = z[i]
  BY DEF Holds, z
<1>3. Holds(s, a, x)
  <2>1. \A i \in 1 .. Len(x) : i \in 1 .. Len(z)
    BY <1>1 DEF z
  <2>2. a + Len(x) <= Len(s)
    BY <1>1, <1>2 DEF z
  <2> QED BY <1>1, <1>2, <2>1, <2>2 DEF Holds, z
<1>4. Holds(s, a + Len(x), y)
  <2>1. \A i \in 1 .. Len(y) : Len(x) + i \in 1 .. Len(z) /\ a + (Len(x) + i) = a + Len(x) + i
    BY <1>1 DEF z
  <2>2. a + Len(x) + Len(y) <= Len(s)
    BY <1>1, <1>2 DEF z
  <2> QED BY <1>1, <1>2, <2>1, <2>2 DEF Holds, z
<1> QED BY <1>3, <1>4

\* Two parts that are escaped soundly are one that is.
LEMMA SoundBoth ==
  ASSUME NEW s, NEW e, NEW a \in Nat, NEW x \in Seq(Chars), NEW y \in Seq(Chars),
         Sound(s, e, a, x), Sound(s, e, a + Len(x), y)
  PROVE  Sound(s, e, a, x \o y)
<1>1. Len(x \o y) = Len(x) + Len(y) /\ Len(x) \in Nat /\ Len(y) \in Nat
  BY Concat
<1>2. \A j \in a + 1 .. a + Len(x \o y) :
        j \in a + 1 .. a + Len(x) \/ j \in a + Len(x) + 1 .. a + Len(x) + Len(y)
  BY <1>1
<1>3. a + Len(x \o y) = a + Len(x) + Len(y)
  BY <1>1
<1> QED BY <1>2, <1>3 DEF Sound

\* Text that is escaped, behind a character that escapes nothing.
LEMMA TextEscaped ==
  ASSUME NEW s \in Seq(Chars), NEW a \in Nat, NEW pos \in 1 .. a, s[a] # "\\",
         NEW text \in Texts, Holds(s, a, Escape(text))
  PROVE  /\ Sound(s, EscapedFrom(s, pos), a, Escape(text))
         /\ Extended(Keeping(s, EscapedFrom(s, pos))[a + Len(Escape(text))],
                     Keeping(s, EscapedFrom(s, pos))[a], text, Len(text))
<1> DEFINE e == EscapedFrom(s, pos)
           K == Keeping(s, e)
           F == Escaping(text)
           x == K[a]
           Done(n) == Sound(s, e, a, F[n]) /\ Extended(K[a + Len(F[n])], x, text, n)
           S == {n \in Nat : n <= Len(text) /\ Holds(s, a, F[n]) => Done(n)}
<1>1. text \in Seq(Chars) /\ Len(text) \in Nat
  BY TextType
<1>2. /\ Escape(text) = F[Len(text)] /\ F \in [0 .. Len(text) -> Seq(Chars)] /\ F[0] = <<>>
      /\ \A i \in 1 .. Len(text) : F[i] = EscapeTo(text, F[i - 1], i)
  BY <1>1, TextType, EscapingType
<1>3. K \in [0 .. Len(s) -> Seq(Chars)]
  BY KeepingType
<1> HIDE DEF F, K
<1>4. a <= Len(s) /\ a \in 0 .. Len(s) /\ x \in Seq(Chars)
  <2>1. Len(Escape(text)) \in Nat /\ a + Len(Escape(text)) <= Len(s)
    BY TextType DEF Holds
  <2> QED BY <1>3, <2>1
<1>5. 0 \in S
  <2>1. Len(F[0]) = 0 /\ a + 0 = a
    BY <1>2
  <2>2. a < Len(s) => ~e[a + 1]
    <3>1. Len(s) \in Nat /\ (a + 1) - 1 = a /\ (a < Len(s) => a + 1 \in pos .. Len(s))
      BY <1>4
    <3> QED BY <3>1, EscapedLaw
  <2> HIDE DEF e
  <2>3. Sound(s, e, a, F[0])
    <3>1. a + Len(F[0]) = a /\ \A j \in a + 1 .. a : FALSE
      BY <2>1
    <3> QED BY <2>2, <3>1 DEF Sound
  <2> HIDE DEF x
  <2>4. Extended(x, x, text, 0)
    BY <1>4 DEF Extended
  <2> QED BY <2>1, <2>3, <2>4 DEF x
<1>6. ASSUME NEW n \in Nat, n \in S
      PROVE  n + 1 \in S
  <2> SUFFICES ASSUME n + 1 <= Len(text), Holds(s, a, F[n + 1]) PROVE Done(n + 1)
    OBVIOUS
  <2> DEFINE c == text[n + 1]
             g == EscapedChar(c)
             y == F[n]
             p == a + Len(y)
  <2>1. n + 1 \in 1 .. Len(text) /\ (n + 1) - 1 = n /\ n \in 0 .. Len(text) /\ n <= Len(text)
    BY <1>1
  <2>2. c \in Chars
    BY <1>1, <2>1
  <2> HIDE DEF c
  <2>3. g \in Seq(Chars) /\ Len(g) \in Nat /\ Len(g) >= 1
    <3>1. "\\" \in Chars
      BY MarksAre
    <3>2. CASE c \in Escapable
      <4>1. g = <<"\\", c>>
        BY <3>2 DEF EscapedChar
      <4> HIDE DEF g
      <4> QED BY <2>2, <3>1, <4>1
    <3>3. CASE c \notin Escapable
      <4>1. g = <<c>>
        BY <3>3 DEF EscapedChar
      <4> HIDE DEF g
      <4> QED BY <2>2, <4>1
    <3> QED BY <3>2, <3>3
  <2>4. F[n + 1] = y \o g /\ y \in Seq(Chars)
    BY <1>2, <2>1 DEF EscapeTo, c
  <2> HIDE DEF y, g
  <2>5. Holds(s, a, y) /\ Holds(s, p, g)
    BY <2>3, <2>4, HoldsBoth
  <2>6. Sound(s, e, a, y) /\ Extended(K[p], x, text, n)
    BY <1>6, <2>1, <2>5 DEF y
  <2>7. p \in Nat /\ p < Len(s) /\ pos <= p + 1 /\ pos \in Nat
    <3>1. Len(y) \in Nat /\ p + Len(g) <= Len(s)
      BY <2>4, <2>5 DEF Holds
    <3>2. Len(g) \in Nat /\ Len(g) >= 1
      BY <2>3
    <3>5. Len(s) \in Nat
      OBVIOUS
    <3>3. p \in Nat /\ a <= p
      BY <3>1
    <3> HIDE DEF p
    <3>4. pos <= p + 1 /\ pos \in Nat
      BY <3>3
    <3> QED BY <3>1, <3>2, <3>3, <3>4, <3>5
  <2>8. ~e[p + 1]
    BY <2>6, <2>7 DEF Sound
  <2> HIDE DEF p
  <2>9. Sound(s, e, p, g) /\ K[p + Len(g)] = Append(K[p], c)
    BY <2>2, <2>5, <2>7, <2>8, CharEscaped DEF g, K
  <2> HIDE DEF e
  <2>10. Sound(s, e, a, y \o g)
    BY <2>3, <2>4, <2>6, <2>9, SoundBoth DEF p
  <2>11. a + Len(y \o g) = p + Len(g)
    <3>1. Len(y \o g) = Len(y) + Len(g) /\ Len(y) \in Nat /\ Len(g) \in Nat
      BY <2>3, <2>4, Concat
    <3> QED BY <3>1 DEF p
  <2> HIDE DEF x
  <2>12. Extended(Append(K[p], c), x, text, n + 1)
    <3>1. x \in Seq(Chars)
      BY <1>4
    <3>2. text[n + 1] = c
      BY DEF c
    <3> QED BY <2>2, <2>6, <3>1, <3>2, ExtendedBy
  <2> QED BY <2>4, <2>9, <2>10, <2>11, <2>12
<1>7. Len(text) \in S
  <2> HIDE DEF S
  <2> QED BY <1>1, <1>5, <1>6, Induction
<1> QED BY <1>1, <1>2, <1>7 DEF K

\* Characters that are kept.
NoEscape(s) == \A i \in 1 .. Len(s) : s[i] # "\\"

\* The elements of three sequences put together.
LEMMA Three ==
  ASSUME NEW x \in Seq(Chars), NEW y \in Seq(Chars), NEW z \in Seq(Chars)
  PROVE  /\ x \o y \o z \in Seq(Chars)
         /\ Len(x \o y \o z) = Len(x) + Len(y) + Len(z)
         /\ Len(x) \in Nat /\ Len(y) \in Nat /\ Len(z) \in Nat
         /\ \A i \in 1 .. Len(x) : (x \o y \o z)[i] = x[i]
         /\ \A i \in 1 .. Len(y) : (x \o y \o z)[Len(x) + i] = y[i]
         /\ \A i \in 1 .. Len(z) : (x \o y \o z)[Len(x) + Len(y) + i] = z[i]
<1> DEFINE d == x \o y
           s == d \o z
<1>1. /\ d \in Seq(Chars) /\ Len(d) = Len(x) + Len(y)
      /\ \A i \in 1 .. Len(x) : d[i] = x[i]
      /\ \A i \in 1 .. Len(y) : d[Len(x) + i] = y[i]
  BY Concat
<1> HIDE DEF d
<1>2. /\ s \in Seq(Chars) /\ Len(s) = Len(d) + Len(z)
      /\ \A i \in 1 .. Len(d) : s[i] = d[i]
      /\ \A i \in 1 .. Len(z) : s[Len(d) + i] = z[i]
  <2>1. d \in Seq(Chars) /\ z \in Seq(Chars)
    BY <1>1
  <2> QED BY <2>1, Concat
<1>3. Len(x) \in Nat /\ Len(y) \in Nat /\ Len(z) \in Nat
  OBVIOUS
<1> HIDE DEF s
<1>4. \A i \in 1 .. Len(x) : s[i] = x[i]
  <2>1. \A i \in 1 .. Len(x) : i \in 1 .. Len(d)
    BY <1>1, <1>3
  <2> QED BY <1>1, <1>2, <2>1
<1>5. \A i \in 1 .. Len(y) : s[Len(x) + i] = y[i]
  <2>1. \A i \in 1 .. Len(y) : Len(x) + i \in 1 .. Len(d)
    BY <1>1, <1>3
  <2> QED BY <1>1, <1>2, <2>1
<1> QED BY <1>1, <1>2, <1>3, <1>4, <1>5 DEF s, d

\* remove_escapes() makes of a text that is escaped the text.
LEMMA Unescapes ==
  ASSUME NEW x \in Seq(Chars), x # <<>>, NoEscape(x), NEW z \in Seq(Chars), NoEscape(z),
         NEW text \in Texts
  PROVE  /\ ~BadEscape(x \o Escape(text) \o z)
         /\ RemoveEscapes(x \o Escape(text) \o z) = x \o text \o z
<1> DEFINE E == Escape(text)
           s == x \o E \o z
           e == EscapedFrom(s, 1)
           K == Keeping(s, e)
           a == Len(x)
           b == a + Len(E)
<1>1. E \in Seq(Chars) /\ text \in Seq(Chars)
  BY TextType
<1> HIDE DEF E
<1>2. /\ s \in Seq(Chars) /\ Len(s) = b + Len(z) /\ a \in Nat /\ Len(E) \in Nat /\ Len(z) \in Nat
      /\ \A i \in 1 .. a : s[i] = x[i]
      /\ \A i \in 1 .. Len(E) : s[a + i] = E[i]
      /\ \A i \in 1 .. Len(z) : s[b + i] = z[i]
  BY <1>1, Three
<1>3. a >= 1 /\ b \in Nat /\ a <= b /\ b <= Len(s) /\ Len(s) \in Nat
  <2>1. a # 0
    OBVIOUS
  <2> QED BY <1>2, <2>1
<1>4. \A i \in 1 .. Len(s) : e[i] <=> i > 1 /\ s[i - 1] = "\\" /\ ~e[i - 1]
  <2>1. Len(s) \in Nat /\ 1 \in Nat
    BY <1>3
  <2> HIDE DEF s
  <2> QED BY <2>1, EscapedLaw
<1>5. K \in [0 .. Len(s) -> Seq(Chars)] /\ K[0] = <<>> /\ RemoveEscapes(s) = K[Len(s)]
  BY <1>2, KeepingType, RemoveEscapesIs
<1>6. Holds(s, a, E)
  <2> HIDE DEF s
  <2> QED BY <1>2, <1>3 DEF Holds
<1>7. Sound(s, e, a, E) /\ Extended(K[b], K[a], text, Len(text))
  <2>1. s[a] # "\\"
    <3>1. a \in 1 .. a
      BY <1>2, <1>3
    <3> QED BY <1>2, <3>1 DEF NoEscape
  <2>2. 1 \in 1 .. a
    BY <1>2, <1>3
  <2> HIDE DEF s, a
  <2> QED BY <1>2, <1>6, <2>1, <2>2, TextEscaped DEF E
<1> HIDE DEF s, e, K
<1>8. Extended(K[a], <<>>, x, a)
  <2>1. 0 \in 0 .. Len(s) /\ 0 + a <= Len(s) /\ 0 + a = a
    BY <1>2, <1>3
  <2>2. \A i \in 1 .. a : s[0 + i] = x[i] /\ x[i] # "\\"
    <3>1. \A i \in 1 .. a : 0 + i = i
      BY <1>2
    <3> QED BY <1>2, <3>1 DEF NoEscape
  <2> HIDE DEF a
  <2>3. Extended(Keeping(s, e)[0 + a], Keeping(s, e)[0], x, a)
    BY <1>2, <2>1, <2>2, Copies
  <2> QED BY <1>5, <2>1, <2>3 DEF K
<1>9. Extended(K[b + Len(z)], K[b], z, Len(z))
  <2>1. b \in 0 .. Len(s) /\ b + Len(z) <= Len(s)
    BY <1>2, <1>3
  <2>2. \A i \in 1 .. Len(z) : s[b + i] = z[i] /\ z[i] # "\\"
    BY <1>2 DEF NoEscape
  <2> HIDE DEF b
  <2> QED BY <1>2, <2>1, <2>2, Copies DEF K
<1>10. ~BadEscape(s)
  <2> SUFFICES ASSUME NEW i \in 1 .. Len(s), e[i], s[i] \notin Escapable PROVE FALSE
    BY DEF BadEscape, e
  <2>1. i > 1 /\ s[i - 1] = "\\" /\ i - 1 \in 1 .. Len(s)
    BY <1>3, <1>4
  <2>2. CASE i <= a + 1
    <3>1. i - 1 \in 1 .. a
      BY <1>2, <2>1, <2>2
    <3> QED BY <1>2, <2>1, <3>1 DEF NoEscape
  <2>3. CASE i \in a + 1 .. b
    BY <1>7, <2>3 DEF Sound
  <2>4. CASE i = b + 1
    <3>1. b < Len(s)
      BY <1>2, <1>3, <2>4
    <3> QED BY <1>7, <2>4, <3>1 DEF Sound
  <2>5. CASE i > b + 1
    <3> DEFINE j == i - 1 - b
    <3>1. j \in 1 .. Len(z) /\ b + j = i - 1
      BY <1>2, <1>3, <2>1, <2>5
    <3> HIDE DEF j, b
    <3>2. s[b + j] = z[j] /\ z[j] # "\\"
      BY <1>2, <3>1 DEF NoEscape
    <3> QED BY <2>1, <3>1, <3>2
  <2>6. a \in Nat /\ b \in Nat /\ i \in Nat
    BY <1>2, <1>3
  <2> HIDE DEF a, b
  <2> QED BY <2>2, <2>3, <2>4, <2>5, <2>6
<1>11. RemoveEscapes(s) = x \o text \o z
  <2> DEFINE r == K[Len(s)]
             t == x \o text \o z
             k == Len(text)
  <2>1. /\ t \in Seq(Chars) /\ Len(t) = a + k + Len(z) /\ k \in Nat
        /\ \A i \in 1 .. a : t[i] = x[i]
        /\ \A i \in 1 .. k : t[a + i] = text[i]
        /\ \A i \in 1 .. Len(z) : t[a + k + i] = z[i]
    BY <1>1, Three
  <2> HIDE DEF t
  <2>2. Extended(r, K[b], z, Len(z))
    BY <1>2, <1>9
  <2> HIDE DEF r, k, a
  <2>3. /\ Len(K[a]) = a /\ \A i \in 1 .. a : K[a][i] = x[i]
    <3>1. Len(<<>>) = 0 /\ \A i \in 1 .. a : 0 + i = i
      BY <1>2
    <3> QED BY <1>2, <1>8, <3>1 DEF Extended
  <2>4. /\ Len(K[b]) = a + k /\ \A i \in 1 .. a : K[b][i] = x[i]
        /\ \A i \in 1 .. k : K[b][a + i] = text[i]
    BY <1>7, <2>3 DEF Extended, k
  <2> HIDE DEF b
  <2>5. /\ r \in Seq(Chars) /\ Len(r) = a + k + Len(z)
        /\ \A i \in 1 .. a + k : r[i] = K[b][i]
        /\ \A i \in 1 .. Len(z) : r[a + k + i] = z[i]
    BY <2>2, <2>4 DEF Extended
  <2>6. ASSUME NEW i \in 1 .. Len(r)
        PROVE  r[i] = t[i]
    <3>1. CASE i <= a
      <4>1. i \in 1 .. a /\ i \in 1 .. a + k
        BY <1>2, <2>1, <3>1
      <4> QED BY <2>1, <2>4, <2>5, <4>1
    <3>2. CASE i > a /\ i <= a + k
      <4> DEFINE j == i - a
      <4>1. j \in 1 .. k /\ a + j = i /\ i \in 1 .. a + k
        BY <1>2, <2>1, <3>2
      <4> HIDE DEF j
      <4> QED BY <2>1, <2>4, <2>5, <4>1
    <3>3. CASE i > a + k
      <4> DEFINE j == i - (a + k)
      <4>1. j \in 1 .. Len(z) /\ a + k + j = i
        BY <1>2, <2>1, <2>5, <3>3
      <4> HIDE DEF j
      <4> QED BY <2>1, <2>5, <4>1
    <3> QED BY <1>2, <2>1, <3>1, <3>2, <3>3
  <2>7. r = t
    BY <2>1, <2>5, <2>6, SameSequence
  <2> QED BY <1>5, <2>7 DEF r, t
<1> QED BY <1>10, <1>11 DEF s, E

\* The agent's name and its user's title are texts.
LEMMA NameTitleType == Name \in Seq(Chars) /\ Title \in Seq(Chars)
BY AgentAssumption

\* Behind ":", find_next_variable() stops nowhere in a text that is escaped.
LEMMA NoStops ==
  ASSUME NEW s \in Seq(Chars), NEW a \in Nat, NEW pos \in 1 .. a, s[a] # "\\", NEW text \in Texts,
         Holds(s, a, Escape(text)),
         \A j \in pos .. a : s[j] # "$",
         \A j \in a + Len(Escape(text)) + 1 .. Len(s) : s[j] # "$"
  PROVE  Stops(s, pos) = {}
<1> DEFINE e == EscapedFrom(s, pos)
           b == a + Len(Escape(text))
<1>1. \A j \in a + 1 .. b : s[j] = "$" => e[j]
  BY TextEscaped DEF Sound
<1>2. Len(Escape(text)) \in Nat /\ Len(s) \in Nat /\ b \in Nat
  BY TextType
<1> HIDE DEF e
<1>3. ASSUME NEW j \in pos .. Len(s), s[j] = "$", ~e[j]
      PROVE  FALSE
  <2>1. j \in pos .. a \/ j \in a + 1 .. b \/ j \in b + 1 .. Len(s)
    BY <1>2
  <2> QED BY <1>1, <1>3, <2>1
<1>4. FindUnescaped(s, pos) = {}
  BY <1>3 DEF FindUnescaped, e
<1> QED BY <1>4 DEF Stops

\* The name of the agent is what its variable has.
LEMMA NameIs ==
  ASSUME NamedAgent
  PROVE  GetValue(AgentName) = Name
<1>1. {v \in substitutions : v.name = AgentName} = {[name |-> AgentName, value |-> Name, external |-> TRUE]}
  BY DEF NamedAgent, Registered
<1> DEFINE w == CHOOSE v \in substitutions : v.name = AgentName
<1>2. \E v \in substitutions : v.name = AgentName
  BY <1>1
<1>3. w \in substitutions /\ w.name = AgentName
  BY <1>2
<1>4. GetValue(AgentName) = w.value
  BY <1>2 DEF GetValue
<1> HIDE DEF w
<1>5. w \in {[name |-> AgentName, value |-> Name, external |-> TRUE]}
  BY <1>1, <1>3
<1> QED BY <1>4, <1>5

\* Of what say() expands, only the name of the agent is a variable.
LEMMA FullExpands ==
  ASSUME NEW text \in Texts, Valued(Chars), NamedAgent
  PROVE  ExpandVariables(Full(Escape(text))) =
           [hangs |-> FALSE,
            text |-> Name \o <<":", Space, DoubleQuote>> \o Escape(text) \o <<DoubleQuote, "\n">>]
<1> DEFINE E == Escape(text)
           v == <<"$">> \o AgentName
           b == <<":", Space, DoubleQuote>>
           z == <<DoubleQuote, "\n">>
           m == b \o E \o z
           s == v \o m
           k == Len(AgentName)
           h == Expanding(s)
<1>1. E \in Seq(Chars) /\ Len(E) \in Nat
  BY TextType
<1>2. /\ v \in Seq(Chars) /\ Len(v) = k + 1 /\ v[1] = "$" /\ k \in Nat \ {0}
      /\ AgentName \in Seq(Chars)
      /\ \A i \in 1 .. k : v[i + 1] = AgentName[i] /\ AgentName[i] \in Letters
  BY VariableNoFlaw, NameChars
<1>3. /\ b \in Seq(Chars) /\ Len(b) = 3 /\ b[1] = ":" /\ b[2] = Space /\ b[3] = DoubleQuote
  BY MarksAre
<1>4. z \in Seq(Chars) /\ Len(z) = 2 /\ z[1] = DoubleQuote /\ z[2] = "\n"
  BY MarksAre
<1>5. Full(E) = v \o b \o E \o z
  BY DEF Full
<1> HIDE DEF E, v, b, z, k
<1>6. Full(E) = s
  <2> HIDE DEF m, s, h
  <2>1. v \o b \o E \o z = v \o (b \o E \o z)
    <3>1. v \in Seq(Chars) /\ b \in Seq(Chars) /\ E \in Seq(Chars) /\ z \in Seq(Chars)
      BY <1>1, <1>2, <1>3, <1>4
    <3>2. v \o b \in Seq(Chars) /\ b \o E \in Seq(Chars)
      BY <3>1, Concat
    <3>3. (v \o b) \o E = v \o (b \o E)
      BY <3>1, ConcatAssociative
    <3>4. (v \o (b \o E)) \o z = v \o ((b \o E) \o z)
      <4> DEFINE be == b \o E
      <4>1. v \in Seq(Chars) /\ be \in Seq(Chars) /\ z \in Seq(Chars)
        BY <3>1, <3>2
      <4> HIDE DEF be
      <4>2. (v \o be) \o z = v \o (be \o z)
        BY <4>1, ConcatAssociative
      <4> QED BY <4>2 DEF be
    <3> QED BY <3>3, <3>4
  <2> QED BY <1>5, <2>1 DEF m, s
<1>7. /\ m \in Seq(Chars) /\ Len(m) = 3 + Len(E) + 2
      /\ \A i \in 1 .. 3 : m[i] = b[i]
      /\ \A i \in 1 .. Len(E) : m[3 + i] = E[i]
      /\ \A i \in 1 .. 2 : m[3 + Len(E) + i] = z[i]
  <2>1. /\ m \in Seq(Chars) /\ Len(m) = Len(b) + Len(E) + Len(z)
        /\ \A i \in 1 .. Len(b) : m[i] = b[i]
        /\ \A i \in 1 .. Len(E) : m[Len(b) + i] = E[i]
        /\ \A i \in 1 .. Len(z) : m[Len(b) + Len(E) + i] = z[i]
    <3>1. b \in Seq(Chars) /\ E \in Seq(Chars) /\ z \in Seq(Chars)
      BY <1>1, <1>3, <1>4
    <3> QED BY <3>1, Three
  <2> HIDE DEF m
  <2> QED BY <1>3, <1>4, <2>1
<1> HIDE DEF m
<1>8. /\ s \in Seq(Chars) /\ Len(s) = k + 1 + Len(m)
      /\ \A i \in 1 .. k + 1 : s[i] = v[i]
      /\ \A i \in 1 .. Len(m) : s[k + 1 + i] = m[i]
  <2>1. v \in Seq(Chars) /\ m \in Seq(Chars)
    BY <1>2, <1>7
  <2>2. /\ s \in Seq(Chars) /\ Len(s) = Len(v) + Len(m)
        /\ \A i \in 1 .. Len(v) : s[i] = v[i]
        /\ \A i \in 1 .. Len(m) : s[Len(v) + i] = m[i]
    BY <2>1, Concat
  <2> HIDE DEF s
  <2> QED BY <1>2, <2>2
<1> HIDE DEF s
<1>9. Len(s) = k + 6 + Len(E) /\ Len(s) \in Nat
  BY <1>1, <1>2, <1>7, <1>8
<1>10. /\ s[1] = "$" /\ \A i \in 1 .. k : s[i + 1] = AgentName[i]
       /\ s[k + 2] = ":" /\ s[k + 3] = Space /\ s[k + 4] = DoubleQuote
       /\ \A i \in 1 .. Len(E) : s[k + 4 + i] = E[i]
       /\ s[k + 5 + Len(E)] = DoubleQuote /\ s[k + 6 + Len(E)] = "\n"
  <2>1. s[1] = "$"
    <3>1. 1 \in 1 .. k + 1
      BY <1>2
    <3> QED BY <1>2, <1>8, <3>1
  <2>2. ASSUME NEW i \in 1 .. k
        PROVE  s[i + 1] = AgentName[i]
    <3>1. i + 1 \in 1 .. k + 1
      BY <1>2
    <3> QED BY <1>2, <1>8, <3>1
  <2>3. \A i \in 1 .. 3 : s[k + 1 + i] = b[i]
    <3>1. \A i \in 1 .. 3 : i \in 1 .. Len(m)
      BY <1>1, <1>7
    <3> QED BY <1>7, <1>8, <3>1
  <2>4. s[k + 2] = ":" /\ s[k + 3] = Space /\ s[k + 4] = DoubleQuote
    <3>1. k + 1 + 1 = k + 2 /\ k + 1 + 2 = k + 3 /\ k + 1 + 3 = k + 4
      BY <1>2
    <3> QED BY <1>3, <2>3, <3>1
  <2>5. ASSUME NEW i \in 1 .. Len(E)
        PROVE  s[k + 4 + i] = E[i]
    <3>1. 3 + i \in 1 .. Len(m) /\ k + 1 + (3 + i) = k + 4 + i
      BY <1>1, <1>2, <1>7
    <3> QED BY <1>7, <1>8, <3>1
  <2>6. \A i \in 1 .. 2 : s[k + 4 + Len(E) + i] = z[i]
    <3>1. \A i \in 1 .. 2 : /\ 3 + Len(E) + i \in 1 .. Len(m)
                            /\ k + 1 + (3 + Len(E) + i) = k + 4 + Len(E) + i
      BY <1>1, <1>2, <1>7
    <3> QED BY <1>7, <1>8, <3>1
  <2>7. s[k + 5 + Len(E)] = DoubleQuote /\ s[k + 6 + Len(E)] = "\n"
    <3>1. k + 4 + Len(E) + 1 = k + 5 + Len(E) /\ k + 4 + Len(E) + 2 = k + 6 + Len(E)
      BY <1>1, <1>2
    <3> QED BY <1>4, <2>6, <3>1
  <2> QED BY <2>1, <2>2, <2>4, <2>5, <2>7
<1>11. /\ "$" \notin {":", Space, DoubleQuote, "\n"} /\ DoubleQuote # "\\"
       /\ ":" \notin Ident /\ Letters \subseteq Ident /\ Letters \cap Digits = {}
       /\ "$" \notin Letters
  <2>1. "$" \notin {":", Space, DoubleQuote, "\n"} /\ DoubleQuote # "\\"
    BY CharsDiffer
  <2> QED BY <2>1, MarksAre DEF Ident
<1>12. Stops(s, k + 2) = {}
  <2> DEFINE a == k + 4
  <2>1. a \in Nat /\ k + 2 \in 1 .. a /\ s[a] # "\\"
    BY <1>2, <1>10, <1>11
  <2>2. Holds(s, a, E)
    BY <1>1, <1>2, <1>9, <1>10 DEF Holds
  <2>3. \A j \in k + 2 .. a : s[j] # "$"
    <3>1. \A j \in k + 2 .. a : j = k + 2 \/ j = k + 3 \/ j = k + 4
      BY <1>2
    <3> QED BY <1>10, <1>11, <3>1
  <2>4. \A j \in a + Len(E) + 1 .. Len(s) : s[j] # "$"
    <3>2. a + Len(E) + 1 = k + 5 + Len(E) /\ k + 5 + Len(E) \in Nat /\ Len(s) = (k + 5 + Len(E)) + 1
      BY <1>1, <1>2, <1>9
    <3>1. \A j \in a + Len(E) + 1 .. Len(s) : j = k + 5 + Len(E) \/ j = k + 6 + Len(E)
      <4> DEFINE q == k + 5 + Len(E)
      <4>1. q + 1 = k + 6 + Len(E) /\ q \in Nat
        BY <1>1, <1>2
      <4>2. a + Len(E) + 1 = q /\ Len(s) = q + 1
        BY <3>2
      <4> HIDE DEF q
      <4>3. \A j \in q .. q + 1 : j = q \/ j = q + 1
        BY <4>1
      <4> QED BY <4>1, <4>2, <4>3 DEF q
    <3> QED BY <1>10, <1>11, <3>1
  <2> HIDE DEF a
  <2> QED BY <1>8, <2>1, <2>2, <2>3, <2>4, NoStops DEF E
<1>13. \A pos \in 1 .. Len(s) + 1 : h[pos] = ExpandAt(h, s, pos)
  BY <1>8, ExpandingLaw
<1>14. h[k + 2] = [hangs |-> FALSE, text |-> SubSeq(s, k + 2, Len(s))]
  <2>1. k + 2 \in 1 .. Len(s) + 1
    BY <1>1, <1>2, <1>9
  <2> QED BY <1>12, <1>13, <2>1 DEF ExpandAt
<1>15. 1 \in Stops(s, 1)
  <2>1. Len(s) \in Nat /\ 1 \in Nat /\ 1 \in 1 .. Len(s) /\ 1 < Len(s)
    BY <1>1, <1>2, <1>9
  <2>2. ~EscapedFrom(s, 1)[1]
    BY <2>1, EscapedLaw
  <2>3. s[2] \in Ident
    <3>1. 1 \in 1 .. k /\ 1 + 1 = 2
      BY <1>2
    <3> QED BY <1>2, <1>10, <1>11, <3>1
  <2>4. 1 \in FindUnescaped(s, 1)
    BY <1>10, <2>1, <2>2 DEF FindUnescaped
  <2> QED BY <2>1, <2>3, <2>4 DEF Stops
<1> DEFINE i == Min(Stops(s, 1))
           end == IdentEnd(s, i + 1)
<1>16. i = 1
  <2>1. Stops(s, 1) \in SUBSET Nat /\ \A n \in Stops(s, 1) : 1 <= n
    BY <1>9 DEF Stops, FindUnescaped
  <2>2. i \in Stops(s, 1) /\ i <= 1
    <3>1. Stops(s, 1) # {}
      BY <1>15
    <3> QED BY <1>15, <2>1, <3>1, MinOf
  <2> QED BY <2>1, <2>2
<1>17. /\ end \in i + 1 .. Len(s)
       /\ \A j \in i + 1 .. end : s[j] \in Ident
       /\ end < Len(s) => s[end + 1] \notin Ident
  <2>1. Stops(s, 1) # {} /\ 1 \in 1 .. Len(s) + 1
    BY <1>9, <1>15
  <2> QED BY <1>8, <2>1, StopsAt
<1>18. s[i + 1] \notin Digits
  <2>1. 1 \in 1 .. k /\ i + 1 = 2 /\ 1 + 1 = 2
    BY <1>2, <1>16
  <2> QED BY <1>2, <1>10, <1>11, <2>1
<1> HIDE DEF i, h
<1>19. end = k + 1
  <2> HIDE DEF end
  <2>1. end \in Nat /\ end >= 2
    BY <1>9, <1>16, <1>17
  <2>2. CASE end > k + 1
    <3>1. k + 2 \in i + 1 .. end
      BY <1>2, <1>16, <2>1, <2>2
    <3> QED BY <1>10, <1>11, <1>17, <3>1
  <2>3. CASE end < k + 1
    <3>1. end \in 1 .. k /\ end < Len(s)
      BY <1>1, <1>2, <1>9, <2>1, <2>3
    <3>2. s[end + 1] \in Letters
      BY <1>2, <1>10, <3>1
    <3> QED BY <1>11, <1>17, <3>1, <3>2
  <2> QED BY <1>2, <2>1, <2>2, <2>3
<1>20. h[1] = [hangs |-> h[end + 1].hangs,
               text |-> SubSeq(s, 1, i - 1)
                          \o GetValue(SubSeq(s, i + 1, end)) \o h[end + 1].text]
  <2>1. Stops(s, 1) # {} /\ 1 \in 1 .. Len(s) + 1
    BY <1>9, <1>15
  <2> QED BY <1>13, <1>18, <2>1 DEF ExpandAt, i
<1> HIDE DEF end
<1>21. SubSeq(s, 2, k + 1) = AgentName
  <2> DEFINE t == SubSeq(s, 2, k + 1)
  <2>1. t \in Seq(Chars) /\ Len(t) = k /\ \A j \in 1 .. k : t[j] = s[j + 1]
    <3>1. 2 \in 1 .. Len(s) /\ k + 1 \in 1 .. Len(s) /\ k \in Nat \ {0}
      BY <1>1, <1>2, <1>9
    <3> QED BY <1>8, <3>1
  <2> HIDE DEF t
  <2>2. t = AgentName
    <3>1. Len(t) = Len(AgentName) /\ \A j \in 1 .. Len(t) : t[j] = AgentName[j]
      BY <1>10, <2>1 DEF k
    <3> QED BY <1>2, <2>1, <3>1, SameSequence
  <2> QED BY <2>2 DEF t
<1>22. SubSeq(s, k + 2, Len(s)) = m
  <2> DEFINE t == SubSeq(s, k + 2, Len(s))
  <2>1. t \in Seq(Chars) /\ Len(t) = Len(m) /\ \A j \in 1 .. Len(m) : t[j] = s[k + 1 + j]
    <3>1. k + 2 \in 1 .. Len(s) /\ Len(s) - (k + 2) + 1 = Len(m) /\ k \in Nat \ {0}
      BY <1>1, <1>2, <1>7, <1>8, <1>9
    <3>2. t \in Seq(Chars) /\ Len(t) = Len(m)
      BY <1>8, <3>1
    <3>3. \A j \in 1 .. Len(m) : t[j] = s[k + 2 + j - 1] /\ k + 2 + j - 1 = k + 1 + j
      BY <1>8, <3>1, <3>2
    <3> QED BY <3>2, <3>3
  <2> HIDE DEF t
  <2>2. t = m
    <3>1. \A j \in 1 .. Len(t) : t[j] = m[j]
      BY <1>8, <2>1
    <3> QED BY <1>7, <2>1, <3>1, SameSequence
  <2> QED BY <2>2 DEF t
<1>23. h[1] = [hangs |-> FALSE, text |-> SubSeq(s, 1, 0) \o Name \o m]
  <2>1. end + 1 = k + 2 /\ i - 1 = 0 /\ i + 1 = 2
    BY <1>2, <1>16, <1>19
  <2>2. GetValue(SubSeq(s, i + 1, end)) = Name
    BY <1>19, <1>21, <2>1, NameIs
  <2>3. h[end + 1].hangs = FALSE /\ h[end + 1].text = m
    <3>1. h[end + 1] = [hangs |-> FALSE, text |-> m]
      BY <1>14, <1>22, <2>1
    <3> QED BY <3>1
  <2> QED BY <1>20, <2>1, <2>2, <2>3
<1>24. SubSeq(s, 1, 0) \o Name \o m = Name \o b \o E \o z
  <2>1. Name \in Seq(Chars)
    BY NameTitleType
  <2>2. SubSeq(s, 1, 0) = <<>>
    BY <1>8
  <2>3. <<>> \o Name = Name
    BY <2>1
  <2>4. Name \o b \o E \o z = Name \o (b \o E \o z)
    <3>1. b \in Seq(Chars) /\ E \in Seq(Chars) /\ z \in Seq(Chars)
      BY <1>1, <1>3, <1>4
    <3>2. Name \o b \in Seq(Chars) /\ b \o E \in Seq(Chars)
      BY <3>1, <2>1, Concat
    <3>3. (Name \o b) \o E = Name \o (b \o E)
      BY <3>1, <2>1, ConcatAssociative
    <3>4. (Name \o (b \o E)) \o z = Name \o ((b \o E) \o z)
      <4> DEFINE be == b \o E
      <4>1. Name \in Seq(Chars) /\ be \in Seq(Chars) /\ z \in Seq(Chars)
        BY <3>1, <2>1, <3>2
      <4> HIDE DEF be
      <4>2. (Name \o be) \o z = Name \o (be \o z)
        BY <4>1, ConcatAssociative
      <4> QED BY <4>2 DEF be
    <3> QED BY <3>3, <3>4
  <2> QED BY <2>2, <2>3, <2>4 DEF m
<1> QED BY <1>6, <1>23, <1>24, ExpandVariablesIs DEF E, b, z, h

\* say() says an escaped text as it was before it was escaped.
LEMMA EscapedIsSaid ==
  ASSUME NEW text \in Texts, Valued(Chars), NamedAgent
  PROVE  Say(Escape(text), {}) = {[end |-> "said", text |-> Said(text)]}
<1> DEFINE b == <<":", Space, DoubleQuote>>
           z == <<DoubleQuote, "\n">>
           x == Name \o b
           E == Escape(text)
           s == ExpandVariables(Full(E))
<1>1. /\ b \in Seq(Chars) /\ Len(b) = 3 /\ NoEscape(b)
  <2>1. b \in Seq(Chars) /\ Len(b) = 3 /\ b[1] = ":" /\ b[2] = Space /\ b[3] = DoubleQuote
    BY MarksAre
  <2>2. \A i \in 1 .. 3 : i = 1 \/ i = 2 \/ i = 3
    OBVIOUS
  <2>3. ":" # "\\" /\ Space # "\\" /\ DoubleQuote # "\\"
    BY CharsDiffer
  <2> HIDE DEF b
  <2> QED BY <2>1, <2>2, <2>3 DEF NoEscape
<1>2. z \in Seq(Chars) /\ Len(z) = 2 /\ NoEscape(z)
  <2>1. z \in Seq(Chars) /\ Len(z) = 2 /\ z[1] = DoubleQuote /\ z[2] = "\n"
    BY MarksAre
  <2>2. \A i \in 1 .. 2 : i = 1 \/ i = 2
    OBVIOUS
  <2>3. "\n" # "\\" /\ DoubleQuote # "\\"
    BY CharsDiffer
  <2> HIDE DEF z
  <2> QED BY <2>1, <2>2, <2>3 DEF NoEscape
<1>3. s = [hangs |-> FALSE, text |-> Name \o b \o E \o z]
  BY FullExpands
<1>4. Said(text) = Name \o b \o text \o z
  BY DEF Said
<1> HIDE DEF b, z, E
<1>5. x \in Seq(Chars) /\ x # <<>> /\ NoEscape(x)
  <2>1. Name \in Seq(Chars) /\ NoEscape(Name) /\ Len(Name) \in Nat
    <3>1. Name \in Seq(Chars)
      BY NameTitleType
    <3> QED BY <3>1, NameAssumption DEF NoEscape
  <2>2. /\ x \in Seq(Chars) /\ Len(x) = Len(Name) + 3
        /\ \A i \in 1 .. Len(Name) : x[i] = Name[i]
        /\ \A i \in 1 .. 3 : x[Len(Name) + i] = b[i]
    BY <1>1, <2>1, Concat
  <2> HIDE DEF x
  <2>3. ASSUME NEW i \in 1 .. Len(x)
        PROVE  x[i] # "\\"
    <3>1. CASE i <= Len(Name)
      BY <2>1, <2>2, <3>1 DEF NoEscape
    <3>2. CASE i > Len(Name)
      <4> DEFINE j == i - Len(Name)
      <4>1. j \in 1 .. 3 /\ Len(Name) + j = i
        BY <2>1, <2>2, <3>2
      <4> HIDE DEF j
      <4> QED BY <1>1, <2>2, <4>1 DEF NoEscape
    <3> QED BY <2>1, <3>1, <3>2
  <2>4. x # <<>>
    <3>1. Len(<<>>) = 0 /\ Len(x) # 0
      BY <2>1, <2>2
    <3> QED BY <3>1
  <2> QED BY <2>2, <2>3, <2>4 DEF NoEscape
<1>6. ~BadEscape(x \o E \o z) /\ RemoveEscapes(x \o E \o z) = x \o text \o z
  <2> HIDE DEF x
  <2> QED BY <1>2, <1>5, Unescapes DEF E
<1> DEFINE t == x \o E \o z
<1>7. s.hangs = FALSE /\ s.text = t
  <2> HIDE DEF s
  <2> QED BY <1>3
<1> HIDE DEF s, t
<1>8. Say(E, {}) =
             CASE s.hangs -> {[end |-> "hangs", text |-> <<>>]}
               [] ~s.hangs /\ BadEscape(s.text) -> {[end |-> "throws", text |-> <<>>]}
               [] ~s.hangs /\ ~BadEscape(s.text) -> Writes(s, {})
  BY SayIs DEF s
<1>9. ~BadEscape(t) /\ RemoveEscapes(t) = Said(text)
  BY <1>4, <1>6 DEF t
<1>10. ~s.hangs /\ ~BadEscape(s.text) /\ RemoveEscapes(s.text) = Said(text)
  BY <1>7, <1>9
<1>11. Writes(s, {}) = {[end |-> "said", text |-> RemoveEscapes(s.text)]}
  BY DEF Writes
<1>12. Say(E, {}) = {[end |-> "said", text |-> Said(text)]}
  BY <1>8, <1>10, <1>11
<1> QED BY <1>12 DEF E

\* What ECHO says of quoted text (echo_func, say).
LEMMA EchoSays ==
  ASSUME NEW text \in Texts, Valued(Chars), NamedAgent,
         Command(ECHO) = {Default(ECHO, <<>>)}
  PROVE  LET l == Quoted(text) IN
           /\ Tokens(l) # <<>> /\ CmdName(l) = ECHO
           /\ Parsed(l).error = <<>>
           /\ \A r \in SayAll(Echoes(Parsed(l)).says, {}) :
                r = [end |-> "said", text |-> Said(text)]
<1>1. Say(Escape(text), {}) = {[end |-> "said", text |-> Said(text)]}
  BY EscapedIsSaid
<1>2. Echoes(Parsed(Quoted(text))).says = <<Escape(text)>>
  BY QuotedEchoes
<1>3. ASSUME NEW r \in SayAll(<<Escape(text)>>, {})
      PROVE  r = [end |-> "said", text |-> Said(text)]
  <2> DEFINE ts == <<Escape(text)>>
  <2>1. Len(ts) = 1 /\ ts[1] = Escape(text)
    OBVIOUS
  <2> HIDE DEF ts
  <2>2. PICK i \in 1 .. Len(ts) : r \in Say(ts[i], {})
    BY <1>3, SayAllFrom DEF ts
  <2>3. i = 1
    BY <2>1
  <2> QED BY <1>1, <2>1, <2>2, <2>3
<1> QED BY <1>2, <1>3, QuotedParsed

-----------------------------------------------------------------------------
(* The inductive invariant.                                                *)

\* The values of the variables are texts in every state.
LEMMA TypedValues ==
  ASSUME CommandsTypeOK
  PROVE  Valued(Chars)
BY DEF CommandsTypeOK, Valued

\* How the handling of a line may end, but for KILL, with parameters pl.
Ends(pl) ==
  \/ phase' = "done" /\ params' = pl
  \/ phase' = "hangs" /\ HangCause(line) /\ UNCHANGED params
  \/ /\ phase' = "aborts" /\ UNCHANGED params
     /\ \/ ThrowCause(line, faults')
        \/ Runs(line, Example) /\ ("other" \in faults' \/ pl.options # <<>>)

Statuses == status' \in -2 .. 4 /\ threw' \in BOOLEAN

\* A step that ends a line, in one of the three ways.
LEMMA EndsEach ==
  ASSUME CommandsTypeOK, NEW pl
  PROVE  /\ \A text : \A st \in -2 .. 4 : \A th \in BOOLEAN :
              Finish(pl, text, st, th) => Ends(pl) /\ Statuses
         /\ Hangs /\ HangCause(line) => Ends(pl) /\ Statuses
         /\ Aborts /\ ThrowCause(line, faults') => Ends(pl) /\ Statuses
         /\ Aborts /\ Runs(line, Example) /\ ("other" \in faults' \/ pl.options # <<>>)
              => Ends(pl) /\ Statuses
<1>1. status \in -2 .. 4 /\ threw \in BOOLEAN
  BY DEF CommandsTypeOK
<1>2. ASSUME NEW text, NEW st \in -2 .. 4, NEW th \in BOOLEAN, Finish(pl, text, st, th)
      PROVE  Ends(pl) /\ Statuses
  <2>1. phase' = "done" /\ params' = pl /\ status' = st /\ threw' = th
    BY <1>2 DEF Finish
  <2>2. Statuses
    BY <2>1 DEF Statuses
  <2> QED BY <2>1, <2>2 DEF Ends
<1>3. Hangs \/ Aborts => Statuses /\ UNCHANGED params
  BY <1>1 DEF Hangs, Aborts, Statuses
<1>4. Hangs => phase' = "hangs"
  BY DEF Hangs
<1>5. Aborts => phase' = "aborts"
  BY DEF Aborts
<1>6. ASSUME Hangs, HangCause(line)
      PROVE  Ends(pl) /\ Statuses
  BY <1>3, <1>4, <1>6 DEF Ends
<1>7. ASSUME Aborts, \/ ThrowCause(line, faults')
                     \/ Runs(line, Example) /\ ("other" \in faults' \/ pl.options # <<>>)
      PROVE  Ends(pl) /\ Statuses
  BY <1>3, <1>5, <1>7 DEF Ends
<1> QED BY <1>2, <1>6, <1>7

\* A text said outside of the try block ends the line as its flaws allow (cmd.cpp:277-281).
LEMMA SayOutsideEnds ==
  ASSUME CommandsTypeOK, NEW text, OfLine(line, text), NEW pl,
         NEW st \in -2 .. 4, NEW th \in BOOLEAN, SayOutside(pl, text, st, th)
  PROVE  Ends(pl) /\ Statuses
<1>1. PICK s \in Say(text, faults') :
        \/ s.end = "said"   /\ Finish(pl, s.text, st, th)
        \/ s.end = "hangs"  /\ Hangs
        \/ s.end = "throws" /\ Aborts
  BY DEF SayOutside
<1>2. HangsOf(line, text) /\ Valued(Chars)
  BY TypedValues DEF OfLine
<1>3. /\ s.end = "hangs" => HangCause(line)
      /\ s.end = "throws" => ThrowCause(line, faults')
  BY <1>2, SayOfLine
<1> QED BY <1>1, <1>3, EndsEach

\* So does an exception that is caught (cmd.cpp:318-323).
LEMMA CatchThrownEnds ==
  ASSUME CommandsTypeOK, NEW pl, CatchThrown(pl), OfLine(line, <<>>),
         ThrowCause(line, faults') \/ Runs(line, Example) \/ pl.options = <<>>
  PROVE  Ends(pl) /\ Statuses
<1>1. CASE SayOutside(pl, <<>>, status, TRUE)
  BY <1>1, SayOutsideEnds DEF CommandsTypeOK
<1>2. CASE pl.options # <<>> /\ Aborts
  BY <1>2, EndsEach
<1> QED BY <1>1, <1>2 DEF CatchThrown

\* So does what a command says (cmd.cpp:303-317).
LEMMA ExecuteEnds ==
  ASSUME CommandsTypeOK, NEW pl, NEW answer, answer.status \in -2 .. 4,
         \A i \in 1 .. Len(answer.says) : HangsOf(line, answer.says[i]),
         \/ \A i \in 1 .. Len(answer.says) : OfLine(line, answer.says[i])
         \/ pl.options = <<>>,
         OfLine(line, <<>>), Execute(pl, answer)
  PROVE  Ends(pl) /\ Statuses
<1>1. PICK s \in SayAll(answer.says, faults') :
        \/ s.end = "said"   /\ Finish(pl, s.text, answer.status, FALSE)
        \/ s.end = "hangs"  /\ Hangs
        \/ /\ s.end = "throws" \/ (s.end = "said" /\ "throws" \in faults')
           /\ CatchThrown(pl)
  BY DEF Execute
<1>2. PICK i \in 1 .. Len(answer.says) : s \in Say(answer.says[i], faults')
  BY SayAllFrom
<1>3. HangsOf(line, answer.says[i]) /\ Valued(Chars)
  BY TypedValues
<1>4. /\ s.end = "hangs" => HangCause(line)
      /\ s.end = "throws" /\ OfLine(line, answer.says[i]) => ThrowCause(line, faults')
  BY <1>2, <1>3, SayOfLine
<1>5. "throws" \in faults' => ThrowCause(line, faults')
  BY DEF ThrowCause
<1>6. CASE s.end = "said" /\ Finish(pl, s.text, answer.status, FALSE)
  BY <1>6, EndsEach
<1>7. CASE s.end = "hangs" /\ Hangs
  BY <1>4, <1>7, EndsEach
<1>8. CASE /\ s.end = "throws" \/ (s.end = "said" /\ "throws" \in faults')
           /\ CatchThrown(pl)
  <2>1. ThrowCause(line, faults') \/ pl.options = <<>>
    BY <1>4, <1>5, <1>8
  <2> QED BY <1>8, <2>1, CatchThrownEnds
<1> QED BY <1>1, <1>6, <1>7, <1>8

\* What the handling of a line, but for KILL, does.
Handled ==
  /\ \E pl : /\ Ends(pl)
             /\ \/ pl = NoParams
                \/ pl = Parsed(line) /\ Tokens(line) # <<>> /\ Command(CmdName(line)) # {}
  /\ Statuses
  /\ faults' \subseteq Faults
  /\ pending' \in Seq(Seq(Chars)) /\ Len(pending') <= MaxPending
  /\ UNCHANGED <<line, typed, commands, substitutions>>

\* HELP has no options (cmd.cpp:40-46).
LEMMA HelpNoOptions ==
  ASSUME CommandsInv, phase # "stopped", NEW l \in Seq(Chars), NEW name \in {HELP, KILL},
         Runs(l, name)
  PROVE  Parsed(l).options = <<>>
<1> DEFINE c == CHOOSE c \in Command(name) : TRUE
<1>1. CmdName(l) = name /\ Command(name) # {} /\ Tokens(l) # <<>>
  BY DEF Runs, Invokes
<1>2. c \in Command(name)
  BY <1>1
<1> HIDE DEF c
<1>3. c.options = <<>>
  BY <1>2 DEF Command, CommandsInv
<1>4. OptionsOf(name) = <<>>
  BY <1>3 DEF OptionsOf, c
<1>5. Parsed(l) \in Params(<<>>, ToSet(l))
  BY <1>1, <1>4, LineType
<1>6. Taken(<<>>, ToSet(l)) = {}
  BY DEF Taken, Declared
<1>7. Parsed(l).options \in Seq({})
  BY <1>5, <1>6 DEF Params
<1> QED BY <1>7

\* parse_command() ends a line as its flaws allow, whichever command it is.
LEMMA LineHandled ==
  ASSUME CommandsInv, ParseCommand, ~RunKill
  PROVE  Handled
<1> USE DEF CommandsInv
<1>1. line \in Seq(Chars) /\ CommandsTypeOK /\ pending \in Seq(Seq(Chars)) /\ Len(pending) <= MaxPending
  BY DEF CommandsTypeOK
<1>2. OfLine(line, <<>>)
  <2>1. <<>> \in Seq(ToSet(line) \cup {Space})
    OBVIOUS
  <2> QED BY <1>1, <2>1, WordsOfLine
<1>3. UNCHANGED <<line, typed>> /\ faults' \subseteq Faults /\ phase # "stopped"
  BY DEF ParseCommand, Faults
<1>4. ASSUME Ends(NoParams), Statuses, UNCHANGED <<pending, commands, substitutions>>
       PROVE  Handled
  <2>1. pending' \in Seq(Seq(Chars)) /\ Len(pending') <= MaxPending
    BY <1>1, <1>4
  <2> QED BY <1>3, <1>4, <2>1 DEF Handled
<1>5. CASE BlankLine
  <2>1. Ends(NoParams) /\ Statuses /\ UNCHANGED <<pending, commands, substitutions>>
    BY <1>5 DEF BlankLine, Finish, Ends, Statuses, CommandsTypeOK
  <2> QED BY <1>4, <2>1
<1>6. CASE UnknownCommand
  <2>1. Tokens(line) # <<>> /\ UNCHANGED <<pending, commands, substitutions>>
    BY <1>6 DEF UnknownCommand
  <2>2. Head(Tokens(line)) \in Seq(ToSet(line))
    BY <1>1, <2>1, LineType
  <2>3. OfLine(line, CmdName(line))
    BY <1>1, <2>2, UpperOfLine DEF CmdName
  <2>4. OfLine(line, ToUser(CmdName(line)))
    BY <1>1, <2>3, ToUserOfLine
  <2>5. CASE SayOutside(NoParams, ToUser(CmdName(line)), status, threw)
    <3>1. status \in -2 .. 4 /\ threw \in BOOLEAN
      BY DEF CommandsTypeOK
    <3>2. Ends(NoParams) /\ Statuses
      BY <1>1, <2>4, <2>5, <3>1, SayOutsideEnds
    <3> QED BY <1>4, <2>1, <3>2
  <2>6. CASE "throws" \in faults' /\ Aborts
    <3>1. ThrowCause(line, faults')
      BY <2>6 DEF ThrowCause
    <3>2. Ends(NoParams) /\ Statuses
      BY <1>1, <2>6, <3>1, EndsEach
    <3> QED BY <1>4, <2>1, <3>2
  <2> QED BY <1>6, <2>5, <2>6 DEF UnknownCommand
<1> DEFINE pl == Parsed(line)
<1>7. ASSUME NEW name, Invokes(line, name)
      PROVE  /\ Tokens(line) # <<>> /\ Command(CmdName(line)) # {}
             /\ pl \in Params(OptionsOf(CmdName(line)), ToSet(line))
             /\ OfLine(line, pl.error)
             /\ \A i \in 1 .. Len(Echoes(pl).says) : OfLine(line, Echoes(pl).says[i])
             /\ \A i \in 1 .. Len(Times(pl).says) : OfLine(line, Times(pl).says[i])
             /\ Join(Tail(pl.args)) \in Seq(Chars) \/ pl.args = <<>>
  <2>1. Tokens(line) # <<>> /\ Command(CmdName(line)) # {}
    BY <1>7 DEF Invokes
  <2> HIDE DEF pl
  <2>2. pl \in Params(OptionsOf(CmdName(line)), ToSet(line))
    BY <1>1, <2>1, LineType DEF pl
  <2> QED BY <1>1, <2>1, <2>2, TextsOfLine
<1>8. ASSUME NEW name, Invokes(line, name), Ends(pl), Statuses,
             pending' \in Seq(Seq(Chars)), Len(pending') <= MaxPending,
             UNCHANGED <<commands, substitutions>>
      PROVE  Handled
  <2> QED BY <1>7, <1>8, <1>3 DEF Handled
<1> HIDE DEF pl
<1>9. ASSUME NEW name, WrongParams(name)
      PROVE  Handled
  <2>1. Invokes(line, name) /\ SayOutside(NoParams, pl.error, -2, FALSE)
        /\ UNCHANGED <<pending, commands, substitutions>>
    BY <1>9 DEF WrongParams, pl
  <2>2. Ends(NoParams) /\ Statuses
    <3>1. -2 \in -2 .. 4 /\ FALSE \in BOOLEAN /\ OfLine(line, pl.error)
      BY <1>7, <2>1
    <3> QED BY <1>1, <2>1, <3>1, SayOutsideEnds
  <2> QED BY <1>4, <2>1, <2>2
<1>10. CASE RunEcho
  <2>1. Invokes(line, ECHO) /\ Execute(pl, Echoes(pl)) /\ UNCHANGED <<pending, commands, substitutions>>
    BY <1>10 DEF RunEcho, Runs, pl
  <2>2. /\ Echoes(pl).status \in -2 .. 4
        /\ \A i \in 1 .. Len(Echoes(pl).says) : OfLine(line, Echoes(pl).says[i])
    <3>1. Echoes(pl).status = 0
      BY DEF Echoes
    <3> QED BY <1>7, <2>1, <3>1
  <2>4. \A i \in 1 .. Len(Echoes(pl).says) : HangsOf(line, Echoes(pl).says[i])
    BY <2>2 DEF OfLine
  <2>3. Ends(pl) /\ Statuses
    BY <1>1, <1>2, <2>1, <2>2, <2>4, ExecuteEnds
  <2> QED BY <1>1, <1>8, <2>1, <2>3
<1>11. CASE RunHelp
  <2>1. Invokes(line, HELP) /\ Execute(pl, Helps(pl)) /\ UNCHANGED <<pending, commands, substitutions>>
    BY <1>11 DEF RunHelp, Runs, pl
  <2>2. Helps(pl).status \in -2 .. 4
    BY DEF Helps
  <2>4. Runs(line, HELP)
    BY <1>11 DEF RunHelp
  <2>5. pl.options = <<>>
    BY <1>1, <1>3, <2>4, HelpNoOptions DEF pl
  <2>6. \A i \in 1 .. Len(Helps(pl).says) : HangsOf(line, Helps(pl).says[i])
    BY <1>1, <2>4, HelpsHang DEF pl
  <2>3. Ends(pl) /\ Statuses
    BY <1>1, <1>2, <2>1, <2>2, <2>5, <2>6, ExecuteEnds
  <2> QED BY <1>1, <1>8, <2>1, <2>3
<1>12. CASE RunTimer
  <2>1. Invokes(line, TIMER) /\ Execute(pl, Times(pl)) /\ UNCHANGED <<commands, substitutions>>
        /\ pending' = IF Times(pl).status = 0 THEN Append(pending, Join(Tail(pl.args))) ELSE pending
    BY <1>12 DEF RunTimer, Runs, pl
  <2>4. \A i \in 1 .. Len(Times(pl).says) : OfLine(line, Times(pl).says[i])
    BY <1>7, <2>1
  <2>5. \A i \in 1 .. Len(Times(pl).says) : HangsOf(line, Times(pl).says[i])
    BY <2>4 DEF OfLine
  <2>2. CASE Len(pl.args) < 2
    <3>1. Times(pl).status = 1
      BY <2>2 DEF Times
    <3>2. Ends(pl) /\ Statuses
      <4>1. Times(pl).status \in -2 .. 4
        BY <3>1
      <4> QED BY <1>1, <1>2, <2>1, <2>4, <2>5, <4>1, ExecuteEnds
    <3> QED BY <1>1, <1>8, <2>1, <3>1, <3>2
  <2>3. CASE ~(Len(pl.args) < 2)
    <3>1. /\ Times(pl).status \in {0, 2, 3, 4}
          /\ Times(pl).status = 0 => Len(pending) < MaxPending
      BY <2>3 DEF Times
    <3>2. Ends(pl) /\ Statuses
      <4>1. Times(pl).status \in -2 .. 4
        BY <3>1
      <4> QED BY <1>1, <1>2, <2>1, <2>4, <2>5, <4>1, ExecuteEnds
    <3>3. Join(Tail(pl.args)) \in Seq(Chars)
      <4>1. pl.args # <<>>
        BY <2>3
      <4> QED BY <1>7, <2>1, <4>1
    <3>4. pending' \in Seq(Seq(Chars)) /\ Len(pending') <= MaxPending
      BY <1>1, <2>1, <3>1, <3>3, CommandsAssumption
    <3> QED BY <1>8, <2>1, <3>2, <3>4
  <2> QED BY <2>2, <2>3
<1>13. CASE RunExample
  <2>1. /\ Invokes(line, Example) /\ Runs(line, Example) /\ UNCHANGED <<pending, commands, substitutions>>
        /\ Finish(pl, <<>>, 0, FALSE) \/ CatchThrown(pl) \/ ("other" \in faults' /\ Aborts)
    BY <1>13 DEF RunExample, Runs, pl
  <2>2. CASE Finish(pl, <<>>, 0, FALSE)
    <3>1. Ends(pl) /\ Statuses
      <4>1. 0 \in -2 .. 4 /\ FALSE \in BOOLEAN
        OBVIOUS
      <4> QED BY <1>1, <2>2, <4>1, EndsEach
    <3> QED BY <1>1, <1>8, <2>1, <3>1
  <2>3. CASE CatchThrown(pl)
    <3>1. Ends(pl) /\ Statuses
      BY <1>1, <1>2, <2>1, <2>3, CatchThrownEnds
    <3> QED BY <1>1, <1>8, <2>1, <3>1
  <2>4. CASE "other" \in faults' /\ Aborts
    <3>1. Ends(pl) /\ Statuses
      BY <1>1, <2>1, <2>4, EndsEach
    <3> QED BY <1>1, <1>8, <2>1, <3>1
  <2> QED BY <2>1, <2>2, <2>3, <2>4
<1> QED BY <1>5, <1>6, <1>9, <1>10, <1>11, <1>12, <1>13 DEF ParseCommand

\* No other command has ECHO's name.
LEMMA NamesDiffer ==
  /\ ECHO \notin {HELP, KILL, TIMER, Example}
  /\ {HELP, KILL} \cap {TIMER, Example} = {}
<1> DEFINE names == <<ECHO, HELP, KILL, TIMER, Example>>
<1>1. IsInjective(names) /\ DOMAIN names = 1 .. 5
  BY CommandsAssumption
<1>2. /\ names[1] # names[2] /\ names[1] # names[3] /\ names[1] # names[4] /\ names[1] # names[5]
      /\ names[2] # names[4] /\ names[2] # names[5] /\ names[3] # names[4] /\ names[3] # names[5]
  <2> HIDE DEF names
  <2> QED BY <1>1 DEF IsInjective
<1> QED BY <1>2

\* The command and the parameters of a line do not change while it is handled.
LEMMA Frozen ==
  ASSUME UNCHANGED <<line, commands>>
  PROVE  /\ Runs(line, Example)' <=> Runs(line, Example)
         /\ Parsed(line)' = Parsed(line)
         /\ OptionsOf(CmdName(line))' = OptionsOf(CmdName(line))
         /\ Shown(line)' = Shown(line)
BY DEF Runs, Invokes, Parsed, OptionsOf, Command, CmdName, Shown

\* The options of a command come as HELP shows them.
LEMMA OptionsShown ==
  ASSUME CommandsTypeOK, Tokens(line) # <<>>, Command(CmdName(line)) # {},
         NEW k \in 1 .. Len(Parsed(line).options)
  PROVE  LET o     == Parsed(line).options[k]
             shown == HelpOptions(OptionsOf(CmdName(line)))
         IN o.name \in ToSet(IF o.arg = <<>> THEN shown.flags ELSE shown.withArg)
<1> DEFINE opts == OptionsOf(CmdName(line))
           o == Parsed(line).options[k]
<1>1. opts \in Seq(Chars)
  <2> DEFINE c == CHOOSE c \in Command(CmdName(line)) : TRUE
  <2>1. c \in Command(CmdName(line))
    OBVIOUS
  <2>2. c \in commands
    BY <2>1 DEF Command
  <2> HIDE DEF c
  <2>3. c.options \in Seq(Chars)
    BY <2>2 DEF CommandsTypeOK
  <2> QED BY <2>3 DEF OptionsOf, c
<1>2. Parsed(line) \in Params(opts, ToSet(line))
  BY LineType DEF CommandsTypeOK
<1> HIDE DEF opts
<1>3. o \in Taken(opts, ToSet(line))
  <2> DEFINE os == Parsed(line).options
  <2>1. os \in Seq(Taken(opts, ToSet(line))) /\ k \in 1 .. Len(os)
    BY <1>2 DEF Params
  <2> HIDE DEF os
  <2>2. os[k] \in Taken(opts, ToSet(line))
    BY <2>1
  <2> QED BY <2>2 DEF os
<1> HIDE DEF o
<1>4. Declared(opts, o.name) /\ (o.arg = <<>> <=> ~TakesArg(opts, o.name))
  BY <1>3 DEF Taken
<1>5. IF TakesArg(opts, o.name) THEN o.name \in ToSet(HelpOptions(opts).withArg)
                                ELSE o.name \in ToSet(HelpOptions(opts).flags)
  BY <1>1, <1>4, HelpShows
<1> QED BY <1>4, <1>5 DEF o, opts

\* Quoted text is handled by ECHO, which says it (TypeQuoted).
LEMMA QuotedHandled ==
  ASSUME CommandsInv, ParseCommand, typed # <<>>
  PROVE  RunEcho /\ (faults' = {} => phase' = "done" /\ said' = Said(Head(typed)))
<1>1. PICK t \in Texts : typed = <<t>>
  BY DEF CommandsInv
<1>2. line = Quoted(t) /\ Head(typed) = t
  BY <1>1 DEF CommandsInv, ParseCommand
<1>3. Valued(Chars) /\ NamedAgent /\ Command(ECHO) = {Default(ECHO, <<>>)}
  BY TypedValues DEF CommandsInv, ParseCommand, NamedAgent
<1>4. /\ Tokens(line) # <<>> /\ CmdName(line) = ECHO /\ Parsed(line).error = <<>>
      /\ \A r \in SayAll(Echoes(Parsed(line)).says, {}) : r = [end |-> "said", text |-> Said(t)]
  BY <1>2, <1>3, EchoSays
<1>5. ~BlankLine /\ ~UnknownCommand
  BY <1>3, <1>4 DEF BlankLine, UnknownCommand
<1>6. ASSUME NEW name, WrongParams(name)
      PROVE  FALSE
  BY <1>4, <1>6 DEF WrongParams
<1>7. ~RunHelp /\ ~RunTimer /\ ~RunExample /\ ~RunKill
  BY <1>4, NamesDiffer DEF RunHelp, RunTimer, RunExample, RunKill, Runs, Invokes
<1>8. RunEcho
  BY <1>5, <1>6, <1>7 DEF ParseCommand
<1>9. Execute(Parsed(line), Echoes(Parsed(line)))
  BY <1>8 DEF RunEcho
<1>10. ASSUME faults' = {}
       PROVE  phase' = "done" /\ said' = Said(t)
  <2>1. PICK s \in SayAll(Echoes(Parsed(line)).says, faults') :
          \/ s.end = "said"   /\ Finish(Parsed(line), s.text, Echoes(Parsed(line)).status, FALSE)
          \/ s.end = "hangs"  /\ Hangs
          \/ /\ s.end = "throws" \/ (s.end = "said" /\ "throws" \in faults')
             /\ CatchThrown(Parsed(line))
    BY <1>9 DEF Execute
  <2>2. s = [end |-> "said", text |-> Said(t)]
    BY <1>4, <1>10, <2>1
  <2>3. s.end = "said" /\ s.text = Said(t) /\ s.end # "hangs" /\ s.end # "throws"
    BY <2>2
  <2>4. Finish(Parsed(line), s.text, Echoes(Parsed(line)).status, FALSE)
    BY <1>10, <2>1, <2>3
  <2> QED BY <2>3, <2>4 DEF Finish
<1> QED BY <1>2, <1>8, <1>10

\* KILL keeps the invariant.
LEMMA KillKeeps ==
  ASSUME CommandsInv, ParseCommand, RunKill
  PROVE  CommandsInv' \/ Handled
<1> DEFINE pl == Parsed(line)
<1>1. typed = <<>>
  <2> SUFFICES ASSUME typed # <<>> PROVE FALSE
    OBVIOUS
  <2>1. RunEcho
    BY QuotedHandled
  <2> QED BY <2>1, NamesDiffer DEF RunEcho, RunKill, Runs, Invokes
<1>2. /\ phase = "taken" /\ typed' = <<>> /\ line' = line /\ pending' = pending
      /\ faults' \subseteq Faults /\ CommandsTypeOK /\ params = NoParams
  BY <1>1 DEF RunKill, ParseCommand, CommandsInv, Faults
<1>3. /\ line \in Seq(Chars) /\ pending \in Seq(Seq(Chars)) /\ Len(pending) <= MaxPending
      /\ status \in -2 .. 4 /\ threw \in BOOLEAN
  BY <1>2 DEF CommandsTypeOK
<1>4. Runs(line, KILL) /\ Tokens(line) # <<>> /\ CmdName(line) = KILL /\ Command(KILL) # {}
  BY DEF RunKill, Runs, Invokes
<1>5. pl.options = <<>>
  BY <1>2, <1>3, <1>4, HelpNoOptions
<1>6. OfLine(line, <<>>) /\ OfLine(line, ToUser(<<>>))
  <2>1. <<>> \in Seq(ToSet(line) \cup {Space})
    OBVIOUS
  <2> QED BY <1>3, <2>1, WordsOfLine, ToUserOfLine
<1>7. PICK s \in Say(ToUser(<<>>), faults') :
        \/ s.end = "said" /\ Command(TIMER) # {} /\ (Stop \/ StopFails(pl, s.text))
        \/ /\ s.end = "throws" \/ (s.end = "said" /\ Command(TIMER) = {})
           /\ CatchThrown(pl)
           /\ UNCHANGED <<commands, substitutions>>
  BY DEF RunKill
<1> HIDE DEF pl
<1>8. ASSUME params'.options = <<>>
      PROVE  OptionsAsHelpSays'
  <2>1. Len(params'.options) = 0
    BY <1>8
  <2> QED BY <2>1 DEF OptionsAsHelpSays
<1>9. CASE Stop
  <2>1. /\ phase' = "stopped" /\ params' = NoParams /\ substitutions' = {} /\ commands' = {}
        /\ UNCHANGED <<status, threw>>
    BY <1>2, <1>9 DEF Stop, AgentQuit
  <2>2. CommandsTypeOK'
    BY <1>2, <1>3, <2>1 DEF CommandsTypeOK
  <2>3. OptionsAsHelpSays'
    BY <1>8, <2>1 DEF NoParams
  <2> QED BY <1>2, <2>1, <2>2, <2>3 DEF CommandsInv, EchoedVerbatim, OnlyFlawedLinesStop
<1>10. CASE StopFails(pl, s.text)
  <2>1. /\ phase' = "done" /\ params' = pl /\ status' = status /\ threw' = threw
        /\ substitutions' = substitutions
        /\ commands' = commands \ (Command(TIMER) \cup Command(Example))
    BY <1>10 DEF StopFails, Finish
  <2>2. commands' \subseteq commands
    BY <2>1
  <2>3. CommandsTypeOK'
    BY <1>2, <1>3, <2>1, <2>2 DEF CommandsTypeOK
  <2>4. OptionsAsHelpSays'
    BY <1>5, <1>8, <2>1
  <2>5. Registered(AgentName)' = Registered(AgentName)
    BY <2>1 DEF Registered
  <2>6. Command(ECHO)' = Command(ECHO)
    BY <2>1, NamesDiffer DEF Command
  <2>7. /\ Registered(AgentName)' = {[name |-> AgentName, value |-> Name, external |-> TRUE]}
        /\ Command(ECHO)' = {Default(ECHO, <<>>)}
        /\ \A c \in commands' : c.name \in {HELP, KILL} => c.options = <<>>
    BY <1>2, <2>2, <2>5, <2>6 DEF CommandsInv
  <2> QED BY <1>2, <2>1, <2>3, <2>4, <2>7 DEF CommandsInv, EchoedVerbatim, OnlyFlawedLinesStop
<1>11. CASE CatchThrown(pl) /\ UNCHANGED <<commands, substitutions>>
  <2>1. Ends(pl) /\ Statuses
    BY <1>2, <1>5, <1>6, <1>11, CatchThrownEnds
  <2>2. UNCHANGED <<line, typed, commands, substitutions>>
    BY <1>1, <1>2, <1>11
  <2>3. Handled
    BY <1>2, <1>3, <1>4, <2>1, <2>2 DEF Handled, pl
  <2> QED BY <2>3
<1> QED BY <1>7, <1>9, <1>10, <1>11

\* So does every other line.
LEMMA HandledKeeps ==
  ASSUME CommandsInv, ParseCommand, Handled
  PROVE  CommandsInv'
<1>1. Handled
  OBVIOUS
<1>2. PICK pl : /\ Ends(pl)
                /\ \/ pl = NoParams
                   \/ pl = Parsed(line) /\ Tokens(line) # <<>> /\ Command(CmdName(line)) # {}
  BY <1>1 DEF Handled
<1>3. phase = "taken" /\ params = NoParams /\ UNCHANGED <<line, typed, commands, substitutions>>
  BY <1>1 DEF ParseCommand, CommandsInv, Handled
<1>4. phase' \in {"done", "hangs", "aborts"}
  BY <1>2 DEF Ends
<1>5. CommandsTypeOK'
  BY <1>1, <1>3, <1>4 DEF Handled, Statuses, CommandsInv, CommandsTypeOK
<1>6. phase' # "stopped" =>
        /\ Registered(AgentName)' = {[name |-> AgentName, value |-> Name, external |-> TRUE]}
        /\ Command(ECHO)' = {Default(ECHO, <<>>)}
        /\ \A c \in commands' : c.name \in {HELP, KILL} => c.options = <<>>
  BY <1>3 DEF CommandsInv, Registered, Command
<1>7. phase' # "done" => params' = NoParams
  BY <1>2, <1>3 DEF Ends
<1>8. typed' # <<>> => /\ typed' \in {<<t>> : t \in Texts}
                       /\ phase' # "taken"
  BY <1>3, <1>4 DEF CommandsInv
<1>9. EchoedVerbatim'
  <2> SUFFICES ASSUME typed # <<>>, faults' = {}
               PROVE  phase' = "done" /\ said' = Said(Head(typed))
    BY <1>3 DEF EchoedVerbatim
  <2> QED BY QuotedHandled
<1>10. OptionsAsHelpSays'
  <2>1. params' = NoParams \/ (params' = pl /\ pl # NoParams)
    BY <1>2, <1>3 DEF Ends
  <2>2. CASE params' = NoParams
    <3>1. Len(params'.options) = 0
      BY <2>2 DEF NoParams
    <3> QED BY <3>1 DEF OptionsAsHelpSays
  <2>3. CASE params' = pl /\ pl # NoParams
    <3>1. params' = Parsed(line) /\ Tokens(line) # <<>> /\ Command(CmdName(line)) # {}
      BY <1>2, <2>3
    <3>2. OptionsOf(CmdName(line))' = OptionsOf(CmdName(line))
      BY <1>3, Frozen
    <3> DEFINE opts == OptionsOf(CmdName(line))
               Good(o) == o.name \in ToSet(IF o.arg = <<>> THEN HelpOptions(opts).flags
                                                          ELSE HelpOptions(opts).withArg)
    <3>3. \A k \in 1 .. Len(params'.options) : Good(params'.options[k])
      BY <3>1, OptionsShown DEF CommandsInv
    <3> QED BY <3>2, <3>3 DEF OptionsAsHelpSays
  <2> QED BY <2>1, <2>2, <2>3
<1>11. OnlyFlawedLinesStop'
  <2>1. phase' = "hangs" => HangCause(line)
    BY <1>2 DEF Ends
  <2>2. phase' = "aborts" =>
          \/ ThrowCause(line, faults')
          \/ Runs(line, Example) /\ ("other" \in faults' \/ pl.options # <<>>)
    BY <1>2 DEF Ends
  <2>3. pl.options # <<>> => pl = Parsed(line)
    <3>1. NoParams.options = <<>>
      BY DEF NoParams
    <3> QED BY <1>2, <3>1
  <2>4. Runs(line, Example)' <=> Runs(line, Example)
    BY <1>3, Frozen
  <2>5. Parsed(line)' = Parsed(line) /\ Shown(line)' = Shown(line)
    BY <1>3, Frozen
  <2>6. phase' = "hangs" => LET chars == ToSet(line') \cup Shown(line)'
                            IN "$" \in chars /\ Digits \cap chars # {}
    BY <1>3, <2>1, <2>5 DEF HangCause
  <2>7. phase' = "aborts" =>
          \/ "\\" \in ToSet(line')
          \/ \E v \in substitutions' : "\\" \in ToSet(v.value)
          \/ "throws" \in faults'
          \/ Runs(line, Example)' /\ ("other" \in faults' \/ Parsed(line)'.options # <<>>)
    BY <1>3, <2>2, <2>3, <2>4, <2>5 DEF ThrowCause
  <2> QED BY <2>6, <2>7 DEF OnlyFlawedLinesStop
<1> QED BY <1>5, <1>6, <1>7, <1>8, <1>9, <1>10, <1>11 DEF CommandsInv

\* Without parameters there is no option to be shown.
LEMMA NoParamsShown ==
  ASSUME params = NoParams
  PROVE  OptionsAsHelpSays
<1>1. Len(params.options) = 0
  BY DEF NoParams
<1> QED BY <1>1 DEF OptionsAsHelpSays

\* A step between two lines: it does not touch what the agent is known by.
Between ==
  /\ phase' \in {"idle", "taken"} /\ params' = NoParams
  /\ CommandsTypeOK'
  /\ Registered(AgentName)' = Registered(AgentName)
  /\ Command(ECHO)' = Command(ECHO)
  /\ \A c \in commands' : c.name \in {HELP, KILL} => c.options = <<>>
  /\ typed' # <<>> =>
       typed' \in {<<t>> : t \in Texts} /\ (phase' = "taken" => line' = Quoted(Head(typed')))

\* What happens between two lines keeps the invariant.
LEMMA BetweenKeeps ==
  ASSUME CommandsInv, phase \in {"idle", "done"}, Between
  PROVE  CommandsInv'
<1>1. Len(params'.options) = 0
  BY DEF Between, NoParams
<1>2. OptionsAsHelpSays'
  BY <1>1 DEF OptionsAsHelpSays
<1> QED BY <1>2 DEF CommandsInv, Between, EchoedVerbatim, OnlyFlawedLinesStop

\* So does a line that is given (cmd.cpp:261-268).
LEMMA GiveKeeps ==
  ASSUME CommandsInv, NEW l \in Seq(Chars), NEW t, Give(l, t),
         pending' \in Seq(Seq(Chars)), Len(pending') <= MaxPending,
         t # <<>> => t \in {<<x>> : x \in Texts} /\ l = Quoted(Head(t))
  PROVE  CommandsInv'
<1>1. CommandsTypeOK'
  BY DEF Give, CommandsInv, CommandsTypeOK
<1>2. Registered(AgentName)' = Registered(AgentName) /\ Command(ECHO)' = Command(ECHO)
  BY DEF Give, Registered, Command
<1>3. /\ phase = "idle" /\ phase' = "taken" /\ params' = NoParams /\ typed' = t /\ line' = l
      /\ \A c \in commands' : c.name \in {HELP, KILL} => c.options = <<>>
  BY DEF Give, CommandsInv
<1> QED BY <1>1, <1>2, <1>3, BetweenKeeps DEF Between

\* A line that has been fired leaves the others pending.
LEMMA RemoveAtType ==
  ASSUME NEW S, NEW s \in Seq(S), NEW i \in 1 .. Len(s)
  PROVE  RemoveAt(s, i) \in Seq(S) /\ Len(RemoveAt(s, i)) = Len(s) - 1
<1> DEFINE a == SubSeq(s, 1, i - 1)
           b == SubSeq(s, i + 1, Len(s))
<1>1. a \in Seq(S) /\ Len(a) = i - 1
  OBVIOUS
<1>2. b \in Seq(S) /\ Len(b) = Len(s) - i
  OBVIOUS
<1>3. RemoveAt(s, i) = a \o b
  BY DEF RemoveAt
<1> HIDE DEF a, b
<1>4. a \o b \in Seq(S) /\ Len(a \o b) = Len(a) + Len(b)
  BY <1>1, <1>2, Concat
<1> QED BY <1>1, <1>2, <1>3, <1>4

\* So does the return of a handler.
LEMMA ReturnKeeps ==
  ASSUME CommandsInv, HandlerReturns
  PROVE  CommandsInv'
<1>1. <<>> \in Seq(Chars)
  OBVIOUS
<1>4. 0 \in -2 .. 4 /\ FALSE \in BOOLEAN
  OBVIOUS
<1>5. /\ phase' = "idle" /\ line' = <<>> /\ status' = 0 /\ threw' = FALSE /\ faults' = {}
      /\ substitutions' = substitutions /\ commands' = commands /\ pending' = pending
  BY DEF HandlerReturns
<1>2. CommandsTypeOK'
  BY <1>1, <1>4, <1>5 DEF CommandsInv, CommandsTypeOK
<1>3. Registered(AgentName)' = Registered(AgentName) /\ Command(ECHO)' = Command(ECHO)
  BY DEF HandlerReturns, Registered, Command
<1>6. \A c \in commands' : c.name \in {HELP, KILL} => c.options = <<>>
  BY DEF HandlerReturns, CommandsInv
<1> QED BY <1>2, <1>3, <1>6, BetweenKeeps DEF Between, HandlerReturns

\* No plugin gets at the agent's own name (set_value, unregister_internal).
LEMMA AgentNextKeeps ==
  ASSUME CommandsTypeOK, NamedAgent, AgentNext
  PROVE  /\ substitutions' \subseteq
              [name: PluginNames \cup {AgentName, UserTitle}, value: Seq(Chars), external: BOOLEAN]
         /\ Registered(AgentName)' = Registered(AgentName)
<1> DEFINE T == [name: PluginNames \cup {AgentName, UserTitle}, value: Seq(Chars), external: BOOLEAN]
           r == [name |-> AgentName, value |-> Name, external |-> TRUE]
<1>1. substitutions \subseteq T
  BY DEF CommandsTypeOK
<1>2. Registered(AgentName) = {r} /\ Registered(AgentName) = {v \in substitutions : v.name = AgentName}
  BY DEF NamedAgent, Registered
<1>3. PICK name \in PluginNames \cup {AgentName, UserTitle} :
        \/ RegisterSubstitution(name)
        \/ \E value \in Values : SetSubstitution(name, value)
        \/ UnregisterSubstitution(name)
  BY DEF AgentNext
<1>4. Internal(AgentName) = {}
  BY <1>2 DEF Internal
<1>5. Registered(AgentName)' = {v \in substitutions' : v.name = AgentName}
  BY DEF Registered
<1>6. CASE RegisterSubstitution(name)
  <2> DEFINE w == [name |-> name, value |-> <<>>, external |-> FALSE]
  <2>1. Registered(name) = {} /\ substitutions' = substitutions \cup {w}
    BY <1>6 DEF RegisterSubstitution
  <2>2. name # AgentName
    BY <1>2, <2>1
  <2>3. <<>> \in Seq(Chars)
    OBVIOUS
  <2>4. w \in T /\ w.name = name
    BY <2>3
  <2> HIDE DEF w
  <2>5. {u \in substitutions' : u.name = AgentName} = {u \in substitutions : u.name = AgentName}
    BY <2>1, <2>2, <2>4
  <2> QED BY <1>1, <1>2, <1>5, <2>1, <2>4, <2>5
<1>7. CASE \E value \in Values : SetSubstitution(name, value)
  <2>1. PICK value \in Values, v \in Internal(name) :
          substitutions' = (substitutions \ {v}) \cup {[v EXCEPT !.value = value]}
    BY <1>7 DEF SetSubstitution
  <2> DEFINE w == [v EXCEPT !.value = value]
  <2>2. name # AgentName /\ v \in substitutions /\ v.name = name
    BY <1>4, <2>1 DEF Internal, Registered
  <2>3. value \in Seq(Chars)
    BY AgentAssumption
  <2>4. w \in T /\ w.name = v.name
    BY <1>1, <2>2, <2>3
  <2> HIDE DEF w
  <2>5. substitutions' = (substitutions \ {v}) \cup {w}
    BY <2>1 DEF w
  <2>6. {u \in substitutions' : u.name = AgentName} = {u \in substitutions : u.name = AgentName}
    BY <2>2, <2>4, <2>5
  <2> QED BY <1>1, <1>2, <1>5, <2>4, <2>5, <2>6
<1>8. CASE UnregisterSubstitution(name)
  <2>1. Internal(name) # {} /\ substitutions' = substitutions \ Internal(name)
    BY <1>8 DEF UnregisterSubstitution
  <2>2. name # AgentName
    BY <1>4, <2>1
  <2>3. \A v \in Internal(name) : v.name = name
    BY DEF Internal, Registered
  <2> QED BY <1>1, <1>2, <1>5, <2>1, <2>2, <2>3
<1> QED BY <1>3, <1>6, <1>7, <1>8

\* What a command is made of.
CommandTypes ==
  [name: {ECHO, HELP, KILL, TIMER, Example}, options: Seq(Chars), desc: Seq(Chars),
   usage: Seq(Chars)]

\* So does what a plugin does to commands and variables.
LEMMA PluginKeeps ==
  ASSUME CommandsInv, PluginStep
  PROVE  CommandsInv'
<1>1. /\ phase = "idle" /\ UNCHANGED <<phase, line, typed, params, said, status, threw, faults, pending>>
      /\ \/ ((\E cmd \in PluginCommands : Register(cmd)) \/ Unregister) /\ UNCHANGED substitutions
         \/ AgentNext /\ UNCHANGED commands
  BY DEF PluginStep, lineVars
<1>2. ASSUME commands' \subseteq
               CommandTypes,
             substitutions' \subseteq
               [name: PluginNames \cup {AgentName, UserTitle}, value: Seq(Chars), external: BOOLEAN],
             Registered(AgentName)' = Registered(AgentName), Command(ECHO)' = Command(ECHO),
             \A c \in commands' : c.name \in {HELP, KILL} => c.options = <<>>
      PROVE  CommandsInv'
  <2>1. CommandsTypeOK'
    BY <1>1, <1>2 DEF CommandsInv, CommandsTypeOK, CommandTypes
  <2>2. Between
    BY <1>1, <1>2, <2>1 DEF Between, CommandsInv
  <2> QED BY <1>1, <2>2, BetweenKeeps
<1>3. CommandsTypeOK /\ NamedAgent
  BY <1>1 DEF CommandsInv, NamedAgent
<1>4. CASE AgentNext /\ UNCHANGED commands
  <2>1. Command(ECHO)' = Command(ECHO)
    BY <1>4 DEF Command
  <2>2. \A c \in commands' : c.name \in {HELP, KILL} => c.options = <<>>
    BY <1>1, <1>4 DEF CommandsInv
  <2>3. commands' \subseteq CommandTypes
    BY <1>3, <1>4 DEF CommandsTypeOK, CommandTypes
  <2> QED BY <1>2, <1>3, <1>4, <2>1, <2>2, <2>3, AgentNextKeeps
<1>5. CASE ((\E cmd \in PluginCommands : Register(cmd)) \/ Unregister) /\ UNCHANGED substitutions
  <2>1. Registered(AgentName)' = Registered(AgentName)
    BY <1>5 DEF Registered
  <2>2. /\ Command(ECHO)' = Command(ECHO)
        /\ commands' \subseteq CommandTypes
        /\ \A c \in commands' : c.name \in {HELP, KILL} => c.options = <<>>
    <3>1. \A c \in commands : c.name \in {HELP, KILL} => c.options = <<>>
      BY <1>1 DEF CommandsInv
    <3>2. commands \subseteq CommandTypes
      BY <1>3 DEF CommandsTypeOK, CommandTypes
    <3>3. CASE \E cmd \in PluginCommands : Register(cmd)
      <4>1. PICK cmd \in PluginCommands : commands' = commands \cup {cmd}
        BY <3>3 DEF Register
      <4>2. cmd \in CommandTypes /\ cmd.name = Example
        BY CommandsAssumption DEF CommandTypes
      <4> QED BY <3>1, <3>2, <4>1, <4>2, NamesDiffer DEF Command
    <3>4. CASE Unregister
      <4>1. commands' = commands \ {c \in commands : c.name = Example}
        BY <3>4 DEF Unregister, Command
      <4> QED BY <3>1, <3>2, <4>1, NamesDiffer DEF Command
    <3> QED BY <1>5, <3>3, <3>4
  <2>3. substitutions' \subseteq
               [name: PluginNames \cup {AgentName, UserTitle}, value: Seq(Chars), external: BOOLEAN]
    BY <1>3, <1>5 DEF CommandsTypeOK
  <2> QED BY <1>2, <2>1, <2>2, <2>3
<1> QED BY <1>1, <1>4, <1>5

\* The invariant holds when the core and the agent have registered what is theirs.
LEMMA CommandsInitKeeps == CommandsInit => CommandsInv
<1> SUFFICES ASSUME CommandsInit PROVE CommandsInv
  OBVIOUS
<1>1. <<>> \in Seq(Chars) /\ Startup \in Seq(Chars) /\ <<"r">> \in Seq(Chars)
      /\ Name \in Seq(Chars) /\ Title \in Seq(Chars) /\ MaxPending \in Nat \ {0}
  <2>1. Startup \in Seq(Chars) /\ MaxPending \in Nat \ {0}
    BY CommandsAssumption
  <2>2. "r" \in Chars
    BY CommandsAssumption
  <2>3. <<"r">> \in Seq(Chars) /\ <<>> \in Seq(Chars)
    BY <2>2
  <2>4. Name \in Seq(Chars) /\ Title \in Seq(Chars)
    BY NameTitleType
  <2> QED BY <2>1, <2>3, <2>4
<1>8. 0 \in -2 .. 4 /\ FALSE \in BOOLEAN
  OBVIOUS
<1>9. commands \subseteq CommandTypes
  BY <1>1 DEF CommandsInit, Default, CommandTypes
<1>10. substitutions \subseteq
         [name: PluginNames \cup {AgentName, UserTitle}, value: Seq(Chars), external: BOOLEAN]
  BY <1>1 DEF CommandsInit, AgentInit
<1>2. <<Startup>> \in Seq(Seq(Chars)) /\ Len(<<Startup>>) = 1
  BY <1>1
<1>11. /\ phase = "idle" /\ line = <<>> /\ status = 0 /\ threw = FALSE /\ faults = {}
       /\ pending = <<Startup>>
  BY DEF CommandsInit
<1>12. pending \in Seq(Seq(Chars)) /\ Len(pending) <= MaxPending
  <2>1. 1 <= MaxPending
    BY <1>1
  <2> QED BY <1>2, <1>11, <2>1
<1>13. line \in Seq(Chars) /\ status \in -2 .. 4 /\ threw \in BOOLEAN /\ faults \subseteq Faults
  BY <1>1, <1>8, <1>11
<1>3. CommandsTypeOK
  BY <1>9, <1>10, <1>11, <1>12, <1>13 DEF CommandsTypeOK, CommandTypes
<1>4. Registered(AgentName) = {[name |-> AgentName, value |-> Name, external |-> TRUE]}
  BY AgentAssumption DEF CommandsInit, AgentInit, Registered
<1>5. Command(ECHO) = {Default(ECHO, <<>>)}
  BY NamesDiffer DEF CommandsInit, Command, Default
<1>14. \A c \in commands : c.name \in {HELP, KILL} => c.options = <<>>
  <2> SUFFICES ASSUME NEW c \in commands, c.name \in {HELP, KILL} PROVE c.options = <<>>
    OBVIOUS
  <2>1. CASE c = Default(TIMER, <<"r">>)
    <3>1. c.name = TIMER
      BY <2>1 DEF Default
    <3> QED BY <3>1, NamesDiffer
  <2>2. CASE c = Default(ECHO, <<>>) \/ c = Default(HELP, <<>>) \/ c = Default(KILL, <<>>)
    BY <2>2 DEF Default
  <2> QED BY <2>1, <2>2 DEF CommandsInit
<1>6. params = NoParams /\ phase = "idle" /\ typed = <<>>
  BY DEF CommandsInit
<1>7. OptionsAsHelpSays
  BY <1>6, NoParamsShown
<1> QED BY <1>3, <1>4, <1>5, <1>6, <1>7, <1>14 DEF CommandsInv, EchoedVerbatim, OnlyFlawedLinesStop

\* Every step keeps it.
LEMMA CommandsStepKeeps == CommandsInv /\ [CommandsNext]_commandVars => CommandsInv'
<1> SUFFICES ASSUME CommandsInv, [CommandsNext]_commandVars PROVE CommandsInv'
  OBVIOUS
<1>1. <<>> \in Seq(Chars) /\ pending \in Seq(Seq(Chars)) /\ Len(pending) <= MaxPending
  BY DEF CommandsInv, CommandsTypeOK
<1>2. ASSUME NEW l \in Lines, Type(l)
      PROVE  CommandsInv'
  <2>1. l \in Seq(Chars) /\ Give(l, <<>>) /\ pending' = pending
    BY <1>2, CommandsAssumption DEF Type
  <2> QED BY <1>1, <2>1, GiveKeeps
<1>3. ASSUME NEW text \in Texts, TypeQuoted(text)
      PROVE  CommandsInv'
  <2>1. Quoted(text) \in Seq(Chars)
    BY QuotedType
  <2>2. Give(Quoted(text), <<text>>) /\ pending' = pending
    BY <1>3 DEF TypeQuoted
  <2>3. <<text>> \in {<<x>> : x \in Texts} /\ Head(<<text>>) = text
    OBVIOUS
  <2> QED BY <1>1, <2>1, <2>2, <2>3, GiveKeeps
<1>4. ASSUME NEW i \in 1 .. Len(pending), Fire(i)
      PROVE  CommandsInv'
  <2>1. pending[i] \in Seq(Chars) /\ Give(pending[i], <<>>) /\ pending' = RemoveAt(pending, i)
    BY <1>1, <1>4 DEF Fire
  <2>2. RemoveAt(pending, i) \in Seq(Seq(Chars)) /\ Len(RemoveAt(pending, i)) = Len(pending) - 1
    BY <1>1, RemoveAtType
  <2>3. pending' \in Seq(Seq(Chars)) /\ Len(pending') <= MaxPending
    BY <1>1, <2>1, <2>2, CommandsAssumption
  <2> QED BY <2>1, <2>3, GiveKeeps
<1>5. CASE ParseCommand
  <2>1. CASE RunKill
    BY <1>5, <2>1, HandledKeeps, KillKeeps
  <2>2. CASE ~RunKill
    BY <1>5, <2>2, HandledKeeps, LineHandled
  <2> QED BY <2>1, <2>2
<1>6. CASE HandlerReturns
  BY <1>6, ReturnKeeps
<1>7. CASE PluginStep
  BY <1>7, PluginKeeps
<1>8. CASE UNCHANGED commandVars
  <2>1. /\ UNCHANGED <<substitutions, commands, phase, line, typed, params, said>>
        /\ UNCHANGED <<status, threw, faults, pending>>
    BY <1>8 DEF commandVars, lineVars
  <2>2. CommandsTypeOK'
    BY <2>1 DEF CommandsInv, CommandsTypeOK
  <2>3. /\ Registered(AgentName)' = Registered(AgentName) /\ Command(ECHO)' = Command(ECHO)
        /\ CmdName(line)' = CmdName(line) /\ OptionsOf(CmdName(line))' = OptionsOf(CmdName(line))
    BY <2>1 DEF Registered, Command, OptionsOf, CmdName
  <2>4. /\ Parsed(line)' = Parsed(line)
        /\ \A name : Runs(line, name)' <=> Runs(line, name)
    BY <2>1 DEF Parsed, Runs, Invokes, OptionsOf, Command, CmdName
  <2>5. Shown(line)' = Shown(line)
    BY <2>1, <2>4 DEF Shown, Command
  <2>6. EchoedVerbatim' /\ OptionsAsHelpSays'
    BY <2>1, <2>3 DEF CommandsInv, EchoedVerbatim, OptionsAsHelpSays
  <2>7. OnlyFlawedLinesStop'
    BY <2>1, <2>4, <2>5 DEF CommandsInv, OnlyFlawedLinesStop
  <2>8. phase' # "stopped" => \A c \in commands' : c.name \in {HELP, KILL} => c.options = <<>>
    BY <2>1 DEF CommandsInv
  <2> QED BY <2>1, <2>2, <2>3, <2>6, <2>7, <2>8 DEF CommandsInv
<1> QED BY <1>2, <1>3, <1>4, <1>5, <1>6, <1>7, <1>8 DEF CommandsNext

\* The inductive invariant of the lines holds in every state: until the agent
\* stops it has its name and ECHO, whatever plugins register (cmd.cpp:261-325).
THEOREM CommandsInvariance == CommandsSpec => []CommandsInv
BY CommandsInitKeeps, CommandsStepKeeps, PTL DEF CommandsSpec

\* What is quoted and escaped is said by ECHO as it was typed, through the
\* tokens, the parameters, the variables and the escapes (cmd.cpp:246-480,
\* var.cpp:130-246, agent.cpp:85-90).
THEOREM QuotedIsSaid == CommandsSpec => []EchoedVerbatim
<1>1. CommandsInv => EchoedVerbatim
  BY DEF CommandsInv
<1> QED BY <1>1, CommandsInvariance, PTL

\* The options of a command come as HELP shows them: both read one string, in
\* different ways (cmd.cpp:195-228 and 422-480).
THEOREM HelpIsRight == CommandsSpec => []OptionsAsHelpSays
<1>1. CommandsInv => OptionsAsHelpSays
  BY DEF CommandsInv
<1> QED BY <1>1, CommandsInvariance, PTL

\* A line hangs or ends the agent only for what is wrong with it, with what HELP
\* shows for it, with a value, with a write or with a plugin's command that throws
\* (cmd.cpp:171-325, var.cpp:199-215, output.cpp:118-144).
THEOREM FlawsStop == CommandsSpec => []OnlyFlawedLinesStop
<1>1. CommandsInv => OnlyFlawedLinesStop
  BY DEF CommandsInv
<1> QED BY <1>1, CommandsInvariance, PTL

-----------------------------------------------------------------------------

\* A number of timers becomes an ID (NextId of timer.cpp:145).
LEMMA ToIdType == \A n \in Nat : ToId(n) \in Ids
<1> TAKE n \in Nat
<1>1. IdHalf \in Nat /\ IdHalf > 0
  BY TimerAssumption
<1> DEFINE d == 2 * IdHalf
<1>2. d \in Nat /\ d > 0
  BY <1>1
<1>3. n + IdHalf \in Nat
  BY <1>1
<1> HIDE DEF d
<1>4. (n + IdHalf) % d \in 0 .. d - 1
  BY <1>2, <1>3
<1> QED
  BY <1>1, <1>4 DEF ToId, Ids, d

\* Inserting a timer under its own ID, or erasing entries, keeps the rest of
\* the list.
LEMMA EraseList ==
  ASSUME NEW I
  PROVE  /\ DOMAIN Erase(I) = DOMAIN list \ I
         /\ \A i \in DOMAIN list \ I : Erase(I)[i] = list[i]
  BY DEF Erase

\* Delete(D) changes the objects D only.
LEMMA DeleteObjects ==
  ASSUME TypeOK, NEW D, Delete(D)
  PROVE  /\ state' \in [Timers -> {"new", "live", "deleted"}]
         /\ id' \in [Timers -> Ids]
         /\ period' \in [Timers -> Nat]
         /\ recurring' \in [Timers -> BOOLEAN]
         /\ system' \in [Timers -> BOOLEAN]
         /\ \A t \in Timers : t \in D => state'[t] = "deleted"
         /\ \A t \in Timers : t \notin D => state'[t] = state[t] /\ id'[t] = id[t]
         /\ recurring' = recurring
<1>1. 0 \in Ids
  BY TimerAssumption DEF Ids
<1> QED
  BY <1>1 DEF TypeOK, Delete

\* Deleting the objects of the erased entries keeps the list sound.
LEMMA EraseSound ==
  ASSUME IndInv, NEW I, list' = Erase(I), Delete({list[i] : i \in DOMAIN list \cap I})
  PROVE  /\ ListSound'
         /\ DOMAIN list' \subseteq Ids
         /\ \A i \in DOMAIN list' : list'[i] \in Timers
<1> DEFINE D == {list[i] : i \in DOMAIN list \cap I}
<1>1. DOMAIN list' = DOMAIN list \ I /\ \A i \in DOMAIN list' : list'[i] = list[i]
  BY EraseList
<1>2. TypeOK /\ ListSound
  BY DEF IndInv
<1>3. ASSUME NEW i \in DOMAIN list'
      PROVE  list[i] \in Timers /\ list[i] \notin D
  BY <1>1, <1>2, <1>3 DEF TypeOK, ListSound
<1>4. \A t \in Timers : t \notin D => state'[t] = state[t] /\ id'[t] = id[t]
  BY <1>2, DeleteObjects
<1> QED
  BY <1>1, <1>2, <1>3, <1>4 DEF TypeOK, ListSound

-----------------------------------------------------------------------------
(* The steps.                                                              *)

LEMMA InitInv ==
  ASSUME Init
  PROVE  IndInv
<1>1. 0 \in Ids
  BY TimerAssumption DEF Ids
<1>2. DOMAIN list = {}
  BY DEF Init
<1>3. TypeOK
  <2>1. /\ id \in [Timers -> Ids] /\ result \in [Timers -> Ids]
        /\ fired \in [Timers -> 0 .. FireCap]
    BY <1>1 DEF Init, FireCap
  <2>2. sinceTick \in 0 .. Resolution
    BY TimerAssumption DEF Init
  <2>3. /\ left \in [Timers -> Nat] /\ period \in [Timers -> Nat] /\ now \in Nat
        /\ recurring \in [Timers -> BOOLEAN] /\ system \in [Timers -> BOOLEAN]
    BY DEF Init
  <2>4. /\ state \in [Timers -> {"new", "live", "deleted"}]
        /\ caller \in [Timers -> {"none", "unlocked", "returned"}]
        /\ asked \subseteq Timers /\ stopped \in BOOLEAN
    BY DEF Init
  <2> QED
    BY <1>2, <2>1, <2>2, <2>3, <2>4 DEF TypeOK
<1>4. ListSound
  BY <1>2 DEF ListSound
<1> QED
  BY <1>3, <1>4 DEF Init, IndInv, OneShotFiresOnce

LEMMA AddInv ==
  ASSUME IndInv, IsFiniteSet(DOMAIN list),
         NEW t \in Timers, NEW p \in Nat, NEW recur \in BOOLEAN,
         NEW sys \in BOOLEAN, Add(t, p, recur, sys)
  PROVE  IndInv'
<1> DEFINE n == NextId
<1>0. n \in Ids
  <2>1. Cardinality(DOMAIN list) \in Nat
    BY FS_CardinalityType
  <2> QED
    BY <2>1, ToIdType DEF NextId
<1>1. TypeOK /\ ListSound /\ OneShotFiresOnce
  BY DEF IndInv
<1>2. /\ DOMAIN list' = DOMAIN list \cup {n}
      /\ list'[n] = t
      /\ \A i \in DOMAIN list : i # n => list'[i] = list[i]
  BY DEF Add
<1>3. state[t] = "new" /\ state'[t] = "live" /\ id'[t] = n /\ fired' = fired
  BY <1>0, <1>1 DEF Add, TypeOK
<1>4. \A u \in Timers : u # t => /\ state'[u] = state[u] /\ id'[u] = id[u]
                                /\ recurring'[u] = recurring[u]
  BY <1>1 DEF Add, TypeOK
<1>5. TypeOK'
  <2> HIDE DEF n
  <2>1. /\ DOMAIN list' \subseteq Ids
        /\ \A i \in DOMAIN list' : list'[i] \in Timers
    BY <1>0, <1>1, <1>2 DEF TypeOK
  <2>2. id' \in [Timers -> Ids]
    BY <1>0, <1>1 DEF TypeOK, Add, n
  <2> QED
    BY <1>1, <2>1, <2>2 DEF TypeOK, Add
<1>6. ListSound'
  <2> HIDE DEF n
  <2> SUFFICES ASSUME NEW i \in DOMAIN list'
               PROVE  state'[list'[i]] = "live" /\ id'[list'[i]] = i
    BY DEF ListSound
  <2>1. CASE i = n
    BY <2>1, <1>2, <1>3
  <2>2. CASE i # n
    BY <2>2, <1>1, <1>2, <1>3, <1>4 DEF ListSound, TypeOK
  <2> QED
    BY <2>1, <2>2
<1>7. \A u \in Timers : /\ state'[u] = "new" => fired'[u] = 0
                        /\ state'[u] = "live" /\ ~recurring'[u] => fired'[u] = 0
  BY <1>3, <1>4 DEF IndInv
<1>8. OneShotFiresOnce'
  BY <1>1, <1>3, <1>4 DEF IndInv, OneShotFiresOnce
<1> QED
  BY <1>5, <1>6, <1>7, <1>8 DEF IndInv

LEMMA FiniteList ==
  ASSUME TypeOK
  PROVE  IsFiniteSet(DOMAIN list)
<1>1. IsFiniteSet(Ids)
  BY FS_Interval, TimerAssumption DEF Ids
<1> QED
  BY <1>1, FS_Subset DEF TypeOK

\* What a step that erases entries with their objects, and only restarts or
\* ends the fired timers among the others, leaves true.
LEMMA EraseInv ==
  ASSUME IndInv, TypeOK', NEW I, list' = Erase(I),
         Delete({list[i] : i \in DOMAIN list \cap I}), fired' = fired
  PROVE  IndInv'
<1>1. ListSound'
  BY EraseSound
<1>2. \A u \in Timers : state'[u] = state[u] \/ state'[u] = "deleted"
  BY DeleteObjects DEF IndInv
<1>3. recurring' = recurring
  BY DeleteObjects DEF IndInv
<1>4. TypeOK /\ OneShotFiresOnce
  BY DEF IndInv
<1> QED
  BY <1>1, <1>2, <1>3, <1>4 DEF IndInv, OneShotFiresOnce, TypeOK

LEMMA RemoveInv ==
  ASSUME IndInv, NEW i \in DOMAIN list, RemoveTimer(i)
  PROVE  IndInv'
<1>1. TypeOK
  BY DEF IndInv
<1>2. CASE system[list[i]]
  BY <1>2, <1>1 DEF RemoveTimer, IndInv, TypeOK, ListSound, OneShotFiresOnce
<1>3. CASE ~system[list[i]]
  <2>1. list' = Erase({i}) /\ Delete({list[i]}) /\ fired' = fired
    BY <1>3 DEF RemoveTimer, SysRemoveTimer
  <2>2. {list[j] : j \in DOMAIN list \cap {i}} = {list[i]}
    OBVIOUS
  <2>3. /\ DOMAIN list' \subseteq Ids
        /\ \A j \in DOMAIN list' : list'[j] \in Timers
    BY <2>1, <2>2, EraseSound
  <2>4. TypeOK'
    <3>1. asked' \subseteq Timers
      BY <1>1 DEF RemoveTimer, TypeOK
    <3> QED
      BY <1>1, <2>1, <2>3, <3>1, DeleteObjects DEF RemoveTimer, TypeOK
  <2> QED
    BY <2>1, <2>2, <2>4, EraseInv
<1> QED
  BY <1>2, <1>3

LEMMA ClearInv ==
  ASSUME IndInv, ClearTimers
  PROVE  IndInv'
<1> DEFINE I == DOMAIN list
<1>1. TypeOK
  BY DEF IndInv
<1>2. list' = Erase(I) /\ Delete({list[i] : i \in DOMAIN list \cap I}) /\ fired' = fired
  BY DEF ClearTimers
<1>3. /\ DOMAIN list' \subseteq Ids
      /\ \A j \in DOMAIN list' : list'[j] \in Timers
  BY <1>2, EraseSound
<1>4. TypeOK'
  BY <1>1, <1>2, <1>3, DeleteObjects DEF ClearTimers, callVars, TypeOK
<1> QED
  BY <1>2, <1>4, EraseInv

LEMMA ReturnInv ==
  ASSUME IndInv, NEW t \in Timers, ReturnId(t)
  PROVE  IndInv'
<1>1. TypeOK
  BY DEF IndInv
<1>2. \A u \in Timers : id[u] \in Ids
  BY <1>1 DEF TypeOK
<1>3. result' \in [Timers -> Ids]
  BY <1>1, <1>2 DEF ReturnId, TypeOK
<1> QED
  BY <1>1, <1>3
  DEF ReturnId, IndInv, TypeOK, ListSound, OneShotFiresOnce, objVars

LEMMA TickInv ==
  ASSUME IndInv, Tick
  PROVE  IndInv'
<1>1. TypeOK
  BY DEF IndInv
<1>2. left' \in [Timers -> Nat] /\ now' \in Nat /\ sinceTick' \in 0 .. Resolution
  BY <1>1, TimerAssumption DEF Tick, TypeOK
<1>3. UNCHANGED <<list, state, id, period, recurring, system, fired, caller,
                  result, asked, stopped>>
  BY DEF Tick, callVars
<1>4. TypeOK'
  BY <1>1, <1>2, <1>3 DEF TypeOK
<1> QED
  BY <1>3, <1>4 DEF IndInv, ListSound, OneShotFiresOnce

\* CheckTimers is the step that could fire a one-shot timer twice: it was
\* live, so it had not fired, and it is deleted in the step that fires it.
LEMMA CheckInv ==
  ASSUME IndInv, CheckTimers
  PROVE  IndInv'
<1> DEFINE firing == {list[i] : i \in Ready}
           done   == {i \in Ready : Completes(i)}
           D      == {list[i] : i \in DOMAIN list \cap done}
<1>1. TypeOK /\ ListSound /\ OneShotFiresOnce
  BY DEF IndInv
<1>2. done \subseteq DOMAIN list /\ Ready \subseteq DOMAIN list
  BY DEF Ready
<1>3. {list[i] : i \in done} = D
  BY <1>2
<1>4. list' = Erase(done) /\ Delete(D)
  <2>1. Delete({list[i] : i \in done})
    BY DEF CheckTimers
  <2> QED
    BY <1>3, <2>1 DEF CheckTimers
<1>5. /\ ListSound'
      /\ DOMAIN list' \subseteq Ids
      /\ \A j \in DOMAIN list' : list'[j] \in Timers
  BY <1>4, EraseSound
<1>6. /\ fired' = [t \in Timers |-> IF t \in firing /\ fired[t] < FireCap
                                    THEN fired[t] + 1 ELSE fired[t]]
      /\ left' = [t \in Timers |-> IF t \in firing THEN period[t] ELSE left[t]]
  BY DEF CheckTimers
<1>7. fired' \in [Timers -> 0 .. FireCap] /\ left' \in [Timers -> Nat]
  BY <1>1, <1>6 DEF TypeOK, FireCap
<1>8. TypeOK'
  <2>1. /\ UNCHANGED <<now, caller, result, asked, stopped>>
        /\ sinceTick' \in 0 .. Resolution
    BY TimerAssumption DEF CheckTimers, callVars
  <2> QED
    BY <1>1, <1>4, <1>5, <1>7, <2>1, DeleteObjects DEF TypeOK
<1>9. /\ \A t \in Timers : t \in D => state'[t] = "deleted"
      /\ \A t \in Timers : t \notin D => state'[t] = state[t]
      /\ recurring' = recurring
  BY <1>1, <1>4, DeleteObjects
<1>11. ASSUME NEW t \in Timers, t \in firing
       PROVE  state[t] = "live" /\ (~recurring[t] => t \in D)
  BY <1>1, <1>2, <1>11 DEF ListSound, Completes
<1>12. ASSUME NEW t \in Timers, ~recurring[t]
       PROVE  /\ state'[t] = "new" => fired'[t] = 0
              /\ state'[t] = "live" => fired'[t] = 0
              /\ fired'[t] <= 1
              /\ fired'[t] = 1 => state'[t] = "deleted"
  <2>1. CASE t \in firing
    <3>1. fired[t] = 0 /\ state'[t] = "deleted"
      BY <2>1, <1>9, <1>11, <1>12 DEF IndInv
    <3>2. fired'[t] = 1
      BY <2>1, <3>1, <1>6 DEF FireCap
    <3> QED
      BY <3>1, <3>2
  <2>2. CASE t \notin firing
    <3>1. fired'[t] = fired[t]
      BY <2>2, <1>6
    <3>2. state'[t] = state[t] \/ state'[t] = "deleted"
      BY <1>9
    <3> QED
      BY <3>1, <3>2, <1>1, <1>12 DEF IndInv, OneShotFiresOnce
  <2> QED
    BY <2>1, <2>2
<1>13. ASSUME NEW t \in Timers, state'[t] = "new"
       PROVE  fired'[t] = 0
  <2>1. state[t] = "new"
    BY <1>9, <1>13
  <2>2. t \notin firing
    BY <2>1, <1>11
  <2> QED
    BY <2>1, <2>2, <1>6 DEF IndInv
<1> QED
  BY <1>5, <1>8, <1>9, <1>12, <1>13 DEF IndInv, OneShotFiresOnce

LEMMA NextInv ==
  ASSUME IndInv, [Next]_vars
  PROVE  IndInv'
<1>1. TypeOK /\ IsFiniteSet(DOMAIN list)
  BY FiniteList DEF IndInv
<1>2. CASE \E t \in Timers, p \in Periods :
             Delay(t, p) \/ AddTimer(t, p) \/ SysAddTimer(t, p)
  BY <1>1, <1>2, AddInv, TimerAssumption DEF Delay, AddTimer, SysAddTimer
<1>3. CASE \E t \in Timers, timestamp \in Timestamps : Schedule(t, timestamp)
  BY <1>1, <1>3, AddInv, TimerAssumption DEF Schedule, Delay
<1>4. CASE \E t \in Timers : ReturnId(t)
  BY <1>4, ReturnInv
<1>5. CASE \E i \in DOMAIN list : RemoveTimer(i)
  BY <1>5, RemoveInv
<1>6. CASE Tick
  BY <1>6, TickInv
<1>7. CASE CheckTimers
  BY <1>7, CheckInv
<1>8. CASE ClearTimers
  BY <1>8, ClearInv
<1>9. CASE UNCHANGED vars
  BY <1>9 DEF vars, objVars, callVars, IndInv, TypeOK, ListSound,
              OneShotFiresOnce
<1> QED
  BY <1>2, <1>3, <1>4, <1>5, <1>6, <1>7, <1>8, <1>9 DEF Next

-----------------------------------------------------------------------------
(* The theorems.                                                           *)

\* The inductive invariant of the timer list holds in every state: every listed
\* object is alive and a live one-shot timer has not fired (timer.cpp:249-284).
THEOREM Invariance == Spec => []IndInv
<1>1. Init => IndInv
  BY InitInv
<1>2. IndInv /\ [Next]_vars => IndInv'
  BY NextInv
<1> QED
  BY <1>1, <1>2, PTL DEF Spec

\* No timer of the list is a deleted object and none is listed twice, however
\* IDs are reused, overwritten and wrapped (timer.cpp:142-203, 249-284).
THEOREM Soundness == Spec => []ListSound
<1>1. IndInv => ListSound
  BY DEF IndInv
<1> QED
  BY <1>1, Invariance, PTL

\* A one-shot timer fires once and is gone (timer.cpp:271-285).
THEOREM FiresOnce == Spec => []OneShotFiresOnce
<1>1. IndInv => OneShotFiresOnce
  BY DEF IndInv
<1> QED
  BY <1>1, Invariance, PTL

=============================================================================
