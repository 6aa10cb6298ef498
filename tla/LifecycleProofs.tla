--------------------------- MODULE LifecycleProofs --------------------------
(***************************************************************************)
(* Theorems about Lifecycle, for any commands, any number of KILLs and     *)
(* whichever modules may fail to start.                                    *)
(***************************************************************************)
EXTENDS Lifecycle, TLAPS

-----------------------------------------------------------------------------
(* The orders of the modules.                                              *)

LEMMA Orders ==
  /\ Len(Starts) = 7 /\ DOMAIN Starts = 1 .. 7
  /\ Starts[1] = "log" /\ Starts[2] = "output" /\ Starts[3] = "event"
  /\ Starts[4] = "input" /\ Starts[5] = "agent" /\ Starts[6] = "cmd"
  /\ Starts[7] = "plugin"
  /\ Len(Quits) = 7 /\ DOMAIN Quits = 1 .. 7
  /\ Quits[1] = "plugin" /\ Quits[2] = "input" /\ Quits[3] = "agent"
  /\ Quits[4] = "cmd" /\ Quits[5] = "event" /\ Quits[6] = "output"
  /\ Quits[7] = "log"
  /\ Len(Setups) = 2 /\ DOMAIN Setups = 1 .. 2
  /\ Setups[1] = "plugin" /\ Setups[2] = "event"
BY DEF Starts, Quits, Setups

LEMMA TheModules ==
  Modules = {"log", "output", "event", "input", "agent", "cmd", "plugin"}
BY Orders DEF Modules

\* A module is at its rank in each order, and no other is.
LEMMA Ranks ==
  /\ \A m \in Modules : /\ Rank(Starts, m) \in 1 .. 7 /\ Starts[Rank(Starts, m)] = m
                        /\ Rank(Quits, m) \in 1 .. 7 /\ Quits[Rank(Quits, m)] = m
  /\ \A k \in 1 .. 7 : /\ Starts[k] \in Modules /\ Rank(Starts, Starts[k]) = k
                       /\ Quits[k] \in Modules /\ Rank(Quits, Quits[k]) = k
<1>1. /\ \A j, k \in 1 .. 7 : Starts[j] = Starts[k] => j = k
      /\ \A j, k \in 1 .. 7 : Quits[j] = Quits[k] => j = k
  BY Orders
<1>2. \A k \in 1 .. 7 : Starts[k] \in Modules /\ Quits[k] \in Modules
  BY Orders, TheModules
<1>3. \A m \in Modules : /\ \E k \in 1 .. 7 : Starts[k] = m
                         /\ \E k \in 1 .. 7 : Quits[k] = m
  BY Orders, TheModules
<1>4. \A m \in Modules : /\ Rank(Starts, m) \in 1 .. 7 /\ Starts[Rank(Starts, m)] = m
                         /\ Rank(Quits, m) \in 1 .. 7 /\ Quits[Rank(Quits, m)] = m
  BY <1>3, Orders DEF Rank
<1> QED BY <1>1, <1>2, <1>4

LEMMA TheRanks ==
  /\ Rank(Starts, "log") = 1 /\ Rank(Starts, "output") = 2
  /\ Rank(Starts, "event") = 3 /\ Rank(Starts, "input") = 4
  /\ Rank(Starts, "agent") = 5 /\ Rank(Starts, "cmd") = 6
  /\ Rank(Starts, "plugin") = 7
  /\ Rank(Quits, "event") = 5 /\ Rank(Quits, "log") = 7
BY Ranks, Orders

-----------------------------------------------------------------------------
(* The invariant, while nothing has gone wrong.                            *)

Core == MainInv /\ HandlerInv /\ EdtInv /\ ContextInv

\* A step starts from a state without a fault.
LEMMA NotOver ==
  ASSUME ModulesInv, ~Over
  PROVE  TypeOK /\ Core /\ fault = "none" /\ main.at \notin {"exited", "failed"}
BY DEF ModulesInv, Over, Core

\* It is enough that a step keeps the types, that a fault has its cause, and
\* that the rest holds if there is none.
LEMMA StepInv ==
  ASSUME TypeOK', FaultsHaveCause',
         main'.at \in {"exited", "failed"} => fault' = "none",
         fault' = "none" => Core'
  PROVE  ModulesInv'
BY DEF ModulesInv, Core

\* The fields of a place.
LEMMA PlaceFields ==
  ASSUME TypeOK
  PROVE  /\ main.n \in 1 .. 7 /\ main.i \in Nat /\ handler.n \in 1 .. 7 /\ handler.i \in Nat
BY DEF TypeOK, Places

\* What a step that leaves the ghosts alone leaves alone.
LEMMA GhostsKept ==
  ASSUME TypeOK, UNCHANGED ghosts
  PROVE  failedAt' = failedAt /\ kills' = kills /\ (early' <=> early) /\ early' \in BOOLEAN
<1>1. failedAt' = failedAt /\ kills' = kills /\ early' = early
  BY DEF ghosts
<1>2. early' \in BOOLEAN
  BY <1>1 DEF TypeOK
<1> QED BY <1>1, <1>2

-----------------------------------------------------------------------------
(* start().                                                                *)

LEMMA InitInv ==
  ASSUME Init
  PROVE  ModulesInv
<1>1. /\ main \in Places /\ main.at = "init" /\ main.n = 1 /\ main.i = 1
      /\ handler \in Places /\ handler.at = "none"
  <2>1. main = [at |-> "init", n |-> 1, i |-> 1] /\ handler = [at |-> "none", n |-> 1, i |-> 1]
    BY DEF Init, Pos
  <2> QED BY <2>1 DEF Places
<1>2. TypeOK
  <2>1. kills \in 0 .. MaxKills
    BY LifecycleAssumption DEF Init
  <2>2. ctx \in [Contexts -> {"none", "live", "deleted"}]
    BY DEF Init
  <2>3. early \in BOOLEAN
    BY DEF Init
  <2>4. commands \subseteq Names /\ set \subseteq Modules
    BY DEF Init
  <2> QED BY <1>1, <2>1, <2>2, <2>3, <2>4 DEF Init, TypeOK
<1>3. fault = "none" /\ FaultsHaveCause
  BY DEF Init, FaultsHaveCause
<1>4. MainInv
  BY <1>1, Orders DEF Init, MainInv, Quitting
<1>5. HandlerInv
  BY <1>1 DEF HandlerInv, Quitting
<1>6. EdtInv
  BY <1>1, TheRanks DEF Init, EdtInv
<1>7. \A m \in Modules : ~Up(m)
  BY <1>1, Ranks DEF Up, Begun
<1>8. ContextInv
  BY <1>7, TheModules DEF Init, ContextInv, Contexts
<1> QED BY <1>1, <1>2, <1>3, <1>4, <1>5, <1>6, <1>8 DEF ModulesInv

\* While every module has started, nothing is let go of unless the handler
\* stops them.
LEMMA HandlerStops ==
  ASSUME failedAt = "none"
  PROVE  /\ Stopper = handler
         /\ handler.at \notin {"quit", "join", "done", "failed"} =>
              \A m \in Modules : ~Passed(Stopper, m) /\ ~Quitted(Stopper, m)
BY DEF Stopper, Passed, Quitted

LEMMA InitCreatesInv ==
  ASSUME ModulesInv, InitCreates
  PROVE  ModulesInv'
<1> DEFINE m == Starts[main.n]
<1>1. /\ TypeOK /\ Core /\ fault = "none" /\ main.at = "init" /\ main.i = 1
      /\ set' = set \cup {m}
      /\ ctx' = [ctx EXCEPT ![m] = "live", !["timer"] = IF m = "event" THEN "live" ELSE @]
      /\ main' = [main EXCEPT !.i = 2]
      /\ UNCHANGED <<status, handler, edt, commands, failedAt, kills, fault, reader>>
      /\ (early' <=> early) /\ early' \in BOOLEAN
  BY NotOver, GhostsKept DEF InitCreates, At
<1>2. /\ failedAt = "none" /\ main.n \in 1 .. 7 /\ m \in Modules
      /\ main \in Places
      /\ handler.at \notin {"quit", "join", "done", "failed"}
  BY <1>1, Orders, Ranks DEF Core, MainInv, HandlerInv, TypeOK
<1>3. /\ main' \in Places /\ main'.at = "init" /\ main'.n = main.n /\ main'.i = 2
  BY <1>1, <1>2 DEF Places
<1>4. TypeOK'
  <2>1. ctx' \in [Contexts -> {"none", "live", "deleted"}]
    BY <1>1 DEF TypeOK
  <2>2. set' \subseteq Modules
    BY <1>1, <1>2 DEF TypeOK
  <2> QED BY <1>1, <1>2, <1>3, <2>1, <2>2 DEF TypeOK
<1>5. FaultsHaveCause'
  BY <1>1 DEF FaultsHaveCause
<1>6. MainInv'
  BY <1>1, <1>2, <1>3, Orders DEF Core, MainInv, Quitting
<1>7. \A q \in Modules : /\ Up(q)' <=> Up(q) \/ q = m
                         /\ ~(Up(q) /\ q = m)
  <2>1. Begun = main.n - 1 /\ Begun' = main.n
    BY <1>1, <1>2, <1>3 DEF Begun
  <2> QED BY <1>2, <2>1, Ranks DEF Up
<1>8. HandlerInv'
  BY <1>1, <1>3, <1>7, TheModules DEF Core, HandlerInv, Quitting
<1>9. EdtInv'
  BY <1>1, <1>2, <1>3 DEF Core, EdtInv, Stopper, Quitted, Passed
<1>10. ContextInv'
  <2>1. \A q \in Modules : /\ ~Passed(Stopper, q) /\ ~Quitted(Stopper, q)
                           /\ ~Passed(Stopper, q)' /\ ~Quitted(Stopper, q)'
    BY <1>1, <1>2 DEF Stopper, Passed, Quitted
  <2>2. /\ ctx'[m] = "live" /\ "timer" # m
        /\ \A q \in Modules : q # m => ctx'[q] = ctx[q]
        /\ m = "event" => ctx'["timer"] = "live"
        /\ m # "event" => ctx'["timer"] = ctx["timer"]
    BY <1>1, <1>2, TheModules DEF TypeOK, Contexts
  <2> QED BY <1>1, <1>7, <2>1, <2>2, TheModules DEF Core, ContextInv
<1> QED BY <1>1, <1>3, <1>4, <1>5, <1>6, <1>8, <1>9, <1>10, StepInv DEF Core

\* What start() has made is there, unless a KILL came early.
LEMMA StartUses ==
  ASSUME Core, failedAt = "none", main.at \in {"init", "setup", "ready"},
         NEW m \in Modules, Up(m), ctx[m] # "live"
  PROVE  early
<1>1. Quitted(Stopper, m)
  BY DEF Core, ContextInv
<1>2. handler.at \in {"quit", "join", "done"}
  BY <1>1, HandlerStops DEF Core, HandlerInv
<1> QED BY <1>2 DEF Core, HandlerInv

\* start() or main() goes on, and no more modules have begun.
LEMMA MainGoesOn ==
  ASSUME TypeOK, Core, failedAt = "none", MainInv', EdtInv',
         \A m \in Modules : Up(m)' <=> Up(m),
         main'.at = "init" => main.at = "init",
         main.at = "poll" => main'.at \in {"poll", "exited"},
         edt' = edt \/ (edt = "none" /\ edt' = "created"),
         UNCHANGED <<handler, set, ctx, failedAt>>, early' <=> early,
         main.at # "exited"
  PROVE  HandlerInv' /\ ContextInv'
<1>1. Stopper = handler /\ Stopper' = handler
  BY DEF Stopper
<1>2. HandlerInv'
  BY TheModules DEF Core, HandlerInv, Quitting
<1>3. \A m \in Modules : /\ Passed(Stopper, m)' <=> Passed(Stopper, m)
                         /\ Quitted(Stopper, m)' <=> Quitted(Stopper, m)
  BY <1>1 DEF Passed, Quitted
<1>4. Up("event") /\ Quitted(Stopper, "event") => edt # "none"
  BY <1>1 DEF Quitted, Passed, Core, HandlerInv
<1>5. ContextInv'
  BY <1>3, <1>4, TheModules DEF Core, ContextInv
<1> QED BY <1>2, <1>5

LEMMA InitSucceedsInv ==
  ASSUME ModulesInv, InitSucceeds
  PROVE  ModulesInv'
<1>1. /\ TypeOK /\ Core /\ fault = "none" /\ main.at = "init" /\ main.i = 2
      /\ edt' = IF Starts[main.n] = "event" THEN "created" ELSE edt
      /\ main' = IF main.n < Len(Starts) THEN Pos("init", main.n + 1, 1)
                                         ELSE Pos("setup", 1, 1)
      /\ Use("start", {"log"})
      /\ UNCHANGED <<status, handler, set, ctx, commands, failedAt, kills>>
      /\ reader' \in {"none", "started", reader}
      /\ (early' <=> early) /\ early' \in BOOLEAN
  BY NotOver, GhostsKept DEF InitSucceeds, At
<1>2. /\ failedAt = "none" /\ main.n \in 1 .. 7
      /\ handler.at \notin {"quit", "join", "done", "failed"}
      /\ commands = {}
  BY <1>1, Orders DEF Core, MainInv, HandlerInv
<1>3. /\ main' \in Places
      /\ \/ main.n < 7 /\ main'.at = "init" /\ main'.n = main.n + 1 /\ main'.i = 1
         \/ main.n = 7 /\ main'.at = "setup" /\ main'.n = 1 /\ main'.i = 1
  <2>1. CASE main.n < 7
    <3>1. main.n + 1 \in 1 .. 7
      BY <1>2, <2>1
    <3>2. main' = [at |-> "init", n |-> main.n + 1, i |-> 1]
      BY <1>1, <2>1, Orders DEF Pos
    <3> QED BY <2>1, <3>1, <3>2 DEF Places
  <2>2. CASE main.n = 7
    <3>1. main' = [at |-> "setup", n |-> 1, i |-> 1]
      BY <1>1, <2>2, Orders DEF Pos
    <3> QED BY <2>2, <3>1 DEF Places
  <2> QED BY <1>2, <2>1, <2>2
<1>4. Begun = main.n /\ Begun' = main.n
  BY <1>1, <1>2, <1>3, Orders DEF Begun
<1>5. \A m \in Modules : Up(m)' <=> Up(m)
  BY <1>4 DEF Up
<1>6. MainInv'
  BY <1>1, <1>2, <1>3, Orders DEF Core, MainInv, Quitting
<1>7. /\ Starts[main.n] = "event" <=> main.n = 3
      /\ edt = "none" <=> main.n <= 3
      /\ edt' = "none" <=> main.n < 3
  BY <1>1, <1>2, Orders, TheRanks DEF Core, EdtInv
<1>8. EdtInv'
  BY <1>1, <1>2, <1>3, <1>7, TheRanks DEF Core, EdtInv, Stopper, Quitted, Passed
<1>9. edt' = edt \/ (edt = "none" /\ edt' = "created")
  BY <1>1, <1>7
<1>10. HandlerInv' /\ ContextInv'
  BY <1>1, <1>2, <1>3, <1>5, <1>6, <1>8, <1>9, MainGoesOn
<1>11. TypeOK'
  BY <1>1, <1>3 DEF TypeOK, Use
<1>12. FaultsHaveCause'
  <2>1. "log" \in Modules /\ Up("log")
    BY <1>2, <1>4, TheModules, TheRanks DEF Up
  <2> QED BY <1>1, <1>2, <2>1, StartUses DEF FaultsHaveCause, Use, Live
<1> QED BY <1>3, <1>6, <1>8, <1>10, <1>11, <1>12, StepInv DEF Core

LEMMA InitFailsInv ==
  ASSUME ModulesInv, InitFails
  PROVE  ModulesInv'
<1> DEFINE m == Starts[main.n]
<1>1. /\ TypeOK /\ Core /\ fault = "none" /\ main.at = "init" /\ main.i = 2
      /\ failedAt' = m
      /\ ctx' = IF m = "log" THEN Deleted({m}) ELSE ctx
      /\ main' = Pos("quit", 1, 1)
      /\ fault' = IF m = "log" THEN "stop" ELSE "none"
      /\ UNCHANGED <<status, handler, set, edt, commands, early, kills, reader>>
  BY NotOver DEF InitFails, At
<1>2. /\ failedAt = "none" /\ main.n \in 1 .. 7 /\ m \in Modules /\ m # "none"
      /\ handler.at \notin {"quit", "join", "done", "failed"}
      /\ commands = {} /\ Rank(Starts, m) = main.n
  BY <1>1, Orders, Ranks, TheModules DEF Core, MainInv, HandlerInv
<1>3. main' \in Places /\ main'.at = "quit" /\ main'.n = 1 /\ main'.i = 1
  BY <1>1 DEF Pos, Places
<1> HIDE DEF m
<1>4. TypeOK'
  <2>1. ctx' \in [Contexts -> {"none", "live", "deleted"}]
    BY <1>1 DEF TypeOK, Deleted
  <2> QED BY <1>1, <1>2, <1>3, <2>1 DEF TypeOK
<1>5. FaultsHaveCause'
  BY <1>1, <1>2 DEF FaultsHaveCause
<1>6. ASSUME m # "log" PROVE Core'
  <2>1. Begun = main.n /\ Begun' = main.n
    BY <1>1, <1>2, <1>3 DEF Begun
  <2>2. \A q \in Modules : Up(q)' <=> Up(q)
    BY <2>1 DEF Up
  <2>3. \A q \in Modules : /\ ~Passed(Stopper, q) /\ ~Quitted(Stopper, q)
                           /\ ~Passed(Stopper, q)'
    BY <1>1, <1>2, <1>3, Ranks DEF Stopper, Passed, Quitted
  <2>4. \A q \in Modules : ~Quitted(Stopper, q)'
    BY <1>1, <1>2, <1>3, <2>3 DEF Stopper, Quitted
  <2>5. MainInv'
    BY <1>1, <1>2, <1>3, <1>6, Orders DEF Core, MainInv, Quitting
  <2>6. HandlerInv'
    BY <1>1, <1>2, <2>2, TheModules DEF Core, HandlerInv, Quitting
  <2>7. EdtInv'
    <3>1. edt = "none" <=> m \in {"log", "output", "event"}
      <4>1. edt = "none" <=> main.n <= 3
        BY <1>1, <1>2, TheRanks DEF Core, EdtInv
      <4>2. Starts[main.n] = m
        BY DEF m
      <4> QED BY <1>2, <4>1, <4>2, Orders
    <3> QED BY <1>1, <1>2, <1>3, <2>4, <3>1, TheModules DEF Core, EdtInv, Stopper
  <2>8. ContextInv'
    BY <1>1, <1>6, <2>2, <2>3, <2>4, TheModules DEF Core, ContextInv
  <2> QED BY <2>5, <2>6, <2>7, <2>8 DEF Core
<1> QED BY <1>1, <1>3, <1>4, <1>5, <1>6, StepInv

\* Every module has begun when start() is through with init().
LEMMA AllUp ==
  ASSUME failedAt = "none", main.at # "init"
  PROVE  Begun = 7 /\ \A m \in Modules : Up(m)
BY Orders, Ranks DEF Begun, Up

LEMMA SetupInv ==
  ASSUME ModulesInv, Setup
  PROVE  ModulesInv'
<1> DEFINE m == Setups[main.n]
<1>1. /\ TypeOK /\ Core /\ fault = "none" /\ main.at = "setup"
      /\ UNCHANGED <<status, handler, set, ctx, edt, failedAt, kills, reader>>
      /\ (early' <=> early) /\ early' \in BOOLEAN
  BY NotOver, GhostsKept DEF Setup, At
<1>2. failedAt = "none" /\ main.n \in 1 .. 2 /\ m \in {"plugin", "event"}
  BY <1>1, Orders DEF Core, MainInv
<1>3. /\ main' \in Places
      /\ \/ main'.at = "setup" /\ main'.n \in 1 .. 2 /\ main'.i >= 1
         \/ main'.at = "ready"
      /\ commands' \subseteq Names
      /\ fault' \in {"none", "start"}
      /\ fault' # "none" => ~Live({m, "cmd", "log"})
  <2>1. CASE MoreToRegister(m, main.i)
    <3>1. /\ commands' = commands \cup {Commands[m][main.i]}
          /\ main' = [main EXCEPT !.i = @ + 1]
          /\ Use("start", {m, "cmd"})
      BY <2>1 DEF Setup
    <3>2. main \in Places /\ main.i \in Nat
      BY <1>1, PlaceFields DEF TypeOK
    <3>3. /\ main' \in Places /\ main'.at = "setup" /\ main'.n = main.n
          /\ main'.i >= 1
      BY <1>1, <3>1, <3>2 DEF Places
    <3>4. commands' \subseteq Names
      <4>1. main.i \in 1 .. Len(Commands[m])
        <5>1. 1 <= main.i /\ main.i <= Len(Commands[m])
          BY <1>1, <2>1 DEF MoreToRegister, Core, MainInv
        <5> QED BY <3>2, <5>1
      <4>2. Commands[m][main.i] \in Names
        BY <1>2, <4>1, LifecycleAssumption DEF Names
      <4> QED BY <1>1, <3>1, <4>2 DEF TypeOK
    <3>5. fault' \in {"none", "start"} /\ (fault' # "none" => ~Live({m, "cmd", "log"}))
      BY <3>1 DEF Use, Live
    <3> QED BY <1>2, <3>3, <3>4, <3>5
  <2>2. CASE ~MoreToRegister(m, main.i)
    <3>1. /\ main' = IF main.n < Len(Setups) THEN Pos("setup", main.n + 1, 1)
                                             ELSE Pos("ready", 1, 1)
          /\ Use("start", {"log"})
          /\ UNCHANGED commands
      BY <2>2 DEF Setup
    <3>2. \/ main' = Pos("setup", 2, 1)
          \/ main' = Pos("ready", 1, 1)
      BY <1>2, <3>1, Orders
    <3>3. /\ main' \in Places
          /\ \/ main'.at = "setup" /\ main'.n \in 1 .. 2 /\ main'.i >= 1
             \/ main'.at = "ready"
      <4>1. CASE main' = Pos("setup", 2, 1)
        BY <4>1 DEF Pos, Places
      <4>2. CASE main' = Pos("ready", 1, 1)
        BY <4>2 DEF Pos, Places
      <4> QED BY <3>2, <4>1, <4>2
    <3>4. fault' \in {"none", "start"} /\ (fault' # "none" => ~Live({m, "cmd", "log"}))
      BY <3>1 DEF Use, Live
    <3> QED BY <1>1, <3>1, <3>3, <3>4 DEF TypeOK
  <2> QED BY <2>1, <2>2
<1> HIDE DEF m
<1>4. \A q \in Modules : Up(q) /\ Up(q)' /\ (Up(q)' <=> Up(q))
  BY <1>1, <1>2, <1>3, Orders, Ranks DEF Up, Begun
<1>5. MainInv'
  BY <1>1, <1>2, <1>3, Orders DEF Core, MainInv, Quitting
<1>6. EdtInv'
  BY <1>1, <1>2, <1>3 DEF Core, EdtInv, Stopper, Quitted, Passed
<1>7. HandlerInv' /\ ContextInv'
  BY <1>1, <1>2, <1>3, <1>4, <1>5, <1>6, MainGoesOn
<1>8. TypeOK'
  BY <1>1, <1>3 DEF TypeOK
<1>9. FaultsHaveCause'
  BY <1>1, <1>2, <1>3, <1>4, TheModules, StartUses DEF FaultsHaveCause, Live
<1> QED BY <1>3, <1>5, <1>6, <1>7, <1>8, <1>9, StepInv DEF Core

LEMMA ReadyInv ==
  ASSUME ModulesInv, Ready
  PROVE  ModulesInv'
<1>1. /\ TypeOK /\ Core /\ fault = "none" /\ main.at = "ready"
      /\ main' = Pos("poll", 1, 1) /\ Use("start", {"log"})
      /\ UNCHANGED <<status, handler, set, ctx, edt, commands, failedAt, kills, reader>>
      /\ (early' <=> early) /\ early' \in BOOLEAN
  BY NotOver, GhostsKept DEF Ready, At
<1>2. failedAt = "none" /\ main' \in Places /\ main'.at = "poll"
  BY <1>1 DEF Core, MainInv, Pos, Places
<1>3. \A q \in Modules : Up(q) /\ Up(q)' /\ (Up(q)' <=> Up(q))
  BY <1>1, <1>2, Orders, Ranks DEF Up, Begun
<1>4. MainInv'
  BY <1>1, <1>2 DEF Core, MainInv, Quitting
<1>5. EdtInv'
  BY <1>1, <1>2 DEF Core, EdtInv, Stopper, Quitted, Passed
<1>6. HandlerInv' /\ ContextInv'
  BY <1>1, <1>2, <1>3, <1>4, <1>5, MainGoesOn
<1>7. TypeOK'
  BY <1>1, <1>2 DEF TypeOK, Use
<1>8. FaultsHaveCause'
  BY <1>1, <1>2, <1>3, TheModules, StartUses DEF FaultsHaveCause, Use, Live
<1> QED BY <1>2, <1>4, <1>5, <1>6, <1>7, <1>8, StepInv DEF Core

LEMMA ExitInv ==
  ASSUME ModulesInv, Exit
  PROVE  ModulesInv'
<1>1. /\ TypeOK /\ Core /\ fault = "none" /\ main.at = "poll"
      /\ status = "STOPPED"
      /\ main' = Pos("exited", 1, 1)
      /\ UNCHANGED <<status, handler, set, ctx, edt, commands, failedAt, kills, fault, reader>>
      /\ (early' <=> early) /\ early' \in BOOLEAN
  BY NotOver, GhostsKept DEF Exit, At
<1>2. failedAt = "none" /\ main' \in Places /\ main'.at = "exited"
  BY <1>1 DEF Core, MainInv, Pos, Places
<1>3. \A q \in Modules : Up(q) /\ Up(q)' /\ (Up(q)' <=> Up(q))
  BY <1>1, <1>2, Orders, Ranks DEF Up, Begun
<1>4. MainInv'
  BY <1>1, <1>2 DEF Core, MainInv, Quitting
<1>5. EdtInv'
  BY <1>1, <1>2 DEF Core, EdtInv, Stopper, Quitted, Passed
<1>6. HandlerInv' /\ ContextInv'
  BY <1>1, <1>2, <1>3, <1>4, <1>5, MainGoesOn
<1>7. TypeOK'
  BY <1>1, <1>2 DEF TypeOK
<1>8. FaultsHaveCause'
  BY <1>1 DEF FaultsHaveCause
<1> QED BY <1>1, <1>2, <1>4, <1>5, <1>6, <1>7, <1>8, StepInv DEF Core

-----------------------------------------------------------------------------
(* stop(), by whichever thread stops the modules.                          *)

\* The stop is under way and the step changes neither who stops nor what began.
QuitFrame ==
  /\ TypeOK /\ Core /\ Stopper.at \in {"quit", "join"}
  /\ UNCHANGED <<failedAt, edt>>
  /\ \A m \in Modules : Up(m)' <=> Up(m)

\* What a step of the stop keeps.
QuitKeeps ==
  /\ Stopper' \in Places /\ Stopper'.at \in {"quit", "join", "done"}
  /\ Quitting(Stopper')
  /\ set' \subseteq Modules
  /\ ctx' \in [Contexts -> {"none", "live", "deleted"}]
  /\ status' \in {"CREATED", "RUNNING", "STOP_REQUESTED", "STOPPED"}
  /\ edt \in {"none", "created"} => status' = "CREATED" \/ Stopper'.at = "done"
  /\ edt \in {"running", "exited"} => status' # "CREATED"
  /\ edt = "running" => ~Quitted(Stopper', "event")
  /\ status' = "STOPPED" => Stopper'.at = "done"
  /\ ContextInv'

\* What is known when a step of the stop begins.
LEMMA QuitFrom ==
  ASSUME QuitFrame
  PROVE  /\ Stopper \in Places /\ Stopper.n \in 1 .. 7 /\ Stopper.i \in {1, 2}
         /\ Quits[Stopper.n] \in Modules
         /\ Up("log") /\ (edt # "none" => Up("event")) /\ status # "STOPPED"
         /\ Stopper.at = "join" => Stopper.n = 5
         /\ edt \in {"none", "created"} => status = "CREATED"
         /\ edt \in {"running", "exited"} => status # "CREATED"
         /\ \A m \in Modules : Passed(Stopper, m) <=> Rank(Quits, m) < Stopper.n
         /\ failedAt \in {"none"} \cup Modules
<1>1. TypeOK /\ MainInv /\ HandlerInv /\ EdtInv
  BY DEF QuitFrame, Core
<1>2. Stopper \in Places /\ Quitting(Stopper)
  BY <1>1 DEF Stopper, MainInv, HandlerInv, TypeOK
<1>3. Stopper.n \in 1 .. 7 /\ Stopper.i \in {1, 2} /\ (Stopper.at = "join" => Stopper.n = 5)
  BY <1>2, Orders DEF QuitFrame, Quitting
<1>4. status # "STOPPED" /\ \A m \in Modules : Passed(Stopper, m) <=> Rank(Quits, m) < Stopper.n
  BY <1>1 DEF QuitFrame, EdtInv, Passed
<1>5. CASE failedAt = "none"
  <2>1. /\ Stopper = handler /\ main.at # "init" /\ edt \in {"running", "exited"}
        /\ status # "CREATED"
    BY <1>1, <1>5 DEF QuitFrame, Stopper, HandlerInv, EdtInv
  <2>2. Up("log") /\ Up("event")
    BY <1>5, <2>1, AllUp, TheModules
  <2> QED BY <1>2, <1>3, <1>4, <1>5, <2>1, <2>2, Ranks
<1>6. CASE failedAt # "none"
  <2>1. Stopper = main /\ main.at \in {"quit", "join"} /\ failedAt \in Modules
    BY <1>1, <1>6 DEF QuitFrame, Stopper, TypeOK
  <2>2. Begun = Rank(Starts, failedAt)
    BY <1>6, <2>1 DEF Begun
  <2>3. Up("log")
    BY <2>1, <2>2, Ranks, TheRanks DEF Up
  <2>4. edt # "none" => Up("event")
    BY <1>1, <2>1, <2>2, TheRanks, TheModules DEF EdtInv, Up
  <2>5. /\ edt \in {"none", "created"} => status = "CREATED"
        /\ edt \in {"running", "exited"} => status # "CREATED"
    BY <1>1, <2>1 DEF EdtInv
  <2> QED BY <1>2, <1>3, <1>4, <2>1, <2>3, <2>4, <2>5, Ranks
<1> QED BY <1>5, <1>6

\* The place after the n-th module.
LEMMA NextPlace ==
  ASSUME NEW n \in 1 .. 7
  PROVE  /\ QuitNext(n) \in Places /\ Quitting(QuitNext(n))
         /\ QuitNext(n).at = IF n < 7 THEN "quit" ELSE "done"
         /\ \A m \in Modules :
              /\ Passed(QuitNext(n), m) <=> Rank(Quits, m) < n \/ m = Quits[n]
              /\ Quitted(QuitNext(n), m) <=> Passed(QuitNext(n), m)
<1>1. \A m \in Modules : Rank(Quits, m) \in 1 .. 7 /\ (Rank(Quits, m) = n <=> m = Quits[n])
  BY Ranks
<1>2. CASE n < 7
  <2>1. QuitNext(n) = [at |-> "quit", n |-> n + 1, i |-> 1]
    BY <1>2, Orders DEF QuitNext, Pos
  <2>2. n + 1 \in 1 .. 7
    BY <1>2
  <2>3. QuitNext(n) \in Places /\ Quitting(QuitNext(n)) /\ QuitNext(n).at = "quit"
    BY <2>1, <2>2, Orders DEF Places, Quitting
  <2>4. \A m \in Modules :
          /\ Passed(QuitNext(n), m) <=> Rank(Quits, m) < n + 1
          /\ Quitted(QuitNext(n), m) <=> Passed(QuitNext(n), m)
    BY <2>1 DEF Passed, Quitted
  <2>5. \A m \in Modules : Rank(Quits, m) < n + 1 <=> (Rank(Quits, m) < n \/ m = Quits[n])
    BY <1>1
  <2> QED BY <1>2, <2>3, <2>4, <2>5
<1>3. CASE n = 7
  <2>1. QuitNext(n) = [at |-> "done", n |-> 1, i |-> 1]
    BY <1>3, Orders DEF QuitNext, Pos
  <2>2. QuitNext(n) \in Places /\ Quitting(QuitNext(n)) /\ QuitNext(n).at = "done"
    BY <2>1 DEF Places, Quitting
  <2>3. \A m \in Modules : Passed(QuitNext(n), m) /\ Quitted(QuitNext(n), m)
    BY <2>2 DEF Passed, Quitted
  <2>4. \A m \in Modules : Rank(Quits, m) < n \/ m = Quits[n]
    BY <1>1, <1>3
  <2> QED BY <1>3, <2>2, <2>3, <2>4
<1> QED BY <1>2, <1>3

\* The same module, at another of its steps.
LEMMA SamePlace ==
  ASSUME QuitFrame, Stopper' \in Places, Stopper'.n = Stopper.n,
         Stopper'.at \in {"quit", "join"}, Stopper'.i \in {1, 2},
         Stopper'.at = "join" => Stopper.n = 5
  PROVE  /\ Quitting(Stopper')
         /\ \A m \in Modules :
              /\ Passed(Stopper', m) <=> Passed(Stopper, m)
              /\ Quitted(Stopper', m) <=>
                   \/ Passed(Stopper, m)
                   \/ Stopper'.at = "quit" /\ Stopper'.i = 2 /\ Quits[Stopper.n] = m
<1>1. Stopper.n \in 1 .. 7 /\ \A m \in Modules : Passed(Stopper, m) <=> Rank(Quits, m) < Stopper.n
  BY QuitFrom
<1>2. Quitting(Stopper')
  BY <1>1, Orders DEF Quitting
<1>3. \A m \in Modules : Passed(Stopper', m) <=> Passed(Stopper, m)
  BY <1>1 DEF Passed
<1> QED BY <1>2, <1>3 DEF Quitted

LEMMA QuitSkipsKeeps ==
  ASSUME QuitFrame, QuitSkips(Stopper, Stopper')
  PROVE  QuitKeeps
<1> DEFINE n == Stopper.n
           q == Quits[n]
<1>1. /\ Stopper.at = "quit" /\ Stopper.i = 1 /\ q \notin set
      /\ Stopper' = QuitNext(n) /\ status' = StatusAfter(n)
      /\ UNCHANGED <<set, ctx, edt>>
  BY DEF QuitSkips, At
<1>2. TypeOK /\ EdtInv /\ ContextInv /\ n \in 1 .. 7 /\ q \in Modules
  BY QuitFrom DEF QuitFrame, Core
<1>3. ~Up(q)
  BY <1>1, <1>2, QuitFrom, Ranks DEF ContextInv
<1> HIDE DEF n, q
<1>4. /\ Stopper' \in Places /\ Quitting(Stopper')
      /\ Stopper'.at = IF n < 7 THEN "quit" ELSE "done"
      /\ \A m \in Modules :
           /\ Passed(Stopper', m) <=> Passed(Stopper, m) \/ m = q
           /\ Quitted(Stopper', m) <=> Passed(Stopper', m)
           /\ Quitted(Stopper, m) <=> Passed(Stopper, m)
  BY <1>1, <1>2, NextPlace, QuitFrom DEF Quitted, n, q
<1>5. status' = IF n < 7 THEN status ELSE "STOPPED"
  BY <1>1, Orders DEF StatusAfter
<1>6. ContextInv'
  BY <1>1, <1>2, <1>3, <1>4, TheModules DEF ContextInv, QuitFrame
<1>7. edt = "running" => ~Quitted(Stopper', "event")
  BY <1>2, <1>3, <1>4, QuitFrom, TheModules DEF EdtInv
<1> QED BY <1>1, <1>2, <1>4, <1>5, <1>6, <1>7, QuitFrom DEF QuitKeeps, TypeOK

LEMMA QuitDeletesKeeps ==
  ASSUME QuitFrame, QuitDeletes(Stopper, Stopper')
  PROVE  QuitKeeps /\ fault' = "none"
<1> DEFINE q == Quits[Stopper.n]
<1>1. /\ Stopper.at = "quit" /\ Stopper.i = 1 /\ q \in set /\ q # "event"
      /\ ctx' = Deleted({q})
      /\ Stopper' = [Stopper EXCEPT !.i = 2] /\ Use("stop", {q, "log"})
      /\ UNCHANGED <<status, set, edt>>
  BY DEF QuitDeletes, At
<1>2. /\ TypeOK /\ EdtInv /\ ContextInv /\ q \in Modules /\ Stopper \in Places
      /\ Stopper.n \in 1 .. 7 /\ Up("log")
  BY QuitFrom DEF QuitFrame, Core
<1>3. /\ Stopper' \in Places /\ Stopper'.at = "quit" /\ Stopper'.n = Stopper.n
      /\ Stopper'.i = 2
  BY <1>1, <1>2 DEF Places
<1>4. /\ Stopper' \in Places /\ Quitting(Stopper') /\ Stopper'.at = "quit"
      /\ \A m \in Modules :
           /\ Passed(Stopper', m) <=> Passed(Stopper, m)
           /\ Quitted(Stopper', m) <=> Passed(Stopper, m) \/ m = q
           /\ Quitted(Stopper, m) <=> Passed(Stopper, m)
  BY <1>1, <1>3, SamePlace DEF Quitted
<1>5. ctx[q] = "live" /\ ctx["log"] = "live"
  <2>1. Rank(Quits, "log") = 7 /\ ~Passed(Stopper, "log")
    BY <1>2, QuitFrom, TheRanks, TheModules
  <2> QED BY <1>1, <1>2, <1>4, <2>1, TheModules DEF ContextInv
<1> HIDE DEF q
<1>6. /\ ctx' \in [Contexts -> {"none", "live", "deleted"}]
      /\ ctx'[q] = "deleted" /\ ctx'["timer"] = ctx["timer"]
      /\ \A m \in Modules : m # q => ctx'[m] = ctx[m]
  BY <1>1, <1>2, TheModules DEF TypeOK, Deleted, Contexts
<1>7. ContextInv'
  BY <1>1, <1>2, <1>4, <1>6, TheModules DEF ContextInv, QuitFrame
<1>8. edt = "running" => ~Quitted(Stopper', "event")
  BY <1>1, <1>2, <1>4, TheModules DEF EdtInv
<1>9. QuitKeeps
  BY <1>1, <1>2, <1>4, <1>6, <1>7, <1>8, QuitFrom DEF QuitKeeps, TypeOK
<1> QED BY <1>1, <1>5, <1>9 DEF Use, Live

LEMMA QuitCreatedKeeps ==
  ASSUME QuitFrame, QuitCreated(Stopper, Stopper')
  PROVE  QuitKeeps /\ fault' = "none"
<1>1. /\ Stopper.at = "quit" /\ Stopper.i = 1 /\ Quits[Stopper.n] = "event"
      /\ "event" \in set /\ status = "CREATED"
      /\ ctx' = Deleted({"event"})
      /\ Stopper' = [Stopper EXCEPT !.i = 2] /\ Use("stop", {"event", "log"})
      /\ UNCHANGED <<status, set, edt>>
  BY DEF QuitCreated, At
<1>2. /\ TypeOK /\ EdtInv /\ ContextInv /\ Stopper \in Places
      /\ Stopper.n \in 1 .. 7 /\ Up("log") /\ edt \in {"none", "created"}
  BY <1>1, QuitFrom DEF QuitFrame, Core, TypeOK
<1>3. /\ Stopper' \in Places /\ Stopper'.at = "quit" /\ Stopper'.n = Stopper.n
      /\ Stopper'.i = 2
  BY <1>1, <1>2 DEF Places
<1>4. /\ Stopper' \in Places /\ Quitting(Stopper') /\ Stopper'.at = "quit"
      /\ \A m \in Modules :
           /\ Passed(Stopper', m) <=> Passed(Stopper, m)
           /\ Quitted(Stopper', m) <=> Passed(Stopper, m) \/ m = "event"
           /\ Quitted(Stopper, m) <=> Passed(Stopper, m)
  BY <1>1, <1>3, SamePlace DEF Quitted
<1>5. ctx["event"] = "live" /\ ctx["log"] = "live"
  <2>1. Rank(Quits, "log") = 7 /\ Stopper.n = 5 /\ ~Passed(Stopper, "log")
    BY <1>1, <1>2, QuitFrom, Ranks, TheRanks, TheModules
  <2> QED BY <1>1, <1>2, <1>4, <2>1, TheModules DEF ContextInv
<1>6. /\ ctx' \in [Contexts -> {"none", "live", "deleted"}]
      /\ ctx'["event"] = "deleted" /\ ctx'["timer"] = ctx["timer"]
      /\ \A m \in Modules : m # "event" => ctx'[m] = ctx[m]
  BY <1>1, <1>2, TheModules DEF TypeOK, Deleted, Contexts
<1>7. edt = "created" \/ failedAt = "event"
  <2>1. Up("event")
    BY <1>1, <1>2, TheModules DEF ContextInv
  <2>2. failedAt # "none" /\ main.at \in {"quit", "join"}
    BY <1>2 DEF QuitFrame, Stopper, Core, HandlerInv
  <2>3. edt = "none" => failedAt \in {"log", "output", "event"}
    BY <1>2, <2>2 DEF EdtInv
  <2>4. Begun = Rank(Starts, failedAt)
    BY <2>2 DEF Begun
  <2> QED BY <1>2, <2>1, <2>3, <2>4, TheRanks DEF Up
<1>8. ContextInv'
  BY <1>1, <1>2, <1>4, <1>6, <1>7, TheModules DEF ContextInv, QuitFrame
<1>9. QuitKeeps
  BY <1>1, <1>2, <1>4, <1>6, <1>8, QuitFrom DEF QuitKeeps, TypeOK
<1> QED BY <1>1, <1>5, <1>9 DEF Use, Live

LEMMA QuitRequestsKeeps ==
  ASSUME QuitFrame, QuitRequests(Stopper, Stopper')
  PROVE  /\ QuitKeeps
         /\ fault' \in {"none", "current_handler"}
         /\ fault' # "none" => /\ handler.at = "none"
                               /\ failedAt \in Modules \ {"output", "event"}
<1>1. /\ Stopper.at = "quit" /\ Stopper.i = 1 /\ Quits[Stopper.n] = "event"
      /\ status # "CREATED" /\ status' = "STOP_REQUESTED"
      /\ Stopper' = [Stopper EXCEPT !.at = "join"]
      /\ fault' = IF handler.at = "none" THEN "current_handler" ELSE "none"
      /\ UNCHANGED <<set, ctx, edt>>
  BY DEF QuitRequests, At
<1>2. /\ TypeOK /\ EdtInv /\ ContextInv /\ Stopper \in Places
      /\ Stopper.n = 5 /\ edt \in {"running", "exited"}
  BY <1>1, QuitFrom, Ranks, TheRanks DEF QuitFrame, Core, TypeOK
<1>3. /\ Stopper' \in Places /\ Stopper'.at = "join" /\ Stopper'.n = Stopper.n
      /\ Stopper'.i = 1
  BY <1>1, <1>2 DEF Places
<1>4. /\ Quitting(Stopper')
      /\ \A m \in Modules :
           /\ Passed(Stopper', m) <=> Passed(Stopper, m)
           /\ Quitted(Stopper', m) <=> Quitted(Stopper, m)
  BY <1>1, <1>2, <1>3, SamePlace DEF Quitted
<1>5. ContextInv'
  BY <1>1, <1>2, <1>4, TheModules DEF ContextInv, QuitFrame
<1>6. edt = "running" => ~Quitted(Stopper', "event")
  BY <1>2, <1>4, TheModules DEF EdtInv
<1>7. QuitKeeps
  BY <1>1, <1>2, <1>3, <1>4, <1>5, <1>6 DEF QuitKeeps, TypeOK
<1>8. handler.at = "none" => failedAt \in Modules \ {"output", "event"}
  BY <1>1, <1>2 DEF QuitFrame, Stopper, EdtInv, TypeOK
<1> QED BY <1>1, <1>7, <1>8

LEMMA QuitJoinsKeeps ==
  ASSUME QuitFrame, QuitJoins(Stopper, Stopper')
  PROVE  QuitKeeps /\ fault' = "none"
<1>1. /\ Stopper.at = "join" /\ edt = "exited"
      /\ Stopper.n = 5 /\ Quits[Stopper.n] = "event"
      /\ ctx' = Deleted({"event", "timer"})
      /\ Stopper' = [Stopper EXCEPT !.at = "quit", !.i = 2]
      /\ Use("stop", {"event", "timer"})
      /\ UNCHANGED <<status, set, edt>>
  BY QuitFrom, Orders DEF QuitJoins, At, Owned
<1>2. /\ TypeOK /\ EdtInv /\ ContextInv /\ Stopper \in Places /\ Up("event")
      /\ Rank(Quits, "event") = 5
  BY <1>1, QuitFrom, TheRanks DEF QuitFrame, Core
<1>3. /\ Stopper' \in Places /\ Stopper'.at = "quit" /\ Stopper'.n = Stopper.n
      /\ Stopper'.i = 2
  BY <1>1, <1>2 DEF Places
<1>4. /\ Quitting(Stopper')
      /\ \A m \in Modules :
           /\ Passed(Stopper', m) <=> Passed(Stopper, m)
           /\ Quitted(Stopper', m) <=> Passed(Stopper, m) \/ m = "event"
           /\ Quitted(Stopper, m) <=> Passed(Stopper, m)
  BY <1>1, <1>3, SamePlace DEF Quitted
<1>5. ctx["event"] = "live" /\ ctx["timer"] = "live"
  <2>1. ~Passed(Stopper, "event")
    BY <1>1, <1>2, QuitFrom, TheModules
  <2> QED BY <1>2, <1>4, <2>1, TheModules DEF ContextInv
<1>6. /\ ctx' \in [Contexts -> {"none", "live", "deleted"}]
      /\ ctx'["event"] = "deleted" /\ ctx'["timer"] = "deleted"
      /\ \A m \in Modules : m # "event" => ctx'[m] = ctx[m]
  BY <1>1, <1>2, TheModules DEF TypeOK, Deleted, Contexts
<1>7. ContextInv'
  BY <1>1, <1>2, <1>4, <1>6, TheModules DEF ContextInv, QuitFrame
<1>8. QuitKeeps
  BY <1>1, <1>2, <1>3, <1>4, <1>6, <1>7, QuitFrom DEF QuitKeeps, TypeOK
<1> QED BY <1>1, <1>5, <1>8 DEF Use, Live

LEMMA QuitClearsKeeps ==
  ASSUME QuitFrame, QuitClears(Stopper, Stopper')
  PROVE  QuitKeeps
<1> DEFINE n == Stopper.n
           q == Quits[n]
<1>1. /\ Stopper.at = "quit" /\ Stopper.i = 2
      /\ set' = set \ {q}
      /\ Stopper' = QuitNext(n) /\ status' = StatusAfter(n)
      /\ UNCHANGED <<ctx, edt>>
  BY DEF QuitClears, At, Clear
<1>2. TypeOK /\ EdtInv /\ ContextInv /\ n \in 1 .. 7 /\ q \in Modules
  BY QuitFrom DEF QuitFrame, Core
<1>3. \A m \in Modules : Quitted(Stopper, m) <=> Passed(Stopper, m) \/ m = q
  BY <1>1 DEF Quitted
<1>4. /\ Stopper' \in Places /\ Quitting(Stopper')
      /\ Stopper'.at = IF n < 7 THEN "quit" ELSE "done"
      /\ \A m \in Modules :
           /\ Passed(Stopper', m) <=> Passed(Stopper, m) \/ m = q
           /\ Quitted(Stopper', m) <=> Quitted(Stopper, m)
  BY <1>1, <1>2, <1>3, NextPlace, QuitFrom
<1> HIDE DEF n, q
<1>5. status' = IF n < 7 THEN status ELSE "STOPPED"
  BY <1>1, Orders DEF StatusAfter
<1>6. ContextInv'
  BY <1>1, <1>2, <1>4, TheModules DEF ContextInv, QuitFrame
<1>7. edt = "running" => ~Quitted(Stopper', "event")
  BY <1>2, <1>4, TheModules DEF EdtInv
<1> QED BY <1>1, <1>2, <1>4, <1>5, <1>6, <1>7, QuitFrom DEF QuitKeeps, TypeOK

\* A step of the stop: only main() can find that there is no current handler.
LEMMA QuitStepKeeps ==
  ASSUME QuitFrame, fault = "none", QuitStep(Stopper, Stopper')
  PROVE  /\ QuitKeeps
         /\ fault' \in {"none", "current_handler"}
         /\ fault' # "none" => /\ handler.at = "none"
                               /\ failedAt \in Modules \ {"output", "event"}
<1>1. CASE QuitSkips(Stopper, Stopper')
  BY <1>1, QuitSkipsKeeps DEF QuitSkips
<1>2. CASE QuitDeletes(Stopper, Stopper')
  BY <1>2, QuitDeletesKeeps
<1>3. CASE QuitCreated(Stopper, Stopper')
  BY <1>3, QuitCreatedKeeps
<1>4. CASE QuitRequests(Stopper, Stopper')
  BY <1>4, QuitRequestsKeeps
<1>5. CASE QuitJoins(Stopper, Stopper')
  BY <1>5, QuitJoinsKeeps
<1>6. CASE QuitClears(Stopper, Stopper')
  BY <1>6, QuitClearsKeeps DEF QuitClears
<1> QED BY <1>1, <1>2, <1>3, <1>4, <1>5, <1>6 DEF QuitStep

\* A step of the stop leaves the EDT alone, and goes on or is the last.
LEMMA QuitStepPlace ==
  ASSUME NEW pos \in Places, NEW pos2, QuitStep(pos, pos2)
  PROVE  /\ ~Over /\ pos.at \in {"quit", "join"} /\ edt' = edt
         /\ pos2.at \in {"quit", "join", "done"}
<1>1. ~Over /\ pos.at \in {"quit", "join"} /\ edt' = edt
  BY DEF QuitStep, QuitSkips, QuitDeletes, QuitCreated, QuitRequests, QuitJoins,
         QuitClears, At
<1>2. QuitNext(pos.n).at \in {"quit", "done"}
  BY DEF QuitNext, Pos
<1>3. \/ pos2 = QuitNext(pos.n)
      \/ pos2 = [pos EXCEPT !.i = 2]
      \/ pos2 = [pos EXCEPT !.at = "join"]
      \/ pos2 = [pos EXCEPT !.at = "quit", !.i = 2]
  BY DEF QuitStep, QuitSkips, QuitDeletes, QuitCreated, QuitRequests, QuitJoins,
         QuitClears
<1>4. pos2.at \in {"quit", "join", "done"}
  BY <1>1, <1>2, <1>3 DEF Places
<1> QED BY <1>1, <1>4

LEMMA MainQuitsInv ==
  ASSUME ModulesInv, MainQuits
  PROVE  ModulesInv'
<1>1. QuitStep(main, main') /\ UNCHANGED <<handler, commands, reader>> /\ UNCHANGED ghosts
  BY DEF MainQuits
<1>2. main \in Places
  BY DEF ModulesInv, TypeOK
<1>3. /\ ~Over /\ main.at \in {"quit", "join"} /\ edt' = edt
      /\ main'.at \in {"quit", "join", "done"}
  BY <1>1, <1>2, QuitStepPlace
<1>4. TypeOK /\ Core /\ fault = "none" /\ failedAt # "none"
  BY <1>3, NotOver DEF Core, MainInv
<1>5. failedAt' = failedAt /\ kills' = kills /\ (early' <=> early) /\ early' \in BOOLEAN
  BY <1>1, <1>4, GhostsKept
<1>6. Stopper = main /\ Stopper' = main'
  BY <1>4, <1>5 DEF Stopper
<1>7. Begun' = Begun /\ \A m \in Modules : Up(m)' <=> Up(m)
  BY <1>3, <1>4, <1>5 DEF Begun, Up
<1>8. QuitFrame
  BY <1>3, <1>4, <1>5, <1>6, <1>7 DEF QuitFrame
<1>9. /\ QuitKeeps /\ fault' \in {"none", "current_handler"}
      /\ fault' # "none" => failedAt \in Modules \ {"output", "event"}
  BY <1>1, <1>4, <1>6, <1>8, QuitStepKeeps
<1>10. TypeOK'
  BY <1>1, <1>3, <1>4, <1>5, <1>6, <1>9 DEF QuitKeeps, TypeOK
<1>11. FaultsHaveCause'
  BY <1>5, <1>9 DEF FaultsHaveCause
<1>12. MainInv'
  BY <1>1, <1>3, <1>4, <1>5, <1>6, <1>9 DEF QuitKeeps, Core, MainInv, Quitting
<1>13. HandlerInv'
  BY <1>1, <1>3, <1>4, <1>5, <1>7, TheModules DEF Core, HandlerInv, Quitting
<1>14. EdtInv'
  BY <1>1, <1>3, <1>4, <1>5, <1>6, <1>9 DEF QuitKeeps, Core, EdtInv
<1>15. ContextInv'
  BY <1>9 DEF QuitKeeps
<1> QED BY <1>3, <1>10, <1>11, <1>12, <1>13, <1>14, <1>15, StepInv DEF Core

LEMMA HandlerQuitsInv ==
  ASSUME ModulesInv, HandlerQuits
  PROVE  ModulesInv'
<1>1. QuitStep(handler, handler') /\ UNCHANGED <<main, commands, reader>> /\ UNCHANGED ghosts
  BY DEF HandlerQuits
<1>2. handler \in Places
  BY DEF ModulesInv, TypeOK
<1>3. ~Over /\ handler.at \in {"quit", "join"} /\ edt' = edt
  BY <1>1, <1>2, QuitStepPlace
<1>4. /\ TypeOK /\ Core /\ fault = "none" /\ failedAt = "none"
      /\ main.at \notin {"init", "exited", "failed"}
  BY <1>3, NotOver DEF Core, HandlerInv
<1>5. failedAt' = failedAt /\ kills' = kills /\ (early' <=> early) /\ early' \in BOOLEAN
  BY <1>1, <1>4, GhostsKept
<1>6. Stopper = handler /\ Stopper' = handler'
  BY <1>4, <1>5 DEF Stopper
<1>7. Begun' = Begun /\ \A m \in Modules : Up(m)' <=> Up(m)
  BY <1>1, <1>5 DEF Begun, Up
<1>8. QuitFrame
  BY <1>3, <1>4, <1>5, <1>6, <1>7 DEF QuitFrame
<1>9. QuitKeeps /\ fault' = "none"
  BY <1>1, <1>3, <1>4, <1>6, <1>8, QuitStepKeeps
<1>10. TypeOK'
  BY <1>1, <1>3, <1>4, <1>5, <1>6, <1>9 DEF QuitKeeps, TypeOK
<1>11. FaultsHaveCause'
  BY <1>9 DEF FaultsHaveCause
<1>12. MainInv'
  BY <1>1, <1>4, <1>5 DEF Core, MainInv, Quitting
<1>13. HandlerInv'
  BY <1>1, <1>3, <1>4, <1>5, <1>6, <1>7, <1>9, TheModules DEF QuitKeeps, Core, HandlerInv, Quitting
<1>14. EdtInv'
  <2>1. edt \in {"running", "exited"}
    BY <1>3, <1>4 DEF Core, HandlerInv
  <2> QED BY <1>1, <1>3, <1>4, <1>5, <1>6, <1>9, <2>1 DEF QuitKeeps, Core, EdtInv
<1>15. ContextInv'
  BY <1>9 DEF QuitKeeps
<1> QED BY <1>9, <1>10, <1>11, <1>12, <1>13, <1>14, <1>15, StepInv DEF Core

LEMMA FailInv ==
  ASSUME ModulesInv, Fail
  PROVE  ModulesInv'
<1>1. /\ TypeOK /\ Core /\ fault = "none" /\ main.at = "done"
      /\ main' = Pos("failed", 1, 1)
      /\ UNCHANGED <<status, handler, set, ctx, edt, commands, failedAt, kills, fault, reader>>
      /\ (early' <=> early) /\ early' \in BOOLEAN
  BY NotOver, GhostsKept DEF Fail, At
<1>2. failedAt # "none" /\ main' \in Places /\ main'.at = "failed"
  BY <1>1 DEF Core, MainInv, Pos, Places
<1>3. Stopper = main /\ Stopper' = main'
  BY <1>1, <1>2 DEF Stopper
<1>4. \A m \in Modules : /\ Passed(Stopper, m) /\ Passed(Stopper, m)'
                         /\ Quitted(Stopper, m) /\ Quitted(Stopper, m)'
  BY <1>1, <1>2, <1>3 DEF Passed, Quitted
<1>5. Begun' = Begun /\ \A m \in Modules : Up(m)' <=> Up(m)
  BY <1>1, <1>2 DEF Begun, Up
<1>6. TypeOK'
  BY <1>1, <1>2 DEF TypeOK
<1>7. FaultsHaveCause'
  BY <1>1 DEF FaultsHaveCause
<1>8. MainInv'
  BY <1>1, <1>2 DEF Core, MainInv, Quitting
<1>9. HandlerInv'
  BY <1>1, <1>2, <1>5, TheModules DEF Core, HandlerInv, Quitting
<1>10. EdtInv'
  BY <1>1, <1>2, <1>3, <1>4, TheModules DEF Core, EdtInv
<1>11. ContextInv'
  BY <1>1, <1>4, <1>5, TheModules DEF Core, ContextInv
<1> QED BY <1>1, <1>6, <1>7, <1>8, <1>9, <1>10, <1>11, StepInv DEF Core

-----------------------------------------------------------------------------
(* The event dispatch thread and its handler.                              *)

\* While the EDT runs, or has yet to, nothing takes EVENT or the timers from it.
LEMMA EdtHas ==
  ASSUME TypeOK, Core, edt \in {"created", "running"},
         edt = "created" => failedAt = "none"
  PROVE  Live({"event", "timer"})
<1>1. Up("event")
  <2>1. CASE failedAt = "none"
    BY <2>1, Orders, TheRanks DEF Core, MainInv, EdtInv, Up, Begun
  <2>2. CASE failedAt # "none"
    BY <2>2, TheRanks, TheModules DEF Core, MainInv, EdtInv, TypeOK, Up, Begun
  <2> QED BY <2>1, <2>2
<1>2. ~Quitted(Stopper, "event")
  <2>1. CASE edt = "created"
    BY <2>1, HandlerStops, TheModules DEF Core, HandlerInv
  <2> QED BY <2>1 DEF Core, EdtInv
<1> QED BY <1>1, <1>2, TheModules DEF Core, ContextInv, Live

LEMMA EdtStartInv ==
  ASSUME ModulesInv, EdtStart
  PROVE  ModulesInv'
<1>1. /\ TypeOK /\ Core /\ fault = "none" /\ edt = "created"
      /\ main.at \notin {"exited", "failed"}
      /\ edt' = "running" /\ status' = "RUNNING" /\ Use("edt", {"event"})
      /\ UNCHANGED <<main, handler, set, ctx, commands, failedAt, kills, reader>>
      /\ (early' <=> early) /\ early' \in BOOLEAN
  BY NotOver, GhostsKept DEF EdtStart, EdtIs
<1>2. Stopper' = Stopper /\ handler.at = "none"
  BY <1>1 DEF Stopper, Core, HandlerInv
<1>3. Begun' = Begun /\ \A m \in Modules : Up(m)' <=> Up(m)
  BY <1>1 DEF Begun, Up
<1>4. \A m \in Modules : /\ Passed(Stopper, m)' <=> Passed(Stopper, m)
                         /\ Quitted(Stopper, m)' <=> Quitted(Stopper, m)
  BY <1>2 DEF Passed, Quitted
<1>5. TypeOK'
  BY <1>1 DEF TypeOK, Use
<1>6. FaultsHaveCause'
  <2>1. failedAt = "none" => fault' = "none"
    BY <1>1, EdtHas DEF Use, Live
  <2>2. failedAt \notin {"output", "event"}
    BY <1>1 DEF Core, EdtInv
  <2> QED BY <1>1, <2>1, <2>2 DEF FaultsHaveCause, TypeOK
<1>7. ASSUME fault' = "none" PROVE Core'
  <2>1. Up("event") /\ ~Quitted(Stopper, "event")
    <3>1. ctx["event"] = "live"
      BY <1>1, <1>7 DEF Use, Live
    <3> QED BY <1>1, <3>1, TheModules DEF Core, ContextInv
  <2>2. MainInv'
    BY <1>1 DEF Core, MainInv, Quitting
  <2>3. HandlerInv'
    BY <1>1, <1>2 DEF Core, HandlerInv, Quitting
  <2>4. EdtInv'
    BY <1>1, <1>2, <1>4, <2>1, TheModules DEF Core, EdtInv
  <2>5. ContextInv'
    BY <1>1, <1>3, <1>4, <2>1, TheModules DEF Core, ContextInv
  <2> QED BY <2>2, <2>3, <2>4, <2>5 DEF Core
<1> QED BY <1>1, <1>5, <1>6, <1>7, StepInv

LEMMA SpawnInv ==
  ASSUME ModulesInv, NEW kill \in BOOLEAN, Spawn(kill)
  PROVE  ModulesInv'
<1>1. /\ TypeOK /\ Core /\ fault = "none" /\ edt = "running" /\ handler.at = "none"
      /\ main.at \notin {"exited", "failed"} /\ ctx["cmd"] = "live"
      /\ kill => kills < MaxKills
      /\ handler' = Pos(IF kill THEN "teardown" ELSE "command", 1, 1)
      /\ kills' = IF kill THEN kills + 1 ELSE kills
      /\ early' = (early \/ (kill /\ main.at # "poll"))
      /\ UNCHANGED <<status, main, set, ctx, edt, commands, failedAt, fault, reader>>
  BY NotOver DEF Spawn, EdtIs, At
<1>2. /\ handler' \in Places /\ handler'.n = 1 /\ handler'.i = 1
      /\ handler'.at \in {"teardown", "command"}
      /\ handler'.at = "teardown" => kill
  BY <1>1 DEF Pos, Places
<1>3. Begun' = Begun /\ \A m \in Modules : Up(m)' <=> Up(m)
  BY <1>1 DEF Begun, Up
<1>4. \A m \in Modules : /\ Passed(Stopper, m)' <=> Passed(Stopper, m)
                         /\ Quitted(Stopper, m)' <=> Quitted(Stopper, m)
  BY <1>1, <1>2 DEF Stopper, Passed, Quitted
<1>5. TypeOK'
  <2>1. kills' \in 0 .. MaxKills
    BY <1>1, LifecycleAssumption DEF TypeOK
  <2>2. early' \in BOOLEAN
    BY <1>1 DEF TypeOK
  <2> QED BY <1>1, <1>2, <2>1, <2>2 DEF TypeOK
<1>6. FaultsHaveCause'
  BY <1>1 DEF FaultsHaveCause
<1>7. MainInv'
  BY <1>1 DEF Core, MainInv, Quitting
<1>8. Up("cmd")
  BY <1>1, TheModules DEF Core, ContextInv
<1>9. HandlerInv'
  <2>1. handler'.at = "teardown" => early' \/ main.at = "poll"
    BY <1>1, <1>2
  <2> QED BY <1>1, <1>2, <1>3, <1>8, <2>1, Orders, TheModules DEF HandlerInv, Quitting
<1>10. EdtInv'
  <2>1. status # "STOPPED"
    BY <1>1, TheModules DEF Core, EdtInv, Quitted, Passed
  <2> QED BY <1>1, <1>4, <2>1, TheModules DEF Core, EdtInv
<1>11. ContextInv'
  BY <1>1, <1>3, <1>4, TheModules DEF Core, ContextInv
<1> QED BY <1>1, <1>5, <1>6, <1>7, <1>9, <1>10, <1>11, StepInv DEF Core

\* A handler that has not begun to quit has what it uses, unless a start failed
\* that had come to the plugins or to what follows the commands.
LEMMA HandlerUses ==
  ASSUME TypeOK, Core, handler.at \notin {"none", "quit", "join", "done"}
  PROVE  failedAt \in Modules \ {"output", "event"} \/ Live({"cmd", "agent", "log"})
<1>1. Up("cmd")
  BY DEF Core, HandlerInv
<1>2. CASE failedAt = "none"
  <2>1. \A m \in Modules : ~Quitted(Stopper, m)
    BY <1>2, HandlerStops DEF Core, HandlerInv
  <2>2. Up("agent") /\ Up("log")
    <3>1. Begun \in 0 .. 7
      BY <1>2, Orders DEF Begun, Core, MainInv
    <3> QED BY <1>1, <3>1, TheRanks DEF Up
  <2> QED BY <1>1, <2>1, <2>2, TheModules DEF Core, ContextInv, Live
<1>3. CASE failedAt # "none"
  <2>1. Begun = Rank(Starts, failedAt)
    BY <1>3 DEF Begun, Core, MainInv
  <2> QED BY <1>1, <1>3, <2>1, TheRanks DEF Up, TypeOK
<1> QED BY <1>2, <1>3

\* The handler goes on, has not yet begun to quit, and does not let go of EVENT.
LEMMA HandlerGoesOn ==
  ASSUME TypeOK, Core, handler' \in Places, HandlerInv', commands' \subseteq commands,
         handler.at \notin {"quit", "join", "done"},
         \/ handler'.at \notin {"quit", "join", "done", "failed"}
         \/ handler'.at = "quit" /\ handler'.n = 1 /\ handler'.i = 1,
         edt \in {"running", "exited"}, edt' = edt,
         edt = "exited" => handler'.at \in {"none", "quit", "join", "done"},
         UNCHANGED <<status, main, set, ctx, failedAt>>
  PROVE  Core'
<1>1. Begun' = Begun /\ \A m \in Modules : Up(m)' <=> Up(m)
  BY DEF Begun, Up
<1>2. \A m \in Modules : /\ Passed(Stopper, m)' <=> Passed(Stopper, m)
                         /\ Quitted(Stopper, m)' <=> Quitted(Stopper, m)
  BY Ranks DEF Stopper, Passed, Quitted, Core, HandlerInv
<1>3. MainInv'
  BY DEF Core, MainInv, Quitting
<1>4. EdtInv'
  <2>1. status = "STOPPED" => failedAt # "none"
    BY DEF Core, EdtInv, Stopper, HandlerInv
  <2> QED BY <1>2, <2>1, TheModules DEF Core, EdtInv, Stopper
<1>5. ContextInv'
  BY <1>1, <1>2, TheModules DEF Core, ContextInv
<1> QED BY <1>3, <1>4, <1>5 DEF Core

LEMMA CommandEndsInv ==
  ASSUME ModulesInv, CommandEnds
  PROVE  ModulesInv'
<1>1. /\ TypeOK /\ Core /\ fault = "none" /\ handler.at = "command"
      /\ main.at \notin {"exited", "failed"}
      /\ handler' = Pos("ended", 1, 1) /\ Use("handler", {"cmd", "agent", "log"})
      /\ UNCHANGED <<status, main, set, ctx, edt, commands, failedAt, kills, reader>>
      /\ (early' <=> early) /\ early' \in BOOLEAN
  BY NotOver, GhostsKept DEF CommandEnds, At
<1>2. handler' \in Places /\ handler'.at = "ended"
  BY <1>1 DEF Pos, Places
<1>3. TypeOK'
  BY <1>1, <1>2 DEF TypeOK, Use
<1>4. FaultsHaveCause'
  BY <1>1, HandlerUses DEF FaultsHaveCause, Use
<1>5. edt = "running"
  BY <1>1 DEF Core, HandlerInv, EdtInv
<1>6. HandlerInv'
  BY <1>1, <1>2, TheModules DEF Core, HandlerInv, Quitting, Up, Begun
<1>7. Core'
  BY <1>1, <1>2, <1>5, <1>6, HandlerGoesOn
<1> QED BY <1>1, <1>3, <1>4, <1>7, StepInv

LEMMA ApologiseInv ==
  ASSUME ModulesInv, Apologise
  PROVE  ModulesInv'
<1>1. /\ TypeOK /\ Core /\ fault = "none" /\ handler.at = "threw"
      /\ main.at \notin {"exited", "failed"}
      /\ handler' = Pos("ended", 1, 1) /\ Use("handler", {"cmd", "agent", "log"})
      /\ UNCHANGED <<status, main, set, ctx, edt, commands, failedAt, kills, reader>>
      /\ (early' <=> early) /\ early' \in BOOLEAN
  BY NotOver, GhostsKept DEF Apologise, At
<1>2. handler' \in Places /\ handler'.at = "ended"
  BY <1>1 DEF Pos, Places
<1>3. TypeOK'
  BY <1>1, <1>2 DEF TypeOK, Use
<1>4. FaultsHaveCause'
  BY <1>1, HandlerUses DEF FaultsHaveCause, Use
<1>5. edt = "running"
  BY <1>1 DEF Core, HandlerInv, EdtInv
<1>6. HandlerInv'
  BY <1>1, <1>2, TheModules DEF Core, HandlerInv, Quitting, Up, Begun
<1>7. Core'
  BY <1>1, <1>2, <1>5, <1>6, HandlerGoesOn
<1> QED BY <1>1, <1>3, <1>4, <1>7, StepInv

\* A command to unregister was registered: the setup() of start() has begun, so
\* that every module is up.  A KILL that comes before it throws.
LEMMA TeardownInv ==
  ASSUME ModulesInv, Teardown
  PROVE  ModulesInv'
<1> DEFINE m == Setups[handler.n]
<1>1. /\ TypeOK /\ Core /\ fault = "none" /\ handler.at = "teardown"
      /\ main.at \notin {"exited", "failed"}
      /\ Use("handler", {"cmd", "log"})
      /\ UNCHANGED <<status, main, set, ctx, edt, failedAt, kills, reader>>
      /\ (early' <=> early) /\ early' \in BOOLEAN
  BY NotOver, GhostsKept DEF Teardown, At
<1>2. /\ handler \in Places /\ handler.n \in {1, 2} /\ handler.i \in Nat
      /\ handler.i >= 1 /\ edt = "running" /\ m \in {"plugin", "event"}
      /\ handler.n = 1 <=> m = "plugin"
      /\ Up("event")
  <2>1. Up("cmd") /\ edt = "running"
    BY <1>1 DEF Core, HandlerInv, EdtInv
  <2>2. Up("event")
    BY <1>1, <2>1, EdtHas, TheModules DEF Live, Core, ContextInv
  <2> QED BY <1>1, <2>1, <2>2, Orders, PlaceFields DEF Core, HandlerInv, TypeOK
<1>3. "event" \in set
  BY <1>1, <1>2, TheModules DEF Core, EdtInv, ContextInv, Quitted
<1>4. \/ /\ handler' = TeardownNext(handler.n) /\ commands' = commands
         /\ handler.n = 2 => handler.i > Len(Commands[m])
      \/ handler' = Pos("threw", 1, 1) /\ commands' = commands
      \/ /\ handler' = [handler EXCEPT !.i = @ + 1]
         /\ Commands[m][handler.i] \in commands /\ commands' \subseteq commands
  BY <1>1, <1>2, <1>3, Orders DEF Teardown, Missing
<1>5. handler.n = 2 /\ handler.i > Len(Commands[m]) => main.at # "init" /\ failedAt = "none"
  BY <1>1, <1>2, LifecycleAssumption DEF Core, HandlerInv
<1> HIDE DEF m
<1>6. /\ handler' \in Places /\ commands' \subseteq commands
      /\ \/ /\ handler'.at = "teardown" /\ handler'.n \in 1 .. 2 /\ handler'.i >= 1
            /\ handler'.i > 1 => main.at # "init" /\ failedAt = "none"
         \/ handler'.at = "threw"
         \/ /\ handler'.at = "quit" /\ handler'.n = 1 /\ handler'.i = 1
            /\ main.at # "init" /\ failedAt = "none"
  <2>1. CASE handler' = TeardownNext(handler.n) /\ commands' = commands /\ handler.n = 1
    <3>1. handler' = [at |-> "teardown", n |-> 2, i |-> 1]
      BY <2>1, Orders DEF TeardownNext, Pos
    <3> QED BY <2>1, <3>1 DEF Places
  <2>2. CASE /\ handler' = TeardownNext(handler.n) /\ commands' = commands
             /\ handler.n = 2 /\ handler.i > Len(Commands[m])
    <3>1. handler' = [at |-> "quit", n |-> 1, i |-> 1]
      BY <2>2, Orders DEF TeardownNext, Pos
    <3> QED BY <1>5, <2>2, <3>1 DEF Places
  <2>3. CASE handler' = Pos("threw", 1, 1) /\ commands' = commands
    BY <2>3 DEF Pos, Places
  <2>4. CASE /\ handler' = [handler EXCEPT !.i = @ + 1]
             /\ Commands[m][handler.i] \in commands /\ commands' \subseteq commands
    <3>1. main.at # "init" /\ failedAt = "none"
      BY <1>1, <2>4 DEF Core, MainInv
    <3>2. /\ handler' \in Places /\ handler'.at = "teardown" /\ handler'.n = handler.n
          /\ handler'.i = handler.i + 1
      BY <1>1, <1>2, <2>4 DEF Places
    <3> QED BY <1>2, <2>4, <3>1, <3>2
  <2> QED BY <1>2, <1>4, <2>1, <2>2, <2>3, <2>4
<1>7. TypeOK'
  BY <1>1, <1>6 DEF TypeOK, Use
<1>8. FaultsHaveCause'
  BY <1>1, HandlerUses DEF FaultsHaveCause, Use, Live
<1>9. HandlerInv'
  <2>1. Up("cmd") /\ Up("cmd")' /\ (early \/ main.at \in {"poll", "exited"})
    BY <1>1 DEF Core, HandlerInv, Up, Begun
  <2> QED BY <1>1, <1>2, <1>6, <2>1, Orders DEF HandlerInv, Quitting
<1>10. Core'
  BY <1>1, <1>2, <1>6, <1>9, HandlerGoesOn
<1> QED BY <1>1, <1>7, <1>8, <1>10, StepInv

LEMMA ReapInv ==
  ASSUME ModulesInv, Reap
  PROVE  ModulesInv'
<1>1. /\ TypeOK /\ Core /\ fault = "none" /\ handler.at = "ended" /\ edt = "running"
      /\ main.at \notin {"exited", "failed"}
      /\ handler' = Pos("none", 1, 1)
      /\ UNCHANGED <<status, main, set, ctx, edt, commands, failedAt, kills, fault, reader>>
      /\ (early' <=> early) /\ early' \in BOOLEAN
  BY NotOver, GhostsKept DEF Reap, At, EdtIs
<1>2. handler' \in Places /\ handler'.at = "none"
  BY <1>1 DEF Pos, Places
<1>3. TypeOK'
  BY <1>1, <1>2 DEF TypeOK
<1>4. FaultsHaveCause'
  BY <1>1 DEF FaultsHaveCause
<1>5. HandlerInv'
  BY <1>1, <1>2 DEF HandlerInv, Quitting
<1>6. Core'
  BY <1>1, <1>2, <1>5, HandlerGoesOn
<1> QED BY <1>1, <1>3, <1>4, <1>6, StepInv

LEMMA EdtEndsInv ==
  ASSUME ModulesInv, EdtEnds
  PROVE  ModulesInv'
<1>1. /\ TypeOK /\ Core /\ fault = "none" /\ edt = "running"
      /\ main.at \notin {"exited", "failed"}
      /\ status = "STOP_REQUESTED" /\ handler.at \in {"none", "ended", "join"}
      /\ edt' = "exited"
      /\ handler' = IF handler.at = "ended" THEN Pos("none", 1, 1) ELSE handler
      /\ Use("edt", {"event", "timer"})
      /\ UNCHANGED <<status, main, set, ctx, commands, failedAt, kills, reader>>
      /\ (early' <=> early) /\ early' \in BOOLEAN
  BY NotOver, GhostsKept DEF EdtEnds, EdtIs, HandlerLetsGo
<1>2. /\ handler' \in Places /\ handler'.at \in {"none", "join"}
      /\ handler'.at = "join" => handler' = handler
  BY <1>1 DEF TypeOK, Pos, Places
<1>3. fault' = "none"
  BY <1>1, EdtHas DEF Use
<1>4. TypeOK'
  BY <1>1, <1>2, <1>3 DEF TypeOK
<1>5. Begun' = Begun /\ \A m \in Modules : Up(m)' <=> Up(m)
  BY <1>1 DEF Begun, Up
<1>6. \A m \in Modules : /\ Passed(Stopper, m)' <=> Passed(Stopper, m)
                         /\ Quitted(Stopper, m)' <=> Quitted(Stopper, m)
  BY <1>1, <1>2 DEF Stopper, Passed, Quitted
<1>7. MainInv'
  BY <1>1 DEF Core, MainInv, Quitting
<1>8. HandlerInv'
  BY <1>1, <1>2, <1>5, TheModules DEF Core, HandlerInv, Quitting
<1>9. EdtInv'
  BY <1>1, <1>2 DEF Core, EdtInv, Stopper
<1>10. ContextInv'
  BY <1>1, <1>5, <1>6, TheModules DEF Core, ContextInv, EdtInv
<1> QED BY <1>1, <1>3, <1>4, <1>7, <1>8, <1>9, <1>10, StepInv DEF Core, FaultsHaveCause

-----------------------------------------------------------------------------
(* The input thread.                                                       *)

\* What it uses was there before its own module, and goes after it.
LEMMA ReaderHas ==
  ASSUME TypeOK, Core, Up("input"), ctx["input"] = "live"
  PROVE  Live({"input", "event", "log"})
<1>1. Up("event") /\ Up("log")
  <2>1. Begun \in Int
    BY PlaceFields, Ranks, Orders DEF Begun, TypeOK
  <2> QED BY <2>1, TheRanks DEF Up
<1>2. /\ Rank(Quits, "input") = 2 /\ Rank(Quits, "event") = 5 /\ Rank(Quits, "log") = 7
  <2>1. Rank(Quits, Quits[2]) = 2
    BY Ranks
  <2> QED BY <2>1, Orders, TheRanks
<1>3. ~Quitted(Stopper, "input")
  BY TheModules DEF Core, ContextInv
<1>4. Stopper.at \in {"quit", "join"} => Stopper.n \in 1 .. 7
  BY Orders DEF Core, MainInv, HandlerInv, Quitting, Stopper
<1>5. ASSUME NEW m \in {"event", "log"}
      PROVE  ~Quitted(Stopper, m)
  <2>1. ~(Stopper.at \in {"quit", "join"} /\ Rank(Quits, "input") < Stopper.n)
    BY <1>3 DEF Quitted, Passed
  <2>2. Stopper.at \in {"quit", "join"} => Stopper.n \in 1 .. 2
    BY <1>2, <1>4, <2>1
  <2> QED BY <1>2, <1>3, <2>2, Orders DEF Quitted, Passed
<1> QED BY <1>1, <1>5, TheModules DEF Live, Core, ContextInv

LEMMA ReaderStepInv ==
  ASSUME IndInv, ReaderStep
  PROVE  ModulesInv'
<1>1. ~Over /\ reader # "none"
  BY DEF ReaderStep, ReaderStarts, ReaderTests, ReaderReads, ReaderGenerates, ReaderLeaves,
         ReaderAt
<1>2. /\ TypeOK /\ Core /\ fault = "none" /\ main.at \notin {"exited", "failed"}
      /\ Up("input")
  BY <1>1, NotOver DEF IndInv, ReaderInv
<1>3. /\ UNCHANGED <<status, main, handler, set, ctx, edt, commands, failedAt, kills>>
      /\ (early' <=> early) /\ early' \in BOOLEAN
  BY <1>2, GhostsKept DEF ReaderStep, ReaderStarts, ReaderTests, ReaderReads,
     ReaderGenerates, ReaderLeaves, ReaderAt
<1>4. reader' \in {"tests", "reads", "got", "leaves", "ended"}
  BY DEF ReaderStep, ReaderStarts, ReaderTests, ReaderReads, ReaderGenerates, ReaderLeaves,
         ReaderAt
<1>5. \/ fault' = "none"
      \/ fault' = "reader" /\ ~Live({"input", "event", "log"})
  BY <1>2 DEF ReaderStep, ReaderStarts, ReaderTests, ReaderReads, ReaderGenerates,
     ReaderLeaves, Use, Live
<1>6. fault' = "reader" => ctx["input"] = "deleted"
  BY <1>2, <1>5, ReaderHas, TheModules DEF Core, ContextInv
<1>7. TypeOK'
  BY <1>2, <1>3, <1>4, <1>5 DEF TypeOK
<1>8. FaultsHaveCause'
  BY <1>3, <1>5, <1>6 DEF FaultsHaveCause
<1>9. Core'
  BY <1>2, <1>3 DEF Core, MainInv, HandlerInv, EdtInv, ContextInv, Quitting, Stopper,
     Passed, Quitted, Up, Begun
<1> QED BY <1>2, <1>3, <1>7, <1>8, <1>9, StepInv

LEMMA StutterInv ==
  ASSUME ModulesInv, UNCHANGED vars
  PROVE  ModulesInv'
BY DEF vars, ghosts, ModulesInv, TypeOK, FaultsHaveCause, MainInv, HandlerInv, EdtInv,
       ContextInv, Quitting, Stopper, Passed, Quitted, Up, Begun

LEMMA ModulesKept ==
  ASSUME IndInv, [Next]_vars
  PROVE  ModulesInv'
<1> ModulesInv
  BY DEF IndInv
<1>1. CASE MainStep
  BY <1>1, InitCreatesInv, InitSucceedsInv, InitFailsInv, SetupInv, ReadyInv, ExitInv,
     MainQuitsInv, FailInv DEF MainStep
<1>2. CASE HandlerStep
  BY <1>2, CommandEndsInv, TeardownInv, ApologiseInv, HandlerQuitsInv DEF HandlerStep
<1>3. CASE EdtStep
  BY <1>3, EdtStartInv, ReapInv, EdtEndsInv DEF EdtStep
<1>4. CASE ReaderStep
  BY <1>4, ReaderStepInv
<1>5. CASE \E kill \in BOOLEAN : Spawn(kill)
  BY <1>5, SpawnInv
<1>6. CASE UNCHANGED vars
  BY <1>6, StutterInv
<1> QED BY <1>1, <1>2, <1>3, <1>4, <1>5, <1>6 DEF Next

\* A context that was there is there or deleted.
LEMMA MadeOnce ==
  ASSUME TypeOK, [Next]_vars, ctx["input"] # "none"
  PROVE  ctx'["input"] # "none"
<1>1. /\ "input" \in Contexts /\ "input" # "timer"
      /\ ctx \in [Contexts -> {"none", "live", "deleted"}]
  BY TheModules DEF Contexts, TypeOK
<1>2. \A ms : Deleted(ms)["input"] # "none"
  BY <1>1 DEF Deleted
<1>3. ASSUME NEW pos, NEW pos2, QuitStep(pos, pos2)
      PROVE  ctx'["input"] # "none"
  BY <1>2, <1>3 DEF QuitStep, QuitSkips, QuitDeletes, QuitCreated, QuitRequests, QuitJoins,
     QuitClears
<1>4. CASE InitCreates
  <2>1. ctx' = [ctx EXCEPT ![Starts[main.n]] = "live",
                           !["timer"] = IF Starts[main.n] = "event" THEN "live" ELSE @]
    BY <1>4 DEF InitCreates
  <2> QED BY <1>1, <2>1
<1>5. CASE InitFails
  BY <1>2, <1>5 DEF InitFails
<1>6. CASE MainQuits \/ HandlerQuits
  BY <1>3, <1>6 DEF MainQuits, HandlerQuits
<1>7. CASE InitSucceeds \/ Setup \/ Ready \/ Exit \/ Fail
  BY <1>7 DEF InitSucceeds, Setup, Ready, Exit, Fail
<1>8. CASE CommandEnds \/ Teardown \/ Apologise
  BY <1>8 DEF CommandEnds, Teardown, Apologise
<1>9. CASE EdtStep
  BY <1>9 DEF EdtStep, EdtStart, Reap, EdtEnds
<1>10. CASE ReaderStep
  BY <1>10 DEF ReaderStep, ReaderStarts, ReaderTests, ReaderReads, ReaderGenerates,
     ReaderLeaves, ReaderAt
<1>11. CASE \E kill \in BOOLEAN : Spawn(kill)
  BY <1>11 DEF Spawn
<1>12. CASE UNCHANGED vars
  BY <1>12 DEF vars
<1> QED BY <1>4, <1>5, <1>6, <1>7, <1>8, <1>9, <1>10, <1>11, <1>12
        DEF Next, MainStep, HandlerStep

\* Only input::init() creates the thread.
LEMMA ReaderCreated ==
  ASSUME [Next]_vars, reader' # "none"
  PROVE  reader # "none" \/ (InitSucceeds /\ Starts[main.n] = "input")
<1>1. CASE MainStep
  BY <1>1 DEF MainStep, InitCreates, InitSucceeds, InitFails, Setup, Ready, Exit, MainQuits,
     Fail
<1>2. CASE HandlerStep
  BY <1>2 DEF HandlerStep, CommandEnds, Teardown, Apologise, HandlerQuits
<1>3. CASE EdtStep
  BY <1>3 DEF EdtStep, EdtStart, Reap, EdtEnds
<1>4. CASE ReaderStep
  BY <1>4 DEF ReaderStep, ReaderStarts, ReaderTests, ReaderReads, ReaderGenerates,
     ReaderLeaves, ReaderAt
<1>5. CASE \E kill \in BOOLEAN : Spawn(kill)
  BY <1>5 DEF Spawn
<1>6. CASE UNCHANGED vars
  BY <1>6 DEF vars
<1> QED BY <1>1, <1>2, <1>3, <1>4, <1>5, <1>6 DEF Next

\* A process that is over takes no step.
LEMMA OverStays ==
  ASSUME Over, [Next]_vars
  PROVE  UNCHANGED vars
<1>1. ASSUME NEW pos, NEW pos2
      PROVE  ~QuitStep(pos, pos2)
  BY DEF QuitStep, QuitSkips, QuitDeletes, QuitCreated, QuitRequests, QuitJoins,
     QuitClears, At
<1>2. ~MainStep /\ ~HandlerStep /\ ~EdtStep
  BY <1>1 DEF MainStep, InitCreates, InitSucceeds, InitFails, Setup, Ready, Exit,
     MainQuits, Fail, HandlerStep, CommandEnds, Teardown, Apologise, HandlerQuits,
     EdtStep, EdtStart, Reap, EdtEnds, At, EdtIs
<1>3. ~ReaderStep /\ \A kill \in BOOLEAN : ~Spawn(kill)
  BY DEF ReaderStep, ReaderStarts, ReaderTests, ReaderReads, ReaderGenerates,
     ReaderLeaves, ReaderAt, Spawn, EdtIs
<1> QED BY <1>2, <1>3 DEF Next

LEMMA StepKeeps ==
  ASSUME IndInv, [Next]_vars
  PROVE  IndInv'
<1>1. ModulesInv'
  BY ModulesKept
<1>2. ASSUME fault' = "none", reader' # "none"
      PROVE  Up("input")'
  <2>1. CASE ~Over
    <3>1. TypeOK /\ Core /\ fault = "none"
      BY <2>1, NotOver DEF IndInv
    <3>2. reader # "none" => Up("input")
      BY <3>1 DEF IndInv, ReaderInv
    <3>3. ASSUME InitSucceeds, Starts[main.n] = "input"
          PROVE  Up("input")
      <4>1. main.at = "init" /\ main.i = 2 /\ main.n \in 1 .. 7
        BY <3>1, <3>3, Orders DEF InitSucceeds, At, Core, MainInv
      <4>2. Begun = main.n /\ Rank(Starts, "input") = main.n
        BY <3>3, <4>1, Ranks DEF Begun
      <4> QED BY <4>1, <4>2 DEF Up
    <3>4. Up("input")
      BY <1>2, <3>2, <3>3, ReaderCreated DEF IndInv, ReaderInv
    <3>5. ctx["input"] # "none"
      BY <3>1, <3>4, TheModules DEF Core, ContextInv
    <3>6. ctx'["input"] # "none"
      BY <3>1, <3>5, MadeOnce
    <3>7. ContextInv'
      BY <1>1, <1>2 DEF ModulesInv
    <3> QED BY <3>6, <3>7, TheModules DEF ContextInv
  <2>2. CASE Over
    <3>1. UNCHANGED vars
      BY <2>2, OverStays
    <3> QED BY <1>2, <3>1 DEF vars, ghosts, IndInv, ReaderInv, Up, Begun
  <2> QED BY <2>1, <2>2
<1> QED BY <1>1, <1>2 DEF IndInv, ReaderInv

\* Until something goes wrong, the places of the threads say which contexts there
\* are (msa.cpp:67): what start() began, but for what the stop() is through with.
THEOREM Invariance == Spec => []IndInv
<1>1. Init => IndInv
  BY InitInv DEF IndInv, Init, ReaderInv
<1>2. IndInv /\ [Next]_vars => IndInv'
  BY StepKeeps
<1> QED BY <1>1, <1>2, PTL DEF Spec

\* No context is used that is not there (msa.cpp:67 to 279; input.cpp:346 to
\* 399), but when a module other than OUTPUT and EVENT fails to start, in the
\* last lines of a start() that a KILL has overtaken, or by an input thread that
\* runs on after input::quit().
THEOREM Causes == Spec => []FaultsHaveCause
<1>1. IndInv => FaultsHaveCause
  BY DEF IndInv, ModulesInv
<1> QED BY <1>1, Invariance, PTL

\* A process that ends has quit every module and ended the EDT (msa.cpp:98 to
\* 279): no pointer is set, and the timers are left only by a start that failed.
THEOREM NothingIsLeft == Spec => []LeavesNothing
<1>1. ASSUME IndInv, main.at \in {"exited", "failed"}
      PROVE  /\ set = {}
             /\ \A m \in Modules : ctx[m] # "live"
             /\ edt # "running" /\ (main.at = "exited" => edt = "exited")
             /\ ctx["timer"] = "live" => edt = "created" \/ failedAt = "event"
  <2>1. TypeOK /\ Core
    BY <1>1 DEF IndInv, ModulesInv, Core
  <2>2. Stopper.at \in {"done", "failed"}
    BY <1>1, <2>1 DEF Core, MainInv, EdtInv, Stopper
  <2>3. \A m \in Modules : Passed(Stopper, m) /\ Quitted(Stopper, m)
    BY <2>2 DEF Passed, Quitted
  <2>4. set = {} /\ \A m \in Modules : ctx[m] # "live"
    BY <2>1, <2>3 DEF Core, ContextInv, TypeOK
  <2>5. edt # "running"
    BY <2>1, <2>3, TheModules DEF Core, EdtInv
  <2>6. main.at = "exited" => edt = "exited"
    BY <2>1, <2>2, <2>5 DEF Core, MainInv, HandlerInv, Stopper
  <2>7. ctx["timer"] = "live" => edt = "created" \/ failedAt = "event"
    BY <2>1, <2>3, TheModules DEF Core, ContextInv
  <2> QED BY <2>4, <2>5, <2>6, <2>7
<1>2. IndInv => LeavesNothing
  BY <1>1 DEF LeavesNothing
<1> QED BY <1>2, Invariance, PTL
=============================================================================
