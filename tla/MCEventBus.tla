----------------------------- MODULE MCEventBus -----------------------------
(* Instances of EventBus for TLC.                                          *)
EXTENDS EventBus, TLC

\* Two requests for a script and one to delete one.
MCKindOf == [c \in Clients |-> IF c = "delete" THEN "deleted" ELSE "script"]
MCPriority == [k \in Kinds |-> 100]

\* One request each, or a second one of the first client.
MCOneRound == [c \in Clients |-> 1]
MCMaxRounds == [c \in Clients |-> IF c = "get1" THEN 2 ELSE 1]

\* Deleting goes first.
MCDeleteFirst == [k \in Kinds |-> IF k = "deleted" THEN 50 ELSE 100]
=============================================================================
