---------------------------- MODULE MCLifecycle -----------------------------
(* Instances of Lifecycle for TLC.                                         *)
EXTENDS Lifecycle

\* Two commands of each setup(), so that a KILL can come between them.
MCCommands == [m \in {"plugin", "event"} |->
                 IF m = "plugin" THEN <<"PLUGINENABLE", "PLUGINDISABLE">>
                                 ELSE <<"TIMER", "DELTIMER">>]
=============================================================================
