---------------------------- MODULE MCScripting -----------------------------
(* Instances of Scripting for TLC.                                         *)
EXTENDS Scripting

\* A script with a crontab and one that may be added under its name after it was
\* deleted, and two under another name that exec() refuses or that fails.
MCNameOf == [r \in Rows |-> IF r \in {"a1", "a2"} THEN "backup" ELSE "report"]
=============================================================================
