------------------------------- MODULE MCLog --------------------------------
(* Instances of Log for TLC.                                               *)
EXTENDS Log, TLC

\* One stream takes every level, the other only the upper one.
MCStreamLevel == [s \in Streams |-> IF s = "file" THEN 2 ELSE 1]
=============================================================================
