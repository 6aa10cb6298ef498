------------------------------ MODULE MCTimers ------------------------------
(* Instances of Timers for TLC.                                            *)
EXTENDS Timers, TLC

\* Timer objects are interchangeable (used where no liveness is checked).
Symmetry == Permutations(Timers)
=============================================================================
