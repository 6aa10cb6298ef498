--------------------------- MODULE MCInputDevices ---------------------------
(* Instances of InputDevices for TLC.                                      *)
EXTENDS InputDevices, TLC

CONSTANTS o1, o2, o3, t1, t2

\* Two devices in turn under one ID, and one whose type has no handler.
MCId == o1 :> "TTY:a" @@ o2 :> "TTY:a" @@ o3 :> "TCP:1"

=============================================================================
