------------------------------ MODULE MCOutput ------------------------------
(* Instances of Output for TLC.                                            *)
EXTENDS Output, TLC

CONSTANTS h0, h1, kStdout, kPlugin

\* 1 and 2 are terminals, 3 is STDOUT; the handler of a plugin prints to any.
MCIds == {1, 2, 3}
MCHandlers == {h0, h1}
MCKeys == {kStdout, kPlugin}
MCKey == (h0 :> kStdout) @@ (h1 :> kPlugin)
MCTypeOf == [x \in MCIds \cup MCKeys |-> "TTY"]
MCStdout == {3}

Entry(i, k) == [id |-> i, key |-> k]

\* Nothing, a device, two, one twice and a handler that is not there yet.
MCConfigs ==
  {<<>>, <<Entry(3, kStdout)>>, <<Entry(2, kStdout), Entry(3, kStdout)>>,
   <<Entry(3, kStdout), Entry(3, kStdout)>>, <<Entry(3, kStdout), Entry(1, kPlugin)>>}
=============================================================================
