----------------------------- MODULE MCPlugins ------------------------------
(* Instances of Plugins for TLC.                                           *)
EXTENDS Plugins, TLC

\* The example plugin adds LOVE; two others share a name with it and with each
\* other.
MCCommandsOf == [p \in Plugins |-> CASE p = "example" -> <<"LOVE">>
                                     [] p = "poet"    -> <<"RHYME", "LOVE">>
                                     [] p = "mime"    -> <<"RHYME">>]
MCCoreNames == <<"KILL", "ECHO">>
MCSetupNames == <<"PLUGINENABLE", "PLUGINDISABLE">>
=============================================================================
