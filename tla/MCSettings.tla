----------------------------- MODULE MCSettings -----------------------------
(* Instances of Settings for TLC.                                          *)
EXTENDS Settings

CONSTANT MaxLines

MCNoIndex == -1
MCBadIndex == -2
MCGarbage == {-7, 1}

a == <<"a">>
MCLevels == {<<"i">>, <<"w">>}
MCInfo == <<"i">>
MCFormats == {<<"x">>, <<"t">>}
MCXml == <<"x">>
MCText == <<"t">>
MCTypes == {<<"f">>}
MCModes == {<<"o">>, <<"p">>}
MCAppendMode == <<"p">>
MCWritable == {a, <<"w">>}
MCDigit == [d \in {"0", "1", "2", "3"} |->
              CASE d = "0" -> 0 [] d = "1" -> 1 [] d = "2" -> 2 [] d = "3" -> 3]

\* Lines that lists are made of, values that are hard to keep, and errors.
Generic ==
  {Header("LOG", TRUE), Header("S", FALSE), Junk,
   Pair("LEVEL", NoIndex, a, TRUE), Pair("LEVEL", 0, <<"w">>, TRUE),
   Pair("LEVEL", 2, <<Quote, Blank, "a", Quote>>, TRUE),
   Pair("LEVEL", BadIndex, a, TRUE),
   Pair("K", NoIndex, <<Blank, "a", Blank>>, TRUE),
   Pair("K", 1, <<Quote, "a", Blank, Quote>>, TRUE),
   Pair("K", NoIndex, <<Quote, Quote, "a", Quote, Quote>>, TRUE),
   Pair("K", NoIndex, <<Quote>>, TRUE), Pair("", NoIndex, a, FALSE)}

LogLines ==
  {Pair("LEVEL", NoIndex, <<"w">>, TRUE), Pair("LEVEL", 1, <<"w">>, TRUE),
   Pair("LOCATION", 1, <<"w">>, TRUE), Pair("FORMAT", 0, <<"t">>, TRUE),
   Pair("OUTPUT", NoIndex, a, TRUE), Pair("GLOBAL_LEVEL", NoIndex, <<"w">>, TRUE),
   Pair("OPEN_MODE", 1, <<"o">>, TRUE), Pair("OPEN_MODE", NoIndex, <<"q">>, TRUE),
   Pair("TYPE", NoIndex, <<"q">>, TRUE), Pair("LOCATION", 1, <<"q">>, TRUE)}

\* Two streams and two more lines.
LogFiles ==
  {<<Header("LOG", TRUE), Pair("TYPE", NoIndex, <<"f">>, TRUE),
     Pair("TYPE", NoIndex, <<"f">>, TRUE), Pair("LOCATION", NoIndex, a, TRUE),
     Pair("LOCATION", NoIndex, a, TRUE), l, m>> : l, m \in LogLines}

Times == {Empty, a} \cup {<<d>> : d \in DOMAIN MCDigit}

EventFiles ==
  {<<Header("EVENT", TRUE)>> \o s : s \in
     {<<Pair("SLEEP", NoIndex, t, TRUE)>> : t \in Times}
       \cup {<<Pair("TICK", NoIndex, t, TRUE)>> : t \in Times}
       \cup {<<Pair("SLEEP", NoIndex, t, TRUE), Pair("TICK", NoIndex, u, TRUE)>> :
               t, u \in Times}}

MCFiles ==
  UNION {[1 .. n -> Generic] : n \in 0 .. MaxLines} \cup LogFiles \cup EventFiles
=============================================================================
