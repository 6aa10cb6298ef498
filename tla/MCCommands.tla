----------------------------- MODULE MCCommands -----------------------------
(* Instances of Commands for TLC.                                          *)
EXTENDS Commands

CONSTANTS MaxLine, MaxText

\* AGENT_NAME is A, USER_TITLE is U, and ECHO is the command E.
MCChars ==
  {" ", "\"", "'", "$", "\\", ":", "\n", "-", "5", "A", "U", "a", "e", "h", "k", "m",
   "r", "t", "x", "E", "H", "K", "T", "X"}
MCDigits == {"5"}
MCLetters == {"A", "U", "e", "x"}
MCECHO == <<"E">>
MCHELP == <<"H">>
MCKILL == <<"K">>
MCTIMER == <<"T">>
MCExample == <<"X">>
MCAgentName == <<"A">>
MCUserTitle == <<"U">>
MCName == <<"a">>
MCTitle == <<"m">>
MCPluginNames == {<<"x">>, <<"5">>}
MCValues == {<<>>, <<"$", "5">>, <<"\\">>}
MCStartup == <<"e", " ", "x">>

Strings(chars, max) == UNION {[1 .. n -> chars] : n \in 0 .. max}

\* Anything short; the arguments of each command; and a line put off by the
\* line that is put off.
MCLines ==
  Strings({"e", "h", "k", "t", " ", "\\", "'"}, 2)
    \cup {<<"e", " ">> \o s : s \in Strings({"x", " ", "\\", "$", "5", "'"}, MaxLine)}
    \cup {<<"h", " ">> \o s : s \in Strings({"x", "\\", "$", "5"}, 2)}
    \cup {<<"x", " ">> \o s : s \in Strings({"x", " ", "-", "e", ":"}, MaxLine)}
    \cup {<<"t", " ">> \o s \o <<" ", "e", " ", "x">> : s \in {<<"5">>, <<"x">>, <<"\\">>}}
    \cup {<<"t", " ", "-", "-", " ", "-", "5", " ", "e">>,
          <<"t", " ", "-", "r", " ", "5", " ", "e", " ", "x">>,
          <<"t", " ", "5", " ", "'", "e", " ", " ", "x", "'">>}

MCTexts ==
  Strings({"x", " ", "-", "\\", "$", "5", "\""}, 2) \cup Strings({"x", "\\", "$"}, MaxText)

\* Each string of options, and help texts that hang and that throw.
MCPluginCommands ==
  {[name |-> MCExample, options |-> c[1], desc |-> c[2], usage |-> c[3]] :
     c \in {<<<<"x">>, <<"\\">>, <<"x">>>>,
            <<<<"x", ":">>, <<"x">>, <<"$", "5">>>>, <<<<"e", "x", ":">>, <<>>, <<>>>>,
            <<<<"x", ":", "e">>, <<>>, <<>>>>}}
=============================================================================
