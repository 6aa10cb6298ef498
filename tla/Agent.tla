-------------------------------- MODULE Agent --------------------------------
(***************************************************************************)
(* What the agent says: src/agent/agent.cpp, and the expander of variables *)
(* it uses, src/util/var.cpp.  A text is a sequence of characters, among   *)
(* them "$", which starts a variable, and "\\", which escapes.  AGENT_NAME *)
(* and USER_TITLE are variables whose values the agent's context holds; a  *)
(* plugin may register others.                                             *)
(***************************************************************************)
EXTENDS Integers, Sequences, FiniteSetsExt

CONSTANTS
  Chars,      \* the characters that texts are made of
  Digits,     \* the digits
  Letters,    \* the other characters of an identifier
  AgentName, UserTitle,   \* the names of the two variables of the agent
  Name, Title,            \* their values, as configured
  PluginNames,            \* the names a plugin registers substitutions under
  Values                  \* the values it sets them to

Space == " "
DoubleQuote == "\""

\* The other characters that mean something.
Marks == {Space, DoubleQuote, "'", "$", "\\", ":", "\n"}

Ident == Digits \cup Letters

ASSUME AgentAssumption ==
  /\ Digits \subseteq {"0", "1", "2", "3", "4", "5", "6", "7", "8", "9"}
  /\ Letters \cap (Digits \cup Marks) = {}
  /\ Ident \cup Marks \subseteq Chars
  /\ {AgentName, UserTitle} \subseteq Seq(Letters) /\ AgentName # UserTitle
  /\ AgentName # <<>> /\ UserTitle # <<>>
  /\ {Name, Title} \cup PluginNames \cup Values \subseteq Seq(Chars)

\* The agent's name has no escape.  Nothing in the code sees to it: of another
\* one, say() writes less than is configured.
ASSUME NameAssumption == \A i \in 1 .. Len(Name) : Name[i] # "\\"

VARIABLE
  substitutions  \* ex->substitutions: records of a name, its value and external

-----------------------------------------------------------------------------
(* var::expand().                                                          *)

\* Per position of s, whether a scan that starts at pos finds it escaped.
EscapedFrom(s, pos) ==
  LET escaped[i \in pos .. Len(s)] ==
        i > pos /\ s[i - 1] = "\\" /\ ~escaped[i - 1]
  IN escaped

\* Bug: the escape before a variable is not looked at.
FindAny(s, pos) == {i \in pos .. Len(s) : s[i] = "$"}

\* find_unescaped(), from pos on.
FindUnescaped(s, pos) ==
  LET escaped == EscapedFrom(s, pos)
  IN {i \in pos .. Len(s) : s[i] = "$" /\ ~escaped[i]}

\* The places where find_next_variable() stops: a "$" with an identifier after
\* it.  Before a digit it looks at the same place for ever.
Stops(s, pos) == {i \in FindUnescaped(s, pos) : i < Len(s) /\ s[i + 1] \in Ident}

\* The last position of the identifier that starts at i.
IdentEnd(s, i) ==
  Max({j \in i .. Len(s) : \A k \in i .. j : s[k] \in Ident})

\* get_value(): a variable that is not registered is empty.
GetValue(name) ==
  IF \E v \in substitutions : v.name = name
  THEN (CHOOSE v \in substitutions : v.name = name).value
  ELSE <<>>

\* expand_variables(): goes on behind the value it has put in; hangs at "$5".
ExpandVariables(s) ==
  LET expanded[pos \in 1 .. Len(s) + 1] ==
        IF Stops(s, pos) = {}
        THEN [hangs |-> FALSE, text |-> SubSeq(s, pos, Len(s))]
        ELSE LET i == Min(Stops(s, pos)) IN
             IF s[i + 1] \in Digits
             THEN [hangs |-> TRUE, text |-> <<>>]
             ELSE LET end  == IdentEnd(s, i + 1)
                      rest == expanded[end + 1]
                  IN [hangs |-> rest.hangs,
                      text |-> SubSeq(s, pos, i - 1)
                                 \o GetValue(SubSeq(s, i + 1, end)) \o rest.text]
  IN expanded[1]

Escapable == {"\\", "$"}

\* remove_escapes() throws at a "\" before any other character.
BadEscape(s) ==
  LET escaped == EscapedFrom(s, 1)
  IN \E i \in 1 .. Len(s) : escaped[i] /\ s[i] \notin Escapable

\* The text without the characters that escape.
RemoveEscapes(s) ==
  LET escaped == EscapedFrom(s, 1)
      kept[n \in 0 .. Len(s)] ==
        IF n = 0 THEN <<>>
        ELSE IF s[n] = "\\" /\ ~escaped[n] THEN kept[n - 1]
                                           ELSE Append(kept[n - 1], s[n])
  IN kept[Len(s)]

\* What output::write_text() may do but print: the handler of the active device
\* throws, as print_to_stdout() does on any other, or nothing is written, because
\* the agent is not RUNNING.
WriteFaults == {"throws", "silent"}

\* agent::say(): what may come of it while writes go wrong in the ways of faults.
Say(text, faults) ==
  LET s == ExpandVariables(<<"$">> \o AgentName \o <<":", Space, DoubleQuote>>
                             \o text \o <<DoubleQuote, "\n">>)
      said == {[end |-> "said", text |-> RemoveEscapes(s.text)]}
                \cup {[end |-> "throws", text |-> <<>>] : f \in faults \cap {"throws"}}
                \cup {[end |-> "said", text |-> <<>>] : f \in faults \cap {"silent"}}
  IN CASE s.hangs -> {[end |-> "hangs", text |-> <<>>]}
       [] ~s.hangs /\ BadEscape(s.text) -> {[end |-> "throws", text |-> <<>>]}
       [] ~s.hangs /\ ~BadEscape(s.text) -> said

\* What may come of texts that are said in turn: the first that is not said is
\* the last that is tried.
SayAll(texts, faults) ==
  LET CanSay(i) == \E r \in Say(texts[i], faults) : r.end = "said"
      Tried     == {i \in 1 .. Len(texts) : \A j \in 1 .. i - 1 : CanSay(j)}
  IN UNION {{r \in Say(texts[i], faults) : r.end = "said" => i = Len(texts)} : i \in Tried}

\* What reads back as s: there is no function for it in the code.
Escape(s) ==
  LET escaped[n \in 0 .. Len(s)] ==
        IF n = 0 THEN <<>>
        ELSE escaped[n - 1] \o (IF s[n] \in Escapable THEN <<"\\", s[n]>>
                                                      ELSE <<s[n]>>)
  IN escaped[Len(s)]

\* s as the agent says it.
Said(s) == Name \o <<":", Space, DoubleQuote>> \o s \o <<DoubleQuote, "\n">>

-----------------------------------------------------------------------------
(* The substitutions.                                                      *)

\* init(): create_expander(), read_config() and add_default_substitutions().
AgentInit ==
  substitutions =
    {[name |-> AgentName, value |-> Name, external |-> TRUE],
     [name |-> UserTitle, value |-> Title, external |-> TRUE]}

Registered(name) == {v \in substitutions : v.name = name}

\* is_valid_identifier(); the empty name is one.
ValidIdentifier(name) ==
  /\ \A i \in 1 .. Len(name) : name[i] \in Ident
  /\ name # <<>> => Head(name) \notin Digits

\* register_substitution() throws if the name is not valid or taken.
RegisterSubstitution(name) ==
  /\ ValidIdentifier(name) /\ Registered(name) = {}
  /\ substitutions' = substitutions \cup
       {[name |-> name, value |-> <<>>, external |-> FALSE]}

\* set_value() and unregister_internal() throw if the variable is external.
Internal(name) == {v \in Registered(name) : ~v.external}

SetSubstitution(name, value) ==
  \E v \in Internal(name) :
    substitutions' = (substitutions \ {v}) \cup {[v EXCEPT !.value = value]}

UnregisterSubstitution(name) ==
  /\ Internal(name) # {}
  /\ substitutions' = substitutions \ Internal(name)

\* quit(): remove_default_substitutions() and dispose_expander().
AgentQuit == substitutions' = {}

AgentNext ==
  \E name \in PluginNames \cup {AgentName, UserTitle} :
    \/ RegisterSubstitution(name)
    \/ \E value \in Values : SetSubstitution(name, value)
    \/ UnregisterSubstitution(name)
=============================================================================
