------------------------------- MODULE Config -------------------------------
(***************************************************************************)
(* The configuration file: src/cfg/cfg.cpp and src/cfg/cfg.hpp.  load()    *)
(* reads it line by line into sections of keys, each with a list of values;*)
(* save() writes such a configuration.  A line is a record, comments and   *)
(* blank lines being left out; a value is a sequence of characters.        *)
(***************************************************************************)
EXTENDS Integers, SequencesExt, FiniteSetsExt

CONSTANTS
  Files,      \* the sequences of lines that are loaded
  NoIndex,    \* of a line that appends a value
  BadIndex    \* an index that is not a number, or one stoi() does not take

Blank == " "
Quote == "\""
TopName == ""      \* the section of the lines before the first header

\* The lines of a file; ok: the name or key is an identifier.
Header(name, ok) == [kind |-> "header", name |-> name, ok |-> ok]
Pair(key, index, value, ok) ==
  [kind |-> "pair", key |-> key, index |-> index, value |-> value, ok |-> ok]
Junk == [kind |-> "junk"]

\* "make sure we have ONLY digits" (cfg.cpp:172): an index counts from 0.
Indices == Nat \cup {NoIndex, BadIndex}

IsLine(l) ==
  /\ l.kind \in {"header", "pair", "junk"}
  /\ l.kind = "pair" => l.index \in Indices

IsSeq(s) == s \in Seq(ToSet(s))
IsFile(f) == IsSeq(f) /\ \A l \in ToSet(f) : IsLine(l)

\* A value is a sequence of characters.
HasTexts(f) == \A l \in ToSet(f) : l.kind = "pair" => IsSeq(l.value)

ASSUME ConfigAssumption ==
  /\ NoIndex \notin Nat /\ BadIndex \notin Nat /\ NoIndex # BadIndex
  /\ \A f \in Files : IsFile(f) /\ HasTexts(f)

VARIABLES
  file,       \* the lines of the file
  ended,      \* the last line ends with a newline
  pos,        \* the line that is read next
  config,     \* sections of the names that are there: lists of the keys' values
  section,    \* section_name
  correct,    \* no_errors
  phase,      \* "reading", "loaded", "null"
  before      \* the configuration that was saved, in a sequence of at most one

loadVars == <<file, ended, pos, config, section, correct, before>>

Empty == <<>>      \* no section, no key, no value

ConfigInit ==
  /\ file \in Files
  /\ ended \in BOOLEAN
  /\ pos = 1 /\ config = Empty /\ section = TopName /\ correct = TRUE
  /\ phase = "reading"
  /\ before = Empty

-----------------------------------------------------------------------------
(* load().                                                                 *)

\* string::trim().
Trim(s) ==
  LET kept == {i \in 1 .. Len(s) : s[i] # Blank}
  IN IF kept = {} THEN Empty ELSE SubSeq(s, Min(kept), Max(kept))

IsQuoted(s) == s # Empty /\ Head(s) = Quote /\ Last(s) = Quote

\* One pair of quotes is taken away; of a single quote nothing is left.
Unquote(s) == IF IsQuoted(s) THEN SubSeq(s, 2, Len(s) - 1) ELSE s

\* Bug: what is between the end of the list and the index is not filled in.
Shift(values, index, value) ==
  IF index = NoIndex \/ index >= Len(values) THEN Append(values, value)
                                             ELSE [values EXCEPT ![index + 1] = value]

\* push() and set(): indices count from 0, the values before are empty.
Put(values, index, value) ==
  IF index = NoIndex THEN Append(values, value)
  ELSE [i \in 1 .. Max({Len(values), index + 1}) |->
          IF i = index + 1 THEN value
          ELSE IF i <= Len(values) THEN values[i] ELSE Empty]

Section(name) == IF name \in DOMAIN config THEN config[name] ELSE Empty
ValuesIn(sec, key) == IF key \in DOMAIN sec THEN sec[key] ELSE Empty

\* Whether interpret() throws.
Refused(l) ==
  CASE l.kind = "header" -> ~l.ok
    [] l.kind = "pair"   -> ~l.ok \/ l.index = BadIndex
    [] l.kind = "junk"   -> TRUE

\* The function f but for k, whose value is v.
With(f, k, v) == [x \in DOMAIN f \cup {k} |-> IF x = k THEN v ELSE f[x]]

\* read_section_header(): a section that was there is dropped.
ReadHeader(l) == config' = With(config, l.name, Empty)

\* read_kv_pair().
ReadPair(l) ==
  LET sec    == Section(section)
      values == Put(ValuesIn(sec, l.key), l.index, Unquote(Trim(l.value)))
  IN config' = With(config, section, With(sec, l.key, values))

\* "parsing is all-or-nothing": one error is enough.
NoErrors(l) == correct /\ ~Refused(l)

\* getline() is at the end of the file, too, when it has read a line that does
\* not end with a newline: that line is not looked at.
LinesRead == IF ended THEN Len(file) ELSE Len(file) - 1

\* The name of a section is taken before it is checked.
ReadLine ==
  /\ phase = "reading" /\ pos <= LinesRead
  /\ LET l == file[pos] IN
       /\ IF l.kind = "header" THEN section' = l.name ELSE UNCHANGED section
       /\ CASE Refused(l) -> UNCHANGED config
            [] ~Refused(l) /\ l.kind = "header" -> ReadHeader(l)
            [] ~Refused(l) /\ l.kind = "pair" -> ReadPair(l)
       /\ correct' = NoErrors(l)
  /\ pos' = pos + 1
  /\ UNCHANGED <<file, ended, phase, before>>

LoadReturns ==
  /\ phase = "reading" /\ pos > LinesRead
  /\ phase' = IF correct THEN "loaded" ELSE "null"
  /\ config' = IF correct THEN config ELSE Empty
  /\ UNCHANGED <<file, ended, pos, section, correct, before>>

-----------------------------------------------------------------------------
(* save(), which the agent itself does not call.                           *)

\* include_index
IndexWritten(values, i) == IF Len(values) > 1 THEN i - 1 ELSE NoIndex

\* Bug: no value is put in quotes.
WriteBare(v) == v

\* Only a blank at its beginning puts a value in quotes.
WriteValue(v) ==
  IF v # Empty /\ Head(v) = Blank THEN <<Quote>> \o v \o <<Quote>> ELSE v

WriteSection(sec) ==
  FlattenSeq([k \in 1 .. Cardinality(DOMAIN sec) |->
    LET key == SetToSeq(DOMAIN sec)[k] IN
      [i \in 1 .. Len(sec[key]) |->
         Pair(key, IndexWritten(sec[key], i), WriteValue(sec[key][i]), TRUE)]])

\* The blank section comes first, without a header.
WriteConfig(c) ==
  LET names == SetToSeq(DOMAIN c \ {TopName})
      top   == IF TopName \in DOMAIN c THEN c[TopName] ELSE Empty
  IN WriteSection(top) \o
       FlattenSeq([n \in 1 .. Len(names) |->
         <<Header(names[n], TRUE)>> \o WriteSection(c[names[n]])])

\* The configuration is saved, and the file loaded again.
SaveAndLoad ==
  /\ phase = "loaded" /\ before = Empty
  /\ before' = <<config>>
  /\ file' = WriteConfig(config)
  /\ ended' = TRUE
  /\ pos' = 1 /\ config' = Empty /\ section' = TopName /\ correct' = TRUE
  /\ phase' = "reading"

ConfigNext == ReadLine \/ LoadReturns \/ SaveAndLoad

-----------------------------------------------------------------------------
(* Properties.                                                             *)

\* The section line i belongs to.
SectionAt(i) ==
  LET headers == {j \in 1 .. i : file[j].kind = "header"}
  IN IF headers = {} THEN TopName ELSE file[Max(headers)].name

\* No line from i + 1 to n drops what line i assigns or assigns it again.
LastUpTo(i, n) ==
  \A j \in i + 1 .. n :
    SectionAt(j) = SectionAt(i) =>
      /\ file[j].kind # "header"
      /\ <<file[j].key, file[j].index>> # <<file[i].key, file[i].index>>

Lasts(i) == LastUpTo(i, LinesRead)

Indexed(i) == file[i].kind = "pair" /\ file[i].index # NoIndex

\* The value of line i is where its index says.
Assigned(i) ==
  LET values == ValuesIn(Section(SectionAt(i)), file[i].key)
  IN /\ Len(values) > file[i].index
     /\ values[file[i].index + 1] = Unquote(Trim(file[i].value))

\* "did we have an explicit index set? If so, we must use it" (cfg.cpp:197): of
\* each key and index the last value counts, whatever is appended or assigned
\* to other indices before or after it, and no other section is touched.
LastAssignmentHolds ==
  phase = "loaded" =>
    \A i \in 1 .. LinesRead : Indexed(i) /\ Lasts(i) => Assigned(i)

\* What the code can make of a file: sections of keys of lists.
IsConfig(c) ==
  /\ IsFiniteSet(DOMAIN c)
  /\ \A name \in DOMAIN c :
       /\ IsFiniteSet(DOMAIN c[name])
       /\ \A key \in DOMAIN c[name] : IsSeq(c[name][key])

\* The inductive invariant of load() and save(): of the lines that were read,
\* what LastAssignmentHolds says of all.
ConfigInv ==
  /\ IsFile(file) /\ ended \in BOOLEAN /\ IsConfig(config)
  /\ pos \in Nat \ {0} /\ (pos = 1 \/ pos <= LinesRead + 1)
  /\ section = SectionAt(pos - 1)
  /\ correct \in BOOLEAN
  /\ correct => \A i \in 1 .. pos - 1 :
       ~Refused(file[i]) /\ (Indexed(i) /\ LastUpTo(i, pos - 1) => Assigned(i))
  /\ phase \in {"reading", "loaded", "null"}
  /\ phase = "loaded" => correct /\ pos > LinesRead

\* A value that save() writes so that load() reads it.
Plain(v) == v # Empty => Last(v) # Blank /\ ~IsQuoted(v)

AllPlain(c) ==
  \A name \in DOMAIN c : \A key \in DOMAIN c[name] :
    \A i \in 1 .. Len(c[name][key]) : Plain(c[name][key][i])

NotEmpty(c) == [name \in {n \in DOMAIN c : c[n] # Empty} |-> c[name]]

\* What was saved is loaded again, if its values end neither in a blank nor
\* have quotes around them; a section without keys may get lost.
SavedLoadsBack ==
  before # Empty /\ AllPlain(Head(before)) =>
    phase # "null" /\ (phase = "loaded" => NotEmpty(config) = NotEmpty(Head(before)))

\* Any configuration is.  Not so.
AnySavedLoadsBack ==
  before # Empty /\ phase = "loaded" => NotEmpty(config) = NotEmpty(Head(before))

\* Every line counts.  Not so.
EveryLineCounts == phase = "loaded" => LinesRead = Len(file)
=============================================================================
