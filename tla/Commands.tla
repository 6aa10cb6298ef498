------------------------------ MODULE Commands ------------------------------
(***************************************************************************)
(* The command module: src/cmd/cmd.cpp.  A line of text is split into      *)
(* tokens, the first of which names a command; the others are parsed into  *)
(* its options and arguments; the command is executed, and mostly says     *)
(* something, which Agent turns into what is written.  The TIMER command of*)
(* src/event/timer.cpp delays a line.  Lines are handled one at a time, by *)
(* a handler thread; what it does to its state for one line is one step.   *)
(***************************************************************************)
EXTENDS Agent, SequencesExt

CONSTANTS
  Lines,       \* the lines that may be typed
  Startup,     \* [command] STARTUP
  Texts,       \* texts that are typed in quotes, with escapes
  ECHO, HELP, KILL, TIMER,   \* the names of commands, in upper case
  Example,     \* the name of a plugin's command
  PluginCommands,  \* what it may be declared as
  MaxPending   \* bound on the lines that wait for a timer

\* Quoted text is typed to ECHO, and a "'" would end it.
ASSUME CommandsAssumption ==
  /\ IsInjective(<<ECHO, HELP, KILL, TIMER, Example>>) /\ ECHO = <<"E">>
  /\ {ECHO, HELP, KILL, TIMER, Example} \subseteq Seq(Chars)
  /\ {"E", "H", "K", "T", "X", "e", "r", "-"} \subseteq Chars
  /\ PluginCommands \subseteq [name: {Example}, options: Seq(Chars), desc: Seq(Chars),
                               usage: Seq(Chars)]
  /\ Lines \cup {Startup} \subseteq Seq(Chars)
  /\ Texts \subseteq Seq(Chars \ {"'"})
  /\ MaxPending \in Nat \ {0}

VARIABLES
  commands,    \* ctx->commands: a set of [name, options, desc, usage]
  phase,       \* "idle", "taken", "done", "hangs", "aborts", "stopped"
  line,        \* the line that is handled
  typed,       \* the text it was made of, if it was typed in quotes
  params,      \* the ParamList made of it
  said,        \* what the agent has said about it
  status,      \* ctx->last_status
  threw,       \* ctx->last_threw_exception
  faults,      \* what else than the line could go wrong while it was handled
  pending      \* the lines a timer will type, in the order they were given

lineVars == <<line, typed, params, said>>
commandVars == <<substitutions, commands, phase, lineVars, status, threw,
          faults, pending>>

\* A write fails, or a command throws what is no std::exception ("other").
Faults == WriteFaults \cup {"other"}

Spaces == {Space}
Quotes == {"'", DoubleQuote}

\* string::to_upper(), for the letters that the names of commands are of.
Upper(s) ==
  [i \in 1 .. Len(s) |->
     CASE s[i] = "e" -> "E" [] s[i] = "h" -> "H" [] s[i] = "k" -> "K"
       [] s[i] = "t" -> "T" [] s[i] = "x" -> "X" [] OTHER -> s[i]]

\* Op from first on, over the elements of s in turn.
Over(Op(_, _), first, s) ==
  LET after[n \in 0 .. Len(s)] == IF n = 0 THEN first ELSE Op(after[n - 1], s[n])
  IN after[Len(s)]

-----------------------------------------------------------------------------
(* shell_tokenize().                                                       *)

NoTokens == [out |-> <<>>, cur |-> <<>>, quote |-> ""]

Push(st) ==
  [st EXCEPT !.out = IF st.cur = <<>> THEN @ ELSE Append(@, st.cur), !.cur = <<>>]

\* A "\" is a character like any other: ESCAPED is left where it is entered.
\* Quotes that are not closed end with the line.
Tokenize(st, ch) ==
  CASE st.quote = "" /\ ch \in Spaces -> Push(st)
    [] st.quote = "" /\ ch \in Quotes -> [st EXCEPT !.quote = ch]
    [] st.quote # "" /\ ch = st.quote -> [st EXCEPT !.quote = ""]
    [] OTHER -> [st EXCEPT !.cur = Append(@, ch)]

Tokens(s) == Push(Over(Tokenize, NoTokens, s)).out

-----------------------------------------------------------------------------
(* ParamList: tokens without the first, opts the declared options, "x:" for*)
(* one that takes an argument.                                             *)

NoParams ==
  [args |-> <<>>, options |-> <<>>, parsing |-> TRUE, wants |-> "", error |-> <<>>]

Declared(opts, c) == c # ":" /\ \E p \in 1 .. Len(opts) : opts[p] = c

\* Bug: the character looked at is the option.
NeverTakes(opts, c) == ":" = c

TakesArg(opts, c) ==
  LET p == Min({q \in 1 .. Len(opts) : opts[q] = c})
  IN p < Len(opts) /\ opts[p + 1] = ":"

IsOption(pl, tok) ==
  pl.parsing /\ Head(tok) = "-" /\ Len(tok) > 1 /\ tok[2] # "-"

Fail(pl, c) == [pl EXCEPT !.error = Append(@, c)]

\* A cluster of options; one that takes an argument has to be the last.
TakeOptions(opts, pl, tok) ==
  LET Take(p, c) ==
        IF p.error # <<>> THEN p
        ELSE IF p.wants # "" THEN Fail(p, p.wants)
        ELSE IF ~Declared(opts, c) THEN Fail(p, c)
        ELSE IF TakesArg(opts, c) THEN [p EXCEPT !.wants = c]
        ELSE [p EXCEPT !.options = Append(@, [name |-> c, arg |-> <<>>])]
  IN Over(Take, pl, Tail(tok))

\* The argument of an option may not look like an option.
TakeArgument(pl, tok) ==
  IF Head(tok) = "-" /\ Len(tok) > 1 /\ tok[2] \notin {"-", ":"}
  THEN Fail(pl, pl.wants)
  ELSE [pl EXCEPT !.options = Append(@, [name |-> pl.wants, arg |-> tok]),
                  !.wants = ""]

ParamList(tokens, opts) ==
  LET Param(pl, tok) ==
        CASE pl.error # <<>> -> pl
          [] pl.error = <<>> /\ pl.wants # "" -> TakeArgument(pl, tok)
          [] pl.error = <<>> /\ pl.wants = "" /\ pl.parsing /\ tok = <<"-", "-">> ->
               [pl EXCEPT !.parsing = FALSE]
          [] pl.error = <<>> /\ pl.wants = "" /\ IsOption(pl, tok) ->
               TakeOptions(opts, pl, tok)
          [] OTHER -> [pl EXCEPT !.args = Append(@, tok)]
      all == Over(Param, NoParams, Tail(tokens))
  IN IF all.wants # "" THEN Fail(all, all.wants) ELSE all

-----------------------------------------------------------------------------
(* The commands.                                                           *)

\* The tokens of ts with spaces between them.
Join(ts) ==
  LET joined[n \in 0 .. Len(ts)] ==
        IF n = 0 THEN <<>>
        ELSE joined[n - 1] \o (IF n = 1 THEN <<>> ELSE <<Space>>) \o ts[n]
  IN joined[Len(ts)]

\* help_func() shows the options in brackets: what it takes for flags and what
\* it shows with ARG.
HelpOptions(opts) ==
  LET shown[i \in 1 .. Len(opts) + 1] ==
        IF i > Len(opts) THEN [flags |-> <<>>, withArg |-> <<>>]
        ELSE IF i < Len(opts) /\ opts[i + 1] = ":"
             THEN [shown[i + 2] EXCEPT !.withArg = <<opts[i]>> \o @]
             ELSE [shown[i + 1] EXCEPT !.flags = <<opts[i]>> \o @]
  IN shown[1]

Command(name) == {c \in commands : c.name = name}

\* A text that addresses the user.
ToUser(text) == <<"$">> \o UserTitle \o <<Space>> \o text

\* The texts that a command says in turn, what it returns and whether it runs a
\* line later; the wording is left out, but for what is put into it.  ECHO says
\* its arguments.
Echoes(pl) == [says |-> <<Join(pl.args)>>, status |-> 0]

\* HELP lists the names of the commands.
Names == <<ECHO, HELP, KILL, TIMER, Example>>

NamesShown ==
  [k \in 1 .. Len(Names) |-> IF Command(Names[k]) = {} THEN <<>> ELSE Names[k]]

\* How a command is called; the brackets are spaces here.
Call(c) ==
  LET shown == HelpOptions(c.options)
  IN Join(<<c.name, shown.flags>> \o [k \in 1 .. Len(shown.withArg) |-> <<shown.withArg[k]>>]
            \o <<c.usage>>)

\* Or it says of one its name, its description and how it is called.
Helps(pl) ==
  IF pl.args = <<>> THEN [says |-> NamesShown, status |-> 0]
  ELSE LET name == Upper(Head(pl.args)) IN
       IF Command(name) = {} THEN [says |-> <<ToUser(name)>>, status |-> 1]
       ELSE LET c == CHOOSE d \in Command(name) : TRUE
            IN [says |-> <<c.name, c.desc, Call(c)>>, status |-> 0]

\* What stoi() takes: it looks no further.
Positive(s) == Head(s) \in Digits
Negative(s) == Head(s) = "-" /\ Len(s) > 1 /\ s[2] \in Digits

\* cmd_timer(): too few arguments, not a number, no timer left, or a line.  A
\* line that recurs (-r) is fired once here, because the first event deletes
\* its text: see Timers_freed.cfg.
Times(pl) ==
  IF Len(pl.args) < 2 THEN [says |-> <<ToUser(<<>>)>>, status |-> 1]
  ELSE CASE Negative(Head(pl.args)) -> [says |-> <<ToUser(<<>>)>>, status |-> 3]
         [] Positive(Head(pl.args)) ->
              [says |-> <<ToUser(<<>>)>>,
               status |-> IF Len(pending) < MaxPending THEN 0 ELSE 4]
         [] OTHER -> [says |-> <<ToUser(Head(pl.args))>>, status |-> 2]

-----------------------------------------------------------------------------
(* parse_command().                                                        *)

\* A command of the core; what HELP shows of it is left out.
Default(name, opts) == [name |-> name, options |-> opts, desc |-> <<>>, usage |-> <<>>]

CommandsInit ==
  /\ AgentInit
  /\ commands = {Default(ECHO, <<>>), Default(HELP, <<>>), Default(KILL, <<>>),
                 Default(TIMER, <<"r">>)}
  /\ phase = "idle"
  /\ line = <<>> /\ typed = <<>> /\ params = NoParams /\ said = <<>>
  /\ status = 0 /\ threw = FALSE /\ faults = {}
  /\ pending = <<Startup>>

Finish(pl, text, st, th) ==
  /\ phase' = "done"
  /\ params' = pl
  /\ said' = text
  /\ status' = st /\ threw' = th

\* say() does not return, or an exception leaves the handler thread.
Hangs == phase' = "hangs" /\ UNCHANGED <<params, said, status, threw>>
Aborts == phase' = "aborts" /\ UNCHANGED <<params, said, status, threw>>

\* say() outside of any try block.
SayOutside(pl, text, st, th) ==
  \E s \in Say(text, faults') :
    \/ s.end = "said"   /\ Finish(pl, s.text, st, th)
    \/ s.end = "hangs"  /\ Hangs
    \/ s.end = "throws" /\ Aborts

\* Bug: what a command throws leaves the handler.
EscapesHandler(pl) == Aborts

\* A std::exception is caught.  The apology has no variable but the agent's, but
\* it is written, too.  The parameters are logged first: "-" + name of an option
\* adds a number to a pointer, and what is read there is undefined.
CatchThrown(pl) ==
  \/ SayOutside(pl, <<>>, status, TRUE)
  \/ pl.options # <<>> /\ Aborts

\* Says its texts and returns, and the prompt is written, within the try block.
Execute(pl, result) ==
  \E s \in SayAll(result.says, faults') :
    \/ s.end = "said"   /\ Finish(pl, s.text, result.status, FALSE)
    \/ s.end = "hangs"  /\ Hangs
    \/ /\ s.end = "throws" \/ (s.end = "said" /\ "throws" \in faults')
       /\ CatchThrown(pl)

CmdName(l) == Upper(Head(Tokens(l)))

OptionsOf(name) == (CHOOSE c \in Command(name) : TRUE).options

Parsed(l) == ParamList(Tokens(l), OptionsOf(CmdName(l)))

\* The line l names a command that is registered.
Invokes(l, name) ==
  Tokens(l) # <<>> /\ CmdName(l) = name /\ Command(name) # {}

Runs(l, name) == Invokes(l, name) /\ Parsed(l).error = <<>>

\* Nothing but spaces: no prompt is printed.
BlankLine ==
  /\ Tokens(line) = <<>>
  /\ Finish(NoParams, <<>>, status, threw)
  /\ UNCHANGED <<pending, commands, substitutions>>

UnknownCommand ==
  /\ Tokens(line) # <<>> /\ Command(CmdName(line)) = {}
  /\ \/ SayOutside(NoParams, ToUser(CmdName(line)), status, threw)
     \/ "throws" \in faults' /\ Aborts   \* at the prompt
  /\ UNCHANGED <<pending, commands, substitutions>>

WrongParams(name) ==
  /\ Invokes(line, name) /\ Parsed(line).error # <<>>
  /\ SayOutside(NoParams, Parsed(line).error, -2, FALSE)
  /\ UNCHANGED <<pending, commands, substitutions>>

RunEcho ==
  /\ Runs(line, ECHO)
  /\ Execute(Parsed(line), Echoes(Parsed(line)))
  /\ UNCHANGED <<pending, commands, substitutions>>

RunHelp ==
  /\ Runs(line, HELP)
  /\ Execute(Parsed(line), Helps(Parsed(line)))
  /\ UNCHANGED <<pending, commands, substitutions>>

\* The line is put together from its arguments; it is added before anything
\* is said.
RunTimer ==
  /\ Runs(line, TIMER)
  /\ Execute(Parsed(line), Times(Parsed(line)))
  /\ pending' = IF Times(Parsed(line)).status = 0
                THEN Append(pending, Join(Tail(Parsed(line).args))) ELSE pending
  /\ UNCHANGED <<commands, substitutions>>

\* The plugin's command returns or throws; what else it does is left out.
RunExample ==
  /\ Runs(line, Example)
  /\ \/ Finish(Parsed(line), <<>>, 0, FALSE)
     \/ CatchThrown(Parsed(line))
     \/ "other" \in faults' /\ Aborts
  /\ UNCHANGED <<pending, commands, substitutions>>

\* stop(): agent::quit(), then cmd::quit().
Stop ==
  /\ phase' = "stopped"
  /\ AgentQuit
  /\ commands' = {}
  /\ UNCHANGED <<params, said, status, threw>>

\* stop() returns an error before: event::teardown() has taken TIMER back, and
\* plugin::quit() the plugin's command.
StopFails(pl, text) ==
  /\ Finish(pl, text, status, threw)
  /\ commands' = commands \ (Command(TIMER) \cup Command(Example))
  /\ UNCHANGED substitutions

\* Nothing is stopped if its text cannot be said, or if a stop has failed before:
\* event::teardown() throws then.
RunKill ==
  /\ Runs(line, KILL)
  /\ \E s \in Say(ToUser(<<>>), faults') :
       \/ s.end = "said" /\ Command(TIMER) # {}
            /\ (Stop \/ StopFails(Parsed(line), s.text))
       \/ /\ s.end = "throws" \/ (s.end = "said" /\ Command(TIMER) = {})
          /\ CatchThrown(Parsed(line))
          /\ UNCHANGED <<commands, substitutions>>
  /\ UNCHANGED pending

ParseCommand ==
  /\ phase = "taken"
  /\ \/ faults' = {} /\ BlankLine
     \/ /\ faults' \in SUBSET WriteFaults
        /\ \/ UnknownCommand
           \/ \E name \in {ECHO, HELP, KILL, TIMER, Example} : WrongParams(name)
           \/ RunEcho \/ RunHelp \/ RunTimer \/ RunKill
     \/ faults' \in SUBSET Faults /\ RunExample
  /\ UNCHANGED <<line, typed>>

-----------------------------------------------------------------------------
(* Where lines come from.                                                  *)

Give(l, t) ==
  /\ phase = "idle"
  /\ phase' = "taken"
  /\ line' = l /\ typed' = t
  /\ UNCHANGED <<substitutions, commands, params, said, status, threw, faults>>

Type(l) == Give(l, <<>>) /\ UNCHANGED pending

\* Text in quotes, so that ECHO gets it as it is.
Quoted(text) ==
  <<"e", Space, "-", "-", Space, "'">> \o Escape(text) \o <<"'">>

TypeQuoted(text) == Give(Quoted(text), <<text>>) /\ UNCHANGED pending

\* A line that TIMER put off, or the startup command; timers are in any order.
Fire(i) == Give(pending[i], <<>>) /\ pending' = RemoveAt(pending, i)

\* The handler returns.  Nothing reads last_status or last_threw_exception, so
\* they are forgotten with the line.
HandlerReturns ==
  /\ phase = "done"
  /\ phase' = "idle"
  /\ line' = <<>> /\ typed' = <<>> /\ params' = NoParams /\ said' = <<>>
  /\ status' = 0 /\ threw' = FALSE /\ faults' = {}
  /\ UNCHANGED <<substitutions, commands, pending>>

\* register_command() and unregister_command(), which a plugin calls.
Register(cmd) ==
  /\ Command(cmd.name) = {}
  /\ commands' = commands \cup {cmd}

Unregister == Command(Example) # {} /\ commands' = commands \ Command(Example)

\* A plugin, between two lines.
PluginStep ==
  /\ phase = "idle"
  /\ \/ ((\E cmd \in PluginCommands : Register(cmd)) \/ Unregister) /\ UNCHANGED substitutions
     \/ AgentNext /\ UNCHANGED commands
  /\ UNCHANGED <<phase, lineVars, status, threw, faults, pending>>

CommandsNext ==
  \/ \E l \in Lines : Type(l)
  \/ \E text \in Texts : TypeQuoted(text)
  \/ \E i \in 1 .. Len(pending) : Fire(i)
  \/ ParseCommand \/ HandlerReturns
  \/ PluginStep

CommandsSpec == CommandsInit /\ [][CommandsNext]_commandVars

-----------------------------------------------------------------------------
(* Properties.                                                             *)

\* Every variable ranges over the values the code can give it.
CommandsTypeOK ==
  /\ phase \in {"idle", "taken", "done", "hangs", "aborts", "stopped"}
  /\ status \in -2 .. 4 /\ threw \in BOOLEAN /\ faults \subseteq Faults
  /\ line \in Seq(Chars)
  /\ pending \in Seq(Seq(Chars)) /\ Len(pending) <= MaxPending
  /\ commands \subseteq
       [name: {ECHO, HELP, KILL, TIMER, Example}, options: Seq(Chars),
        desc: Seq(Chars), usage: Seq(Chars)]
  /\ substitutions \subseteq
       [name: PluginNames \cup {AgentName, UserTitle}, value: Seq(Chars), external: BOOLEAN]

\* ECHO "outputs its arguments" (cmd.cpp:44): text in quotes, with an escape
\* where the agent asks for one, comes back as it was typed, under the name of
\* the agent, through the tokens, the parameters, the variables and the
\* escapes, and whatever a plugin has set, unless a write goes wrong.
EchoedVerbatim ==
  typed # <<>> /\ phase \notin {"idle", "taken"} /\ faults = {} =>
    phase = "done" /\ said = Said(Head(typed))

\* A command gets the options that HELP shows for it: with an argument those
\* that are shown with ARG, and without one the others.
OptionsAsHelpSays ==
  \A k \in 1 .. Len(params.options) :
    LET o     == params.options[k]
        shown == HelpOptions(OptionsOf(CmdName(line)))
    IN o.name \in ToSet(IF o.arg = <<>> THEN shown.flags ELSE shown.withArg)

\* The characters of the names that HELP lists for the line l, or of what it
\* shows of the command that l asks about.
Shown(l) ==
  IF ~Runs(l, HELP) THEN {}
  ELSE IF Parsed(l).args = <<>> THEN UNION {ToSet(c.name) : c \in commands}
  ELSE UNION {ToSet(c.desc) \cup ToSet(c.options) \cup ToSet(c.usage) :
                c \in Command(Upper(Head(Parsed(l).args)))}

\* One line may stop the agent only if it has a "$" and a digit, or if HELP shows
\* them for it; or if there is a "\" in it or in a value, if a write throws, or if
\* a plugin's command was given options or throws what is no std::exception.
OnlyFlawedLinesStop ==
  /\ phase = "hangs" => LET chars == ToSet(line) \cup Shown(line)
                         IN "$" \in chars /\ Digits \cap chars # {}
  /\ phase = "aborts" =>
       \/ "\\" \in ToSet(line)
       \/ \E v \in substitutions : "\\" \in ToSet(v.value)
       \/ "throws" \in faults
       \/ Runs(line, Example) /\ ("other" \in faults \/ Parsed(line).options # <<>>)

\* The inductive invariant behind the three: until the agent stops it has its
\* name and ECHO, HELP and KILL have no options, and only a line that is done has
\* parameters.
CommandsInv ==
  /\ CommandsTypeOK
  /\ phase # "stopped" =>
       /\ Registered(AgentName) = {[name |-> AgentName, value |-> Name, external |-> TRUE]}
       /\ Command(ECHO) = {Default(ECHO, <<>>)}
       /\ \A c \in commands : c.name \in {HELP, KILL} => c.options = <<>>
  /\ phase # "done" => params = NoParams
  /\ typed # <<>> => /\ typed \in {<<t>> : t \in Texts}
                     /\ phase = "taken" => line = Quoted(Head(typed))
  /\ EchoedVerbatim /\ OptionsAsHelpSays /\ OnlyFlawedLinesStop

\* A line never ends the agent.  Not so.
NeverHangs == phase # "hangs"

\* Nor does what is thrown.  Not so.
NeverAborts == phase # "aborts"

\* "I will do that": the line of a timer has the arguments that TIMER was
\* given.  Not so.
TimedAsGiven ==
  phase = "done" /\ Runs(line, TIMER) /\ status = 0 =>
    Tokens(Last(pending)) = Tail(Parsed(line).args)
=============================================================================
