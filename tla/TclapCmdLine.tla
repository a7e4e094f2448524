---------------------------- MODULE TclapCmdLine ----------------------------
(***************************************************************************)
(* The command line parser of the server's tools (include/tclap): CmdLine  *)
(* walks over the tokens of the line and offers each to the arguments, in  *)
(* the order of its list, until one takes it.  An argument can take the    *)
(* next token as well, can blank letters of a group of switches so that    *)
(* the others see only the rest, and can end the program.                  *)
(*                                                                         *)
(* Abstractions.  A token is a record: its spelling, the number it spells  *)
(* if it spells one, its dashes, its letters, and the text behind the      *)
(* delimiter (a blank) if there is one.  "--" is a dash and the letter     *)
(* "-".  A 32-bit word is the integer its bits stand for in two's          *)
(* complement.  The texts of usage and errors are left out.                *)
(***************************************************************************)
EXTENDS Integers, FiniteSets, SequencesExt

CONSTANTS
    Programs,   \* program |-> its add and xorAdd calls: a sequence of lists
    Tokens,     \* program |-> the tokens its command lines are made of
    MaxTokens   \* bound: tokens in a command line

VARIABLES
    prog,           \* the program that runs
    args,           \* its tokens; switches blank letters in them
    i,              \* the token being looked at
    at,             \* the position in _argList of the argument it is offered to
    state,          \* name |-> what parsing has changed of the argument
    ignoreRest,     \* Arg::_ignoreRest
    requiredCount,
    outcome,        \* "parsing", "accepted", or how the program ended
    line            \* history: the tokens as they were typed

cmdVars == <<prog, args, i, at, state, ignoreRest, requiredCount, outcome, line>>
-----------------------------------------------------------------------------
(***************************************************************************)
(* Words, tokens and values.                                               *)
(***************************************************************************)
BlankChar == "blank"

Word(text, num) == [text |-> text, num |-> num]
NoWord == Word("", {})

Token(text, num, dash, letters, inline) ==
    [text |-> text, num |-> num, dash |-> dash, letters |-> letters, inline |-> inline]
BareToken(text, num) == Token(text, num, 0, <<>>, NoWord)
FlagToken(text, letters) == Token(text, {}, 1, letters, NoWord)
NameToken(text, name) == Token(text, {}, 2, <<name>>, NoWord)

StringValue(text) == [text |-> text]
NumberValue(n) == [num |-> n]

\* The values a text is read as: none if the stream fails or more than one
\* value is in it.  An empty text is no failure: the number keeps its value.
ExtractValue(type, word, current) ==
    CASE type = "string" -> {StringValue(word.text)}
      [] type # "string" /\ word.text = "" -> {current}
      [] OTHER -> {NumberValue(n) : n \in
                      {m \in word.num : type = "short" => m \in -32768..32767}}
-----------------------------------------------------------------------------
(***************************************************************************)
(* Arguments.  "constraint" holds the allowed values, or nothing.          *)
(***************************************************************************)
Arg(kind, flag, name, req, type, default, constraint) ==
    [kind |-> kind, flag |-> flag, name |-> name, req |-> req, type |-> type,
     default |-> default, constraint |-> constraint]

ValueArg(flag, name, req, type, default) ==
    Arg("value", flag, name, req, type, default, <<>>)
ConstrainedArg(flag, name, req, type, default, allowed) ==
    Arg("value", flag, name, req, type, default, <<allowed>>)
MultiArg(flag, name, req) == Arg("multi", flag, name, req, "string", <<>>, <<>>)
SwitchArg(flag, name, default) ==
    Arg("switch", flag, name, FALSE, "bool", default, <<>>)
MultiSwitchArg(flag, name) ==
    Arg("multiswitch", flag, name, FALSE, "int", 0, <<>>)
UnlabeledValueArg(name, req, default) ==
    Arg("unlabeled", "", name, req, "string", default, <<>>)
UnlabeledMultiArg(name, req) ==
    Arg("unlabeledmulti", "", name, req, "string", <<>>, <<>>)

Unlabeled(a) == a.kind \in {"unlabeled", "unlabeledmulti"}
Multiple(a) == a.kind \in {"multi", "unlabeledmulti"}

\* What the constructor of CmdLine adds before the program's own arguments.
Builtins == <<SwitchArg("h", "help", FALSE), SwitchArg("", "version", FALSE),
              SwitchArg("-", "ignore_rest", FALSE)>>

\* Two arguments that add() refuses to have in one list.
SameArg(a, b) == \/ a.name = b.name
                 \/ a.flag # "" /\ a.flag = b.flag

\* A labelled argument is put in front of the list, an unlabelled one behind.
Declared(p) == Builtins \o FlattenSeq(Programs[p])
ArgLists == [p \in DOMAIN Programs |->
                Reverse(SelectSeq(Declared(p), LAMBDA a : ~Unlabeled(a)))
                    \o SelectSeq(Declared(p), Unlabeled)]
argList == ArgLists[prog]

\* The constructors' SpecificationExceptions: no flag or name twice, and no
\* unlabelled argument behind an optional one.
WellDeclared(p) ==
    LET list == Declared(p)
        free == SelectSeq(list, Unlabeled)
    IN /\ \A m, n \in DOMAIN list : SameArg(list[m], list[n]) => m = n
       /\ \A m, n \in DOMAIN free : m < n => free[m].req

\* The names of the exclusive list that xorAdd put the argument in, or none.
XorList(a) == UNION {{b.name : b \in Range(ors)} : ors \in
                       {o \in Range(Programs[prog]) : Len(o) > 1 /\ a \in Range(o)}}

\* isRequired: a multiple argument stops being so at its second value.
isRequired(a, st) ==
    /\ a.req \/ XorList(a) # {}
    /\ Multiple(a) => Len(st[a.name].value) <= 1
isSet(s) == s.set /\ ~s.xorSet

FreshArg(a) == [set |-> FALSE, xorSet |-> FALSE, value |-> a.default, more |-> FALSE]
Fresh(p) == LET list == Range(ArgLists[p])
            IN [n \in {a.name : a \in list} |->
                  FreshArg(CHOOSE a \in list : a.name = n)]
numRequired == Cardinality({a \in Range(argList) : isRequired(a, Fresh(prog))})
-----------------------------------------------------------------------------
(***************************************************************************)
(* What a token is to an argument.                                         *)
(***************************************************************************)
\* trimFlag has cut off the text behind the delimiter.
argMatches(a, tok) ==
    \/ tok.dash = 1 /\ a.flag # "" /\ tok.letters = <<a.flag>>
    \/ tok.dash = 2 /\ tok.letters = <<a.name>>

\* A switch is compared with the whole token.
switchMatches(a, tok) == tok.inline = NoWord /\ argMatches(a, tok)

hasBlanks(tok) == BlankChar \in Range(tok.letters)

\* The place of the switch's flag in a group of switches, or none.
PlacesInGroup(a, tok) ==
    IF /\ tok.dash = 1 /\ tok.inline = NoWord
       /\ tok.letters # <<>> /\ tok.letters[1] # "-"
    THEN {n \in DOMAIN tok.letters : a.flag # "-" /\ tok.letters[n] = a.flag}
    ELSE {}
combinedSwitchesMatch(a, tok) == PlacesInGroup(a, tok) # {}

\* The token with the letters of the switch no longer present.
Blanked(a, tok) ==
    [tok EXCEPT !.letters = [n \in DOMAIN tok.letters |->
                               IF n \in PlacesInGroup(a, tok) THEN BlankChar
                               ELSE tok.letters[n]]]

lastCombined(tok) == Range(tok.letters) \subseteq {BlankChar}
emptyCombined(tok) ==
    IF tok.dash = 0 THEN tok.text = ""
    ELSE tok.dash = 1 /\ tok.inline = NoWord /\ lastCombined(tok)
-----------------------------------------------------------------------------
(***************************************************************************)
(* How the offer of a token ends: the argument declines, it throws, which  *)
(* ends the program with a status of its own, or it takes the token.       *)
(***************************************************************************)
Declines(toks, st) ==
    /\ at' = at + 1
    /\ args' = toks
    /\ state' = st
    /\ UNCHANGED <<i, ignoreRest, requiredCount, outcome>>

Throws(why) ==
    /\ outcome' = why
    /\ UNCHANGED <<args, i, at, state, ignoreRest, requiredCount>>

NextToken(n) ==
    /\ i' = n + 1
    /\ at' = 1

\* Mutant: a repeated multiple argument counts its exclusive list again.
RequiredSetAgain(a, st) ==
    CASE XorList(a) = {} -> IF isRequired(a, st) THEN 1 ELSE 0
      [] OTHER -> Cardinality(XorList(a))

\* XorHandler::check: the required arguments that have now been set, counted
\* once per exclusive list; the others of the list become exclusive.
RequiredSet(a, st) ==
    CASE XorList(a) = {} -> IF isRequired(a, st) THEN 1 ELSE 0
      [] OTHER -> IF st[a.name].more THEN 0 ELSE Cardinality(XorList(a))
WithXor(a, st) ==
    [n \in DOMAIN st |->
        CASE n \in XorList(a) \ {a.name} ->
               [st[n] EXCEPT !.set = TRUE, !.xorSet = TRUE]
          [] n \in XorList(a) /\ n = a.name /\ Multiple(a) -> [st[n] EXCEPT !.more = TRUE]
          [] OTHER -> st[n]]
XorCheck(a, st) == \E b \in XorList(a) \ {a.name} : isSet(st[b])

\* processArg returned true, having looked at the tokens up to n.
Takes(a, st, toks, n) ==
    IF XorCheck(a, st) THEN Throws("exclusive")
    ELSE /\ NextToken(n)
         /\ args' = toks
         /\ state' = WithXor(a, st)
         /\ requiredCount' = requiredCount + RequiredSet(a, st)
         /\ UNCHANGED outcome

\* The visitors of the built-in switches.
Visits(a) ==
    CASE a.name = "help" -> "help" [] a.name = "version" -> "version"
      [] OTHER -> "parsing"
-----------------------------------------------------------------------------
(***************************************************************************)
(* processArg of each kind of argument.                                    *)
(***************************************************************************)
Offered(kind) ==
    /\ outcome = "parsing" /\ i <= Len(args) /\ at <= Len(argList)
    /\ argList[at].kind = kind
    /\ UNCHANGED <<prog, line>>

\* The value is the text behind the delimiter or the next token, whatever it
\* looks like.
NeedsNext(tok) == tok.inline.text = ""
LastUsed(tok) == IF NeedsNext(tok) THEN i + 1 ELSE i
ValueWord(tok) ==
    IF NeedsNext(tok) THEN Word(args[i + 1].text, args[i + 1].num) ELSE tok.inline

Satisfies(a, v) == \A n \in DOMAIN a.constraint : v \in a.constraint[n]

\* The value replaces the default, or joins those of a multiple argument.
Stored(a, v) == IF Multiple(a) THEN Append(state[a.name].value, v) ELSE v

TakesValue(a, tok, current) ==
    IF LastUsed(tok) > Len(args) THEN Throws("missing value")
    ELSE LET found == ExtractValue(a.type, ValueWord(tok), current)
         IN \/ /\ \A v \in found : ~Satisfies(a, v)
               /\ Throws("bad value")
            \/ \E v \in found :
                  /\ Satisfies(a, v)
                  /\ Takes(a, [state EXCEPT ![a.name].set = TRUE,
                                            ![a.name].value = Stored(a, v)],
                           args, LastUsed(tok))

ProcessValueArg ==
    LET a == argList[at]
        tok == args[i]
    IN /\ Offered("value")
       /\ UNCHANGED ignoreRest
       /\ CASE ignoreRest \/ hasBlanks(tok) \/ ~argMatches(a, tok) ->
                 Declines(args, state)
            [] OTHER ->
                 IF state[a.name].set
                 THEN Throws(IF state[a.name].xorSet THEN "exclusive" ELSE "set twice")
                 ELSE TakesValue(a, tok, state[a.name].value)

ProcessMultiArg ==
    LET a == argList[at]
        tok == args[i]
    IN /\ Offered("multi")
       /\ UNCHANGED ignoreRest
       /\ CASE ignoreRest \/ hasBlanks(tok) \/ ~argMatches(a, tok) ->
                 Declines(args, state)
            [] OTHER -> TakesValue(a, tok, StringValue(""))

\* commonProcessing: a switch is set once, and its value is turned over.
SwitchOutcome(a) ==
    CASE state[a.name].xorSet -> "exclusive"
      [] state[a.name].set /\ ~state[a.name].xorSet -> "set twice"
      [] OTHER -> Visits(a)

\* Mutant: the switch is set to true whatever its default.
SwitchedOn(a) == [state EXCEPT ![a.name].set = TRUE, ![a.name].value = TRUE]

Switched(a) == [state EXCEPT ![a.name].set = TRUE,
                             ![a.name].value = ~state[a.name].value]

ProcessSwitchArg ==
    LET a == argList[at]
        tok == args[i]
        rest == [args EXCEPT ![i] = Blanked(a, tok)]
        whole == switchMatches(a, tok)
    IN /\ Offered("switch")
       /\ CASE ignoreRest \/ ~(whole \/ combinedSwitchesMatch(a, tok)) ->
                 Declines(args, state) /\ UNCHANGED ignoreRest
            [] OTHER ->
                 LET why == IF ~whole /\ Cardinality(PlacesInGroup(a, tok)) > 1
                            THEN "set twice" ELSE SwitchOutcome(a)
                 IN CASE why # "parsing" -> Throws(why)
                      [] why = "parsing" /\ whole ->
                           /\ Takes(a, Switched(a), args, i)
                           /\ ignoreRest' = (ignoreRest \/ a.name = "ignore_rest")
                      [] why = "parsing" /\ ~whole /\ lastCombined(rest[i]) ->
                           Takes(a, Switched(a), rest, i) /\ UNCHANGED ignoreRest
                      [] OTHER -> Declines(rest, Switched(a))

\* A group of switches is never taken by a MultiSwitchArg: its letters are
\* blanked, and parse finds the group empty.
ProcessMultiSwitchArg ==
    LET a == argList[at]
        tok == args[i]
        Counted(n) == [state EXCEPT ![a.name].set = TRUE, ![a.name].value = @ + n]
    IN /\ Offered("multiswitch")
       /\ UNCHANGED ignoreRest
       /\ CASE ignoreRest \/ ~(switchMatches(a, tok) \/ combinedSwitchesMatch(a, tok)) ->
                 Declines(args, state)
            [] ~ignoreRest /\ switchMatches(a, tok) -> Takes(a, Counted(1), args, i)
            [] OTHER -> Declines([args EXCEPT ![i] = Blanked(a, tok)],
                                 Counted(Cardinality(PlacesInGroup(a, tok))))

\* Unlabelled arguments take what no labelled one took, "--" notwithstanding.
Whole(tok) == StringValue(tok.text)

ProcessUnlabeledValueArg ==
    LET a == argList[at]
        tok == args[i]
    IN /\ Offered("unlabeled")
       /\ UNCHANGED ignoreRest
       /\ IF state[a.name].set \/ hasBlanks(tok) THEN Declines(args, state)
          ELSE Takes(a, [state EXCEPT ![a.name].set = TRUE,
                                      ![a.name].value = Whole(tok)], args, i)

ProcessUnlabeledMultiArg ==
    LET a == argList[at]
        tok == args[i]
    IN /\ Offered("unlabeledmulti")
       /\ UNCHANGED ignoreRest
       /\ IF hasBlanks(tok) THEN Declines(args, state)
          ELSE Takes(a, [state EXCEPT ![a.name].set = TRUE,
                                      ![a.name].value = Append(@, Whole(tok))], args, i)
-----------------------------------------------------------------------------
(***************************************************************************)
(* CmdLine::parse: tokens nobody took, and the end of the line.            *)
(***************************************************************************)
Unmatched ==
    /\ outcome = "parsing" /\ i <= Len(args) /\ at > Len(argList)
    /\ IF emptyCombined(args[i]) \/ ignoreRest
       THEN NextToken(i) /\ UNCHANGED <<args, state, ignoreRest, requiredCount, outcome>>
       ELSE Throws("no match")
    /\ UNCHANGED <<prog, line>>

LineEnds ==
    /\ outcome = "parsing" /\ i > Len(args)
    /\ Throws(CASE requiredCount < numRequired -> "missing"
                [] requiredCount > numRequired -> "too many"
                [] OTHER -> "accepted")
    /\ UNCHANGED <<prog, line>>

CmdInit ==
    /\ prog \in DOMAIN Programs
    /\ line \in BoundedSeq(Tokens[prog], MaxTokens)
    /\ args = line
    /\ i = 1 /\ at = 1
    /\ state = Fresh(prog)
    /\ ignoreRest = FALSE
    /\ requiredCount = 0
    /\ outcome = "parsing"

Parse == \/ ProcessValueArg \/ ProcessMultiArg
         \/ ProcessSwitchArg \/ ProcessMultiSwitchArg
         \/ ProcessUnlabeledValueArg \/ ProcessUnlabeledMultiArg
         \/ Unmatched \/ LineEnds
=============================================================================
