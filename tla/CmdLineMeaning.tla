--------------------------- MODULE CmdLineMeaning ---------------------------
(***************************************************************************)
(* What a command line means, said of the line as it was typed and without *)
(* the order in which CmdLine offers its tokens: the role of every token,  *)
(* how often each argument is given, which lines are well formed, and the  *)
(* value of every argument.  The parser is compared with this definition.  *)
(***************************************************************************)
EXTENDS TclapCmdLine

ArgSet == Range(argList)
Labelled == {a \in ArgSet : ~Unlabeled(a)}
FreeArgs == SelectSeq(argList, Unlabeled)

ValueOption(tok) == \E a \in Labelled : a.kind \in {"value", "multi"} /\ argMatches(a, tok)
EndsOptions(tok) == \E a \in Labelled : a.name = "ignore_rest" /\ switchMatches(a, tok)

\* A token is the value of the option before it, part of what follows "--",
\* or a place of its own.
RoleAfter(previous, tok) ==
    CASE previous = "own" /\ ValueOption(tok) /\ NeedsNext(tok) -> "value"
      [] previous = "rest" \/ (previous = "own" /\ EndsOptions(tok)) -> "rest"
      [] OTHER -> "own"
Roles == LET role[k \in DOMAIN line] ==
               IF k = 1 THEN "own" ELSE RoleAfter(role[k-1], line[k-1])
         IN role

\* How often token k names the labelled argument a.
Mentions(a, tok) ==
    CASE a.kind \in {"value", "multi"} -> IF argMatches(a, tok) THEN 1 ELSE 0
      [] OTHER -> IF switchMatches(a, tok) THEN 1 ELSE Cardinality(PlacesInGroup(a, tok))
Times(a, k) ==
    IF Mentions(a, line[k]) > 0 /\ Roles[k] = "own" THEN Mentions(a, line[k]) ELSE 0
Given(a) == MapThenSumSet(LAMBDA k : Times(a, k), DOMAIN line)
NamedBy(k) == {a \in Labelled : Times(a, k) > 0}

\* The tokens left to the unlabelled arguments, in order.
FreeTokens == SetToSortSeq({k \in DOMAIN line : Roles[k] # "value" /\ NamedBy(k) = {}}, <)
Superfluous == {n \in DOMAIN FreeTokens :
                   n > Len(FreeArgs) /\ \A a \in Range(FreeArgs) : ~Multiple(a)}

WordAt(k) ==
    IF NeedsNext(line[k]) THEN Word(line[k+1].text, line[k+1].num) ELSE line[k].inline
ValuesAt(a, k) == {v \in ExtractValue(a.type, WordAt(k), a.default) : Satisfies(a, v)}

\* Every letter of a group is the flag of a switch.
GroupKnown(k) ==
    \/ \E a \in NamedBy(k) : argMatches(a, line[k])
    \/ \A n \in DOMAIN line[k].letters :
          \E a \in NamedBy(k) : n \in PlacesInGroup(a, line[k])

\* An exclusive switch counts in a group only if it is the one offered last.
HiddenInGroup(a, k) ==
    /\ a.kind = "switch" /\ XorList(a) # {}
    /\ a \in NamedBy(k)
    /\ \E m, n \in DOMAIN argList : m < n /\ argList[m] = a /\ argList[n] \in NamedBy(k)

TokensKnown ==
    /\ \A k \in DOMAIN line : Roles[k] = "own" /\ NamedBy(k) # {} => GroupKnown(k)
    /\ \A n \in Superfluous : \/ Roles[FreeTokens[n]] = "rest"
                              \/ emptyCombined(line[FreeTokens[n]])

ValuesGood ==
    \A k \in DOMAIN line : \A a \in NamedBy(k) :
        a.kind \in {"value", "multi"} =>
            /\ NeedsNext(line[k]) => k < Len(line)
            /\ ValuesAt(a, k) # {}

Complete ==
    /\ \A a \in Labelled :
         /\ a.kind \in {"value", "switch"} => Given(a) <= 1
         /\ a.req => Given(a) > 0
         /\ a.name \in {"help", "version"} => Given(a) = 0
         /\ XorList(a) # {} =>
              Cardinality({b \in Labelled : b.name \in XorList(a) /\ Given(b) > 0}) = 1
         /\ \A k \in DOMAIN line : ~HiddenInGroup(a, k)
    /\ \A n \in DOMAIN FreeArgs : FreeArgs[n].req => n <= Len(FreeTokens)

WellFormed == TokensKnown /\ ValuesGood /\ Complete

\* The value an argument has after a well-formed line.
PlacesOf(a) == SetToSortSeq({k \in DOMAIN line : Times(a, k) > 0}, <)
FreeTexts == [n \in DOMAIN FreeTokens |-> Whole(line[FreeTokens[n]])]
Meaning(a) ==
    CASE a.kind = "switch" -> IF Given(a) = 0 THEN a.default ELSE ~a.default
      [] a.kind = "multiswitch" -> Given(a)
      [] a.kind = "value" -> IF Given(a) = 0 THEN a.default
                             ELSE CHOOSE v \in ValuesAt(a, PlacesOf(a)[1]) : TRUE
      [] a.kind = "multi" -> [n \in DOMAIN PlacesOf(a) |->
                                CHOOSE v \in ValuesAt(a, PlacesOf(a)[n]) : TRUE]
      [] OTHER ->
           LET n == CHOOSE m \in DOMAIN FreeArgs : FreeArgs[m] = a
           IN CASE a.kind = "unlabeledmulti" -> SubSeq(FreeTexts, n, Len(FreeTexts))
                [] OTHER -> IF n > Len(FreeTexts) THEN a.default ELSE FreeTexts[n]

(***************************************************************************)
(* A program goes on from CmdLine::parse exactly when its command line is  *)
(* well formed: every token is understood once, no argument is given       *)
(* twice, every required one is there, and one of every exclusive list.    *)
(* requiredCount is a sum over calls of XorHandler::check that combined    *)
(* switches, repeated arguments and exclusive lists must not upset.        *)
(***************************************************************************)
AcceptedIffWellFormed == outcome # "parsing" => ((outcome = "accepted") <=> WellFormed)

(***************************************************************************)
(* After an accepted line every argument has the value the line gives it,  *)
(* or its default: no token counts twice (as a switch and again as an      *)
(* unlabelled value, or as an option and as a value), and what follows     *)
(* "--" sets no labelled argument.                                         *)
(***************************************************************************)
ValuesAsTyped ==
    outcome = "accepted" => \A a \in ArgSet : state[a.name].value = Meaning(a)
=============================================================================
