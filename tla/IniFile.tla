------------------------------- MODULE IniFile -------------------------------
(***************************************************************************)
(* The INI parser (server/src/ini.cpp) and the tables INIReader fills      *)
(* (server/src/INIReader.cpp).                                             *)
(*                                                                         *)
(* A line is what one fgets returns, already told apart by its first       *)
(* characters.  A section or a name is a word and the casing it was        *)
(* written in; lookups ignore the casing in some tables and not in others. *)
(* A value is the number strtol finds in its text, NotANumber, or Empty.   *)
(***************************************************************************)
EXTENDS Integers, Sequences, TLC

Number(n) == [kind |-> "number", n |-> n]
NotANumber == [kind |-> "text", n |-> 0]
Empty == [kind |-> "empty", n |-> 0]

Spelled(word) == [word |-> word, exact |-> TRUE]    \* as the program writes it
Misspelled(word) == [word |-> word, exact |-> FALSE] \* in another casing

\* kind: "blank", "comment", "section", "unclosed" ('[' without ']'), "pair"
\* (name = value or name : value) or "bare" (neither).  An indented line
\* starts with white space.
Line(kind, indent, name, value) ==
  [kind |-> kind, indent |-> indent, name |-> name, value |-> value]

NoName == Spelled("")
CommentLine == Line("comment", FALSE, NoName, Empty)
SectionLine(section) == Line("section", FALSE, section, Empty)
PairLine(name, value) == Line("pair", FALSE, name, value)

-----------------------------------------------------------------------------
\* INIReader: texts collected under lower-case keys, the sections as spelled,
\* the names as spelled under the lower-case section.
EmptyReader == [values |-> <<>>, sections |-> {}, fields |-> {}]

MakeKey(section, name) == <<section.word, name.word>>

Text(reader, key) == IF key \in DOMAIN reader.values THEN reader.values[key] ELSE <<>>

\* A text that is there already is continued on a new line.
ValueHandler(reader, section, name, value) ==
  LET key == MakeKey(section, name)
      more == IF value = Empty THEN <<>> ELSE <<value>>
  IN [values |-> (key :> Text(reader, key) \o more) @@ reader.values,
      sections |-> reader.sections \cup {section},
      fields |-> reader.fields \cup {<<section.word, name>>}]

GetSections(reader) == reader.sections
GetFields(reader, section) ==
  {f[2] : f \in {g \in reader.fields : g[1] = section.word}}

\* Mutant: the last line of the text is taken.
GetIntegerLast(reader, section, name, default) ==
  LET text == Text(reader, MakeKey(section, name))
  IN IF text = <<>> \/ text[Len(text)] = NotANumber THEN default ELSE text[Len(text)].n

\* strtol stops at the end of the first line of the text.
GetInteger(reader, section, name, default) ==
  LET text == Text(reader, MakeKey(section, name))
  IN IF text = <<>> \/ text[1] = NotANumber THEN default ELSE text[1].n

-----------------------------------------------------------------------------
\* What ini_parse_file keeps between lines.
ParserStart ==
  [section |-> NoName, prev_name |-> NoName, lineno |-> 0, error |-> 0,
   reader |-> EmptyReader]

WithError(st) == [st EXCEPT !.error = IF @ = 0 THEN st.lineno ELSE @]

Handled(st, name, value) ==
  [st EXCEPT !.reader = ValueHandler(@, st.section, name, value)]

\* An indented line continues the value above it, whatever it looks like; only
\* a bare one can be a number.
ContinuationValue(line) == IF line.kind = "bare" THEN line.value ELSE NotANumber

\* Mutant: a section heading does not end the value above it.
parse_lineNoReset(prev, line) ==
  LET st == [prev EXCEPT !.lineno = @ + 1]
  IN CASE line.kind \in {"comment", "blank"} -> st
       [] line.kind \notin {"comment", "blank"} /\ st.prev_name # NoName /\ line.indent ->
            Handled(st, st.prev_name, ContinuationValue(line))
       [] OTHER ->
            CASE line.kind = "section" -> [st EXCEPT !.section = line.name]
              [] line.kind = "pair" ->
                   Handled([st EXCEPT !.prev_name = line.name], line.name, line.value)
              [] line.kind \in {"unclosed", "bare"} -> WithError(st)

parse_line(prev, line) ==
  LET st == [prev EXCEPT !.lineno = @ + 1]
  IN CASE line.kind \in {"comment", "blank"} -> st
       [] line.kind \notin {"comment", "blank"} /\ st.prev_name # NoName /\ line.indent ->
            Handled(st, st.prev_name, ContinuationValue(line))
       [] OTHER ->
            CASE line.kind = "section" ->
                   [st EXCEPT !.section = line.name, !.prev_name = NoName]
              [] line.kind = "pair" ->
                   Handled([st EXCEPT !.prev_name = line.name], line.name, line.value)
              [] line.kind \in {"unclosed", "bare"} -> WithError(st)

\* All lines, in order; an error does not stop the parser.
ini_parse_file(lines) ==
  LET after[n \in 0 .. Len(lines)] ==
        IF n = 0 THEN ParserStart ELSE parse_line(after[n - 1], lines[n])
  IN after[Len(lines)]

\* fopen fails when there is no file.
NoFile == [there |-> FALSE, lines |-> <<>>]
File(lines) == [there |-> TRUE, lines |-> lines]

ini_parse(file) ==
  IF ~file.there THEN [ParserStart EXCEPT !.error = -1] ELSE ini_parse_file(file.lines)

-----------------------------------------------------------------------------
(***************************************************************************)
(* What a file says, defined on its lines and not by a scan: the reference *)
(* the parser is compared with.                                            *)
(***************************************************************************)
Significant(file, n) == file[n].kind \notin {"comment", "blank"}

\* The last line before n that is not a comment and satisfies P, or 0.
LastBefore(file, n, P(_)) ==
  LET before == {m \in 1 .. n - 1 : P(m)}
  IN IF before = {} THEN 0 ELSE CHOOSE m \in before : \A k \in before : k <= m

\* Line n takes part in a value that started above it: it is indented and
\* between it and the last line that starts something there is a pair.
ReferenceRoles(file) ==
  LET role[n \in 0 .. Len(file)] ==
        IF n = 0 THEN "none"
        ELSE LET above == LastBefore(file, n, LAMBDA m : role[m] \in {"section", "pair"})
             IN IF ~Significant(file, n) THEN "skip"
                ELSE IF file[n].indent /\ above # 0 /\ role[above] = "pair"
                     THEN "continuation"
                     ELSE IF file[n].kind \in {"unclosed", "bare"} THEN "error"
                     ELSE file[n].kind
  IN [n \in 1 .. Len(file) |-> role[n]]

ReferenceError(file) ==
  LET roles == ReferenceRoles(file)
      bad == {n \in 1 .. Len(file) : roles[n] = "error"}
  IN IF bad = {} THEN 0 ELSE CHOOSE n \in bad : \A m \in bad : n <= m

ReferenceSection(file, n) ==
  LET roles == ReferenceRoles(file)
      at == LastBefore(file, n, LAMBDA m : roles[m] = "section")
  IN IF at = 0 THEN NoName ELSE file[at].name

\* The name a pair or a continuation gives a value to.
ReferenceName(file, n) ==
  LET roles == ReferenceRoles(file)
      at == IF roles[n] = "pair" THEN n
            ELSE LastBefore(file, n, LAMBDA m : roles[m] = "pair")
  IN file[at].name

\* The first text given to a name of a section, in any casing of both.
ReferenceValue(file, section, name, default) ==
  LET roles == ReferenceRoles(file)
      value(n) == IF roles[n] = "pair" THEN file[n].value ELSE ContinuationValue(file[n])
      gives == {n \in 1 .. Len(file) :
                  /\ roles[n] \in {"pair", "continuation"} /\ value(n) # Empty
                  /\ ReferenceSection(file, n).word = section.word
                  /\ ReferenceName(file, n).word = name.word}
      first == CHOOSE n \in gives : \A m \in gives : n <= m
  IN IF gives = {} \/ value(first) = NotANumber THEN default ELSE value(first).n

\* The section, and the name in it, occur in the casing the program uses.
ReferenceMentions(file, section, name) ==
  LET roles == ReferenceRoles(file)
      given == {n \in 1 .. Len(file) : roles[n] \in {"pair", "continuation"}}
  IN /\ \E n \in given : ReferenceSection(file, n) = section
     /\ \E n \in given : /\ ReferenceSection(file, n).word = section.word
                         /\ ReferenceName(file, n) = name
=============================================================================
