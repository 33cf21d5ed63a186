------------------------------ MODULE PropertyLine ------------------------------
(***************************************************************************)
(* One content line and the property it stands for, in the two grammars of  *)
(* the repository: src/go/codec/rfc6350 (vCard) and src/go/codec/rfc5545    *)
(* (iCalendar).  They are written twice in the source and differ in the     *)
(* escapes they know, in empty parameters and in DQUOTE inside a value.     *)
(*                                                                         *)
(* A text is a sequence of atoms: the characters the grammars look at are   *)
(* atoms, and so is a run of others ("UID", "FN", "a").                     *)
(***************************************************************************)
EXTENDS Integers, Sequences, SequencesExt, FiniteSetsExt

BS == "\\"  \* backslash
DQ == "\""
LF == "LF"
CR == "CR"
Comma == ","
Semi  == ";"

\* ASCII case.  Atoms that are not listed have none.
Cases == [uid |-> "UID", version |-> "VERSION", kind |-> "KIND", fn |-> "FN",
          org |-> "ORG", end |-> "END", vcard |-> "VCARD", type |-> "TYPE", n |-> "N"]
UpperAtom(c) == IF c \in DOMAIN Cases THEN Cases[c] ELSE c
LowerAtom(c) == IF \E l \in DOMAIN Cases : Cases[l] = c
                THEN CHOOSE l \in DOMAIN Cases : Cases[l] = c ELSE c
ToUpper(s) == [k \in DOMAIN s |-> UpperAtom(s[k])]
ToLower(s) == [k \in DOMAIN s |-> LowerAtom(s[k])]
EqualFold(s, t) == ToUpper(s) = ToUpper(t)

Has(s, chars) == \E k \in DOMAIN s : s[k] \in chars
-----------------------------------------------------------------------------
(* TEXT escaping.                                                          *)

Escape(c) == CASE c \in {BS, Comma, Semi} -> <<BS, c>>
               [] c = LF -> <<BS, "n">>
               [] OTHER -> <<c>>

Escaped(s) == FlattenSeq([k \in DOMAIN s |-> Escape(s[k])])

\* s without its c.
Without(s, c) == FlattenSeq([k \in DOMAIN s |-> IF s[k] = c THEN << >> ELSE <<s[k]>>])

\* Mutant: the backslash itself is left as it is.
EscapeText_NotBackslash(s) ==
    FlattenSeq([k \in DOMAIN s |-> IF s[k] = BS THEN <<BS>> ELSE Escape(s[k])])

\* rfc6350.escapeText
EscapeText(s) == Escaped(s)

\* rfc5545.escapeText drops CR.
EscapeText5545(s) == Escaped(Without(s, CR))

\* What an escape pair stands for.  Of one that means nothing its second character
\* is left, after the text unknown.
Unescape(c, unknown) == CASE c \in {BS, Comma, Semi} -> <<c>>
                          [] c \in {"n", "N"} -> <<LF>>
                          [] OTHER -> Append(unknown, c)

\* The loop of unescapeText: what it has read, and is it after a backslash?
UnescapeStart(unknown) == [unknown |-> unknown, after |-> "text", out |-> << >>]
UnescapeStep(st, c) ==
    IF st.after = BS THEN [st EXCEPT !.after = "text", !.out = @ \o Unescape(c, st.unknown)]
    ELSE IF c = BS THEN [st EXCEPT !.after = BS]
    ELSE [st EXCEPT !.out = Append(@, c)]

Unescaped(s, unknown) ==
    LET end == FoldLeft(UnescapeStep, UnescapeStart(unknown), s)
    IN  IF end.after = BS THEN Append(end.out, BS) ELSE end.out

\* rfc6350.unescapeText keeps the backslash of an unknown escape, rfc5545's does not.
UnescapeText(s) == Unescaped(s, <<BS>>)
UnescapeText5545(s) == Unescaped(s, << >>)
-----------------------------------------------------------------------------
(* Splitting at a character outside DQUOTEs.                               *)

\* The loop of splitUnquoted: the segments so far, the one that is open, and the
\* DQUOTEs that are, 0 or 1.
SplitStart(c) == [at |-> c, quotes |-> 0, out |-> << >>, seg |-> << >>]
SplitStep(st, c) ==
    IF c = st.at /\ st.quotes = 0 THEN [st EXCEPT !.out = Append(@, st.seg), !.seg = << >>]
    ELSE [st EXCEPT !.quotes = IF c = DQ THEN 1 - @ ELSE @, !.seg = Append(@, c)]

SplitUnquoted(s, c) ==
    LET end == FoldLeft(SplitStep, SplitStart(c), s) IN Append(end.out, end.seg)

\* findFirstUnquoted: the first such position, or 0.  The error for a text that
\* ends inside a quote comes only when there is none.
FirstUnquoted(s, c) ==
    LET segs == SplitUnquoted(s, c) IN IF Len(segs) = 1 THEN 0 ELSE Len(segs[1]) + 1

Unwrapped(v) == IF Len(v) >= 2 /\ v[1] = DQ /\ Last(v) = DQ
                THEN SubSeq(v, 2, Len(v) - 1) ELSE v

Param(seg, eq) == [name |-> SubSeq(seg, 1, eq - 1),
                   value |-> Unwrapped(SubSeq(seg, eq + 1, Len(seg)))]

\* The part before the first unquoted colon, and the part after it.
Head5545(line)  == SubSeq(line, 1, FirstUnquoted(line, ":") - 1)
Value5545(line) == SubSeq(line, FirstUnquoted(line, ":") + 1, Len(line))
Segments(line)  == SplitUnquoted(Head5545(line), Semi)

\* rfc6350.parseParams ignores a last segment that is empty.
ParamSegments(line) ==
    LET segs == Tail(Segments(line))
    IN  IF segs # << >> /\ Last(segs) = << >> THEN Front(segs) ELSE segs

\* rfc6350.parseContentLine: the line has an error.
Rejects(line) ==
    \/ FirstUnquoted(line, ":") = 0
    \/ Segments(line)[1] = << >>
    \/ \E k \in DOMAIN ParamSegments(line) :
         FirstUnquoted(ParamSegments(line)[k], "=") \in {0, 1}

ParseContentLine(line) ==
    LET segs == ParamSegments(line)
    IN  [name |-> Segments(line)[1],
         params |-> [k \in DOMAIN segs |-> Param(segs[k], FirstUnquoted(segs[k], "="))],
         value |-> UnescapeText(Value5545(line))]

\* rfc5545.ParseContentLine: every segment is a parameter, an equals sign
\* counts inside quotes as well, only TEXT properties are unescaped.
TextProperties == {"SUMMARY", "DESCRIPTION", "UID", "FN", "N", "KIND", "CATEGORIES",
                   "COMMENT", "LOCATION", "STATUS", "CLASS", "RELATED-TO"}
TextProperty(name) == Len(name) = 1 /\ UpperAtom(name[1]) \in TextProperties

FirstEquals(seg) == LET at == {k \in DOMAIN seg : seg[k] = "="}
                    IN  IF at = {} THEN 0 ELSE Min(at)

Rejects5545(line) ==
    \/ FirstUnquoted(line, ":") = 0
    \/ Segments(line)[1] = << >>
    \/ \E k \in DOMAIN Tail(Segments(line)) : FirstEquals(Tail(Segments(line))[k]) \in {0, 1}

ParseContentLine5545(line) ==
    LET segs == Tail(Segments(line))
        name == Segments(line)[1]
    IN  [name |-> name,
         params |-> [k \in DOMAIN segs |-> Param(segs[k], FirstEquals(segs[k]))],
         value |-> IF TextProperty(name) THEN UnescapeText5545(Value5545(line))
                   ELSE Value5545(line)]
-----------------------------------------------------------------------------
(* Formatting.                                                             *)

\* Mutant: a colon needs no quotes.
FormatParamValue_Colon(v) == IF Has(v, {Comma, Semi}) THEN <<DQ>> \o v \o <<DQ>> ELSE v

\* rfc6350.formatParamValue
FormatParamValue(v) == IF Has(v, {Comma, Semi, ":"}) THEN <<DQ>> \o v \o <<DQ>> ELSE v

\* rfc5545.encodeParamValue
EncodeParamValue(v) == FormatParamValue(Without(v, DQ))

FormatParams(params, Format(_)) ==
    FlattenSeq([k \in DOMAIN params |->
                  <<Semi>> \o ToUpper(params[k].name) \o <<"=">> \o Format(params[k].value)])

\* rfc6350.splitGroup: the atoms up to the first dot.
GroupEnd(name) == LET at == {k \in DOMAIN name : name[k] = "."}
                  IN  IF at = {} THEN 0 ELSE Min(at)
BareName(name) == SubSeq(name, GroupEnd(name) + 1, Len(name))

\* rfc6350.formatProperty.  A group that is empty goes, with its dot.
FormatProperty(p) ==
    LET group == SubSeq(p.name, 1, GroupEnd(p.name))
    IN  (IF GroupEnd(p.name) > 1 THEN group ELSE << >>) \o ToUpper(BareName(p.name))
          \o FormatParams(p.params, FormatParamValue)
          \o <<":">> \o EscapeText(p.value)

\* rfc5545.encodeContentLine
EncodeContentLine(p) ==
    ToUpper(p.name) \o FormatParams(p.params, EncodeParamValue) \o <<":">>
      \o (IF TextProperty(p.name) THEN EscapeText5545(p.value) ELSE p.value)

\* What is left of a property once it has been written.
OnWire(p) == [name |-> SubSeq(p.name, 1, GroupEnd(p.name)) \o ToUpper(BareName(p.name)),
              params |-> [k \in DOMAIN p.params |->
                            [name |-> ToUpper(p.params[k].name), value |-> p.params[k].value]],
              value |-> p.value]
=============================================================================
