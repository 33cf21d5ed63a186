----------------------------- MODULE ContentLines -----------------------------
(***************************************************************************)
(* Logical iCalendar content lines, the components they encode, and the     *)
(* batch codec of src/go/codec/rfc5545 as operators: EncodeComponent, and   *)
(* Parse as a fold of one automaton step per line.                          *)
(*                                                                         *)
(* A line is <<keyword, value>>: BEGIN and END with a component type,       *)
(* VERSION and PRODID with a value, PROP (any other property) with a value, *)
(* and BAD, a line ParseContentLine rejects.                                *)
(***************************************************************************)
EXTENDS Naturals, Sequences, SequencesExt

Calendar == "VCALENDAR"
SupportedVersion == "2.0"
DefaultProdID == "-//hop-top//vstar//EN"

Begin(t)   == <<"BEGIN", t>>
End(t)     == <<"END", t>>
Version(v) == <<"VERSION", v>>
ProdID(p)  == <<"PRODID", p>>
Prop(v)    == <<"PROP", v>>
Bad        == <<"BAD", "">>

IsBoundary(line) == line[1] \in {"BEGIN", "END"}

\* The texts of a document.  (STRING has the literals; the provers must be told.)
Texts == STRING \cup {Calendar, SupportedVersion, DefaultProdID, "torn", ""}

PropLines == {"VERSION", "PRODID", "PROP"} \X Texts
Lines     == ({"BEGIN", "END"} \X Texts) \cup PropLines \cup {Bad}

\* A component under construction or finished.
Block(t) == [type |-> t, props |-> << >>, sub |-> << >>]
AddProp(b, line) == [b EXCEPT !.props = Append(@, line)]
AddSub(b, child) == [b EXCEPT !.sub = Append(@, child)]

Leaves     == [type : Texts, props : Seq(PropLines), sub : {<< >>}]
Components == [type : Texts, props : Seq(PropLines), sub : Seq(Leaves)]

\* rfc5545.encodeComponent, for components nested at most twice.
EncodeLeaf(b)      == <<Begin(b.type)>> \o b.props \o <<End(b.type)>>
EncodeComponent(b) == <<Begin(b.type)>> \o b.props
                        \o FlattenSeq([k \in DOMAIN b.sub |-> EncodeLeaf(b.sub[k])])
                        \o <<End(b.type)>>

\* The header both encoders write.
HeaderLines(prodid) == <<Begin(Calendar), Version(SupportedVersion), ProdID(prodid)>>

\* rfc5545.Encode
Document(prodid, comps) ==
    HeaderLines(prodid)
      \o FlattenSeq([k \in DOMAIN comps |-> EncodeComponent(comps[k])])
      \o <<End(Calendar)>>

-----------------------------------------------------------------------------
(* rfc5545.Parse.  The state after some lines: the stack of open blocks, the *)
(* calendar at its bottom, and how far the parse has got.                    *)

ParseStart == [phase |-> "first", stack |-> << >>]
ParseError(st) == [st EXCEPT !.phase = "error"]


\* parseBlock: what one line does to the stack of open blocks.
ParseBlockStep(st, line) ==
    CASE line[1] = "BAD" -> ParseError(st)
      [] line[1] = "BEGIN" -> [st EXCEPT !.stack = Append(@, Block(line[2]))]
      [] line[1] = "END" ->
           IF line[2] # Last(st.stack).type THEN ParseError(st)
           ELSE IF Len(st.stack) = 1 THEN [st EXCEPT !.phase = "done"]
           ELSE LET rest == Front(st.stack)
                IN  [st EXCEPT !.stack =
                       Append(Front(rest), AddSub(Last(rest), Last(st.stack)))]
      [] OTHER -> [st EXCEPT !.stack =
                     Append(Front(@), AddProp(Last(@), line))]

ParseStep(st, line) ==
    CASE st.phase = "first" ->
           IF line = Begin(Calendar)
           THEN [phase |-> "block", stack |-> <<Block(Calendar)>>]
           ELSE ParseError(st)
      [] st.phase = "block" -> ParseBlockStep(st, line)
      [] OTHER -> st              \* content after END:VCALENDAR is not read

ParseRun(lines) == FoldLeft(ParseStep, ParseStart, lines)

\* The properties of the calendar itself, checked when it is complete.
Positions(root, kw) == {k \in DOMAIN root.props : root.props[k][1] = kw}
VersionsOK(root) == \A k \in Positions(root, "VERSION") :
                        root.props[k] = Version(SupportedVersion)
RootProdID(root) == LET at == Positions(root, "PRODID")
                    IN  IF at = {} THEN "" ELSE root.props[Max(at)][2]

\* Does rfc5545.Parse accept the input?  With which calendar?
Accepts(lines) == LET st == ParseRun(lines)
                  IN  st.phase = "done" /\ VersionsOK(st.stack[1])
Parsed(lines)  == LET root == ParseRun(lines).stack[1]
                  IN  [prodid |-> RootProdID(root), components |-> root.sub]
=============================================================================
