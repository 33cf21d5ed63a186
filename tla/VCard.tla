--------------------------------- MODULE VCard ---------------------------------
(***************************************************************************)
(* vstar.Card (src/go/card.go) and the batch vCard codec                    *)
(* (src/go/codec/rfc6350) on unfolded content lines.  Parse is a fold of    *)
(* one step per line; folding itself is the business of ContentLineScanner. *)
(***************************************************************************)
EXTENDS PropertyLine

SupportedVersion == <<"4.0">>
BeginCard == <<"BEGIN", ":", "VCARD">>
EndCard   == <<"END", ":", "VCARD">>

EmptyCard == [uid |-> << >>, kind |-> << >>, props |-> << >>]

\* Get, Set and Remove go by the whole name, group included.
Named(card, name) == {k \in DOMAIN card.props : EqualFold(card.props[k].name, name)}

\* Card.Set: the first property of the name is replaced, the others go.
SetProp(card, p) ==
    LET named == Named(card, p.name)
    IN  [card EXCEPT !.props =
           IF named = {} THEN Append(@, p)
           ELSE FlattenSeq([k \in DOMAIN @ |-> IF k \notin named THEN <<@[k]>>
                                               ELSE IF k = Min(named) THEN <<p>> ELSE << >>])]

AddProp(card, p) == [card EXCEPT !.props = Append(@, p)]

RemoveProp(card, name) ==
    LET named == Named(card, name)
    IN  [card EXCEPT !.props =
           FlattenSeq([k \in DOMAIN @ |-> IF k \in named THEN << >> ELSE <<@[k]>>])]

-----------------------------------------------------------------------------
(* rfc6350.Encode                                                          *)

KindLine(kind) == <<"KIND", ":">> \o ToLower(kind)

EncodeCard(card) ==
    << BeginCard,
       <<"VERSION", ":">> \o SupportedVersion,
       <<"UID", ":">> \o EscapeText(card.uid) >>
    \o (IF card.kind = << >> THEN << >> ELSE <<KindLine(card.kind)>>)
    \o [k \in DOMAIN card.props |-> FormatProperty(card.props[k])]
    \o <<EndCard>>

-----------------------------------------------------------------------------
(* rfc6350.Parse                                                           *)

ParseStart == [cards |-> << >>, at |-> "outside", cur |-> EmptyCard, ver |-> << >>,
               error |-> "nil"]

ParseError(st, e) == [st EXCEPT !.error = e]

\* A property inside a card.  UID, KIND and VERSION go by the whole name: with a
\* group in front they are properties like any other.
ParseProperty(st, p) ==
    CASE EqualFold(p.name, <<"VERSION">>) ->
           IF st.ver # << >> THEN ParseError(st, "ErrMalformed")
           ELSE [st EXCEPT !.ver = p.value]
      [] EqualFold(p.name, <<"UID">>)  -> [st EXCEPT !.cur.uid = p.value]
      [] EqualFold(p.name, <<"KIND">>) -> [st EXCEPT !.cur.kind = ToLower(p.value)]
      [] OTHER -> [st EXCEPT !.cur.props = Append(@, p)]

ParseEnd(st) ==
    CASE st.at = "outside" \/ st.ver = << >>     -> ParseError(st, "ErrMalformed")
      [] st.at = "inside" /\ st.ver \notin {<< >>, SupportedVersion}
                                        -> ParseError(st, "ErrUnsupportedVersion")
      [] OTHER -> [ParseStart EXCEPT !.cards = Append(st.cards, st.cur)]

ParseStep(st, line) ==
    CASE st.error # "nil" \/ line = << >> -> st
      [] st.error = "nil" /\ EqualFold(line, BeginCard) ->
           IF st.at = "inside" THEN ParseError(st, "ErrMalformed")
           ELSE [ParseStart EXCEPT !.cards = st.cards, !.at = "inside"]
      [] st.error = "nil" /\ EqualFold(line, EndCard) -> ParseEnd(st)
      [] OTHER -> IF st.at = "outside" \/ Rejects(line) THEN ParseError(st, "ErrMalformed")
                  ELSE ParseProperty(st, ParseContentLine(line))

\* What Parse returns at the end of its input: all cards, or an error and none.
ParseResult(end) ==
    CASE end.error # "nil" -> [cards |-> << >>, error |-> end.error]
      [] end.error = "nil" /\ end.at = "inside" -> [cards |-> << >>, error |-> "ErrUnclosedBlock"]
      [] OTHER -> [cards |-> end.cards, error |-> "nil"]

Parse(lines) == ParseResult(FoldLeft(ParseStep, ParseStart, lines))
=============================================================================
