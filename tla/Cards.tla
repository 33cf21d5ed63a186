--------------------------------- MODULE Cards ---------------------------------
(***************************************************************************)
(* A card in the hands of a client that edits its properties and its two    *)
(* fields, sends it through the codec of src/go/codec/rfc6350, and compares *)
(* what it has with a copy it kept (src/go/diff, src/go/canonical,          *)
(* src/go/hashing). UID and KIND live in the fields of a card or in its     *)
(* properties, or in both.                                                  *)
(***************************************************************************)
EXTENDS Helpers, StructuralDiff

CONSTANTS
    CardUids, CardKinds,    \* both may hold "", an unset field
    CardProps,      \* properties clients write themselves
    Lower           \* texts in upper case, as a function to lower case

VARIABLES
    card,
    kept            \* the copy

cardVars == <<card, kept>>

ToLower(s) == Apply(Lower, s)

CardInit ==
    /\ \E uid \in CardUids, kind \in CardKinds : card = NewCard(uid, kind)
    /\ kept = card

Edit ==
    /\ \/ \E p \in CardProps : \/ card' \in {SetProp(card, p), AddProp(card, p)}
                               \/ card' = RemoveProp(card, p.name)
       \/ card' = RemoveProp(card, "VERSION")
       \/ \E uid \in CardUids : card' = [card EXCEPT !.uid = uid]
       \/ \E kind \in CardKinds : card' = [card EXCEPT !.kind = kind]
    /\ UNCHANGED kept

Keep ==
    /\ kept' = card
    /\ UNCHANGED card

\* Encode: the fields, then the properties, as lines; VERSION comes first.
Written(c) ==
    <<Property("VERSION", "4.0"), Property("UID", c.uid)>>
      \o (IF c.kind = "" THEN << >> ELSE <<Property("KIND", ToLower(c.kind))>>) \o c.props

\* Parse: VERSION, UID and KIND are fields, the last one of a name counts.
Parsed(lines) ==
    LET last(name) == LET all == GetAll(lines, name)
                      IN  IF all = << >> THEN "" ELSE Last(all).value
    IN  [uid |-> last("UID"), kind |-> ToLower(last("KIND")),
         props |-> SelectSeq(lines, LAMBDA p : p.name \notin {"VERSION", "UID", "KIND"})]

\* Encode refuses a card without a UID, Parse one with a second VERSION.
CanSend(c) == c.uid # "" /\ Len(GetAll(Written(c), "VERSION")) = 1

Send ==
    /\ CanSend(card)
    /\ card' = Parsed(Written(card))
    /\ UNCHANGED kept

CardNext == Edit \/ Keep \/ Send
-----------------------------------------------------------------------------
\* The fields that no property hides; spellings of one UID are one.
Shown(c) == [uid  |-> IF Has(c, "UID") THEN << >> ELSE <<nfc(c.uid)>>,
             kind |-> IF Has(c, "KIND") THEN << >> ELSE <<c.kind>>]

\* Two cards without a difference by OfCard are equal, and have one digest, exactly when
\* the fields UID and KIND that no property of the card hides are the same. The fields
\* are the only thing the diff does not see, and that it does not is against "useful for
\* callers wanting to short-circuit on identical inputs" (diff/types.go).
EmptyCardDiffIsEqual ==
    /\ Empty(OfCard(kept, card)) => (EqualCards(kept, card) <=> Shown(kept) = Shown(card))
    /\ EqualCards(kept, card) <=> HashCard(kept) = HashCard(card)

\* No property UID or KIND twice or empty, the kind in lower case.
Sound(c) ==
    LET Values(name) == [k \in DOMAIN GetAll(c.props, name) |-> GetAll(c.props, name)[k].value]
    IN  /\ \A name \in {"UID", "KIND"} : Len(Values(name)) <= 1 /\ "" \notin Range(Values(name))
        /\ \A kind \in {c.kind} \cup Range(Values("KIND")) : ToLower(kind) = kind

\* A sound card that goes through the codec keeps its canonical form, and with it its
\* digest, wherever its UID and KIND were before.
SendingKeepsCanonical ==
    CanSend(card) /\ Sound(card) => CanonicalCard(Parsed(Written(card))) = CanonicalCard(card)
=============================================================================
