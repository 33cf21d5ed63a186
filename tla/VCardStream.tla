------------------------------ MODULE VCardStream ------------------------------
(***************************************************************************)
(* src/go/codec/stream VCardEncoder and VCardParser around one file: a      *)
(* client fills cards, encodes them and closes, on a writer that may fail;  *)
(* then a client pulls cards from what got there, or from a document that   *)
(* somebody else wrote, on a reader that may fail.  Unlike its iCalendar    *)
(* sibling the encoder does not flush at the end of a call, and the parser  *)
(* has no header: after an error every call looks for the next BEGIN:VCARD. *)
(***************************************************************************)
EXTENDS VCard

CONSTANTS
    Documents,          \* files written by others, as sequences of lines
    UIDs, Kinds,        \* of the cards the client makes; UIDs may hold << >>
    Made(_, _),         \* how it makes them: Literal or NewCard
    NewProps,           \* properties it sets or adds
    MaxEdits,           \* bound: edits, all of the first card
    MaxCards,           \* bound: calls of Encode
    MaxReadErrors       \* bound: failures of the reader, on one of Documents

Texts == Seq(STRING)
Props == [name : Texts, params : Seq([name : Texts, value : Texts]), value : Texts]
Cards == [uid : Texts, kind : Texts, props : Seq(Props)]

ASSUME VCardAssumption ==
    /\ Documents \subseteq Seq(Texts)
    /\ UIDs \subseteq Texts /\ UIDs \ {<< >>} # {} /\ Kinds \subseteq Texts /\ Kinds # {}
    /\ \A u \in UIDs, k \in Kinds : Made(u, k) \in Cards
    /\ NewProps \subseteq Props
    /\ MaxEdits \in Nat /\ MaxCards \in Nat /\ MaxReadErrors \in Nat

VARIABLES
    draft, edits,       \* the card being filled
    buffered, wire,     \* lines in the bufio.Writer, and in the file
    broken, closed,     \* its sticky error; e.closed
    encResult,
    acked, attempted,   \* cards whose Encode returned nil; the one that failed
    encodes,
    pos, done,          \* lines the scanner has handed out; p.done
    pc,                 \* "write" | "idle" | "outside" | "inside" a card
    cur, version,       \* locals of Next
    result,
    yielded, failed,    \* cards returned; some call of Next returned an error
    readErrors

encVars  == <<draft, edits, buffered, broken, closed, encResult, acked, attempted, encodes>>
readVars == <<pos, done, cur, version, result, yielded, failed,
              readErrors>>
vars     == <<encVars, wire, pc, readVars>>

\* A vstar.Card{UID, Kind}, and helpers.NewCard, which sets properties as well.
Literal(uid, kind) == [uid |-> uid, kind |-> kind, props |-> << >>]
NewCard(uid, kind) ==
    LET As(name, value) == [name |-> name, params |-> << >>, value |-> value]
    IN  [uid |-> uid, kind |-> kind,
         props |-> <<As(<<"VERSION">>, SupportedVersion), As(<<"KIND">>, kind), As(<<"UID">>, uid)>>]

Init ==
    /\ draft = Made(CHOOSE u \in UIDs : u # << >>, CHOOSE k \in Kinds : TRUE)
    /\ edits = 0
    /\ buffered = << >> /\ broken = FALSE /\ closed = FALSE /\ encResult = "none"
    /\ acked = << >> /\ attempted = << >> /\ encodes = 0
    /\ \/ wire = << >> /\ pc = "write"
       \/ wire \in Documents /\ pc = "idle"
    /\ pos = 0 /\ done = FALSE /\ cur = EmptyCard /\ version = << >>
    /\ result = "none" /\ yielded = << >> /\ failed = FALSE
    /\ readErrors = 0
-----------------------------------------------------------------------------
(* The client that writes.                                                 *)

Edit ==
    /\ pc = "write" /\ edits < MaxEdits /\ encodes = 0
    /\ edits' = edits + 1
    /\ \E p \in NewProps : draft' \in {SetProp(draft, p), AddProp(draft, p),
                                       RemoveProp(draft, p.name)}
    /\ UNCHANGED <<buffered, broken, closed, encResult, acked, attempted, encodes,
                   wire, pc, readVars>>

\* bufio passes lines on when its buffer is full: any prefix of what it has.
Spill(lines) == \E k \in 0..Len(lines) :
    /\ wire' = wire \o SubSeq(lines, 1, k)
    /\ buffered' = SubSeq(lines, k + 1, Len(lines))

Flush(lines) == wire' = wire \o lines /\ buffered' = << >>

\* The writer fails: a prefix of the lines gets there, the last one cut off.
WriterFails(lines) == \E k \in 0..Len(lines) :
    /\ broken' = TRUE
    /\ UNCHANGED buffered
    /\ \/ wire' = wire \o SubSeq(lines, 1, k)
       \/ k < Len(lines) /\ Len(lines[k + 1]) > 1
          /\ wire' = Append(wire \o SubSeq(lines, 1, k), Front(lines[k + 1]))

MissingUID(card) == card.uid = << >>

Encode ==
    /\ pc = "write" /\ encodes < MaxCards
    /\ encodes' = encodes + 1
    /\ CASE closed -> encResult' = "ErrAlreadyClosed"
                        /\ UNCHANGED <<wire, buffered, broken, acked, attempted>>
         [] ~closed /\ MissingUID(draft) -> encResult' = "ErrMissingUID"
                        /\ UNCHANGED <<wire, buffered, broken, acked, attempted>>
         [] ~closed /\ ~MissingUID(draft) /\ broken -> encResult' = "error"
                        /\ UNCHANGED <<wire, buffered, broken, acked, attempted>>
         [] OTHER ->
              LET lines == buffered \o EncodeCard(draft)
              IN  \/ /\ Spill(lines) /\ encResult' = "nil"
                     /\ acked' = Append(acked, draft)
                     /\ UNCHANGED <<broken, attempted>>
                  \/ /\ WriterFails(lines) /\ encResult' = "error"
                     /\ attempted' = <<draft>>
                     /\ UNCHANGED acked
    /\ draft' \in {draft} \cup {Made(u, k) : u \in UIDs, k \in Kinds}
    /\ UNCHANGED <<edits, closed, pc, readVars>>

CloseFlush(lines) == Flush(lines)

Close ==
    /\ pc = "write"
    /\ CASE closed -> encResult' = "ErrAlreadyClosed"
                        /\ UNCHANGED <<wire, buffered, broken, closed>>
         [] ~closed /\ broken -> encResult' = "error"
                        /\ UNCHANGED <<wire, buffered, broken, closed>>
         [] OTHER -> \/ CloseFlush(buffered) /\ closed' = TRUE /\ encResult' = "nil"
                          /\ UNCHANGED broken
                     \/ buffered # << >> /\ WriterFails(buffered) /\ encResult' = "error"
                          /\ UNCHANGED closed
    /\ UNCHANGED <<draft, edits, acked, attempted, encodes, pc, readVars>>

\* The file is read once it is closed, or the writer has failed and the client
\* is gone: then its lines are all there is.
OpenFile ==
    /\ pc = "write" /\ (closed \/ broken)
    /\ pc' = "idle"
    /\ buffered' = << >> /\ encResult' = "none" /\ draft' = EmptyCard
    /\ UNCHANGED <<edits, broken, closed, acked, attempted, encodes, wire, readVars>>
-----------------------------------------------------------------------------
(* The client that reads, and Next line by line.                           *)

AtEOF    == pos = Len(wire)
NextLine == wire[pos + 1]

Consume == pos' = IF AtEOF THEN pos ELSE pos + 1

Return(r) == pc' = "idle" /\ result' = r /\ UNCHANGED <<cur, version>>
ReturnError(e) == Return(e) /\ failed' = TRUE /\ UNCHANGED yielded
Continue == UNCHANGED <<pc, result, yielded, failed>>

CallNext ==
    /\ pc = "idle"
    /\ cur' = EmptyCard /\ version' = << >>
    /\ IF done THEN pc' = "idle" /\ result' = "EOF"
       ELSE pc' = "outside" /\ UNCHANGED result
    /\ UNCHANGED <<encVars, wire, pos, done, yielded, failed, readErrors>>

NotBegin == ReturnError("ErrMalformed")

ReadOutside ==
    /\ pc = "outside" /\ Consume
    /\ done' = AtEOF
    /\ IF AtEOF THEN Return("EOF") /\ UNCHANGED <<yielded, failed>>
       ELSE CASE NextLine = << >> -> Continue /\ UNCHANGED <<cur, version>>
              [] EqualFold(NextLine, BeginCard) ->
                   pc' = "inside" /\ UNCHANGED <<cur, version, result, yielded, failed>>
              [] OTHER -> NotBegin
    /\ UNCHANGED <<encVars, wire, readErrors>>

\* Mutant: the whole name counts, as in the batch parser.
PropBareName_Whole(name) == name

PropBareName(name) == BareName(name)

ReadEnd ==
    CASE version = << >> -> ReturnError("ErrMalformed")
      [] version \notin {<< >>, SupportedVersion} -> ReturnError("ErrUnsupportedVersion")
      [] OTHER -> Return("card") /\ yielded' = Append(yielded, cur) /\ UNCHANGED failed

ReadProperty(p) ==
    LET name == ToUpper(PropBareName(p.name))
    IN  CASE name = <<"VERSION">> /\ version # << >> -> ReturnError("ErrMalformed")
          [] name = <<"VERSION">> /\ version = << >> ->
               version' = p.value /\ Continue /\ UNCHANGED cur
          [] name = <<"UID">>  ->
               cur' = [cur EXCEPT !.uid = p.value] /\ Continue /\ UNCHANGED version
          [] name = <<"KIND">> ->
               cur' = [cur EXCEPT !.kind = ToLower(p.value)] /\ Continue /\ UNCHANGED version
          [] OTHER ->
               cur' = [cur EXCEPT !.props = Append(@, p)] /\ Continue /\ UNCHANGED version

NestedBegin_Ignored == Continue /\ UNCHANGED <<cur, version>>

InsideAtEOF == ReturnError("ErrUnclosedBlock")

NestedBegin == ReturnError("ErrMalformed")

ReadInside ==
    /\ pc = "inside" /\ Consume
    /\ IF AtEOF THEN InsideAtEOF
       ELSE CASE NextLine = << >> -> Continue /\ UNCHANGED <<cur, version>>
              [] EqualFold(NextLine, EndCard)   -> ReadEnd
              [] EqualFold(NextLine, BeginCard) -> NestedBegin
              [] OTHER -> IF Rejects(NextLine) THEN ReturnError("ErrMalformed")
                          ELSE ReadProperty(ParseContentLine(NextLine))
    /\ UNCHANGED <<encVars, wire, done, readErrors>>

\* The reader fails.  The scanner is a line ahead: that line, or at the start
\* the first one as well, may be lost or lose its first characters.
Damaged(k) == {RemoveAt(wire, k)}
                \cup IF Len(wire[k]) > 1 THEN {ReplaceAt(wire, k, Tail(wire[k]))} ELSE {}

ReadFails ==
    /\ pc \in {"outside", "inside"} /\ readErrors < MaxReadErrors
    /\ encodes = 0
    /\ readErrors' = readErrors + 1
    /\ wire' \in {wire} \cup UNION {Damaged(k) : k \in ({pos + 2} \cup (IF pos = 0 THEN {1} ELSE {}))
                                                         \cap DOMAIN wire}
    /\ ReturnError("read error")
    /\ UNCHANGED <<encVars, pos, done>>

Write == Edit \/ Encode \/ Close \/ OpenFile
Read  == CallNext \/ ReadOutside \/ ReadInside

Next == Write \/ Read \/ ReadFails

\* The reading client may call Next until io.EOF, also after errors.
Spec == Init /\ [][Next]_vars
-----------------------------------------------------------------------------
(* Properties                                                               *)

TypeOK ==
    /\ pc \in {"write", "idle", "outside", "inside"}
    /\ pos \in 0..Len(wire) /\ done \in BOOLEAN /\ failed \in BOOLEAN
    /\ closed => buffered = << >>
    /\ pc = "write" => pos = 0 /\ yielded = << >>
    /\ Len(acked) + Len(attempted) <= encodes

OnWireCard(card) ==
    [uid |-> card.uid, kind |-> ToLower(card.kind),
     props |-> [k \in DOMAIN card.props |-> OnWire(card.props[k])]]

\* The same lines, with the groups of UID, KIND and VERSION taken away.
Ungrouped(line) ==
    IF line # << >> /\ ~Rejects(line)
         /\ ToUpper(BareName(Segments(line)[1])) \in {<<"UID">>, <<"KIND">>, <<"VERSION">>}
    THEN SubSeq(line, GroupEnd(Segments(line)[1]) + 1, Len(line)) ELSE line
UngroupedAll(lines) == [k \in DOMAIN lines |-> Ungrouped(lines[k])]

\* What can be written so that it reads back: the codec checks nothing of this.
\* Names that are no delimiters of a card and not VERSION, UID and KIND, no separator
\* in a name, no DQUOTE in a parameter; and a kind that needs no escaping, because it
\* gets none.
Plain(text) == text # << >> /\ ~Has(text, {":", Semi, DQ, LF, CR})
WritableParam(q) == Plain(q.name) /\ ~Has(q.name, {"="}) /\ ~Has(q.value, {DQ, LF, CR})
WritableProp(p) ==
    /\ Plain(p.name) /\ GroupEnd(p.name) # 1 /\ ~Has(p.value, {CR})
    /\ ToUpper(p.name) \notin {<<"BEGIN">>, <<"END">>, <<"UID">>, <<"KIND">>}
    /\ ToUpper(BareName(p.name)) # <<"VERSION">>
    /\ \A k \in DOMAIN p.params : WritableParam(p.params[k])
WritableCard(card) ==
    /\ ~Has(card.uid, {CR}) /\ ~Has(card.kind, {BS, LF, CR})
    /\ \A k \in DOMAIN card.props : WritableProp(card.props[k])

\* The client makes such cards only.
ClientIsCareful ==
    /\ \A u \in UIDs, k \in Kinds : WritableCard(Made(u, k))
    /\ \A p \in NewProps : WritableProp(p)

\* The lines of some cards.
EncodedCards(cards) == FlattenSeq([k \in DOMAIN cards |-> EncodeCard(cards[k])])

\* Once Close has returned nil, the batch parser reads from the file exactly the
\* cards whose Encode returned nil, in order, with every escape undone and every
\* parameter unquoted; a card refused for its missing UID left no trace. And what the
\* pull parser makes of a file that was cut off anywhere is a prefix of what the client
\* encoded: no card is made of the part that got there.
ClosedIsComplete ==
    LET encoded == acked \o attempted
    IN  /\ closed /\ pos = 0 /\ readErrors = 0 =>
             Parse(wire) = [cards |-> [k \in DOMAIN acked |-> OnWireCard(acked[k])],
                            error |-> "nil"]
        /\ pc = "idle" /\ encoded # << >> =>
             IsPrefix(yielded,
                      Parse(UngroupedAll(EncodedCards(encoded))).cards)

\* Pull parser and batch parser accept the same files and make the same cards of
\* them, once the groups of UID, KIND and VERSION are out of the way, where the
\* two differ: io.EOF without an error on the way is what batch accepts, and an
\* error is what batch rejects.
StreamAgrees ==
    /\ TypeOK
    /\ readErrors = 0 /\ pc = "idle" =>
         LET batch == Parse(UngroupedAll(wire))
         IN  /\ failed => batch.error # "nil"
             /\ result = "EOF" /\ ~failed => batch = [cards |-> yielded, error |-> "nil"]

\* A client that goes on after errors never gets a card glued together: each one
\* is what the batch parser makes of one uninterrupted run of lines.
YieldedIsBlock ==
    result = "card" /\ pc = "idle" =>
    \E from \in 1..pos :
        /\ EqualFold(wire[from], BeginCard)
        /\ Parse(UngroupedAll(SubSeq(wire, from, pos)))
             = [cards |-> <<Last(yielded)>>, error |-> "nil"]

\* A value that is not TEXT is written as it is, a line feed in it too
\* (rfc5545/encoder.go:129-133), which then ends the line.
StaysOneLine(p) == TextProperty(p.name) \/ ~Has(p.value, {LF})

\* The iCalendar codec reads back the properties it writes, as long as they stay on
\* one line: of these, too, only DQUOTE in a parameter and CR in a TEXT value are lost.
LinesRoundTrip ==
    pc = "write" =>
    \A k \in {k \in DOMAIN draft.props : StaysOneLine(draft.props[k])} :
        LET p == draft.props[k]
            back == ParseContentLine5545(EncodeContentLine(p))
        IN  /\ ~Rejects5545(EncodeContentLine(p))
            /\ back.value = p.value /\ EqualFold(back.name, p.name)
            /\ \A j \in DOMAIN p.params :
                 back.params[j].value = Without(p.params[j].value, DQ)

\* What the comments say of NewCard (constructors.go: a fresh VCARD with VERSION:4.0,
\* KIND and UID) and of Encode (rfc6350/encoder.go: VERSION:4.0 is always emitted):
\* cards that were made and encoded are cards to the parser.
MadeCardsAreCards == closed /\ acked # << >> => Parse(wire).error = "nil"
=============================================================================
