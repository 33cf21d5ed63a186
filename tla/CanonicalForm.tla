----------------------------- MODULE CanonicalForm -----------------------------
(***************************************************************************)
(* Components, calendars and cards as values (src/go/component.go,          *)
(* property.go, calendar.go, card.go), their canonical form                 *)
(* (src/go/canonical/canonical.go) and its digest (src/go/hashing).         *)
(*                                                                         *)
(* A property is [name, params, value], a parameter [name, value], a        *)
(* component [type, props, sub]. Names are compared without regard to case  *)
(* and written in upper case, so a name stands for all its spellings.       *)
(* A text is a string of which only identity and the tables below matter.   *)
(***************************************************************************)
EXTENDS Integers, Sequences, SequencesExt, FiniteSets, TLC

CONSTANTS
    Order,      \* names, types, UIDs and TZIDs as a sequence in byte order
    NFC,        \* the texts that are not in NFC, as a function to their NFC
    Upper,      \* the texts in lower case, as a function to upper case
    ToUTC       \* local times read in a zone, as a function of <<time, offset>>

ASSUME OrderAssumption ==
    /\ \A i, j \in DOMAIN Order : Order[i] = Order[j] => i = j
    /\ "" \notin Range(Order)

Apply(table, text) == IF text \in DOMAIN table THEN table[text] ELSE text
nfc(text) == Apply(NFC, text)

Param(name, value) == [name |-> name, value |-> value]
Property(name, value) == [name |-> name, params |-> << >>, value |-> value]
Component(type, props) == [type |-> type, props |-> props, sub |-> << >>]

\* GetAll and Get, the latter as a tuple.
GetAll(props, name) == SelectSeq(props, LAMBDA p : p.name = name)
Get(c, name) == LET all == GetAll(c.props, name) IN IF all = << >> THEN << >> ELSE <<all[1]>>
Has(c, name) == Get(c, name) # << >>
UID(c) == IF Has(c, "UID") THEN Get(c, "UID")[1].value ELSE ""

WithoutName(props, name) == SelectSeq(props, LAMBDA p : p.name # name)

\* Component.Set, Add and Remove
SetProp(c, p) ==
    LET at == SelectInSeq(c.props, LAMBDA q : q.name = p.name)
    IN  [c EXCEPT !.props = IF at = 0 THEN Append(@, p)
                            ELSE Append(SubSeq(@, 1, at - 1), p)
                                   \o WithoutName(SubSeq(@, at + 1, Len(@)), p.name)]
AddProp(c, p) == [c EXCEPT !.props = Append(@, p)]
RemoveProp(c, name) == [c EXCEPT !.props = WithoutName(@, name)]

\* Calendar.Filter
Filter(cal, type) == SelectSeq(cal.components, LAMBDA c : c.type = type)

\* sort.SliceStable by a key out of Order
InOrder(keys) == SelectSeq(Order, LAMBDA x : x \in keys)
SortedBy(seq, Key(_)) ==
    LET keys == InOrder({Key(seq[k]) : k \in DOMAIN seq})
    IN  FlattenSeq([k \in DOMAIN keys |-> SelectSeq(seq, LAMBDA x : Key(x) = keys[k])])
NameOf(x) == x.name
-----------------------------------------------------------------------------
(* Canonical form of one property.                                         *)

DatetimeProperties == {"DTSTAMP", "DTSTART", "DTEND", "DUE", "COMPLETED", "RECURRENCE-ID",
                       "CREATED", "LAST-MODIFIED"}

ParamValue(params, name) ==
    LET all == SelectSeq(params, LAMBDA q : q.name = name)
    IN  IF all = << >> THEN << >> ELSE <<all[1].value>>

IsValueDate(params) ==
    ParamValue(params, "VALUE") # << >> /\ Apply(Upper, ParamValue(params, "VALUE")[1]) = "DATE"

\* vstar.ParseTimeWithTZID, for zones of one offset; TimeZones has the others.
ResolveTZID(value, tzid, cal) ==
    LET zones == SelectSeq(Filter(cal, "VTIMEZONE"), LAMBDA z : Get(z, "TZID") # << >>
                                                      /\ Get(z, "TZID")[1].value = tzid)
        rules == IF zones = << >> THEN << >> ELSE zones[1].sub
        offset == IF Len(rules) # 1 THEN << >> ELSE Get(rules[1], "TZOFFSETTO")
    IN  IF offset = << >> \/ <<value, offset[1].value>> \notin DOMAIN ToUTC THEN << >>
        ELSE <<ToUTC[<<value, offset[1].value>>]>>

\* Rule 10: an attachment is written as a reference.
InlineParam(p, q) ==
    p.name = "ATTACH" /\ \/ q.name = "VALUE" /\ Apply(Upper, q.value) = "BINARY"
                         \/ q.name = "ENCODING" /\ Apply(Upper, q.value) = "BASE64"

\* Mutant: the parameter after one that is taken out is skipped.
PrepareProperty_Skips(p, cal) ==
    LET inline == SelectInSeq(p.params, LAMBDA q : InlineParam(p, q))
        kept   == IF inline = 0 THEN p.params ELSE RemoveAt(p.params, inline)
    IN  [p EXCEPT !.value = nfc(@), !.params = SortedBy(kept, NameOf)]

\* A property whose local time was resolved, as a tuple, or that is a date.
Prepared(p, dateOnly, resolved) ==
    LET Kept(q)  == ~InlineParam(p, q) /\ ~(q.name = "TZID" /\ (dateOnly \/ resolved # << >>))
        Written(q) == Param(q.name, IF dateOnly /\ q.name = "VALUE" THEN Apply(Upper, nfc(q.value))
                                    ELSE nfc(q.value))
        kept     == SelectSeq(p.params, Kept)
    IN  [name |-> p.name, value |-> IF resolved # << >> THEN resolved[1] ELSE nfc(p.value),
         params |-> SortedBy([k \in DOMAIN kept |-> Written(kept[k])], NameOf)]

\* prepareProperty
PrepareProperty(p, cal) ==
    LET dateOnly == p.name \in DatetimeProperties /\ IsValueDate(p.params)
        tzid     == ParamValue(p.params, "TZID")
    IN  Prepared(p, dateOnly,
                 IF p.name \in DatetimeProperties /\ ~dateOnly /\ tzid \notin {<< >>, <<"">>}
                 THEN ResolveTZID(p.value, tzid[1], cal) ELSE << >>)
-----------------------------------------------------------------------------
(* Canonical form of components, calendars and cards, as lines.            *)

HASH == "X-VSTAR-HASH"

\* prepareComponent: sub-components keep their order.
RECURSIVE PrepareComponent(_, _)
PrepareComponent(c, cal) ==
    LET props == WithoutName(c.props, HASH)
    IN  [type |-> c.type,
         props |-> SortedBy([k \in DOMAIN props |-> PrepareProperty(props[k], cal)], NameOf),
         sub |-> [k \in DOMAIN c.sub |-> PrepareComponent(c.sub[k], cal)]]

\* rfc5545.EncodeComponent, a property for a line
RECURSIVE EncodeComponent(_)
EncodeComponent(c) ==
    <<Property("BEGIN", c.type)>> \o c.props
      \o FlattenSeq([k \in DOMAIN c.sub |-> EncodeComponent(c.sub[k])])
      \o <<Property("END", c.type)>>

NoCalendar == [prodid |-> "", components |-> << >>]

CanonicalInContext(c, cal) == EncodeComponent(PrepareComponent(c, cal))
CanonicalComponent(c) == CanonicalInContext(c, NoCalendar)

\* componentSortKey: TZID of a VTIMEZONE, UID, TZID of others, and whether there is one:
\* an empty TZID is a key.
HasKey(c) == UID(c) # "" \/ Has(c, "TZID")
SortKey(c) ==
    IF c.type = "VTIMEZONE" /\ Has(c, "TZID") THEN Get(c, "TZID")[1].value
    ELSE IF UID(c) # "" THEN UID(c)
    ELSE IF Has(c, "TZID") THEN Get(c, "TZID")[1].value
    ELSE ""

\* Mutant: components stay where they are.
SortedComponents_AsGiven(components) == components

\* An empty key comes first, those without a key last.
SortedComponents(components) ==
    SelectSeq(components, LAMBDA c : HasKey(c) /\ SortKey(c) = "")
      \o SortedBy(components, SortKey) \o SelectSeq(components, LAMBDA c : ~HasKey(c))

CanonicalCalendar(cal) ==
    LET sorted == SortedComponents(cal.components)
    IN  <<Property("BEGIN", "VCALENDAR"), Property("VERSION", "2.0"),
          Property("PRODID", nfc(cal.prodid))>>
          \o FlattenSeq([k \in DOMAIN sorted |-> CanonicalInContext(sorted[k], cal)])
          \o <<Property("END", "VCALENDAR")>>

\* A field is written unless a property of the card has its name.
Absorbed(card, field, name) ==
    IF field = "" \/ GetAll(card.props, name) # << >> THEN << >> ELSE <<Property(name, field)>>

\* Card: VERSION comes first, ahead of its place in the order; only the first of
\* the name is moved.
CanonicalCard(card) ==
    LET props == <<Property("VERSION", "4.0")>> \o Absorbed(card, card.uid, "UID")
                   \o Absorbed(card, card.kind, "KIND") \o card.props
        prepared == PrepareComponent(Component("VCARD", props), NoCalendar)
        at == SelectInSeq(prepared.props, LAMBDA p : p.name = "VERSION")
    IN  EncodeComponent([prepared EXCEPT !.props = <<@[at]>> \o RemoveAt(@, at)])
-----------------------------------------------------------------------------
(* Digests.  SHA-256 is taken to be without collisions: a digest is a text  *)
(* of its own for everything digested.                                      *)

Digest(lines) == ToString(lines)

StripHash(c) == RemoveProp(c, HASH)

RECURSIVE StripRecursive(_)
StripRecursive(c) ==
    [StripHash(c) EXCEPT !.sub = [k \in DOMAIN @ |-> StripRecursive(@[k])]]

HashComponent(c) == Digest(CanonicalComponent(StripHash(c)))
HashCalendar(cal) ==
    Digest(CanonicalCalendar([cal EXCEPT !.components =
                                [k \in DOMAIN @ |-> StripRecursive(@[k])]]))
HashCard(card) == Digest(CanonicalCard([card EXCEPT !.props = WithoutName(@, HASH)]))

SetXVSTAR(c) == SetProp(c, Property(HASH, HashComponent(c)))
VerifyXVSTAR(c) == Has(c, HASH) /\ Get(c, HASH)[1].value = HashComponent(c)

\* vstar.Equal, with parameters in order
Equal(a, b) ==
    /\ a.name = b.name /\ a.value = b.value
    /\ SortedBy(a.params, NameOf) = SortedBy(b.params, NameOf)

\* diff.Component, diff.Calendar, diff.Card
EqualComponents(a, b) == CanonicalComponent(a) = CanonicalComponent(b)
EqualCalendars(a, b) == CanonicalCalendar(a) = CanonicalCalendar(b)
EqualCards(a, b) == CanonicalCard(a) = CanonicalCard(b)
=============================================================================
