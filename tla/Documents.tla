------------------------------- MODULE Documents -------------------------------
(***************************************************************************)
(* A calendar in the hands of clients: constructors and helpers             *)
(* (src/go/helpers, src/go/supersession) make and change its components,    *)
(* clients write properties behind the library's back, and the documents    *)
(* travel through software that rewrites them without changing what they    *)
(* say. Canonical form, digests, diff and validator look at every result.   *)
(* A behaviour is about a calendar or about a card, which have nothing in   *)
(* common; NoCard says that it is about a calendar.                         *)
(***************************************************************************)
EXTENDS Cards

CONSTANTS
    Calendars,      \* documents somebody else wrote
    Times, Uids,    \* arguments of constructors and helpers; both may hold ""
    Words,          \* of the setters for STATUS, CLASS and TRANSP
    Labels,         \* of AddCategory and SetCategories
    Numbers,        \* of SetSequence, SetPriority and SetPercentComplete
    RawProps,       \* properties clients write themselves
    MaxComponents,  \* bounds: components of a calendar,
    MaxSteps,       \* changes of any kind to a calendar,
    MaxCalls,       \* calls of the library alone, from the empty calendar on,
    MaxEdits        \* changes to a card

VARIABLES
    cal,
    first,          \* history: the calendar as it was at first
    honest,         \* history: nobody but the library has written
    owed,           \* history: what each component's arguments must bring up in a validator
    stamp,          \* history: what each component said when a helper last changed it
    steps

docVars == <<cal, first, honest, owed, stamp>>
vars == <<docVars, cardVars, steps>>

\* The instants a local time may stand for, by the time zones of a calendar.
InstantsOf(value, tzid, zones) ==
    {ToUTC[key] : key \in {key \in DOMAIN ToUTC :
        /\ key[1] = value
        /\ \E z \in Range(zones.components) :
             /\ z.type = "VTIMEZONE" /\ Property("TZID", tzid) \in Range(z.props)
             /\ \E rule \in Range(z.sub) : Property("TZOFFSETTO", key[2]) \in Range(rule.props)}}

\* What a property says: a date is a day, whatever its zone; a local time in a known zone
\* is an instant; an attachment is a reference; text is the same in every spelling.
Meaning(p, zones) ==
    LET names   == {q.name : q \in Range(p.params)}
        given   == [n \in names |-> ParamValue(p.params, n)[1]]
        timed   == p.name \in DatetimeProperties
        isDate  == timed /\ "VALUE" \in names /\ EqualFold(given["VALUE"], "DATE")
        instant == IF timed /\ ~isDate /\ "TZID" \in names
                   THEN InstantsOf(p.value, given["TZID"], zones) ELSE {}
        inline  == {n \in names \cap {"VALUE", "ENCODING"} :
                      p.name = "ATTACH" /\ ToUpper(given[n]) \in {"BINARY", "BASE64"}}
        silent  == inline \cup (IF isDate \/ instant # {} THEN {"TZID"} ELSE {})
    IN  [value  |-> IF instant # {} THEN instant ELSE {nfc(p.value)},
         params |-> [n \in names \ silent |-> IF isDate /\ n = "VALUE" THEN "DATE" ELSE nfc(given[n])]]

\* What a component says: its properties by name, those of one name in their order.
\* (The hash says nothing.)
RECURSIVE Says(_, _)
Says(c, zones) ==
    LET names == {c.props[k].name : k \in DOMAIN c.props} \ {HASH}
        Of(n) == LET all == GetAll(c.props, n) IN [k \in DOMAIN all |-> Meaning(all[k], zones)]
    IN  [type |-> c.type, props |-> [n \in names |-> Of(n)],
         sub |-> [k \in DOMAIN c.sub |-> Says(c.sub[k], zones)]]

\* What a calendar says: its components by key, those of one key in their order.
KeyOf(c) == <<HasKey(c), SortKey(c)>>
CalendarSays(x) ==
    LET keys == {KeyOf(x.components[k]) : k \in DOMAIN x.components}
        Of(key) == LET all == SelectSeq(x.components, LAMBDA c : KeyOf(c) = key)
                   IN  [k \in DOMAIN all |-> Says(all[k], x)]
    IN  [prodid |-> nfc(x.prodid), components |-> [key \in keys |-> Of(key)]]

Alone(c) == Says(c, NoCalendar)
Nothing == [type |-> "", props |-> << >>, sub |-> << >>]

NoCard == [uid |-> "", kind |-> "", props |-> << >>]

Init ==
    /\ \/ cal = NewCalendar("") /\ honest = TRUE /\ card = NoCard /\ kept = NoCard
       \/ cal \in Calendars /\ honest = FALSE /\ card = NoCard /\ kept = NoCard
       \/ cal = NewCalendar("") /\ honest = FALSE /\ CardInit
    /\ first = cal
    /\ owed = [k \in DOMAIN cal.components |-> {}]
    /\ stamp = [k \in DOMAIN cal.components |-> Nothing]
    /\ steps = 0

Place(k, c) == cal' = [cal EXCEPT !.components[k] = c]
-----------------------------------------------------------------------------
(* The library.                                                            *)

\* Calendar.Append of what a constructor returned, unless that is an error. `codes` is
\* what a validator must report because of the arguments.
Appended(made, codes) ==
    /\ made # << >>
    /\ cal' = [cal EXCEPT !.components = @ \o made]
    /\ stamp' = Append(stamp, Alone(made[1]))
    /\ owed' = Append(owed, codes)
    /\ UNCHANGED honest

IfZero(t, code) == IF t = "" THEN {code} ELSE {}

Construct ==
    /\ Len(cal.components) < MaxComponents
    /\ \E uid \in Uids, t \in Times :
         \/ Appended(NewTodo(uid, t), IfZero(t, "VS040"))
         \/ Appended(NewJournal(uid, t), {})
         \/ Appended(NewEvent(uid, t, t), IfZero(t, "VS041"))
         \/ Appended(NewFreeBusy(uid, t, t), IfZero(t, "VS042"))

Supersede(k) ==
    /\ Len(cal.components) < MaxComponents
    /\ \E s \in TodoStatuses \cap Words, t \in Times \ {""} :
         Appended(Supersedes(cal.components[k], s, t), IfZero(UID(cal.components[k]), "VS030"))

\* A mutator returned; << >> in stamp stays what it was when nothing was done.
Mutated(k, c, codes) ==
    /\ Place(k, c)
    /\ stamp' = IF c = cal.components[k] THEN stamp ELSE [stamp EXCEPT ![k] = Alone(c)]
    /\ owed' = IF c = cal.components[k] THEN owed ELSE [owed EXCEPT ![k] = @ \cup codes]
    /\ UNCHANGED honest

\* A zero time takes DUE or COMPLETED away from a to-do; one past the greatest int is no
\* sequence number; the label of supersessions makes an entry out of any journal.
Help(k) ==
    LET c == cal.components[k]
        Plainly(new) == Mutated(k, new, {})
        overflow == IF Sequence(c) = MaxInt THEN {"VS055"} ELSE {}
        due(t) == IF c.type = "VTODO" THEN IfZero(t, "VS040") ELSE {}
        entry(v) == IF c.type = "VJOURNAL" /\ ToUpper(Trim(v)) = SUPERSESSION
                    THEN {"VS030", "VS031"} ELSE {}
    IN  \/ \E w \in Words : \/ Plainly(SetStatus(c, w)) \/ Plainly(SetEventStatus(c, w))
                            \/ Plainly(SetJournalStatus(c, w))
                            \/ Plainly(SetClass(c, w)) \/ Plainly(SetTransp(c, w))
        \/ \E n \in Numbers : \/ Plainly(SetSequence(c, n)) \/ Plainly(SetPriority(c, n))
                              \/ Plainly(SetPercentComplete(c, n))
        \/ Plainly(RemovePriority(c)) \/ Plainly(RemovePercentComplete(c))
        \/ \E u \in Uids, r \in {"", "CHILD"} : Plainly(AddRelatedTo(c, u, r))
        \/ Mutated(k, IncrementSequence(c), overflow)
        \/ \E t \in Times : Mutated(k, Complete(c, t), due(t)) \/ Mutated(k, SetDue(c, t), due(t))
        \/ \E v \in Labels : \/ Mutated(k, AddCategory(c, v), entry(v))
                             \/ Mutated(k, SetCategories(c, <<v, v>>), entry(v))

\* A client puts an alarm into a component, which has no helper.
BeforeEnd == [Property("TRIGGER", "-PT15M") EXCEPT !.params = <<Param("RELATED", "END")>>]

Nest(k) ==
    /\ Len(cal.components[k].sub) < 2
    /\ \E uid \in Uids :
         \E made \in {NewAlarm(uid, "DISPLAY", t) : t \in MalformedTexts}
                        \cup {newAlarmWithTrigger(uid, "DISPLAY", BeforeEnd)} :
           made # << >> /\ Place(k, [cal.components[k] EXCEPT !.sub = @ \o made])
    /\ honest' = FALSE
    /\ UNCHANGED <<owed, stamp>>
-----------------------------------------------------------------------------
(* Others.                                                                 *)

\* A client sets, adds or removes a property, of a sub-component too, and leaves the
\* hash as it is.
Write(k) ==
    /\ LET c == cal.components[k]
       IN  \E p \in RawProps : Place(k, SetProp(c, p)) \/ Place(k, AddProp(c, p))
                                \/ Place(k, RemoveProp(c, p.name))
                                \/ \E j \in DOMAIN c.sub : Place(k, [c EXCEPT !.sub[j] = SetProp(@, p)])
    /\ honest' = FALSE
    /\ UNCHANGED <<owed, stamp>>

Swapped(seq, i) == [seq EXCEPT ![i] = seq[i + 1], ![i + 1] = seq[i]]
Before(seq, i, Key(_)) == i + 1 \in DOMAIN seq /\ Key(seq[i]) # Key(seq[i + 1])

\* Ways to write a property differently: parameters in another order, text that is
\* not in NFC, DATE in another case, a zone beside a date, an attachment as if inline.
Spellings(p) ==
    {[p EXCEPT !.params = Swapped(@, i)] : i \in {i \in DOMAIN p.params : Before(p.params, i, NameOf)}}
      \cup {[p EXCEPT !.value = v] : v \in {v \in DOMAIN NFC : NFC[v] = p.value}}
      \cup (IF p.name \in DatetimeProperties /\ IsValueDate(p.params)
            THEN {[p EXCEPT !.params = <<Param("VALUE", "date")>>],
                  [p EXCEPT !.params = <<Param("VALUE", "DATE"), Param("TZID", "z")>>]} ELSE {})
      \cup (IF p.name = "ATTACH" /\ p.params = << >>
            THEN {[p EXCEPT !.params = <<Param("VALUE", "BINARY"), Param("ENCODING", "base64")>>]} ELSE {})

\* A local time may be written in UTC. The digest of a component alone does not
\* know its zone.
InUTC(p) ==
    LET zone == ParamValue(p.params, "TZID")
        utc  == IF zone = << >> THEN << >> ELSE ResolveTZID(p.value, zone[1], cal)
    IN  IF p.name \in DatetimeProperties /\ ~IsValueDate(p.params) /\ utc # << >>
        THEN {[p EXCEPT !.value = utc[1], !.params = SelectSeq(@, LAMBDA q : q.name # "TZID")]} ELSE {}

Respell(k) ==
    /\ UNCHANGED <<owed, stamp>>
    /\ LET c == cal.components[k]
       IN  \/ /\ \E i \in DOMAIN c.props :
                   \/ \E p \in Spellings(c.props[i]) : Place(k, [c EXCEPT !.props[i] = p])
                   \/ Before(c.props, i, NameOf) /\ Place(k, [c EXCEPT !.props = Swapped(@, i)])
              /\ UNCHANGED honest
           \/ Has(c, HASH) /\ Place(k, RemoveProp(c, HASH)) /\ honest' = FALSE

Rezone(k) ==
    /\ UNCHANGED <<honest, owed, stamp>>
    /\ \E i \in DOMAIN cal.components[k].props : \E p \in InUTC(cal.components[k].props[i]) :
         Place(k, [cal.components[k] EXCEPT !.props[i] = p])

Reorder ==
    /\ UNCHANGED honest
    /\ \E i \in DOMAIN cal.components :
         /\ Before(cal.components, i, KeyOf)
         /\ cal' = [cal EXCEPT !.components = Swapped(@, i)]
         /\ stamp' = Swapped(stamp, i)
         /\ owed' = Swapped(owed, i)

Carry == (\E k \in DOMAIN cal.components : Respell(k) \/ Rezone(k)) \/ Reorder

Library == Construct \/ \E k \in DOMAIN cal.components : Supersede(k) \/ Help(k)
Others  == (\E k \in DOMAIN cal.components : Nest(k) \/ Write(k)) \/ Carry

Next ==
    /\ \/ /\ card = NoCard
          /\ \/ steps < (IF honest THEN MaxCalls ELSE MaxSteps) /\ Library
             \/ steps < MaxSteps /\ Others
          /\ UNCHANGED <<first, cardVars>>
       \/ card # NoCard /\ steps < MaxEdits /\ CardNext /\ UNCHANGED docVars
    /\ steps' = IF UNCHANGED <<cal, cardVars>> THEN steps ELSE steps + 1

Spec == Init /\ [][Next]_vars
-----------------------------------------------------------------------------
(* Canonical form and digests                                              *)

TypeOK ==
    /\ Len(stamp) = Len(cal.components) /\ Len(owed) = Len(stamp) /\ Len(stamp) <= MaxComponents
    /\ \A c \in Range(cal.components) :
         /\ c.type \in {"VTODO", "VEVENT", "VJOURNAL", "VFREEBUSY", "VTIMEZONE"}
         /\ \A p \in Range(c.props) : p.value \in STRING

\* Two calendars have one digest exactly when they say the same: the order of
\* components, and that of properties, is no part of it, the order of properties of
\* one name is, and so is everything in sub-components but their hashes.
HashIsContent ==
    HashCalendar(cal) = HashCalendar(first) <=> CalendarSays(cal) = CalendarSays(first)

\* The calendar a reader gets from the canonical form.
ReadCanonical(x) ==
    [prodid |-> nfc(x.prodid),
     components |-> LET sorted == SortedComponents(x.components)
                    IN  [k \in DOMAIN sorted |-> PrepareComponent(sorted[k], x)]]

\* Canonicalising what was read from a canonical form gives it back, although local
\* times have become UTC and attachments references on the way, when the UIDs and
\* TZIDs that components are sorted by are in NFC. When they are not, a first reading may
\* move components about, since they are sorted by their keys as they stand and normalised
\* after that: not what "NFC is idempotent, which keeps the canonical form a fixpoint under
\* repeated canonicalization" claims (spec/v1.0/03-canonicalization.md). It is a
\* fixpoint from the second reading on, and no component's own form ever changes. A card
\* keeps its canonical form when it goes through the codec.
CanonicalIsFixpoint ==
    LET once == ReadCanonical(cal)
        Forms(x) == LET form == [k \in DOMAIN x.components |-> CanonicalInContext(x.components[k], x)]
                    IN  [f \in Range(form) |-> Cardinality({k \in DOMAIN form : form[k] = f})]
    IN  /\ (\A c \in Range(cal.components) : nfc(SortKey(c)) = SortKey(c)) =>
             CanonicalCalendar(once) = CanonicalCalendar(cal)
        /\ Forms(once) = Forms(cal)
        /\ CanonicalCalendar(ReadCanonical(once)) = CanonicalCalendar(once)
        /\ SendingKeepsCanonical

\* The validator reports a hash exactly when the component no longer says what it
\* said when a helper last wrote it: respelling is never taken for tampering, and no
\* helper leaves a hash behind, whatever had been done to the component before.
HashTellsTampering ==
    /\ TypeOK
    /\ \A k \in DOMAIN cal.components :
      stamp[k] # Nothing /\ Has(cal.components[k], HASH) =>
        (Alone(cal.components[k]) # stamp[k]
           <=> Diagnostic("VS010", HASH) \in Range(ValidateComponent(cal.components[k])))
-----------------------------------------------------------------------------
(* Diff                                                                    *)

\* A later one has the same type and UID.
Hidden(components, k) ==
    \E j \in DOMAIN components :
      /\ j > k /\ UID(components[k]) # "" /\ UID(components[j]) = UID(components[k])
      /\ components[j].type = components[k].type

Plain(p) == [p EXCEPT !.params = SortedBy(@, NameOf)]

RECURSIVE AllProps(_), AllEntries(_)
AllProps(components) ==
    FlattenSeq([k \in DOMAIN components |->
                  filterHashProps(components[k].props) \o AllProps(components[k].sub)])
AllEntries(diffs) ==
    FlattenSeq([k \in DOMAIN diffs |-> diffs[k].properties \o AllEntries(diffs[k].subDiffs)])

Count(p, props) == Len(SelectSeq(props, LAMBDA q : Plain(q) = p))

\* The properties that a diff can see beside `others`: of several components with one type
\* and UID those of the last, unless the whole component around them came or went.
RECURSIVE Seen(_, _)
Seen(components, others) ==
    LET Alike(k, seq) == SelectSeq(seq, LAMBDA c : /\ c.type = components[k].type
                                                   /\ UID(c) = UID(components[k]))
        place(k) == IF UID(components[k]) = "" THEN Len(Alike(k, SubSeq(components, 1, k)))
                    ELSE Len(Alike(k, others))
        Inner(k) == IF place(k) \in DOMAIN Alike(k, others)
                    THEN Seen(components[k].sub, Alike(k, others)[place(k)].sub)
                    ELSE AllProps(components[k].sub)
    IN  FlattenSeq([k \in DOMAIN components |->
                      IF Hidden(components, k) THEN << >>
                      ELSE filterHashProps(components[k].props) \o Inner(k)])

\* The diff is the whole difference of what it sees: taking out of the first calendar
\* what it calls removed or changed, and putting in what it calls added or changed, gives the
\* properties of the second, each as often as it is there. What it does not see are the
\* components with the type and UID of a later one, although "each pair that differs becomes
\* one ComponentDiff; components only on one side become all-Added or all-Removed
\* entries" (diff/diff.go).
DiffAccounts ==
    LET entries == AllEntries(OfCalendar(first, cal))
        Of(ops) == SelectSeq(entries, LAMBDA e : e.op \in ops)
        Props(es) == [k \in DOMAIN es |-> es[k].property]
        changed == Of({"Changed"})
        come == Props(Of({"Added", "Changed"}))
        gone == Props(Of({"Removed"})) \o [k \in DOMAIN changed |-> changed[k].old[1]]
        before == Seen(first.components, cal.components)
        after == Seen(cal.components, first.components)
    IN  \A p \in {Plain(q) : q \in Range(before \o after \o come \o gone)} :
          Count(p, before) + Count(p, come) = Count(p, after) + Count(p, gone)

\* Types and UIDs, in order.
RECURSIVE Shape(_)
Shape(components) ==
    [k \in DOMAIN components |-> [type |-> components[k].type, uid |-> UID(components[k]),
                                  sub |-> Shape(components[k].sub)]]

RECURSIVE Lasting(_)
Lasting(components) ==
    LET left == SelectSeq([k \in DOMAIN components |-> k], LAMBDA k : ~Hidden(components, k))
    IN  [k \in DOMAIN left |-> [components[left[k]] EXCEPT !.sub = Lasting(@)]]

\* No difference found, none there: of calendars made of the same components, an empty diff
\* means one canonical form, at every depth, and so it does of two components, once
\* those that a later one of their type and UID hides from the diff are taken out.
EmptyDiffIsEqual ==
    /\ Shape(cal.components) = Shape(first.components) /\ OfCalendar(first, cal) = << >> =>
         EqualCalendars([first EXCEPT !.components = Lasting(@)], [cal EXCEPT !.components = Lasting(@)])
    /\ \A j \in DOMAIN first.components, k \in DOMAIN cal.components :
         LET a == first.components[j]
             b == cal.components[k]
         IN  Shape(<<a>>) = Shape(<<b>>) /\ Empty(OfComponent(a, b)) =>
               EqualComponents([a EXCEPT !.sub = Lasting(@)], [b EXCEPT !.sub = Lasting(@)])
    /\ EmptyCardDiffIsEqual
-----------------------------------------------------------------------------
(* Helpers and validator                                                   *)

\* In what nobody but the library has written the validator finds nothing but what an
\* argument has brought into that component: VS040 a zero DUE or COMPLETED of a to-do,
\* VS041 and VS042 the zero times of an event and of free/busy time, VS055 the increment of
\* the greatest int, VS030 a superseded component without a UID, VS030 and VS031 a journal
\* labelled status-supersession by hand. So it is after any sequence of helpers, and every
\* property is there once, relations excepted. (That "IncrementSequence bumps the SEQUENCE
\* revision counter on c by one", helpers/revision.go, is not true of the greatest int.)
HelpersKeepClean ==
    /\ TypeOK
    /\ honest => \A k \in DOMAIN cal.components :
         LET c == cal.components[k]
         IN  /\ \A d \in Range(Errors(ValidateWithLedger(c, cal.components))) : d.code \in owed[k]
             /\ \A p \in Range(c.props) :
                  p.name # "RELATED-TO" => Len(GetAll(c.props, p.name)) = 1

\* The validator finds nothing wrong with an entry as a supersession exactly when
\* Superseded looks at it for some component of the calendar. Exceptions: blanks around
\* RELATED-TO, which only the validator trims, and a blank status, which only Superseded
\* accepts.
CleanEntriesCount ==
    \A k \in DOMAIN cal.components :
      LET c == cal.components[k]
          padded == Has(c, "RELATED-TO") /\ Trim(Value(c, "RELATED-TO")) # Value(c, "RELATED-TO")
          blank  == Has(c, EFFECTIVE) /\ Trim(Value(c, EFFECTIVE)) = ""
          clean  == checkSupersessionDiscipline(c, cal.components) = << >>
          counts == \E t \in Range(cal.components) : UID(t) # "" /\ Counts(c, UID(t))
      IN  c.type = "VJOURNAL" /\ categoriesContainSupersession(c) /\ ~padded =>
            /\ clean => counts
            /\ counts => (clean <=> ~blank)
=============================================================================
