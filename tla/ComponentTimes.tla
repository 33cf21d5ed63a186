----------------------------- MODULE ComponentTimes -----------------------------
(***************************************************************************)
(* The times of a component: the accessors and setters of                   *)
(* src/go/component_time.go and component_date.go, with time.go and date.go *)
(* under them, and alarms relative to them (src/go/duration/trigger.go).    *)
(*                                                                         *)
(* A client sets times and dates in any order on a component that came out  *)
(* of a codec: there its properties may be local times with a TZID, dates   *)
(* with VALUE=DATE, doubled, or malformed.                                  *)
(*                                                                         *)
(* A value on the wire is [form, at]: "utc" and "local" are the DATE-TIME   *)
(* forms, at in seconds, local as read off the wall clock; "date" is eight  *)
(* digits, at the number of the day; a "duration" carries its text in at;   *)
(* "text" is anything else.                                                 *)
(***************************************************************************)
EXTENDS Durations, TimeZones, FiniteSets, FiniteSetsExt

CONSTANTS
    Items,          \* components with an alarm, as a codec delivers them
    Zones,          \* the VTIMEZONEs of their calendar
    Instants,       \* instants the client sets; ZeroTime clears
    Days,           \* dates it sets, as <<year, month, day>>; NoDate clears
    MaxSets         \* bound: calls of setters

VARIABLES
    item,           \* the component: its type and properties
    alarm,          \* the properties of its VALARM
    written,        \* history: what the last setter of each name was given
    sets

vars == <<item, alarm, written, sets>>

Names == {"DTSTART", "DTEND", "DUE", "COMPLETED"}
NoDate == <<0, 0, 0>>
Untouched == <<"untouched">>

Value(form, at) == [form |-> form, at |-> at]
EmptyValue == Value("text", "")

\* A property, of whose parameters VALUE, TZID and RELATED are kept, "" if absent.
Property(name, valueType, tzid, related, value) ==
    [name |-> name, VALUE |-> valueType, TZID |-> tzid, RELATED |-> related, value |-> value]

IsProperty(p) ==
    /\ DOMAIN p = {"name", "VALUE", "TZID", "RELATED", "value"}
    /\ p.value.form \in {"utc", "local", "date", "duration", "number", "text"}
    /\ p.value.form = "number" => p.value.at \in Int

IsPropertyList(s) == s \in Seq(ToSet(s)) /\ \A p \in ToSet(s) : IsProperty(p)

ASSUME TimesAssumption ==
    /\ \A i \in Items : /\ i.type \in {"VEVENT", "VTODO"}
                       /\ IsPropertyList(i.props) /\ IsPropertyList(i.alarm)
    /\ Days \subseteq Int \X Int \X Int
    /\ MaxSets \in Nat

Init ==
    /\ \E i \in Items : item = [type |-> i.type, props |-> i.props] /\ alarm = i.alarm
    /\ written = [n \in Names |-> Untouched]
    /\ sets = 0
-----------------------------------------------------------------------------
(* Component.Get, Set and Remove, as sequences of properties.              *)

Named(props, name) == {k \in DOMAIN props : props[k].name = name}

Get(props, name) ==
    IF Named(props, name) = {} THEN << >> ELSE <<props[Min(Named(props, name))]>>

Without(props, name) ==
    FlattenSeq([k \in DOMAIN props |-> IF props[k].name = name THEN << >> ELSE <<props[k]>>])

\* The first property of the name is replaced, the others go.
Set(props, p) ==
    LET named == Named(props, p.name)
    IN  IF named = {} THEN Append(props, p)
        ELSE FlattenSeq([k \in DOMAIN props |-> IF k \notin named THEN <<props[k]>>
                                                ELSE IF k = Min(named) THEN <<p>> ELSE << >>])
-----------------------------------------------------------------------------
(* Accessors.  Each returns a tuple: << >> for ok = false.                  *)

ParseTime(v) == IF v.form = "utc" THEN <<v.at>> ELSE << >>
ParseDate(v) == IF v.form = "date" THEN <<v.at>> ELSE << >>

HasValueDate(p) == p.VALUE = "DATE"

\* timeProp: DTSTART, DTEND, DUE and COMPLETED
TimeProp(props, name) ==
    LET p == Get(props, name)
    IN  IF p = << >> THEN << >>
        ELSE IF HasValueDate(p[1]) THEN << >>
        ELSE IF p[1].TZID # "" THEN ParseTimeWithTZID(p[1].value, p[1].TZID, Zones)
        ELSE ParseTime(p[1].value)

\* dateProp: DTSTARTDate and its siblings
DateProp(props, name) ==
    LET p == Get(props, name)
    IN  IF p # << >> /\ HasValueDate(p[1]) THEN ParseDate(p[1].value) ELSE << >>
-----------------------------------------------------------------------------
(* Setters.                                                                *)

\* FormatTime, for the years 0 to 9999: ParseTime rejects a year of five digits.
FormatTime(t) == Value("utc", t)

\* FormatDate checks each field by itself; what is not a day of the calendar
\* comes out as digits that ParseDate rejects.
FormatDate(d) ==
    IF d[1] \notin 0..9999 \/ d[2] \notin 1..12 \/ d[3] \notin 1..31 THEN EmptyValue
    ELSE IF d[3] > daysInMonth(d[1], d[2]) THEN Value("text", "20260230")
    ELSE Value("date", DayNumber(d[1], d[2], d[3]))

\* Mutant: parameters of the property that was there stay.
TimeProperty_KeepsParams(name, t) ==
    LET p == Get(item.props, name)
    IN  IF p = << >> THEN Property(name, "", "", "", FormatTime(t))
        ELSE [p[1] EXCEPT !.value = FormatTime(t)]

TimeProperty(name, t) == Property(name, "", "", "", FormatTime(t))
DateProperty(name, d) == Property(name, "DATE", "", "", FormatDate(d))

SetCall(name, arg) ==
    /\ sets < MaxSets /\ sets' = sets + 1
    /\ written' = [written EXCEPT ![name] = arg]
    /\ UNCHANGED alarm

\* setOrClearTime: SetDTSTART, SetDTEND, SetDUE and SetCOMPLETED
SetOrClearTime(name, t) ==
    /\ SetCall(name, <<"time", t>>)
    /\ item' = [item EXCEPT !.props = IF IsZero(t) THEN Without(@, name)
                                      ELSE Set(@, TimeProperty(name, t))]

\* setOrClearDate: SetDTSTARTDate and its siblings
SetOrClearDate(name, d) ==
    /\ SetCall(name, <<"date", d>>)
    /\ item' = [item EXCEPT !.props = IF d = NoDate THEN Without(@, name)
                                      ELSE Set(@, DateProperty(name, d))]

Next == \E name \in Names :
    \/ \E t \in Instants : SetOrClearTime(name, t)
    \/ \E d \in Days : SetOrClearDate(name, d)

Spec == Init /\ [][Next]_vars
-----------------------------------------------------------------------------
(* Alarms.                                                                 *)

NoTrigger == << >>

\* The text of a duration, or one that does not parse.
DurationText(v) == IF v.form = "duration" THEN v.at ELSE <<"text">>

RelativeTrigger(d, related) == [relative |-> TRUE, d |-> d, related |-> related, at |-> 0]
AbsoluteTrigger(at) == [relative |-> FALSE, d |-> Zero, related |-> "START", at |-> at]

\* ParseTrigger: VALUE decides the form, and in its absence the value.
ParseTrigger(p) ==
    LET d     == ParseDuration(DurationText(p.value))
        at    == ParseTime(p.value)
        isRel == \/ p.VALUE = "DURATION"
                 \/ p.VALUE = "" /\ d # Malformed
    IN  CASE p.VALUE \notin {"", "DURATION", "DATE-TIME"} -> NoTrigger
          [] p.VALUE \in {"", "DURATION", "DATE-TIME"} /\ isRel ->
               IF d = Malformed \/ p.RELATED \notin {"", "START", "END"} THEN NoTrigger
               ELSE <<RelativeTrigger(d[1], IF p.RELATED = "" THEN "START" ELSE p.RELATED)>>
          [] OTHER ->
               IF at = << >> \/ p.RELATED # "" THEN NoTrigger ELSE <<AbsoluteTrigger(at[1])>>

\* AlarmTrigger
AlarmTrigger == IF Get(alarm, "TRIGGER") = << >> THEN NoTrigger
                ELSE ParseTrigger(Get(alarm, "TRIGGER")[1])

\* Trigger.Property
TriggerProperty(t) ==
    IF ~t.relative THEN Property("TRIGGER", "DATE-TIME", "", "", FormatTime(t.at))
    ELSE Property("TRIGGER", "", "", IF t.related = "END" THEN "END" ELSE "",
                  Value("duration", DurationString(t.d)))

\* EventEnd: DTEND, or DTSTART and DURATION.
EventEnd(props) ==
    LET end   == TimeProp(props, "DTEND")
        dur   == Get(props, "DURATION")
        d     == IF dur = << >> THEN Malformed ELSE ParseDuration(DurationText(dur[1].value))
        start == TimeProp(props, "DTSTART")
    IN  IF end # << >> THEN end
        ELSE IF d = Malformed \/ start = << >> THEN << >>
        ELSE <<AddTo(d[1], start[1])>>

\* Mutant: a VTODO ends like an event.
Anchor_EventEnd(t) ==
    IF t.related = "START" THEN TimeProp(item.props, "DTSTART") ELSE EventEnd(item.props)

\* Trigger.anchor
Anchor(t) ==
    LET due == TimeProp(item.props, "DUE")
    IN  IF t.related = "START" THEN TimeProp(item.props, "DTSTART")
        ELSE IF item.type = "VTODO" /\ due # << >> THEN due
        ELSE EventEnd(item.props)

\* Trigger.Resolve
Resolve(t) ==
    IF ~t.relative THEN <<t.at>>
    ELSE IF Anchor(t) = << >> THEN << >> ELSE <<AddTo(t.d, Anchor(t)[1])>>

\* AlarmRepeatCycle: the interval and the number of repetitions, or << >> for an
\* error; the value of REPEAT is a number, negative for one that is refused.
AlarmRepeatCycle ==
    LET dur == Get(alarm, "DURATION")
        rep == Get(alarm, "REPEAT")
        d   == IF dur = << >> THEN Malformed ELSE ParseDuration(DurationText(dur[1].value))
    IN  IF dur = << >> /\ rep = << >> THEN <<Zero, 0>>
        ELSE IF dur = << >> \/ rep = << >> THEN << >>
        ELSE IF d = Malformed \/ rep[1].value.form # "number" \/ rep[1].value.at < 0 THEN << >>
        ELSE <<d[1], rep[1].value.at>>
-----------------------------------------------------------------------------
(* Properties                                                               *)

AllProps == item.props \o alarm

TypeOK ==
    /\ item.type \in {"VEVENT", "VTODO"}
    /\ \A k \in DOMAIN AllProps : IsProperty(AllProps[k])
    /\ AlarmRepeatCycle # << >> => AlarmRepeatCycle[2] \in Nat
    /\ sets \in 0..MaxSets

IsDay(d) == d[1] \in 0..9999 /\ d[2] \in 1..12 /\ d[3] \in 1..daysInMonth(d[1], d[2])

\* What a setter wrote is what the accessors of the same kind read, and those of
\* the other kind read nothing, whatever was there before and however the calls
\* were mixed: no stale TZID, VALUE or second property of the name. A day that
\* does not exist reads as neither.
ReadsBackAsWritten ==
    \A name \in Names :
      LET last == written[name]
          time == TimeProp(item.props, name)
          date == DateProp(item.props, name)
      IN  /\ TypeOK
          /\ last # Untouched => Cardinality(Named(item.props, name)) <= 1
          /\ CASE last = Untouched -> time = << >> \/ date = << >>
               [] last[1] = "time" ->
                 /\ time = IF IsZero(last[2]) THEN << >> ELSE <<last[2]>>
                 /\ date = << >>
               [] last[1] = "date" ->
                 /\ date = IF IsDay(last[2]) THEN <<DayNumber(last[2][1], last[2][2], last[2][3])>>
                           ELSE << >>
                 /\ time = << >>
-----------------------------------------------------------------------------
(* Zones: what RFC 5545 section 3.6.5 says of an observance.               *)

\* The n-th weekday of the month, from its end for negative n.
DeclaredDay(y, r) ==
    LET days == {d \in 1..daysInMonth(y, r.month) :
                   WeekdayOf(TimeDate(y, r.month, d, 0, 0, 0)) = r.weekday}
    IN  CHOOSE d \in days :
          IF r.week > 0 THEN Cardinality({e \in days : e <= d}) = r.week
          ELSE Cardinality({e \in days : e >= d}) = -r.week

Onset(y, r) == TimeDate(y, r.month, DeclaredDay(y, r), 0, 0, 0) + r.clock

\* The observance whose onset is the last one not after the wall clock.
InEffect(wall, rules) ==
    LET onsets == {<<Onset(y, rules[k]), k>> : y \in {Year(wall) - 1, Year(wall)},
                                               k \in DOMAIN rules}
        last == CHOOSE o \in onsets :
                  o[1] <= wall /\ \A q \in onsets : q[1] <= wall => q[1] <= o[1]
    IN  rules[last[2]].offset

HasTwoOffsets(rules) ==
    Len(rules) = 2 /\ \A k \in 1..2 : rules[k].month # 0 /\ rules[k].week # 0

\* Daylight saving time starts and ends in one year.
WithinOneYear(rules) == HasTwoOffsets(rules) /\ rules[2].month < rules[1].month

ResolvesInEffect(rules, p, instant) ==
    HasTwoOffsets(rules) => instant = p.value.at - InEffect(p.value.at, rules)

LocalProps == {k \in DOMAIN item.props :
                 item.props[k].TZID # "" /\ ~HasValueDate(item.props[k])
                 /\ ParseTimeWithTZID(item.props[k].value, item.props[k].TZID, Zones) # << >>}

RulesOf(p) == LoadTZRules(FindVTimezone(p.TZID, Zones)[1])
InstantOf(p) == ParseTimeWithTZID(p.value, p.TZID, Zones)[1]

\* In a zone whose daylight saving time lies within a year a local time gets the
\* offset of the observance in effect, to the second at both transitions, in every
\* year and in the first and last days of one.
OffsetInEffect ==
    \A k \in LocalProps :
      LET p == item.props[k]
      IN  WithinOneYear(RulesOf(p)) => ResolvesInEffect(RulesOf(p), p, InstantOf(p))

\* What the specification says of the accepted zones (spec/v1.0,
\* 03-canonicalization.md): they cover every current zone with daylight saving time,
\* those of the southern hemisphere, where it spans the new year, included.
OffsetInEffectEverywhere ==
    \A k \in LocalProps :
      LET p == item.props[k] IN ResolvesInEffect(RulesOf(p), p, InstantOf(p))
-----------------------------------------------------------------------------
(* Durations and alarms                                                     *)

Texts == {AllProps[k].value.at : k \in {j \in DOMAIN AllProps : AllProps[j].value.form = "duration"}}
DurationsHere == {ParseDuration(s)[1] : s \in {s \in Texts : ParseDuration(s) # Malformed}}

\* The grammar in the comment of Parse, a rule each, and the texts with a time part of
\* hours and seconds, which it does not have: dur-hour is followed by dur-minute only.
Field(unit) == {<<n, unit>> : n \in DOMAIN Numerals}
Followed(first, next) == first \cup {a \o b : a \in first, b \in next}
MinuteTexts == Followed(Field("M"), Field("S"))
TimeTexts == {<<"T">> \o t : t \in Followed(Field("H"), MinuteTexts) \cup MinuteTexts \cup Field("S")}
MinutesSkipped == {<<"T">> \o h \o s : h \in Field("H"), s \in Field("S")}

WithSign(bodies) == {sign \o <<"P">> \o b : sign \in {<< >>, <<"+">>, <<"-">>}, b \in bodies}
BodyTexts(times) == Field("W") \cup times \cup Followed(Field("D"), times)
GrammarTexts == WithSign(BodyTexts(TimeTexts))
LaxTexts     == WithSign(BodyTexts(MinutesSkipped))

\* A zero is not written with a sign.
Normal(d) == [d EXCEPT !.negative = @ /\ ~IsZeroDuration(d)]

HasZero(s) == \E k \in DOMAIN s : s[k] \in DOMAIN Numerals /\ Numerals[s[k]] = 0
WithoutPlus(s) == IF s[1] = "+" THEN Tail(s) ELSE s

\* Parse accepts the grammar of its comment, which says "exactly", texts that leave
\* the minutes out between hours and seconds, and nothing else. What String writes for a
\* duration, Parse reads as the same one, but for the sign of a zero. It is the text that was
\* parsed, but for a plus sign, if no unit of that is zero; the comment of String claims
\* "byte for byte" without that condition. A trigger that was parsed and written is
\* parsed as the same one.
DurationTextsAgree ==
    /\ \A s \in Texts :
         LET d == ParseDuration(s)[1]
         IN  /\ ParseDuration(s) # Malformed <=> s \in GrammarTexts \cup LaxTexts
             /\ ParseDuration(s) # Malformed =>
                  /\ ParseDuration(DurationString(d)) = <<Normal(d)>>
                  /\ HasZero(s) \/ DurationString(d) = WithoutPlus(s)
    /\ LET t == AlarmTrigger[1]
       IN  AlarmTrigger # NoTrigger =>
             ParseTrigger(TriggerProperty(t)) = <<[t EXCEPT !.d = Normal(@)]>>

\* In a fixed offset adding a duration moves by its nominal length, days included, and what
\* FromSigned makes of that has the same length. Beyond the greatest time.Duration, of
\* which the comment of the package ("exact") says nothing, the nominal length is off by as much
\* as the type wraps.
SignedIsExact(d) ==
    LET length == 3600 * d.hours + 60 * d.minutes + d.seconds + SecondsPerDay * (7 * d.weeks + d.days)
    IN  \A t \in Instants :
          /\ (AddTo(d, t) - t - Signed(d)) % (2 * MaxDuration) = 0
          /\ length < MaxDuration =>
               AddTo(d, t) = t + Signed(d) /\ Signed(FromSigned(Signed(d))) = Signed(d)

\* Durations add up: each is as long as its fields say, up to the wrap, and an alarm that
\* is to go off as long before the end as the component lasts goes off at its start.
DurationsAddUp ==
    \A d \in DurationsHere :
      LET lasts == Get(item.props, "DURATION")
          start == TimeProp(item.props, "DTSTART")
          back  == [d EXCEPT !.negative = ~@]
      IN  /\ SignedIsExact(d)
          /\ /\ lasts # << >> /\ start # << >> /\ ParseDuration(DurationText(lasts[1].value)) = <<d>>
             /\ TimeProp(item.props, "DTEND") = << >>
             /\ ~(item.type = "VTODO" /\ TimeProp(item.props, "DUE") # << >>)
             => Resolve(RelativeTrigger(back, "END")) = start

\* The end of a task is its DUE, once it is set, whatever else it carries: an alarm
\* related to the end goes off by it. One related to the start never does.
AlarmFollowsDue ==
    LET t == AlarmTrigger[1]
    IN  AlarmTrigger # NoTrigger /\ t.relative /\ item.type = "VTODO"
          /\ written["DUE"][1] = "time" /\ written["DUE"] # <<"time", ZeroTime>>
        => Resolve(t) = IF t.related = "END" THEN <<AddTo(t.d, written["DUE"][2])>>
                        ELSE IF TimeProp(item.props, "DTSTART") = << >> THEN << >>
                        ELSE <<AddTo(t.d, TimeProp(item.props, "DTSTART")[1])>>
=============================================================================
