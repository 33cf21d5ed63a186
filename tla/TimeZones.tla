------------------------------- MODULE TimeZones -------------------------------
(***************************************************************************)
(* src/go/time_tzid.go: the offset of a local time, from the VTIMEZONE of   *)
(* the calendar.  A VTIMEZONE is its TZID and its STANDARD and DAYLIGHT     *)
(* children; an optional property is a tuple, empty when it is absent or    *)
(* does not parse.  A rule part is a record of its key and value.           *)
(***************************************************************************)
EXTENDS GregorianCalendar, Sequences, SequencesExt

Children(tz, type) == SelectSeq(tz.sub, LAMBDA c : c.type = type)

\* One part of an RRULE: FREQ has a text, BYMONTH and INTERVAL a number, BYDAY an
\* ordinal and a weekday.
Part(key, text, num, wd) == [key |-> key, text |-> text, num |-> num, wd |-> wd]

\* parseYearlyRRULE fails on a part that is not one of these.
AcceptedPart(p) ==
    \/ p.key = "FREQ"     /\ p.text = "YEARLY"
    \/ p.key = "BYMONTH"  /\ p.num \in 1..12
    \/ p.key = "BYDAY"    /\ p.num # 0
    \/ p.key = "INTERVAL" /\ p.num = 1

ParseYearlyRRule(parts) ==
    /\ \A k \in DOMAIN parts : AcceptedPart(parts[k])
    /\ \E k \in DOMAIN parts : parts[k].key = "FREQ"

\* The value of the last part with the key, zero when there is none.
LastPart(parts, key) ==
    FoldLeft(LAMBDA p, q : IF q.key = key THEN q ELSE p, Part(key, "", 0, 0), parts)

\* parseTZRule
ChildOK(c) ==
    /\ c.offsetTo # << >> /\ c.offsetFrom # << >> /\ c.dtstart # << >>
    /\ c.rrule # << >> => ParseYearlyRRule(c.rrule)

TZRule(c) ==
    [offset |-> c.offsetTo[1], yearly |-> c.rrule # << >>,
     month |-> LastPart(c.rrule, "BYMONTH").num,
     week |-> LastPart(c.rrule, "BYDAY").num, weekday |-> LastPart(c.rrule, "BYDAY").wd,
     clock |-> c.dtstart[1] % SecondsPerDay]

\* loadTZRules: << >>, <<std>> for a zone with one offset, or <<std, dst>>.
LoadTZRules(tz) ==
    LET std == Children(tz, "STANDARD")
        dst == Children(tz, "DAYLIGHT")
        all == std \o dst
    IN  IF \/ all = << >> \/ Len(std) > 1 \/ Len(dst) > 1
           \/ \E k \in DOMAIN all : ~ChildOK(all[k])
           \/ Len(all) = 2 /\ \E k \in DOMAIN all : ~TZRule(all[k]).yearly
        THEN << >>
        ELSE [k \in DOMAIN all |-> TZRule(all[k])]

\* Mutant: the last week is the one that holds the 29th.
NthWeekdayOfMonth_FromFirst(y, m, wd, n) ==
    LET first == (wd - WeekdayOf(TimeDate(y, m, 1, 0, 0, 0)) + 7) % 7
    IN  1 + first + 7 * (IF n > 0 THEN n - 1 ELSE 5 + n)

\* nthWeekdayOfMonth: from the first of the month, or back from its last day.
NthWeekdayOfMonth(y, m, wd, n) ==
    IF n > 0
    THEN LET first == TimeDate(y, m, 1, 0, 0, 0)
         IN  1 + ((wd - WeekdayOf(first) + 7) % 7) + (n - 1) * 7
    ELSE LET last == TimeDate(y, m + 1, 0, 0, 0, 0)
         IN  Day(last) - ((WeekdayOf(last) - wd + 7) % 7) + (n + 1) * 7

\* transitionAt, on the wall clock.
TransitionAt(y, r) ==
    TimeDate(y, r.month, NthWeekdayOfMonth(y, r.month, r.weekday, r.week), 0, 0, 0) + r.clock

\* selectActiveRule: daylight saving time between the two transitions of the year.
Daylight(wall, rules) ==
    /\ TransitionAt(Year(wall), rules[2]) <= wall
    /\ wall < TransitionAt(Year(wall), rules[1])

SelectActiveRule(wall, rules) ==
    IF Len(rules) = 2 /\ Daylight(wall, rules) THEN rules[2].offset ELSE rules[1].offset

\* findVTimezone takes the first zone of the name.
FindVTimezone(tzid, zones) ==
    LET named == SelectSeq(zones, LAMBDA z : z.tzid = <<tzid>>)
    IN  IF named = << >> THEN << >> ELSE <<named[1]>>

\* ParseTimeWithTZID: the instant in a tuple, or << >>.
ParseTimeWithTZID(value, tzid, zones) ==
    LET tz    == FindVTimezone(tzid, zones)
        rules == IF tz = << >> THEN << >> ELSE LoadTZRules(tz[1])
    IN  IF tzid = "" \/ value.form # "local" \/ rules = << >> THEN << >>
        ELSE <<value.at - SelectActiveRule(value.at, rules)>>
=============================================================================
