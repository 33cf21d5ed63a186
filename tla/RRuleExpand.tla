---------------------------- MODULE RRuleExpand ----------------------------
(***************************************************************************)
(* Expansion of one FREQ period of a rule, and the step from a period to   *)
(* the next (rrule/next.go, periodOccurrences of rrule/expand.go), as the  *)
(* code builds them: candidates from nested loops over the BY lists, then  *)
(* filters. All times are in one location without transitions.             *)
(***************************************************************************)
EXTENDS RRuleSyntax

CONSTANT
    MaxDuration \* seconds; time.Duration wraps beyond it, in Go after 292 years

Wrapped(seconds) == ((seconds + MaxDuration) % (2 * MaxDuration)) - MaxDuration

\* [f(s[1]), f(s[2]), ...] appended to one another, as the loops do.
Collect(f(_), s) == FlattenSeq([i \in DOMAIN s |-> f(s[i])])

UpTo(n) == [i \in 1 .. n |-> i]

byOrDefault(list, default) == IF list = <<>> THEN <<default>> ELSE list

Unset(rule, key) == rule[key] = <<>>
Lists(rule, key, value) == value \in ToSet(rule[key])

matchesByMonth(rule, t) == Unset(rule, "BYMONTH") \/ Lists(rule, "BYMONTH", Month(t))
matchesByHour(rule, t) == Unset(rule, "BYHOUR") \/ Lists(rule, "BYHOUR", Hour(t))
matchesByMinute(rule, t) == Unset(rule, "BYMINUTE") \/ Lists(rule, "BYMINUTE", Minute(t))

\* Negative entries count from the end of the month.
matchesByMonthDay(rule, t) ==
    \/ Unset(rule, "BYMONTHDAY")
    \/ Lists(rule, "BYMONTHDAY", Day(t))
    \/ Lists(rule, "BYMONTHDAY", Day(t) - daysInMonth(Year(t), Month(t)) - 1)

\* Ordinals count only within months.
matchesByDay(rule, t) ==
    Unset(rule, "BYDAY") \/ \E bd \in ToSet(rule.BYDAY) : bd.wd = WeekdayOf(t)

nthWeekdayOfMonth(day) == (day - 1) \div 7 + 1

lastDayOfWeekdayInMonth(y, m, wd) ==
    CHOOSE d \in (daysInMonth(y, m) - 6) .. daysInMonth(y, m) :
        WeekdayOf(TimeDate(y, m, d, 0, 0, 0)) = wd

matchesByDayMonthly(rule, t) ==
    LET last == lastDayOfWeekdayInMonth(Year(t), Month(t), WeekdayOf(t))
        daysFromEnd == (last - Day(t)) \div 7 + 1
    IN  \/ Unset(rule, "BYDAY")
        \/ \E bd \in ToSet(rule.BYDAY) :
               /\ bd.wd = WeekdayOf(t)
               /\ bd.ord \in {0, nthWeekdayOfMonth(Day(t)), -daysFromEnd}

monthDayCandidates(rule, dim, dtstartDay) ==
    CASE ~Unset(rule, "BYMONTHDAY") ->
             [i \in DOMAIN rule.BYMONTHDAY |->
                 IF rule.BYMONTHDAY[i] > 0 THEN rule.BYMONTHDAY[i] ELSE dim + rule.BYMONTHDAY[i] + 1]
      [] Unset(rule, "BYMONTHDAY") /\ ~Unset(rule, "BYDAY") -> UpTo(dim)
      [] OTHER -> IF dtstartDay > dim THEN <<>> ELSE <<dtstartDay>>

\* BYHOUR x BYMINUTE x BYSECOND on the date of base.
crossTimeOfDay(rule, base, dtstart) ==
    LET at(h, mn, sc) == <<Midnight(DayOf(base)) + 3600 * h + 60 * mn + sc>>
        seconds(h, mn) == Collect(LAMBDA sc : at(h, mn, sc), byOrDefault(rule.BYSECOND, Second(dtstart)))
        minutes(h) == Collect(LAMBDA mn : seconds(h, mn), byOrDefault(rule.BYMINUTE, Minute(dtstart)))
    IN  Collect(minutes, byOrDefault(rule.BYHOUR, Hour(dtstart)))

DateLimits(rule, t) == matchesByMonth(rule, t) /\ matchesByMonthDay(rule, t) /\ matchesByDay(rule, t)

expandMinutely(rule, base) ==
    IF DateLimits(rule, base) /\ matchesByHour(rule, base) /\ matchesByMinute(rule, base)
    THEN Collect(LAMBDA sc : <<base - Second(base) + sc>>, byOrDefault(rule.BYSECOND, Second(base)))
    ELSE <<>>

expandHourly(rule, base) ==
    LET hour == base - (base % 3600)
        seconds(mn) == Collect(LAMBDA sc : <<hour + 60 * mn + sc>>,
                               byOrDefault(rule.BYSECOND, Second(base)))
    IN  IF DateLimits(rule, base) /\ matchesByHour(rule, base)
        THEN Collect(seconds, byOrDefault(rule.BYMINUTE, Minute(base)))
        ELSE <<>>

expandDaily(rule, base, dtstart) ==
    IF DateLimits(rule, base) THEN crossTimeOfDay(rule, base, dtstart) ELSE <<>>

startOfWeek(t, wkst) == AddDate(t, 0, 0, -((WeekdayOf(t) - wkst) % 7))

\* Without BYDAY the weekday of base, which is that of dtstart.
expandWeekly(rule, base, dtstart) ==
    LET start == startOfWeek(base, rule.WKST)
        week  == [i \in 1 .. 7 |-> AddDate(start, 0, 0, i - 1)]
    IN  Collect(LAMBDA day : expandDaily(rule, day, dtstart),
                IF Unset(rule, "BYDAY") THEN <<base>> ELSE week)

expandMonth(rule, y, m, dtstart) ==
    LET days == SelectSeq(monthDayCandidates(rule, daysInMonth(y, m), Day(dtstart)),
                          LAMBDA d : 1 <= d /\ d <= daysInMonth(y, m))
        on(d) == TimeDate(y, m, d, 0, 0, 0)
    IN  Collect(LAMBDA d : IF matchesByDayMonthly(rule, on(d))
                           THEN crossTimeOfDay(rule, on(d), dtstart) ELSE <<>>, days)

expandMonthly(rule, base, dtstart) ==
    IF matchesByMonth(rule, base) THEN expandMonth(rule, Year(base), Month(base), dtstart) ELSE <<>>

\* The entries of a signed list, as positions among total; those out of it are dropped.
Positions(list, total) ==
    SelectSeq([i \in DOMAIN list |-> IF list[i] > 0 THEN list[i] ELSE total + list[i] + 1],
              LAMBDA p : 1 <= p /\ p <= total)

ExpandDays(rule, days, dtstart) ==
    Collect(LAMBDA day : IF matchesByMonth(rule, day) /\ matchesByDay(rule, day)
                         THEN crossTimeOfDay(rule, day, dtstart) ELSE <<>>, days)

expandYearlyByYearDay(rule, year, dtstart) ==
    LET doys == Positions(rule.BYYEARDAY, daysInYear(year))
    IN  ExpandDays(rule, [i \in DOMAIN doys |-> TimeDate(year, 1, doys[i], 0, 0, 0)], dtstart)

\* Week 1 is the week, counted from WKST, that holds 4 January.
startOfWeekN(year, n, wkst) == AddDate(startOfWeek(TimeDate(year, 1, 4, 0, 0, 0), wkst), 0, 0, 7 * (n - 1))
weeksInYear(year, wkst) ==
    (DayOf(startOfWeekN(year + 1, 1, wkst)) - DayOf(startOfWeekN(year, 1, wkst))) \div 7

expandYearlyByWeekNo(rule, year, dtstart) ==
    LET days(n) == [i \in 1 .. 7 |-> AddDate(startOfWeekN(year, n, rule.WKST), 0, 0, i - 1)]
    IN  Collect(LAMBDA n : ExpandDays(rule, days(n), dtstart),
                Positions(rule.BYWEEKNO, weeksInYear(year, rule.WKST)))

expandYearly(rule, base, dtstart) ==
    CASE ~Unset(rule, "BYYEARDAY") -> expandYearlyByYearDay(rule, Year(base), dtstart)
      [] Unset(rule, "BYYEARDAY") /\ ~Unset(rule, "BYWEEKNO") ->
             expandYearlyByWeekNo(rule, Year(base), dtstart)
      [] OTHER -> Collect(LAMBDA m : expandMonth(rule, Year(base), m, dtstart),
                          byOrDefault(rule.BYMONTH, Month(dtstart)))

expand(rule, base, dtstart) ==
    CASE rule.FREQ = "MINUTELY" -> expandMinutely(rule, base)
      [] rule.FREQ = "HOURLY"   -> expandHourly(rule, base)
      [] rule.FREQ = "DAILY"    -> expandDaily(rule, base, dtstart)
      [] rule.FREQ = "WEEKLY"   -> expandWeekly(rule, base, dtstart)
      [] rule.FREQ = "MONTHLY"  -> expandMonthly(rule, base, dtstart)
      [] rule.FREQ = "YEARLY"   -> expandYearly(rule, base, dtstart)

applyBySetPos(occs, setpos) ==
    LET picked == ToSet(Positions(setpos, Len(occs)))
        kept   == SelectSeq(UpTo(Len(occs)), LAMBDA i : i \in picked)
    IN  [i \in DOMAIN kept |-> occs[kept[i]]]

Selected(occs, setpos) == IF setpos = <<>> THEN occs ELSE applyBySetPos(occs, setpos)
periodOccurrences(rule, base, dtstart) ==
    Selected(SortSeq(expand(rule, base, dtstart), <), rule.BYSETPOS)

\* Mutant: a month is added to the day the walk is at.
advance_KeepsDay(rule, current) ==
    LET n   == rule.INTERVAL
        tod == current % SecondsPerDay
    IN  CASE rule.FREQ = "MINUTELY" -> current + Wrapped(60 * n)
          [] rule.FREQ = "HOURLY"   -> current + Wrapped(3600 * n)
          [] rule.FREQ = "DAILY"    -> AddDate(current, 0, 0, n)
          [] rule.FREQ = "WEEKLY"   -> AddDate(current, 0, 0, 7 * n)
          [] rule.FREQ = "MONTHLY"  -> AddDate(current, 0, n, 0)
          [] rule.FREQ = "YEARLY"   -> TimeDate(Year(current) + n, 1, 1, 0, 0, tod)

\* The base of the next period. Months and years go on from their first day, so
\* that no day of dtstart is lost to a short month.
advance(rule, current) ==
    LET n   == rule.INTERVAL
        tod == current % SecondsPerDay
    IN  CASE rule.FREQ = "MINUTELY" -> current + Wrapped(60 * n)
          [] rule.FREQ = "HOURLY"   -> current + Wrapped(3600 * n)
          [] rule.FREQ = "DAILY"    -> AddDate(current, 0, 0, n)
          [] rule.FREQ = "WEEKLY"   -> AddDate(current, 0, 0, 7 * n)
          [] rule.FREQ = "MONTHLY"  -> TimeDate(Year(current), Month(current) + n, 1, 0, 0, tod)
          [] rule.FREQ = "YEARLY"   -> TimeDate(Year(current) + n, 1, 1, 0, 0, tod)
=============================================================================
