--------------------------- MODULE DeclaredSeries ---------------------------
(***************************************************************************)
(* What a recurrence rule declares, by RFC 5545 section 3.3.10 and its     *)
(* table of rule-parts that limit and expand: an instant belongs to the    *)
(* series if it lies in a period of the rule and no rule-part rules it     *)
(* out. The code builds candidates instead, so nothing here is a           *)
(* translation of it. Ordinals of BYDAY count within the month, in a rule  *)
(* of years without BYMONTH within the year.                               *)
(***************************************************************************)
EXTENDS RRuleSyntax

Span(first, n) == first .. (first + n - 1)
WeekStart(day, wkst) == CHOOSE d \in Span(day - 6, 7) : WeekdayOf(Midnight(d)) = wkst
MonthSpan(y, m) == DayNumber(y, m, 1) .. (DayNumber(y, m + 1, 1) - 1)
FirstWeekOf(y, wkst) == WeekStart(DayNumber(y, 1, 4), wkst)

\* The year whose weeks hold a day: weeks belong to the year of their fourth day.
WeekYear(day, wkst) ==
    LET y == YearOfDay(day)
    IN  CHOOSE w \in (y - 1) .. (y + 1) : FirstWeekOf(w, wkst) <= day /\ day < FirstWeekOf(w + 1, wkst)

\* The days of the k-th period after the one that holds dtstart.
PeriodDays(rule, dtstart, k) ==
    LET n   == rule.INTERVAL * k
        y   == Year(dtstart)
        m   == Month(dtstart)
        day == DayOf(dtstart)
    IN  CASE rule.FREQ = "MINUTELY" -> {DayOf(dtstart + 60 * n)}
          [] rule.FREQ = "HOURLY"   -> {DayOf(dtstart + 3600 * n)}
          [] rule.FREQ = "DAILY"    -> {day + n}
          [] rule.FREQ = "WEEKLY"   -> Span(WeekStart(day, rule.WKST) + 7 * n, 7)
          [] rule.FREQ = "MONTHLY"  -> MonthSpan(y, m + n)
          [] rule.FREQ = "YEARLY"   ->
                 IF rule.BYWEEKNO = <<>> THEN DayNumber(y + n, 1, 1) .. DayNumber(y + n, 12, 31)
                 ELSE FirstWeekOf(y + n, rule.WKST) .. (FirstWeekOf(y + n + 1, rule.WKST) - 1)

Admits(list, i, total) == list = <<>> \/ i \in ToSet(list) \/ i - total - 1 \in ToSet(list)

\* BYDAY with an ordinal: that many days of the same name among them, from one end.
DayListed(rule, day, among) ==
    LET name(d) == WeekdayOf(Midnight(d))
        upTo    == Cardinality({d \in among : d <= day /\ name(d) = name(day)})
        from    == Cardinality({d \in among : d >= day /\ name(d) = name(day)})
    IN  rule.BYDAY = <<>> \/ \E bd \in ToSet(rule.BYDAY) :
            bd.wd = name(day) /\ bd.ord \in {0, upTo, -from}

\* What DTSTART decides when no rule-part does.
DayImplied(rule, dtstart, day) ==
    LET t == Midnight(day)
        spread(parts) == \E key \in parts : rule[key] # <<>>
    IN  /\ rule.FREQ = "WEEKLY" /\ ~spread({"BYDAY"}) => WeekdayOf(t) = WeekdayOf(dtstart)
        /\ rule.FREQ \in {"MONTHLY", "YEARLY"}
               /\ ~spread({"BYMONTHDAY", "BYDAY", "BYYEARDAY", "BYWEEKNO"}) => Day(t) = Day(dtstart)
        /\ rule.FREQ = "YEARLY"
               /\ ~spread({"BYMONTH", "BYMONTHDAY", "BYDAY", "BYYEARDAY", "BYWEEKNO"})
               => Month(t) = Month(dtstart)

DayDeclared(rule, dtstart, day) ==
    LET t     == Midnight(day)
        month == MonthSpan(Year(t), Month(t))
        first == FirstWeekOf(WeekYear(day, rule.WKST), rule.WKST)
        next  == FirstWeekOf(WeekYear(day, rule.WKST) + 1, rule.WKST)
        year  == DayNumber(Year(t), 1, 1) .. DayNumber(Year(t), 12, 31)
    IN  /\ rule.BYMONTH = <<>> \/ Month(t) \in ToSet(rule.BYMONTH)
        /\ Admits(rule.BYMONTHDAY, Day(t), Cardinality(month))
        /\ Admits(rule.BYYEARDAY, YearDay(t), daysInYear(Year(t)))
        /\ Admits(rule.BYWEEKNO, (day - first) \div 7 + 1, (next - first) \div 7)
        /\ DayListed(rule, day, IF rule.FREQ = "YEARLY" /\ rule.BYMONTH = <<>> THEN year ELSE month)
        /\ DayImplied(rule, dtstart, day)

\* The values a part of the clock may have: the period's own under a FREQ that is
\* finer than the part, else those listed, else that of dtstart.
Clock(list, own, fine) ==
    CASE fine /\ list # <<>> -> {own} \cap ToSet(list)
      [] ~fine /\ list # <<>> -> ToSet(list)
      [] OTHER -> {own}

InPeriod(rule, dtstart, k) ==
    LET step == CASE rule.FREQ = "MINUTELY" -> 60 [] rule.FREQ = "HOURLY" -> 3600 [] OTHER -> 0
        at   == dtstart + step * rule.INTERVAL * k
    IN  {Midnight(day) + 3600 * h + 60 * mn + sc :
            day \in {d \in PeriodDays(rule, dtstart, k) : DayDeclared(rule, dtstart, d)},
            h   \in Clock(rule.BYHOUR, Hour(at), rule.FREQ \in {"HOURLY", "MINUTELY"}),
            mn  \in Clock(rule.BYMINUTE, Minute(at), rule.FREQ = "MINUTELY"),
            sc  \in Clock(rule.BYSECOND, Second(at), FALSE)}

\* BYSETPOS counts among the instants of a period, from either end.
AtPositions(list, all) ==
    {t \in all : Admits(list, Cardinality({u \in all : u <= t}), Cardinality(all))}
Declared(rule, dtstart, k) ==
    {t \in AtPositions(rule.BYSETPOS, InPeriod(rule, dtstart, k)) : t >= dtstart}

\* How often a list of days, counted from either end, names one of them.
Naming(list, i, total) ==
    LET n == Cardinality({k \in DOMAIN list : list[k] \in {i, i - total - 1}})
    IN  IF n = 0 THEN 1 ELSE n

\* An instant comes as often as the list that its day is taken from names that day. (A table
\* of limits and expansions has it once.)
Copies(rule, t) ==
    CASE rule.FREQ \notin {"MONTHLY", "YEARLY"} -> 1
      [] rule.FREQ = "YEARLY" /\ rule.BYYEARDAY # <<>> ->
             Naming(rule.BYYEARDAY, YearDay(t), daysInYear(Year(t)))
      [] OTHER -> Naming(rule.BYMONTHDAY, Day(t), daysInMonth(Year(t), Month(t)))

Repeated(times, n(_)) == FlattenSeq([i \in DOMAIN times |-> [k \in 1 .. n(times[i]) |-> times[i]]])
Listed(rule, all) == Repeated(Ascending(all), LAMBDA t : Copies(rule, t))
Prefix(n, seq) == SubSeq(seq, 1, IF n < Len(seq) THEN n ELSE Len(seq))

\* Of the instants declared so far, those within UNTIL, inclusive, and COUNT, which counts
\* every copy.
Series(rule, all) ==
    LET within == Listed(rule, {t \in all : IsZero(rule.UNTIL) \/ t <= rule.UNTIL})
    IN  IF rule.COUNT > 0 THEN Prefix(rule.COUNT, within) ELSE within

\* They show that the rule has come to its end.
Ended(rule, all) ==
    \/ rule.COUNT > 0 /\ Len(Listed(rule, all)) >= rule.COUNT
    \/ ~IsZero(rule.UNTIL) /\ \E t \in all : t > rule.UNTIL
=============================================================================
