------------------------- MODULE GregorianCalendar -------------------------
(***************************************************************************)
(* The calendar arithmetic of Go's package time that the library uses:     *)
(* time.Date with its normalisation of months, days, hours, minutes and    *)
(* seconds that are out of range, and its inverse. An instant is a number  *)
(* of seconds since 2000-01-01T00:00:00Z, a Saturday; a location is UTC or *)
(* a fixed offset that the caller adds.                                    *)
(***************************************************************************)
EXTENDS Integers

SecondsPerDay == 86400

\* Go's zero time lies before every instant that occurs.
ZeroTime == -1000000000

IsZero(t) == t = ZeroTime

LeapDaysBefore(y) == (y - 1) \div 4 - (y - 1) \div 100 + (y - 1) \div 400

\* Days from 2000-01-01 to 1 January of year y.
DaysBeforeYear(y) == 365 * (y - 2000) + LeapDaysBefore(y) - LeapDaysBefore(2000)

daysInYear(y) == DaysBeforeYear(y + 1) - DaysBeforeYear(y)

MonthStarts == <<0, 31, 59, 90, 120, 151, 181, 212, 243, 273, 304, 334, 365>>

\* Days from 1 January of year y to the first of month m, m in 1 .. 13.
DaysBeforeMonth(y, m) == MonthStarts[m] + IF m > 2 THEN daysInYear(y) - 365 ELSE 0

daysInMonth(y, m) == DaysBeforeMonth(y, m + 1) - DaysBeforeMonth(y, m)

\* The day that time.Date(y, m, d, ...) denotes, whatever m and d are.
DayNumber(y, m, d) ==
    LET year  == y + (m - 1) \div 12
        month == ((m - 1) % 12) + 1
    IN  DaysBeforeYear(year) + DaysBeforeMonth(year, month) + d - 1

TimeDate(y, m, d, hour, min, sec) ==
    SecondsPerDay * DayNumber(y, m, d) + 3600 * hour + 60 * min + sec

DayOf(t) == t \div SecondsPerDay
Midnight(day) == SecondsPerDay * day

YearOfDay(day) ==
    LET guess == 2000 + day \div 366
    IN  CHOOSE y \in (guess - 1) .. (guess + 2) :
            DaysBeforeYear(y) <= day /\ day < DaysBeforeYear(y + 1)

MonthOfYearDay(y, yearday) ==
    CHOOSE m \in 1 .. 12 : DaysBeforeMonth(y, m) < yearday /\ yearday <= DaysBeforeMonth(y, m + 1)

\* The date of a day, in year y and, of that, in month m.
DateInMonth(y, m, yearday) ==
    [year |-> y, month |-> m, day |-> yearday - DaysBeforeMonth(y, m)]
DateInYear(y, yearday) == DateInMonth(y, MonthOfYearDay(y, yearday), yearday)
DateOfDay(y, day) == DateInYear(y, day - DaysBeforeYear(y) + 1)

\* The date of an instant, as time.Time.Date takes it apart.
Date(t) == DateOfDay(YearOfDay(DayOf(t)), DayOf(t))

Year(t) == YearOfDay(DayOf(t))
YearDay(t) == DayOf(t) - DaysBeforeYear(Year(t)) + 1
Month(t) == Date(t).month
Day(t) == Date(t).day
Hour(t) == (t % SecondsPerDay) \div 3600
Minute(t) == (t % 3600) \div 60
Second(t) == t % 60

\* SU = 0 .. SA = 6, as in package time and in package rrule.
WeekdayOf(t) == (DayOf(t) + 6) % 7

\* time.Time.AddDate.
Moved(date, years, months, days) ==
    DayNumber(date.year + years, date.month + months, date.day + days)
AddDate(t, years, months, days) ==
    Midnight(Moved(Date(t), years, months, days)) + (t % SecondsPerDay)
=============================================================================
