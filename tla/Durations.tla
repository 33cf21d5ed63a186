------------------------------- MODULE Durations -------------------------------
(***************************************************************************)
(* src/go/duration/duration.go: DURATION values, their grammar as the       *)
(* parser walks it, how they are written, and what they add to an instant.  *)
(*                                                                         *)
(* A text is a sequence of atoms: designators, and numerals, which stand    *)
(* for a run of digits.                                                     *)
(***************************************************************************)
EXTENDS GregorianCalendar, Sequences, SequencesExt

CONSTANTS
    Numerals,      \* the runs of digits that fit an int, as a function to Nat
    MaxDuration    \* seconds; time.Duration wraps beyond it, in Go after 292 years

ASSUME DurationAssumption == MaxDuration \in Nat \ {0}

Zero == [negative |-> FALSE, weeks |-> 0, days |-> 0, hours |-> 0, minutes |-> 0,
         seconds |-> 0, dayForm |-> FALSE]

\* A parse that failed.
Malformed == <<>>

\* nextField: a numeral and the unit after it at the front of s.
HasField(s) == Len(s) >= 2 /\ s[1] \in DOMAIN Numerals /\ s[2] \notin DOMAIN Numerals
Number(s) == Numerals[s[1]]
Rest(s) == SubSeq(s, 3, Len(s))

TimeUnits == <<"H", "M", "S">>
UnitField == [H |-> "hours", M |-> "minutes", S |-> "seconds"]

\* Mutant: units may be repeated.
Advances_OrRepeats(unit, order) ==
    unit \in DOMAIN UnitField /\ \E k \in 1..3 : TimeUnits[k] = unit /\ k >= order

\* Units come once each and in the order H, M, S.
Advances(unit, order) ==
    unit \in DOMAIN UnitField /\ \E k \in 1..3 : TimeUnits[k] = unit /\ k > order

\* parseTimePart, a field at a time; there are at most three.
TimeField(st) ==
    IF ~st.ok \/ st.rest = << >> THEN st
    ELSE IF ~(HasField(st.rest) /\ Advances(st.rest[2], st.order))
         THEN [st EXCEPT !.ok = FALSE]
    ELSE [ok |-> TRUE, rest |-> Rest(st.rest),
          order |-> CHOOSE k \in 1..3 : TimeUnits[k] = st.rest[2],
          d |-> [st.d EXCEPT ![UnitField[st.rest[2]]] = Number(st.rest)]]

ParseTimePart(s, d) ==
    LET end == TimeField(TimeField(TimeField([ok |-> s # << >>, rest |-> s, order |-> 0, d |-> d])))
    IN  IF end.ok /\ end.rest = << >> THEN <<end.d>> ELSE Malformed

\* strings.Cut(body, "T")
TAt(body) == LET at == {k \in DOMAIN body : body[k] = "T"}
             IN  IF at = {} THEN Len(body) + 1 ELSE CHOOSE k \in at : \A j \in at : k <= j

\* parseBody: weeks, or days with an optional time part, or a time part.
ParseBody(body) ==
    LET datePart == SubSeq(body, 1, TAt(body) - 1)
        timePart == SubSeq(body, TAt(body) + 1, Len(body))
        hasTime  == TAt(body) <= Len(body)
        days     == [Zero EXCEPT !.days = Number(datePart), !.dayForm = TRUE]
    IN  IF body # << >> /\ body[1] = "T" THEN ParseTimePart(timePart, Zero)
        ELSE IF ~HasField(datePart) \/ Rest(datePart) # << >> THEN Malformed
        ELSE CASE datePart[2] = "W" -> IF hasTime THEN Malformed
                                       ELSE <<[Zero EXCEPT !.weeks = Number(datePart)]>>
               [] datePart[2] = "D" -> IF hasTime THEN ParseTimePart(timePart, days) ELSE <<days>>
               [] OTHER -> Malformed

\* Parse, with parseSign: << >> or the duration in a tuple.
ParseDuration(s) ==
    LET body == IF s # << >> /\ s[1] \in {"+", "-"} THEN Tail(s) ELSE s
        got  == IF body = << >> \/ body[1] # "P" THEN Malformed ELSE ParseBody(Tail(body))
    IN  IF got = Malformed THEN Malformed
        ELSE <<[got[1] EXCEPT !.negative = s[1] = "-"]>>

IsZeroDuration(d) == \A u \in {"weeks", "days", "hours", "minutes", "seconds"} : d[u] = 0

Numeral(n) == CHOOSE c \in DOMAIN Numerals : Numerals[c] = n
UnitText(n, unit) == IF n = 0 THEN << >> ELSE <<Numeral(n), unit>>

DayText(d) == IF d.days # 0 \/ d.dayForm THEN <<Numeral(d.days), "D">> ELSE << >>

\* Duration.String
DurationString(d) ==
    LET time == UnitText(d.hours, "H") \o UnitText(d.minutes, "M") \o UnitText(d.seconds, "S")
    IN  (IF d.negative /\ ~IsZeroDuration(d) THEN <<"-">> ELSE << >>)
        \o <<"P">>
        \o IF d.weeks # 0 THEN <<Numeral(d.weeks), "W">>
           ELSE IF IsZeroDuration(d) /\ ~d.dayForm THEN <<"T", Numeral(0), "S">>
           ELSE DayText(d) \o IF time = << >> THEN << >> ELSE <<"T">> \o time

\* 64-bit time.Duration, in seconds.
Wrapped(seconds) == ((seconds + MaxDuration) % (2 * MaxDuration)) - MaxDuration

Clock(d) == Wrapped(3600 * d.hours + 60 * d.minutes + d.seconds)

\* Duration.Signed
Signed(d) ==
    LET total == Wrapped(SecondsPerDay * (7 * d.weeks + d.days) + Clock(d))
    IN  IF d.negative THEN -total ELSE total

\* Mutant: the sign is that of the day part.
AddTo_ClockUnsigned(d, t) ==
    AddDate(t, 0, 0, (IF d.negative THEN -1 ELSE 1) * (7 * d.weeks + d.days)) + Clock(d)

\* Duration.AddTo: weeks and days by the calendar, then the clock.
AddTo(d, t) ==
    LET sign == IF d.negative THEN -1 ELSE 1
    IN  AddDate(t, 0, 0, sign * (7 * d.weeks + d.days)) + sign * Clock(d)

\* FromSigned: hours, minutes and seconds only.
FromSigned(seconds) ==
    LET td == IF seconds < 0 THEN -seconds ELSE seconds
    IN  [Zero EXCEPT !.negative = seconds < 0, !.hours = td \div 3600,
                     !.minutes = (td % 3600) \div 60, !.seconds = td % 60]
=============================================================================
