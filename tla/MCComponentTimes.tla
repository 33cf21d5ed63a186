---------------------------- MODULE MCComponentTimes ----------------------------
(* Zones of every accepted shape and of the refused ones, local times around     *)
(* their transitions, and duration texts one atom away from well-formed ones.    *)
EXTENDS ComponentTimes

MCNumerals == [x \in {"0", "1", "12", "15", "300"} |->
                 CASE x = "0" -> 0 [] x = "1" -> 1 [] x = "12" -> 12 [] x = "15" -> 15 [] x = "300" -> 300]

Freq == Part("FREQ", "YEARLY", 0, 0)
Yearly(month, week, wd) == <<Freq, Part("BYMONTH", "", month, 0), Part("BYDAY", "", week, wd)>>

Child(type, from, to, clock, rrule) ==
    [type |-> type, offsetFrom |-> <<from>>, offsetTo |-> <<to>>,
     dtstart |-> <<TimeDate(2007, 1, 1, 0, 0, 0) + clock>>, rrule |-> rrule]
Zone(id, sub) == [tzid |-> <<id>>, sub |-> sub]

H == 3600
NewYork == << Child("STANDARD", -4 * H, -5 * H, 2 * H, Yearly(11, 1, 0)),
              Child("DAYLIGHT", -5 * H, -4 * H, 2 * H, Yearly(3, 2, 0)) >>
Berlin  == << Child("DAYLIGHT", 1 * H, 2 * H, 2 * H, Yearly(3, -1, 0)),
              Child("STANDARD", 2 * H, 1 * H, 3 * H, Yearly(10, -1, 0)) >>
Sydney  == << Child("DAYLIGHT", 10 * H, 11 * H, 2 * H, Yearly(10, 1, 0)),
              Child("STANDARD", 11 * H, 10 * H, 3 * H, Yearly(4, 1, 0)) >>

MCZones ==
    << Zone("America/New_York", NewYork), Zone("Europe/Berlin", Berlin),
       Zone("Europe/Berlin", <<Child("STANDARD", 0, 0, 0, << >>)>>),
       Zone("Asia/Kolkata", <<Child("STANDARD", 19800, 19800, 0, << >>)>>),
       Zone("Summer", <<Child("DAYLIGHT", 0, 1 * H, 0, << >>)>>),
       Zone("Australia/Sydney", Sydney),
       Zone("Twice", NewYork \o <<NewYork[1]>>),
       Zone("Until", <<[NewYork[1] EXCEPT !.rrule = Append(@, Part("UNTIL", "", 0, 0))], NewYork[2]>>),
       Zone("Once", <<NewYork[1], [NewYork[2] EXCEPT !.rrule = << >>]>>),
       Zone("NoOffset", <<[NewYork[1] EXCEPT !.offsetTo = << >>]>>) >>

Around(t) == {t - 1, t, t + 1}
Walls == Around(TimeDate(2026, 3, 8, 2, 0, 0)) \cup Around(TimeDate(2026, 11, 1, 2, 0, 0))
           \cup Around(TimeDate(2027, 3, 14, 2, 0, 0)) \cup Around(TimeDate(2026, 3, 29, 2, 0, 0))
           \cup Around(TimeDate(2026, 10, 25, 3, 0, 0)) \cup Around(TimeDate(2028, 1, 1, 0, 0, 0))
           \cup {TimeDate(2026, 7, 4, 12, 0, 0), TimeDate(2026, 3, 7, 12, 0, 0)}

Utc(name, t) == Property(name, "", "", "", Value("utc", t))
Local(name, zone, t) == Property(name, "", zone, "", Value("local", t))
Dur(name, s) == Property(name, "", "", "", Value("duration", s))
Item(type, props, valarm) == [type |-> type, props |-> props, alarm |-> valarm]

March == TimeDate(2026, 3, 7, 12, 0, 0)

InZones == {Item("VEVENT", <<Local("DTSTART", MCZones[z].tzid[1], w)>>, << >>) :
              z \in DOMAIN MCZones \ {6}, w \in Walls}

\* What a codec may deliver for a time: a date, a date that claims to be a time, a
\* UTC time with a TZID, a second property of the name.
Odd == { Item("VTODO", <<p, Utc("DTEND", March + 5), q>>,
              <<Dur("DURATION", <<"P", "1", "D">>), Property("REPEAT", "", "", "", Value("number", -1))>>) :
           p \in { Property("DTSTART", "DATE", "", "", Value("date", 9000)),
                   Property("DTSTART", "", "", "", Value("date", 9000)),
                   Property("DTSTART", "DATE", "Europe/Berlin", "", Value("local", March)),
                   Property("DTSTART", "", "Europe/Berlin", "", Value("utc", March)),
                   Property("DTSTART", "", "Nowhere", "", Value("local", March)),
                   Property("DTSTART", "", "Europe/Berlin", "", Value("local", March)) },
           q \in { Utc("DTSTART", March), Property("DUE", "", "Europe/Berlin", "", Value("local", March)) } }

Good == { <<"P", "1", "D">>, <<"P", "0", "D", "T", "15", "M">>, <<"-", "P", "T", "12", "H", "1", "S">>,
          <<"+", "P", "1", "W">>, <<"-", "P", "T", "0", "S">>, <<"P", "0", "D">>, <<"-", "P", "0", "W">>,
          <<"-", "P", "1", "D", "T", "1", "H", "15", "M", "12", "S">>,
          <<"P", "15", "W">>, <<"-", "P", "1", "D", "T", "300", "H">> }    \* beyond MaxDuration
Atoms == {"-", "P", "T", "W", "D", "H", "M", "S", "1"}
NearGood == Good \cup UNION {{RemoveAt(s, k) : k \in DOMAIN s}
                               \cup {ReplaceAt(s, k, a) : k \in DOMAIN s, a \in Atoms}
                               \cup {InsertAt(s, k, a) : k \in 1..(Len(s) + 1), a \in Atoms} : s \in Good}
\* A numeral is a whole run of digits.
MCTexts == {s \in NearGood : \A k \in 1..(Len(s) - 1) :
              ~(s[k] \in DOMAIN MCNumerals /\ s[k + 1] \in DOMAIN MCNumerals)}

Lasting == {Item("VEVENT", <<Utc("DTSTART", March), Dur("DURATION", s)>>,
                 <<Dur("TRIGGER", s), Dur("DURATION", s), Property("REPEAT", "", "", "", Value("number", 1))>>) :
              s \in MCTexts}

Alarms == {Item(type, <<Dur("DURATION", <<"P", "1", "D">>), Utc("DTSTART", March), Utc("DTEND", March + 100)>>, <<trigger>>) :
             type \in {"VEVENT", "VTODO"},
             trigger \in { Property("TRIGGER", v, "", r, x) :
                             v \in {"", "DURATION", "DATE-TIME", "DATE"}, r \in {"", "START", "END", "MIDDLE"},
                             x \in {Value("utc", March), Value("duration", <<"-", "P", "T", "15", "M">>),
                                    Value("text", "")} } }

MCItems == InZones \cup Odd \cup Lasting \cup Alarms

\* Daylight saving time that spans the new year.
SouthernItems == {Item("VEVENT", <<Local("DTSTART", "Australia/Sydney", w)>>, << >>) : w \in Walls}

MCInstants == {ZeroTime, March, TimeDate(2027, 1, 1, 0, 0, 0)}
MCDays == {NoDate, <<2026, 2, 28>>, <<2026, 2, 30>>, <<2026, 13, 1>>}
=============================================================================
