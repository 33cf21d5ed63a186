---------------------------- MODULE MCRecurrence ----------------------------
EXTENDS RecurrenceProperties

Freq(f) == <<Part("FREQ", <<f>>)>>
By(key, vals) == <<Part(key, vals)>>
Count(n) == <<Part("COUNT", <<n>>)>>
Every(n) == <<Part("INTERVAL", <<n>>)>>
Until(t) == <<Part("UNTIL", <<t>>)>>
On(ord, wd) == [ord |-> ord, wd |-> wd]

Jan31 == TimeDate(2024, 1, 31, 9, 0, 0)
Feb29 == TimeDate(2024, 2, 29, 10, 30, 0)
NewYearsEve == TimeDate(2023, 12, 31, 23, 59, 30)
Monday == TimeDate(2024, 7, 1, 8, 15, 0)
Thursday == TimeDate(2024, 8, 29, 8, 0, 0)

StartingAt(t, rules) == [i \in DOMAIN rules |-> <<t, rules[i]>>]

\* Years that the code does not expand as the table of rule-parts has it.
YearlyRules ==
    StartingAt(Feb29,
        <<Freq("YEARLY") \o By("BYDAY", <<On(0, 4)>>),
         Freq("YEARLY") \o By("BYMONTHDAY", <<1, -1>>)>>)

\* Rules with parts, or ordinals, that the code does not look at.
PartlyReadRules ==
    StartingAt(Feb29,
        <<Freq("YEARLY") \o By("BYDAY", <<On(20, 0), On(-1, 3)>>),
         Freq("YEARLY") \o By("BYYEARDAY", <<60, 61, 92, 183>>) \o By("BYMONTHDAY", <<1>>),
         Freq("YEARLY") \o By("BYYEARDAY", <<61, 67>>) \o By("BYWEEKNO", <<10>>),
         Freq("YEARLY") \o By("BYWEEKNO", <<10>>) \o By("BYMONTHDAY", <<5, 6>>)>>)
    \o StartingAt(Monday, <<Freq("WEEKLY") \o By("BYDAY", <<On(2, 3)>>)>>)

\* Lists that name the last day of a long month, or of a leap year, twice.
Repeating ==
    StartingAt(Jan31,
        <<Freq("MONTHLY") \o By("BYMONTHDAY", <<31, -1>>),
          Freq("MONTHLY") \o By("BYMONTHDAY", <<-1, 30, 31>>) \o Count(4),
          Freq("DAILY") \o By("BYMONTHDAY", <<31, -1>>)>>)
    \o StartingAt(Feb29, <<Freq("YEARLY") \o By("BYYEARDAY", <<-1, 366, 60>>)>>)

\* Rules and where they start: each has something that could go wrong.
Rules ==
    StartingAt(Jan31,
        <<Freq("MONTHLY"),
         Freq("MONTHLY") \o By("BYMONTHDAY", <<-1>>) \o Count(3),
         Freq("MONTHLY") \o By("BYMONTHDAY", <<15, -2>>) \o By("BYDAY", <<On(0, 2), On(0, 5)>>),
         Freq("MONTHLY") \o By("BYDAY", <<On(-1, 5), On(2, 1)>>),
         Freq("MONTHLY") \o By("BYDAY", <<On(0, 1), On(0, 2)>>) \o By("BYSETPOS", <<-1, 1>>),
         Freq("MONTHLY") \o By("BYMONTH", <<2>>) \o By("BYMONTHDAY", <<30>>),
         Freq("DAILY") \o Every(2) \o By("BYHOUR", <<8, 20>>) \o Count(3),
         Freq("DAILY") \o By("BYMONTHDAY", <<1, -1>>) \o Until(TimeDate(2024, 2, 1, 9, 0, 0)),
         Freq("WEEKLY") \o Every(2) \o By("BYDAY", <<On(0, 0), On(0, 3)>>),
         Freq("WEEKLY") \o Every(2) \o By("BYDAY", <<On(0, 0), On(0, 3)>>) \o By("WKST", <<0>>),
         Freq("WEEKLY") \o By("BYMONTH", <<2>>) \o Until(TimeDate(2024, 2, 14, 9, 0, 0))>>)
    \o StartingAt(Feb29,
        <<Freq("YEARLY"),
         Freq("YEARLY") \o By("BYMONTH", <<2, 11>>) \o By("BYDAY", <<On(-1, 4)>>) \o Count(3),
         Freq("YEARLY") \o By("BYYEARDAY", <<-1, 60, 100>>),
         Freq("YEARLY") \o Every(2) \o By("BYMONTH", <<1, 3>>) \o By("BYMONTHDAY", <<31, 15>>),
         Freq("YEARLY") \o By("BYWEEKNO", <<53, -2, 10>>) \o By("BYDAY", <<On(0, 2)>>),
         Freq("YEARLY") \o By("BYMONTH", <<6, 3>>) \o By("BYMONTHDAY", <<1, 2, 3>>) \o By("BYSETPOS", <<2, -2>>)>>)
    \o YearlyRules
    \o PartlyReadRules
    \o Repeating
    \o StartingAt(NewYearsEve,
        <<Freq("MINUTELY") \o By("BYHOUR", <<0>>),
         Freq("MINUTELY") \o By("BYMONTH", <<12>>),
         Freq("HOURLY") \o By("BYMINUTE", <<59, 0>>) \o By("BYSECOND", <<15, 45>>),
         Freq("HOURLY") \o Every(7) \o By("BYHOUR", <<6, 13>>),
         Freq("DAILY") \o By("BYDAY", <<On(0, 0), On(0, 2)>>)>>)
    \o StartingAt(Monday,
        <<Freq("MINUTELY") \o Every(30) \o By("BYMINUTE", <<45, 15>>) \o By("BYSECOND", <<0, 60>>) \o Count(4),
         Freq("WEEKLY") \o Count(2),
         Freq("HOURLY") \o Until(Monday)>>)

Start1(t) == Prop("DTSTART", <<>>, <<t>>)
RRule(parts) == Prop("RRULE", <<>>, parts)
Dates(name, vals) == Prop(name, <<>>, vals)

AsComponents(rules) == [i \in DOMAIN rules |-> <<RRule(rules[i][2]), Start1(rules[i][1])>>]
Ruled == AsComponents(Rules)

Daily == RRule(Freq("DAILY") \o Count(3))
OneDay == SecondsPerDay

\* Sets with RDATE and EXDATE, refused ones, and ones without a rule.
Dated ==
    <<<<Start1(Monday), Daily, Dates("RDATE", <<Monday + 9 * OneDay, Monday + OneDay, Monday - OneDay>>),
       Dates("EXDATE", <<Monday + 2 * OneDay, Monday + 9 * OneDay>>)>>,
     <<Start1(Monday), Daily, Dates("EXDATE", <<Monday>>), Dates("EXDATE", <<Monday + OneDay, Monday + 2 * OneDay>>)>>,
     <<Start1(Monday), Dates("RDATE", <<Monday + OneDay, Monday + OneDay, Monday>>), Dates("EXDATE", <<Monday>>)>>,
     <<Start1(Monday), RRule(Freq("WEEKLY") \o By("BYDAY", <<On(0, 4)>>)),
       Dates("RDATE", <<Monday + 4 * OneDay, Monday + 4 * OneDay + 1>>), Dates("EXDATE", <<Thursday>>)>>,
     <<Start1(Jan31), RRule(Freq("MONTHLY") \o By("BYMONTHDAY", <<31, -1>>) \o Count(5)),
       Dates("RDATE", <<Jan31 + 60 * OneDay, Jan31 + 61 * OneDay>>), Dates("EXDATE", <<Jan31 + 29 * OneDay>>)>>,
     <<Dates("RDATE", <<Monday>>)>>,
     <<Start1(Monday), Daily, Dates("EXDATE", <<NotUTC>>)>>,
     <<Start1(Monday), Prop("RDATE", <<[name |-> "TZID", value |-> "x"]>>, <<Monday>>)>>,
     <<Start1(Monday), Prop("EXDATE", <<[name |-> "VALUE", value |-> "DATE"]>>, <<Monday>>)>>,
     <<Start1(Monday), Prop("EXDATE", <<[name |-> "VALUE", value |-> "DATE-TIME"]>>, <<Monday>>)>>,
     <<Start1(NotUTC), Daily>>>>

\* Rule texts that must be refused.
Refused ==
    LET texts ==
        <<<<>>, Count(3), Freq("SECONDLY") \o Count(1), Freq("DAILY") \o Freq("DAILY"),
         Freq("DAILY") \o Count(1) \o Until(Monday), Freq("DAILY") \o By("BYWEEKNO", <<1>>),
         Freq("MONTHLY") \o By("BYSETPOS", <<1>>), Freq("DAILY") \o By("BYMONTHDAY", <<0>>),
         Freq("YEARLY") \o By("BYDAY", <<On(54, 1)>>), Freq("DAILY") \o By("BYHOUR", <<24>>),
         Freq("DAILY") \o Every(0), Freq("DAILY") \o By("RSCALE", <<"x">>), Freq("DAILY") \o By("X", <<1>>),
         Freq("MONTHLY") \o By("BYYEARDAY", <<1>>), Freq("DAILY") \o By("BYMONTH", <<>>)>>
    IN  [i \in DOMAIN texts |-> <<Start1(Monday), RRule(texts[i])>>]

MCComponents == Ruled \o Dated \o Refused
MCLiterals == {Set(Monday, Rule, <<>>, <<>>), Set(Monday, [DefaultRule EXCEPT !.FREQ = "DAILY", !.INTERVAL = 0], <<>>, <<>>)}

Unit(s) ==
    IF ~HasRule(s) THEN OneDay
    ELSE CASE s.RRule.FREQ = "MINUTELY" -> 60
           [] s.RRule.FREQ = "HOURLY" -> 3600
           [] s.RRule.FREQ = "WEEKLY" -> 7 * OneDay
           [] s.RRule.FREQ = "MONTHLY" -> 31 * OneDay
           [] s.RRule.FREQ = "YEARLY" -> 366 * OneDay
           [] OTHER -> OneDay

MCInstantsOf(s) == {ZeroTime, s.DTStart, s.DTStart + (5 * Unit(s)) \div 2, s.DTStart + 5 * Unit(s) + 1}
=============================================================================
