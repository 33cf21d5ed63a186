---------------------------- MODULE RRuleSyntax ----------------------------
(***************************************************************************)
(* Rules of package rrule and their wire form (rrule/rrule.go, parse.go,   *)
(* format.go). A wire text is the sequence of its rule-parts, a rule-part  *)
(* a key and the sequence of the values between its commas: integers,      *)
(* weekdays with an ordinal, a FREQ token or an instant. A value that does *)
(* not parse is an integer outside every range: the code rejects both with *)
(* the same error. A Rule has a field for every rule-part, under the name  *)
(* of the rule-part.                                                       *)
(***************************************************************************)
EXTENDS GregorianCalendar, Sequences, SequencesExt

NoError == "none"
ErrMalformed == "malformed"
ErrUnsupportedRRule == "unsupported"

MO == 1
Weekdays == 0 .. 6

FreqInvalid == "INVALID"
Freqs == {"MINUTELY", "HOURLY", "DAILY", "WEEKLY", "MONTHLY", "YEARLY"}

Signed(hi) == (-hi .. hi) \ {0}

\* A set of instants in order.
Ascending(S) == [i \in 1 .. Cardinality(S) |-> CHOOSE t \in S : Cardinality({u \in S : u < t}) = i - 1]

\* What each BY-part may list, and the lists in the order String writes them.
ByValues ==
    [BYMONTH    |-> 1 .. 12,
     BYWEEKNO   |-> Signed(53),
     BYYEARDAY  |-> Signed(366),
     BYMONTHDAY |-> Signed(31),
     BYDAY      |-> [ord : -53 .. 53, wd : Weekdays],
     BYHOUR     |-> 0 .. 23,
     BYMINUTE   |-> 0 .. 59,
     BYSECOND   |-> 0 .. 60,
     BYSETPOS   |-> Signed(366)]

ByOrder == <<"BYMONTH", "BYWEEKNO", "BYYEARDAY", "BYMONTHDAY", "BYDAY",
             "BYHOUR", "BYMINUTE", "BYSECOND", "BYSETPOS">>

ByParts == ToSet(ByOrder)

\* The zero Rule of Go, and the one ParseRRule starts from.
Rule == [key \in ByParts \cup {"FREQ", "INTERVAL", "UNTIL", "COUNT", "WKST"} |->
            CASE key \in ByParts -> <<>>
              [] key = "FREQ"    -> FreqInvalid
              [] key = "UNTIL"   -> ZeroTime
              [] OTHER           -> 0]

DefaultRule == [Rule EXCEPT !.INTERVAL = 1, !.WKST = MO]

ScalarValues ==
    [FREQ |-> Freqs, INTERVAL |-> Nat \ {0}, UNTIL |-> Int, COUNT |-> Nat \ {0}, WKST |-> Weekdays]

Known(p) ==
    \/ p.key \in DOMAIN ByValues /\ p.vals # <<>> /\ \A i \in DOMAIN p.vals : p.vals[i] \in ByValues[p.key]
    \/ p.key \in DOMAIN ScalarValues /\ Len(p.vals) = 1 /\ p.vals[1] \in ScalarValues[p.key]

\* splitRulePart and applyRulePart with the parse functions it dispatches to.
PartError(p) ==
    IF p.key = "RSCALE" \/ (p.key = "FREQ" /\ p.vals = <<"SECONDLY">>) THEN ErrUnsupportedRRule
    ELSE IF Known(p) THEN NoError ELSE ErrMalformed

applyRulePart(rule, p) ==
    [rule EXCEPT ![p.key] = IF p.key \in ByParts THEN p.vals ELSE p.vals[1]]

hasOtherBy(rule) == \E key \in ByParts \ {"BYSETPOS"} : rule[key] # <<>>

validateAfterParse(rule) ==
    IF \/ rule.FREQ = FreqInvalid
       \/ ~IsZero(rule.UNTIL) /\ rule.COUNT > 0
       \/ rule.BYYEARDAY # <<>> /\ rule.FREQ # "YEARLY"
       \/ rule.BYWEEKNO # <<>> /\ rule.FREQ # "YEARLY"
       \/ rule.BYSETPOS # <<>> /\ ~hasOtherBy(rule)
    THEN ErrMalformed ELSE NoError

\* Mutant: BYSETPOS must come after the part it selects from.
ParsePart_InOrder(acc, p) ==
    LET early == p.key = "BYSETPOS" /\ ~hasOtherBy(acc.rule)
        err == IF p.key \in acc.seen \/ early THEN ErrMalformed ELSE PartError(p)
    IN  CASE acc.err # NoError -> acc
          [] acc.err = NoError /\ err # NoError -> [acc EXCEPT !.err = err]
          [] OTHER -> [acc EXCEPT !.seen = @ \cup {p.key}, !.rule = applyRulePart(@, p)]

\* One round of the loop of ParseRRule. The zero Rule accompanies an error.
ParsePart(acc, p) ==
    LET err == IF p.key \in acc.seen THEN ErrMalformed ELSE PartError(p)
    IN  CASE acc.err # NoError -> acc
          [] acc.err = NoError /\ err # NoError -> [acc EXCEPT !.err = err]
          [] OTHER -> [acc EXCEPT !.seen = @ \cup {p.key}, !.rule = applyRulePart(@, p)]

ParseRRule(parts) ==
    LET read == FoldLeft(ParsePart, [rule |-> DefaultRule, seen |-> {}, err |-> NoError], parts)
        err  == IF parts = <<>> THEN ErrMalformed
                ELSE IF read.err # NoError THEN read.err ELSE validateAfterParse(read.rule)
    IN  [rule |-> IF err = NoError THEN read.rule ELSE Rule, err |-> err]

Part(key, vals) == [key |-> key, vals |-> vals]

\* Rule.String and the property it makes.
String(rule) ==
    LET when(test, key) == IF test THEN <<Part(key, <<rule[key]>>)>> ELSE <<>>
        lists == SelectSeq([i \in DOMAIN ByOrder |-> Part(ByOrder[i], rule[ByOrder[i]])],
                           LAMBDA p : p.vals # <<>>)
    IN  IF rule.FREQ = FreqInvalid THEN <<>>
        ELSE when(TRUE, "FREQ") \o when(rule.INTERVAL > 1, "INTERVAL")
             \o when(~IsZero(rule.UNTIL), "UNTIL") \o when(rule.COUNT > 0, "COUNT")
             \o lists \o when(rule.WKST # MO, "WKST")
=============================================================================
