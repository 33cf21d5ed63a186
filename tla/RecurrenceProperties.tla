------------------------ MODULE RecurrenceProperties ------------------------
(***************************************************************************)
(* What the calls of RecurrenceSets promise, stated against the declared   *)
(* series of the rule.                                                     *)
(***************************************************************************)
EXTENDS RecurrenceSets, DeclaredSeries

CONSTANT MaxPeriods \* no call of the instance walks further

Sets == Literals \cup {SetFromComponent(Components[c]).set : c \in DOMAIN Components}

\* Where the code departs from the table of rule-parts, the rule that it expands in place
\* of the given one. A year without BYMONTH, BYYEARDAY or BYWEEKNO is confined to the
\* month of dtstart; under BYYEARDAY the parts BYWEEKNO and BYMONTHDAY have no effect, nor
\* has BYMONTHDAY under BYWEEKNO; ordinals of BYDAY count in the months of MONTHLY and
\* YEARLY and nowhere else.
AsExpanded(rule, dtstart) ==
    LET named == [i \in DOMAIN rule.BYDAY |-> [rule.BYDAY[i] EXCEPT !.ord = 0]]
    IN  CASE rule.FREQ \notin {"MONTHLY", "YEARLY"} -> [rule EXCEPT !.BYDAY = named]
          [] rule.FREQ = "YEARLY" /\ rule.BYYEARDAY # <<>> ->
                 [rule EXCEPT !.BYWEEKNO = <<>>, !.BYMONTHDAY = <<>>, !.BYDAY = named]
          [] rule.FREQ = "YEARLY" /\ rule.BYYEARDAY = <<>> /\ rule.BYWEEKNO # <<>> ->
                 [rule EXCEPT !.BYMONTHDAY = <<>>, !.BYDAY = named]
          [] OTHER -> IF rule.FREQ = "YEARLY" /\ rule.BYMONTH = <<>>
                      THEN [rule EXCEPT !.BYMONTH = <<Month(dtstart)>>] ELSE rule

Read(s) == AsExpanded(s.RRule, s.DTStart)

\* The declared instants of every rule of the instance, period by period, as the code
\* takes the rule.
DeclaredIn ==
    [s \in {x \in Sets : HasRule(x) /\ checkExpandable(x.RRule) = NoError} |->
        [k \in 0 .. MaxPeriods |-> Declared(Read(s), s.DTStart, k)]]

SoFar == UNION {DeclaredIn[set][k] : k \in 0 .. (walked - 1)}
SeriesSoFar == IF HasRule(set) THEN Series(Read(set), SoFar) ELSE <<>>
RuleEnded == HasRule(set) => Ended(Read(set), SoFar)

Answered(ops) == pc = "done" /\ res.err = NoError /\ call.op \in ops /\ walked > 0

TypeOK ==
    /\ pc \in {"start", "rejected", "ready", "walk", "finish", "done"}
    /\ walked \in 0 .. MaxPeriods
    /\ empty \in 0 .. MaxIterations
    /\ acc.ctl \in {"go", "ended", "stopped", "full", "found"}
    /\ res.complete \in BOOLEAN

\* Every entry point of the package returns the declared instants it was asked for, in
\* order: the first ones up to the limit, or those of the window. Covers walk, expand,
\* BYSETPOS, and the steps between periods of all FREQ values. The rule is taken as AsExpanded
\* has it, which is less than "each BY-* rule-part limits or expands per the RFC 5545
\* section 3.3.10 table" (spec/v1.0/03-canonicalization.md). A day that the list of
\* days names twice, as BYMONTHDAY=31,-1, is returned twice; a month, a week or a time named
\* twice, and BYSETPOS over days named twice, are not in the instances.
ExpandsAsDeclared ==
    /\ Answered({"All", "Occurrences"}) => res.out = Prefix(call.limit, SeriesSoFar)
    /\ Answered({"Between"}) =>
           res.out = SelectSeq(SeriesSoFar, LAMBDA t : call.start <= t /\ t < call.end)

\* The flag that Occurrences returns says "complete" exactly when the rule has ended
\* and nothing beyond the limit was cut off.
CompleteIsTrue ==
    Answered({"Occurrences"}) =>
        (res.complete <=> RuleEnded /\ Len(SeriesSoFar) <= call.limit)

\* NextOccurrence finds the first declared instant after the given one, COUNT and UNTIL
\* counted from DTSTART, and reports an end only when the rule has ended.
NextIsNext ==
    Answered({"NextOccurrence"}) =>
        LET later == SelectSeq(SeriesSoFar, LAMBDA t : t > call.after)
        IN  /\ res.out = Prefix(1, later)
            /\ res.complete => RuleEnded

\* A walk ends although the rule never matches again: between two occurrences lie at
\* most MaxIterations periods, and NextOccurrence looks at no more than that in all.
WalkIsBounded ==
    walked <= IF call.op = "NextOccurrence" THEN MaxIterations ELSE (acc.emitted + 1) * MaxIterations

\* And no call gives up earlier: the cap means MaxIterations periods in a row without a
\* declared instant (NextOccurrence: without one it was asked for).
CapIsExact ==
    /\ TypeOK
    /\ WalkIsBounded
    /\ pc = "done" /\ res.err = ErrIterationCap =>
         IF call.op = "NextOccurrence" THEN ~\E t \in SoFar : t > call.after
         ELSE \A k \in (walked - MaxIterations) .. (walked - 1) : DeclaredIn[set][k] = {}

Explicit == ToSet(set.RDate) \cup (IF IsZero(set.DTStart) THEN {} ELSE {set.DTStart})
InSet == (ToSet(SeriesSoFar) \cup Explicit) \ ToSet(set.ExDate)

\* As often as the rule has it, once if it is explicit only.
SetSoFar ==
    Repeated(Ascending(InSet),
             LAMBDA t : IF t \in ToSet(SeriesSoFar) THEN Len(SelectSeq(SeriesSoFar, LAMBDA u : u = t)) ELSE 1)

Named(name) == {i \in DOMAIN res.out : res.out[i].name = name}
ValuesOf(name) == UNION {ToSet(res.out[i].vals) : i \in Named(name)}

\* A Set is built only if every RDATE and EXDATE value of the component is in it: no
\* exclusion is dropped because it could not be read.
NothingDropped ==
    pc = "ready" =>
        ValuesOf("EXDATE") \subseteq ToSet(set.ExDate) /\ ValuesOf("RDATE") \subseteq ToSet(set.RDate)

\* A recurrence set holds what its component lists, and is the series with DTSTART and
\* the RDATEs added and the EXDATEs removed last; exclusions use up no limit. Both entry
\* points agree with it, but for an instant that the rule itself has twice: Set.Between
\* returns it once, Set.Occurrences twice, and each copy uses up the limit, although "emit
\* never sees the same instant twice" (rrule/set.go).
SetIsMerged ==
    /\ NothingDropped
    /\ pc = "done" /\ res.err = NoError /\ call.op = "Set.Occurrences" /\ call.limit > 0 =>
           /\ res.out = Prefix(call.limit, SetSoFar)
           /\ res.complete <=> RuleEnded /\ Len(SetSoFar) <= call.limit
    /\ pc = "done" /\ res.err = NoError /\ call.op = "Set.Between" =>
           res.out = Ascending({t \in InSet : call.start <= t /\ t < call.end})

\* The order of the parts on the wire decides neither what a rule means nor whether it
\* is accepted, and emitting a parsed rule and parsing it again changes nothing.
SyntaxIsStable ==
    pc \in {"ready", "rejected"} => \A i \in Named("RRULE") :
        LET parts  == res.out[i].vals
            parsed == ParseRRule(parts)
        IN  /\ \A f \in Permutations(DOMAIN parts) :
                   ParseRRule([n \in DOMAIN parts |-> parts[f[n]]]).rule = parsed.rule
            /\ parsed.err = NoError => ParseRRule(String(parsed.rule)) = parsed
=============================================================================
