--------------------------- MODULE RecurrenceSets ---------------------------
(***************************************************************************)
(* Recurrence sets and the calls that expand them (rrule/set.go,           *)
(* rrule/expand.go, NextOccurrence of rrule/next.go). A client builds a    *)
(* Set from the properties of a component, or writes one down, and calls   *)
(* one entry point after another. All entry points walk FREQ periods; one  *)
(* period is a step. `cur` is the base of the next period, `walked` how    *)
(* many have been walked, and `acc` what the callback of the call has      *)
(* accumulated.                                                            *)
(***************************************************************************)
EXTENDS RRuleExpand

CONSTANTS
    Components,   \* property lists a client may have, a sequence of them
    Literals,     \* Sets written down, not parsed
    Limits,       \* limits a client may ask with
    InstantsOf(_),\* instants, by Set, that a client may make its windows of
    MaxIterations \* the iteration bound; 100000 in the code

ASSUME RecurrenceAssumption == MaxIterations \in Nat \ {0} /\ MaxDuration \in Nat \ {0}

VARIABLES pc, set, call, cur, walked, empty, acc, res

vars == <<pc, set, call, cur, walked, empty, acc, res>>

-----------------------------------------------------------------------------
(* Sets *)

ErrUnboundedExpansion == "unbounded"
ErrIterationCap == "cap"

sortDedupe(ts) == Ascending(ToSet(ts))

containsInstant(ts, t) == t \in ToSet(ts)

NoRule == [Rule EXCEPT !.INTERVAL = -1] \* the nil pointer, unlike any Rule of the instances
HasRule(s) == s.RRule # NoRule
Set(dtstart, rule, rdate, exdate) == [DTStart |-> dtstart, RRule |-> rule, RDate |-> rdate, ExDate |-> exdate]
EmptySet == Set(ZeroTime, NoRule, <<>>, <<>>)

explicitOccurrences(s) ==
    sortDedupe((IF IsZero(s.DTStart) THEN <<>> ELSE <<s.DTStart>>) \o s.RDate)

\* A property has a name, parameters, and values: rule-parts, or instants.
NotUTC == -1 \* a value that vstar.ParseTime does not accept
Prop(name, params, vals) == [name |-> name, params |-> params, vals |-> vals]

ParseDateTimeList(vals) ==
    IF vals = <<>> \/ NotUTC \in ToSet(vals) THEN [ts |-> <<>>, err |-> ErrMalformed]
    ELSE [ts |-> sortDedupe(vals), err |-> NoError]

parseDateListProperty(p) ==
    IF \E q \in ToSet(p.params) : q.name = "TZID" \/ (q.name = "VALUE" /\ q.value # "DATE-TIME")
    THEN [ts |-> <<>>, err |-> ErrUnsupportedRRule]
    ELSE ParseDateTimeList(p.vals)

\* One round of the loop of SetFromComponent.
ReadProperty(read, p) ==
    LET withRule(parsed) == [read EXCEPT !.set.RRule = parsed.rule, !.err = parsed.err]
        withDates(list)  == IF p.name = "RDATE"
                            THEN [read EXCEPT !.set.RDate = @ \o list.ts, !.err = list.err]
                            ELSE [read EXCEPT !.set.ExDate = @ \o list.ts, !.err = list.err]
    IN  CASE read.err = NoError /\ p.name = "RRULE" -> withRule(ParseRRule(p.vals))
          [] read.err = NoError /\ p.name \in {"RDATE", "EXDATE"} -> withDates(parseDateListProperty(p))
          [] OTHER -> read

\* What follows the loop.
Completed(read) ==
    IF read.err # NoError THEN [set |-> EmptySet, err |-> read.err]
    ELSE [set |-> [read.set EXCEPT !.RDate = sortDedupe(@), !.ExDate = sortDedupe(@)], err |-> NoError]

\* DTSTART is the first of its name, and is read before the loop.
SetFromComponent(props) ==
    LET starts == SelectSeq(props, LAMBDA p : p.name = "DTSTART")
        start  == IF starts = <<>> THEN [t |-> ZeroTime, err |-> NoError]
                  ELSE IF starts[1].vals[1] = NotUTC THEN [t |-> ZeroTime, err |-> ErrMalformed]
                  ELSE [t |-> starts[1].vals[1], err |-> NoError]
    IN  Completed(FoldLeft(ReadProperty, [set |-> Set(start.t, NoRule, <<>>, <<>>), err |-> start.err], props))

-----------------------------------------------------------------------------
(* One period of a walk. `ctl` tells whether the walk goes on, has ended   *)
(* with the rule, was stopped by its callback or is full.                  *)

Start == [out |-> <<>>, explicit |-> <<>>, emitted |-> 0, produced |-> FALSE, ctl |-> "go"]

\* Mutant: an excluded instant uses up the limit.
Emit_Counts(a, t) ==
    CASE Len(a.out) = call.limit -> [a EXCEPT !.ctl = "full"]
      [] Len(a.out) # call.limit /\ containsInstant(set.ExDate, t) -> a
      [] OTHER -> [a EXCEPT !.out = Append(@, t)]

\* The function emit of Set.Occurrences.
Emit(a, t) ==
    CASE containsInstant(set.ExDate, t) -> a
      [] ~containsInstant(set.ExDate, t) /\ Len(a.out) = call.limit -> [a EXCEPT !.ctl = "full"]
      [] OTHER -> [a EXCEPT !.out = Append(@, t)]

\* The explicit occurrences that pass Test, taken from the front and emitted.
Drain(a, Test(_)) ==
    LET take(b, t) == LET c == Emit(b, t)
                      IN  IF b.ctl # "go" \/ ~Test(t) THEN b
                          ELSE IF c.ctl = "go" THEN [c EXCEPT !.explicit = Tail(@)] ELSE c
    IN  FoldLeft(take, a, a.explicit)

MergeYield(a, occ) ==
    LET b == Drain(a, LAMBDA t : t < occ)
        same == b.explicit # <<>> /\ Head(b.explicit) = occ
    IN  IF b.ctl # "go" THEN b
        ELSE Emit(IF same THEN [b EXCEPT !.explicit = Tail(@)] ELSE b, occ)

Keep(a, occ) == [a EXCEPT !.out = Append(@, occ)]

\* Mutant: Occurrences is full with the last instant it may return.
Yield_FullAtLimit(a, occ) ==
    CASE call.op = "Occurrences" ->
             [Keep(a, occ) EXCEPT !.ctl = IF Len(a.out) + 1 >= call.limit THEN "full" ELSE "go"]
      [] call.op = "All" ->
             [Keep(a, occ) EXCEPT !.ctl = IF Len(a.out) + 1 >= call.limit THEN "stopped" ELSE "go"]
      [] call.op = "Between" -> IF occ >= call.start THEN Keep(a, occ) ELSE a
      [] OTHER -> MergeYield(a, occ)

\* The callback each entry point gives to walk. The consumer of All breaks off by itself.
Yield(a, occ) ==
    CASE call.op = "All" ->
             [Keep(a, occ) EXCEPT !.ctl = IF Len(a.out) + 1 >= call.limit THEN "stopped" ELSE "go"]
      [] call.op = "Occurrences" ->
             IF Len(a.out) = call.limit THEN [a EXCEPT !.ctl = "full"] ELSE Keep(a, occ)
      [] call.op = "Between" ->
             CASE occ >= call.end -> [a EXCEPT !.ctl = "stopped"]
               [] occ < call.end /\ occ >= call.start -> Keep(a, occ)
               [] OTHER -> a
      [] call.op = "Set.Between" ->
             IF occ >= call.end THEN [a EXCEPT !.ctl = "stopped"] ELSE Keep(a, occ)
      [] call.op = "Set.Occurrences" -> MergeYield(a, occ)

PastUntil(occ) == ~IsZero(set.RRule.UNTIL) /\ occ > set.RRule.UNTIL

\* One occurrence in the loop of walk.
WalkOne(a, occ) ==
    LET b == Yield([a EXCEPT !.produced = TRUE, !.emitted = @ + 1], occ)
    IN  CASE a.ctl # "go" \/ occ < set.DTStart -> a
          [] a.ctl = "go" /\ occ >= set.DTStart /\ PastUntil(occ) -> [a EXCEPT !.ctl = "ended"]
          [] OTHER -> IF b.ctl = "go" /\ set.RRule.COUNT > 0 /\ b.emitted >= set.RRule.COUNT
                      THEN [b EXCEPT !.ctl = "ended"] ELSE b

\* Mutant: COUNT starts after the given instant.
SearchOne_CountsLate(a, occ) ==
    LET n == IF occ > call.after THEN a.emitted + 1 ELSE a.emitted
    IN  CASE a.ctl # "go" \/ occ < set.DTStart -> a
          [] a.ctl = "go" /\ occ >= set.DTStart /\ PastUntil(occ) -> [a EXCEPT !.ctl = "ended"]
          [] OTHER -> IF set.RRule.COUNT > 0 /\ n > set.RRule.COUNT THEN [a EXCEPT !.ctl = "ended"]
                      ELSE IF occ > call.after
                      THEN [a EXCEPT !.ctl = "found", !.emitted = n, !.out = <<occ>>]
                      ELSE [a EXCEPT !.emitted = n]

\* One occurrence in the loop of NextOccurrence.
SearchOne(a, occ) ==
    LET n == a.emitted + 1
    IN  CASE a.ctl # "go" \/ occ < set.DTStart -> a
          [] a.ctl = "go" /\ occ >= set.DTStart /\ PastUntil(occ) -> [a EXCEPT !.ctl = "ended"]
          [] OTHER -> IF set.RRule.COUNT > 0 /\ n > set.RRule.COUNT THEN [a EXCEPT !.ctl = "ended"]
                      ELSE IF occ > call.after
                      THEN [a EXCEPT !.ctl = "found", !.emitted = n, !.out = <<occ>>]
                      ELSE [a EXCEPT !.emitted = n]

-----------------------------------------------------------------------------
Call(op, limit, start, end, after) ==
    [op |-> op, limit |-> limit, start |-> start, end |-> end, after |-> after]

Result(out, complete, err) == [out |-> out, complete |-> complete, err |-> err]
NoCall == Call("none", 0, ZeroTime, ZeroTime, ZeroTime)
NoResult == Result(<<>>, FALSE, NoError)

Init ==
    /\ pc = "start"
    /\ set = EmptySet
    /\ call = NoCall
    /\ cur = ZeroTime
    /\ walked = 0
    /\ empty = 0
    /\ acc = Start
    /\ res = NoResult

Build ==
    /\ pc = "start"
    /\ \E c \in DOMAIN Components :
           \E built \in {SetFromComponent(Components[c])} :
               /\ set' = built.set
               /\ pc' = IF built.err = NoError THEN "ready" ELSE "rejected"
               /\ res' = Result(Components[c], FALSE, built.err)
    /\ UNCHANGED <<call, cur, walked, empty, acc>>

WriteDown ==
    /\ pc = "start"
    /\ set' \in Literals
    /\ pc' = "ready"
    /\ UNCHANGED <<call, cur, walked, empty, acc, res>>

\* checkExpandable, and the checks NextOccurrence makes itself.
checkExpandable(rule) ==
    IF rule.FREQ = FreqInvalid \/ rule.INTERVAL < 1 THEN ErrUnsupportedRRule ELSE NoError

RuleCalls(l, s, e) == {Call("All", l + 1, ZeroTime, ZeroTime, ZeroTime),
                       Call("Occurrences", l, ZeroTime, ZeroTime, ZeroTime),
                       Call("Between", 0, s, e, ZeroTime),
                       Call("NextOccurrence", 0, ZeroTime, ZeroTime, s)}
SetCalls(l, s, e) == {Call("Set.Occurrences", l, ZeroTime, ZeroTime, ZeroTime),
                      Call("Set.Between", 0, s, e, ZeroTime)}

ArgumentError(c) ==
    LET windowed == c.op \in {"Between", "Set.Between"}
        refused  == \/ c.op \in {"Occurrences", "Set.Occurrences"} /\ c.limit < 0
                    \/ windowed /\ (IsZero(c.end) \/ c.end <= c.start)
        nothing  == c.op = "Set.Occurrences" /\ c.limit = 0
    IN  IF refused THEN ErrUnboundedExpansion
        ELSE IF HasRule(set) /\ ~nothing THEN checkExpandable(set.RRule) ELSE NoError

\* The part of a call before its loop. All yields nothing for a rule it cannot walk.
Begin ==
    /\ pc = "ready"
    /\ \E l \in Limits, s, e \in InstantsOf(set) :
           call' \in SetCalls(l, s, e) \cup (IF HasRule(set) THEN RuleCalls(l, s, e) ELSE {})
    /\ LET err == ArgumentError(call')
           out == IF call'.op = "All" THEN NoError ELSE err
       IN  CASE err # NoError ->
                    pc' = "done" /\ res' = Result(<<>>, FALSE, out)
             [] err = NoError /\ call'.op \in {"Occurrences", "Set.Occurrences"} /\ call'.limit = 0 ->
                    pc' = "done" /\ res' = Result(<<>>, FALSE, NoError)
             [] OTHER -> pc' = (IF HasRule(set) THEN "walk" ELSE "finish") /\ res' = NoResult
    /\ cur' = set.DTStart
    /\ walked' = 0
    /\ empty' = 0
    /\ acc' = [Start EXCEPT !.explicit =
                  IF call'.op = "Set.Occurrences" THEN explicitOccurrences(set) ELSE <<>>]
    /\ UNCHANGED set

Periods(One(_, _)) == FoldLeft(One, [acc EXCEPT !.produced = FALSE], periodOccurrences(set.RRule, cur, set.DTStart))

\* Mutant: the bound is on all periods that are walked.
Walk_CountsAll ==
    /\ pc = "walk"
    /\ call.op # "NextOccurrence"
    /\ empty < MaxIterations
    /\ acc' = Periods(WalkOne)
    /\ empty' = empty + 1
    /\ cur' = advance(set.RRule, cur)
    /\ walked' = walked + 1
    /\ pc' = IF acc'.ctl = "go" THEN "walk" ELSE "finish"
    /\ UNCHANGED <<set, call, res>>

\* One period in the loop of walk.
Walk ==
    /\ pc = "walk"
    /\ call.op # "NextOccurrence"
    /\ empty < MaxIterations
    /\ acc' = Periods(WalkOne)
    /\ empty' = IF acc'.produced THEN 0 ELSE empty + 1
    /\ cur' = advance(set.RRule, cur)
    /\ walked' = walked + 1
    /\ pc' = IF acc'.ctl = "go" THEN "walk" ELSE "finish"
    /\ UNCHANGED <<set, call, res>>

\* One period in the loop of NextOccurrence, whose bound is on all periods.
Search ==
    /\ pc = "walk"
    /\ call.op = "NextOccurrence"
    /\ walked < MaxIterations
    /\ acc' = Periods(SearchOne)
    /\ cur' = advance(set.RRule, cur)
    /\ walked' = walked + 1
    /\ pc' = IF acc'.ctl = "go" THEN "walk" ELSE "finish"
    /\ UNCHANGED <<set, call, empty, res>>

GiveUp ==
    /\ pc = "walk"
    /\ IF call.op = "NextOccurrence" THEN walked = MaxIterations ELSE empty = MaxIterations
    /\ pc' = "done"
    /\ res' = IF call.op = "All" THEN Result(acc.out, FALSE, NoError)
              ELSE Result(<<>>, FALSE, ErrIterationCap)
    /\ UNCHANGED <<set, call, cur, walked, empty, acc>>

\* What follows the loop. Set.Occurrences has the explicit occurrences still to emit.
Finish ==
    /\ pc = "finish"
    /\ LET rest   == IF call.op = "Set.Occurrences" /\ acc.ctl # "full"
                     THEN Drain([acc EXCEPT !.ctl = "go"], LAMBDA t : TRUE) ELSE acc
           merged == SelectSeq(acc.out \o explicitOccurrences(set),
                               LAMBDA t : /\ call.start <= t /\ t < call.end
                                          /\ ~containsInstant(set.ExDate, t))
       IN  res' = CASE call.op = "Set.Between" -> Result(sortDedupe(merged), TRUE, NoError)
                    [] call.op = "NextOccurrence" -> Result(acc.out, acc.ctl = "ended", NoError)
                    [] call.op \in {"All", "Between"} -> Result(acc.out, acc.ctl = "ended", NoError)
                    [] OTHER -> Result(rest.out, rest.ctl # "full", NoError)
    /\ pc' = "done"
    /\ UNCHANGED <<set, call, cur, walked, empty, acc>>

Next == Build \/ WriteDown \/ Begin \/ Walk \/ Search \/ GiveUp \/ Finish

Spec == Init /\ [][Next]_vars
=============================================================================
