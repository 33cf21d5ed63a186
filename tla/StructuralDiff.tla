---------------------------- MODULE StructuralDiff ----------------------------
(***************************************************************************)
(* What changed between two documents (src/go/diff): per property name, in  *)
(* the order of the names, the i-th property of one against the i-th of the *)
(* other; per sub-component, the one of the same type and UID, or, when it  *)
(* has no UID, the one of the same place among those of its type.           *)
(***************************************************************************)
EXTENDS CanonicalForm

\* A difference; old holds the former property of a change.
Entry(op, property, old) == [op |-> op, property |-> property, old |-> old]

filterHashProps(props) == WithoutName(props, HASH)

\* Mutant: what has no partner is not reported.
diffPropertyGroup_OnlyPairs(a, b) ==
    LET n == IF Len(a) < Len(b) THEN Len(a) ELSE Len(b)
    IN  FlattenSeq([i \in 1 .. n |-> IF Equal(a[i], b[i]) THEN << >>
                                     ELSE <<Entry("Changed", b[i], <<a[i]>>)>>])

\* A property without a partner is added or removed, an unequal pair changed.
diffPropertyGroup(a, b) ==
    LET n == IF Len(a) > Len(b) THEN Len(a) ELSE Len(b)
        At(i) == IF i > Len(a) THEN <<Entry("Added", b[i], << >>)>>
                 ELSE IF i > Len(b) THEN <<Entry("Removed", a[i], << >>)>>
                 ELSE IF Equal(a[i], b[i]) THEN << >>
                 ELSE <<Entry("Changed", b[i], <<a[i]>>)>>
    IN  FlattenSeq([i \in 1 .. n |-> At(i)])

diffProperties(a, b) ==
    LET names == InOrder({p.name : p \in Range(a \o b)})
    IN  FlattenSeq([k \in DOMAIN names |-> diffPropertyGroup(GetAll(a, names[k]), GetAll(b, names[k]))])

\* Of several with the same type and UID only the last is looked at. A label is
\* type, UID, and the place among those of the type without a UID.
pairSubs(as, bs) ==
    LET Of(subs, type, uid) == SelectSeq(subs, LAMBDA c : c.type = type /\ UID(c) = uid)
        LastOf(subs) == IF subs = << >> THEN << >> ELSE <<Last(subs)>>
        At(i, subs) == IF i > Len(subs) THEN << >> ELSE <<subs[i]>>
        Keyed(type, uid) ==
            LET a == LastOf(Of(as, type, uid))  b == LastOf(Of(bs, type, uid))
            IN  IF a = << >> /\ b = << >> THEN << >>
                ELSE <<[a |-> a, b |-> b, label |-> <<type, uid, 0>>]>>
        Placed(type) ==
            LET a == Of(as, type, "")  b == Of(bs, type, "")
            IN  [i \in 1 .. (IF Len(a) > Len(b) THEN Len(a) ELSE Len(b)) |->
                   [a |-> At(i, a), b |-> At(i, b), label |-> <<type, "", i - 1>>]]
        types == InOrder({c.type : c \in Range(as \o bs)})
        uids == InOrder({UID(c) : c \in Range(as \o bs)})
        KeyedOf(type) == FlattenSeq([k \in DOMAIN uids |-> Keyed(type, uids[k])])
    IN  FlattenSeq([k \in DOMAIN types |-> KeyedOf(types[k])])
          \o FlattenSeq([k \in DOMAIN types |-> Placed(types[k])])

\* What a whole component adds or removes; those without a UID are all called #0.
RECURSIVE allDiff(_, _, _)
allDiff(op, path, c) ==
    LET props == SortedBy(filterHashProps(c.props), NameOf)
        sub   == c.sub
    IN  [path |-> path,
         properties |-> [k \in DOMAIN props |-> Entry(op, props[k], << >>)],
         subDiffs |-> [k \in DOMAIN sub |->
                         allDiff(op, Append(path, <<sub[k].type, UID(sub[k]), 0>>), sub[k])]]

\* Mutant: what is nested two deep is not looked at.
Empty_AtTheTop(d) == d.properties = << >>

RECURSIVE Empty(_)
Empty(d) == d.properties = << >> /\ \A k \in DOMAIN d.subDiffs : Empty(d.subDiffs[k])

\* A pair that is on both sides is reported when it differs.
Reported(d) == IF Empty(d) THEN << >> ELSE <<d>>

RECURSIVE componentDiffAt(_, _, _), diffSubs(_, _, _)
componentDiffAt(path, a, b) ==
    [path |-> path, properties |-> diffProperties(filterHashProps(a.props), filterHashProps(b.props)),
     subDiffs |-> diffSubs(path, a.sub, b.sub)]
diffSubs(path, as, bs) ==
    LET diffPair(at, a, b) ==
            CASE a = << >> -> <<allDiff("Added", at, b[1])>>
              [] b = << >> -> <<allDiff("Removed", at, a[1])>>
              [] OTHER     -> Reported(componentDiffAt(at, a[1], b[1]))
    IN  FoldLeft(LAMBDA diffs, pair : diffs \o diffPair(Append(path, pair.label), pair.a, pair.b),
                 << >>, pairSubs(as, bs))

OfComponent(a, b) == componentDiffAt(<< >>, a, b)
OfCard(a, b) ==
    [path |-> << >>, subDiffs |-> << >>,
     properties |-> diffProperties(filterHashProps(a.props), filterHashProps(b.props))]
OfCalendar(a, b) == diffSubs(<<<<"VCALENDAR", "", 0>>>>, a.components, b.components)
=============================================================================
