------------------------------- MODULE PropSlices -------------------------------
(***************************************************************************)
(* src/go/component.go with the mutators of src/go/helpers: components are  *)
(* Go values whose property list is a slice, so a copy of a component       *)
(* shares the backing array of the original.  Component.Set and Remove      *)
(* build a new array; Component.Add writes into the shared one when it has  *)
(* room.  Variables hold copies of one component, as a ledger, its reader   *)
(* and a caller who passes components by value do.                          *)
(*                                                                         *)
(* A property is [name, value], a value a sequence of tokens; the hash is   *)
(* the multiset of the other properties, which is what canonicalisation     *)
(* leaves of them.                                                          *)
(***************************************************************************)
EXTENDS Naturals, Sequences, FiniteSets

CONSTANTS
    Vars,          \* Go variables of type vstar.Component
    Arrays,        \* identities of backing arrays
    Initial,       \* property lists a codec may have read
    Uids, Labels,  \* arguments of AddRelatedTo and AddCategory
    MaxLen,        \* bound: properties of a component
    MaxOps         \* bound: operations

\* A property as a codec reads it.
Property == [name : STRING, value : Seq(STRING)]

ASSUME PropSlicesAssumption ==
    /\ IsFiniteSet(Vars) /\ IsFiniteSet(Arrays)
    /\ Cardinality(Arrays) > Cardinality(Vars)     \* the heap never runs out
    /\ Initial \subseteq Seq(Property)
    /\ MaxLen \in Nat /\ MaxOps \in Nat

VARIABLES
    heap,      \* per array: its capacity and the cells written so far
    comp,      \* per variable: the slice header, array and length
    ops,       \* operations so far (bound)
    fresh,     \* history: variables whose hash was refreshed last
    stamped    \* history: per variable, the properties as refreshed

vars == <<heap, comp, ops, fresh, stamped>>

Contents(v) == SubSeq(heap[comp[v].arr].cells, 1, comp[v].len)
-----------------------------------------------------------------------------
(* Property lists as values.                                               *)

Named(props, name) == {k \in DOMAIN props : props[k].name = name}

\* The first of them; Component.Get.
FirstOf(props, name) ==
    CHOOSE k \in Named(props, name) : \A j \in Named(props, name) : k <= j

\* The element of a finite set of positions that has i - 1 before it.
Nth(positions, i) ==
    CHOOSE k \in positions : Cardinality({j \in positions : j <= k}) = i

Without(props, name) ==
    LET kept == DOMAIN props \ Named(props, name)
    IN  [i \in 1..Cardinality(kept) |-> props[Nth(kept, i)]]

\* Component.Set: p takes the place of the first property of its name, the
\* others of that name go; or it comes last.
Replaced(props, p) ==
    IF Named(props, p.name) = {} THEN Append(props, p)
    ELSE LET f == FirstOf(props, p.name)
         IN  Append(Without(SubSeq(props, 1, f), p.name), p)
               \o Without(SubSeq(props, f + 1, Len(props)), p.name)

\* hashing.Component
Digest(props) ==
    LET Counted == {k \in DOMAIN props : props[k].name # "HASH"}
    IN  {<<props[k], Cardinality({j \in Counted : props[j] = props[k]})>> : k \in Counted}

Hash(props) == [name |-> "HASH", digest |-> Digest(props)]

\* hashing.SetXVSTAR, hashing.VerifyXVSTAR
Stamped(props) == Replaced(props, Hash(props))
Verifies(props) == /\ Named(props, "HASH") # {}
                   /\ props[FirstOf(props, "HASH")] = Hash(props)

Priority == [name |-> "PRIORITY", value |-> <<"1">>]
RelatedTo(u) == [name |-> "RELATED-TO", value |-> <<u>>]
Category(labels) == [name |-> "CATEGORIES", value |-> labels]

\* helpers.Categories reads the first CATEGORIES property.
Categories(props) == IF Named(props, "CATEGORIES") = {} THEN << >>
                     ELSE props[FirstOf(props, "CATEGORIES")].value
HasLabel(labels, l) == \E k \in DOMAIN labels : labels[k] = l
-----------------------------------------------------------------------------
(* The heap.                                                               *)

Unused == {a \in Arrays : \A v \in Vars : comp[v].arr # a}

\* The capacity append gives to a full slice of that length.
Grown(len) == {len + 1, 2 * len} \ {len}

NoCells == [cells |-> << >>, cap |-> 0]

\* The slice of v becomes a new array a with props; what h holds besides stays
\* as long as somebody refers to it.
Assign(v, h, a, props, cap) ==
    /\ comp' = [comp EXCEPT ![v] = [arr |-> a, len |-> Len(props)]]
    /\ heap' = [b \in Arrays |->
                  IF b = a THEN [cells |-> props, cap |-> cap]
                  ELSE IF \E w \in Vars \ {v} : comp[w].arr = b THEN h[b]
                  ELSE NoCells]

\* append finds a free cell behind the last one of v.
HasRoom(v) == comp[v].len < heap[comp[v].arr].cap

\* append into the array as it is: the cell after the last one of v.
WrittenInPlace(v, p) ==
    [heap EXCEPT ![comp[v].arr].cells =
        IF comp[v].len < Len(@) THEN [@ EXCEPT ![comp[v].len + 1] = p]
        ELSE Append(@, p)]

\* Capacities of the array that Component.Set makes: as many cells as there
\* were properties, grown when p is one more.
SetCaps(props, p) == IF Named(props, p.name) = {} THEN Grown(Len(props))
                     ELSE {Len(props)}
-----------------------------------------------------------------------------
(* Operations.                                                             *)

Op == ops < MaxOps /\ ops' = ops + 1

Unrefreshed(v) == fresh' = fresh \ {v} /\ UNCHANGED stamped
Refreshed(v, props) == /\ fresh' = fresh \cup {v}
                       /\ stamped' = [stamped EXCEPT ![v] = props]

\* w := v, also as an argument, a range variable or the result of Find.
Copy(v, w) ==
    /\ Op
    /\ comp' = [comp EXCEPT ![w] = comp[v]]
    /\ fresh' = IF v \in fresh THEN fresh \cup {w} ELSE fresh \ {w}
    /\ stamped' = [stamped EXCEPT ![w] = stamped[v]]
    /\ heap' = [b \in Arrays |-> IF \E u \in Vars \ {w} : comp[u].arr = b THEN heap[b]
                                 ELSE NoCells]

\* Mutant: Component.Set filters in place, out := c.Props[:0].
Set_InPlace(v, p) ==
    LET props == Replaced(Contents(v), p)
    IN  /\ Op /\ Len(props) <= MaxLen
        /\ Named(Contents(v), p.name) # {}
        /\ comp' = [comp EXCEPT ![v].len = Len(props)]
        /\ heap' = [heap EXCEPT ![comp[v].arr].cells =
                      props \o SubSeq(@, Len(props) + 1, Len(@))]
        /\ Unrefreshed(v)

\* Component.Set
Set(v, p) ==
    LET props == Replaced(Contents(v), p)
    IN  /\ Op /\ Len(props) <= MaxLen
        /\ \E a \in Unused, cap \in SetCaps(Contents(v), p) :
             Assign(v, heap, a, props, cap)
        /\ Unrefreshed(v)

\* Component.Remove
Remove(v, name) ==
    LET props == Without(Contents(v), name)
    IN  /\ Op
        /\ \E a \in Unused :
             Assign(v, heap, a, props, IF props = << >> THEN 0 ELSE comp[v].len)
        /\ Unrefreshed(v)

\* Component.Add
Add(v, p) ==
    /\ Op /\ comp[v].len < MaxLen
    /\ IF HasRoom(v)
       THEN /\ heap' = WrittenInPlace(v, p)
            /\ comp' = [comp EXCEPT ![v].len = @ + 1]
       ELSE LET props == Append(Contents(v), p)
            IN  \E a \in Unused, cap \in Grown(comp[v].len) :
                  Assign(v, heap, a, props, cap)
    /\ Unrefreshed(v)

\* hashing.SetXVSTAR on the properties that the first part of a helper has
\* left, which nobody but v refers to; h is the heap it has left.
Refresh(v, h, props) ==
    LET final == Stamped(props)
    IN  /\ Len(final) <= MaxLen
        /\ \E a \in Unused, cap \in SetCaps(props, Hash(props)) :
             Assign(v, h, a, final, cap)
        /\ Refreshed(v, final)

SetXVSTAR(v) == Op /\ Refresh(v, heap, Contents(v))

\* SetStatus, SetPriority, SetSequence, ...: Set, then refresh.
SetPriority(v) ==
    Op /\ Refresh(v, heap, Replaced(Contents(v), Priority))

RemovePriority(v) ==
    Op /\ Refresh(v, heap, Without(Contents(v), "PRIORITY"))

\* Add, then refresh: the Add may go into an array that others see.
AddRelatedTo(v, u) ==
    /\ Op
    /\ Refresh(v, IF HasRoom(v) THEN WrittenInPlace(v, RelatedTo(u)) ELSE heap,
               Append(Contents(v), RelatedTo(u)))

\* A label that is there already is left alone, the hash too.
AddCategory(v, l) ==
    LET labels == Categories(Contents(v))
    IN  /\ ~HasLabel(labels, l)
        /\ Op
        /\ Refresh(v, heap, Replaced(Contents(v), Category(Append(labels, l))))

Init ==
    /\ \E a \in Arrays, props \in Initial, spare \in 0..1 :
         /\ comp = [v \in Vars |-> [arr |-> a, len |-> Len(props)]]
         /\ heap = [b \in Arrays |-> IF b = a THEN [cells |-> props, cap |-> Len(props) + spare]
                                     ELSE NoCells]
    /\ ops = 0
    /\ fresh = {} /\ stamped = [v \in Vars |-> << >>]

Next ==
    \E v \in Vars :
       \/ \E w \in Vars \ {v} : Copy(v, w)
       \/ Set(v, Priority) \/ Remove(v, "PRIORITY")
       \/ \E u \in Uids : Add(v, RelatedTo(u)) \/ AddRelatedTo(v, u)
       \/ SetXVSTAR(v) \/ SetPriority(v) \/ RemovePriority(v)
       \/ \E l \in Labels : AddCategory(v, l)

Spec == Init /\ [][Next]_vars
-----------------------------------------------------------------------------
(* Properties                                                               *)

TypeOK ==
    /\ \A a \in Arrays : Len(heap[a].cells) <= heap[a].cap
    /\ \A v \in Vars : /\ comp[v].arr \in Arrays
                       /\ comp[v].len \in 0..Len(heap[comp[v].arr].cells)
    /\ fresh \subseteq Vars

\* A component that was refreshed stays as it was, whatever is done to copies
\* of it and to the component it is a copy of: although they share arrays, no
\* write reaches its properties. And so its hash goes on verifying: the hash
\* comes last in every helper, and there is exactly one.
Isolated == \A v \in fresh : Contents(v) = stamped[v]

RefreshedIsIsolated ==
    /\ TypeOK /\ Isolated
    /\ \A v \in fresh : /\ Verifies(Contents(v))
                        /\ Cardinality(Named(Contents(v), "HASH")) = 1

\* What one variable sees is changed through another in one way only: by an
\* append into a shared array, on a property that the other one had added to
\* its copy before.
OnlyAppendReachesOthers ==
    [][\A v \in Vars :
         (Contents(v)' # Contents(v) /\ comp'[v] = comp[v]) =>
            \E w \in Vars, u \in Uids :
               /\ comp'[w] # comp[w]
               /\ comp[w].arr = comp[v].arr /\ comp[w].len < comp[v].len
               /\ Contents(v)' = [Contents(v) EXCEPT ![comp[w].len + 1] = RelatedTo(u)]]_vars
=============================================================================
