---------------------------- MODULE PropSlices_proofs ----------------------------
(***************************************************************************)
(* A component that was refreshed is isolated from its copies and verifies, *)
(* for any number of variables, arrays, properties and operations, and      *)
(* whatever capacities append chooses.                                      *)
(***************************************************************************)
EXTENDS PropSlices, FiniteSetTheorems, SequenceTheorems, WellFoundedInduction, TLAPS

\* A sequence, of whatever elements.
IsList(s) == \E S : s \in Seq(S)

IsHeap(h) == \E S, T : h \in [Arrays -> [cells : Seq(S), cap : T]]

HeapOK == IsHeap(heap)
CompOK == comp \in [Vars -> [arr : Arrays, len : Nat]]
StampedOK == \E U : stamped \in [Vars -> U]

\* A slice lies within its array.
InArray == \A v \in Vars : comp[v].len <= Len(heap[comp[v].arr].cells)

\* Nobody who shares the array of a refreshed component has a shorter slice, so an
\* append of his writes behind its end.
NobodyBehind ==
    \A v \in fresh, w \in Vars : comp[w].arr = comp[v].arr => comp[v].len <= comp[w].len

IInv == /\ HeapOK /\ CompOK /\ StampedOK /\ InArray
        /\ fresh \subseteq Vars
        /\ NobodyBehind /\ Isolated

-----------------------------------------------------------------------------
(* The operators on property lists give lists.                             *)

LEMMA ConcatList == ASSUME NEW s, NEW t, IsList(s), IsList(t) PROVE IsList(s \o t)
<1>1. PICK S : s \in Seq(S)
  BY DEF IsList
<1>2. PICK T : t \in Seq(T)
  BY DEF IsList
<1>3. s \in Seq(S \cup T) /\ t \in Seq(S \cup T)
  BY <1>1, <1>2
<1>4. s \o t \in Seq(S \cup T)
  BY <1>3, ConcatProperties
<1> QED BY <1>4 DEF IsList

LEMMA AppendList == ASSUME NEW s, NEW e, IsList(s)
                    PROVE  IsList(Append(s, e)) /\ Len(Append(s, e)) = Len(s) + 1
<1>1. PICK S : s \in Seq(S)
  BY DEF IsList
<1>2. s \in Seq(S \cup {e}) /\ e \in S \cup {e}
  BY <1>1
<1>3. Append(s, e) \in Seq(S \cup {e}) /\ Len(Append(s, e)) = Len(s) + 1
  BY <1>2
<1> QED BY <1>3 DEF IsList

\* A part of a list is a list, and the whole of it is the list itself.
LEMMA SubSeqList == ASSUME NEW s, IsList(s), NEW m \in Nat \ {0}, NEW n \in Nat, n <= Len(s)
                    PROVE  IsList(SubSeq(s, m, n)) /\ SubSeq(s, 1, Len(s)) = s
<1>1. PICK S : s \in Seq(S)
  BY DEF IsList
<1>2. SubSeq(s, m, n) \in Seq(S) /\ SubSeq(s, 1, Len(s)) = s
  BY <1>1
<1> QED BY <1>2 DEF IsList

LEMMA WithoutList == ASSUME NEW s, NEW name, IsList(s) PROVE IsList(Without(s, name))
<1> DEFINE kept == DOMAIN s \ Named(s, name)
           S == {s[Nth(kept, i)] : i \in 1 .. Cardinality(kept)}
<1>1. Len(s) \in Nat /\ DOMAIN s = 1 .. Len(s)
  BY DEF IsList
<1>2. IsFiniteSet(1 .. Len(s)) /\ kept \in SUBSET (1 .. Len(s))
  BY <1>1, FS_Interval
<1>3. Cardinality(kept) \in Nat
  <2> HIDE DEF kept
  <2>1. IsFiniteSet(kept)
    BY <1>2, FS_Subset
  <2> QED BY <2>1, FS_CardinalityType
<1>4. Without(s, name) = [i \in 1 .. Cardinality(kept) |-> s[Nth(kept, i)]]
  BY DEF Without
<1>5. [i \in 1 .. Cardinality(kept) |-> s[Nth(kept, i)]] \in Seq(S)
  <2> HIDE DEF kept
  <2> QED BY <1>3
<1> QED BY <1>4, <1>5 DEF IsList

\* The positions of a name have a first one.
LEMMA FirstIsPosition == ASSUME NEW s, NEW name, IsList(s), Named(s, name) # {}
                         PROVE  FirstOf(s, name) \in 1 .. Len(s) /\ FirstOf(s, name) \in Named(s, name)
<1>1. Len(s) \in Nat /\ Named(s, name) \subseteq 1 .. Len(s)
  BY DEF IsList, Named
<1>2. PICK k \in Named(s, name) : \A j \in Named(s, name) : ~(<<j, k>> \in OpToRel(<, Nat))
  <2>1. Named(s, name) \subseteq Nat
    BY <1>1
  <2> QED BY <2>1, WFMin, NatLessThanWellFounded, Zenon
<1>3. \A j \in Named(s, name) : k <= j
  <2> SUFFICES ASSUME NEW j \in Named(s, name), ~(k <= j) PROVE FALSE
    OBVIOUS
  <2>1. j \in Nat /\ k \in Nat /\ j < k
    BY <1>1
  <2>2. <<j, k>> \in OpToRel(<, Nat)
    BY <2>1 DEF OpToRel
  <2> QED BY <1>2, <2>2
<1>4. FirstOf(s, name) \in Named(s, name)
  BY <1>3 DEF FirstOf
<1> QED BY <1>1, <1>4

LEMMA ReplacedList == ASSUME NEW s, NEW p, IsList(s) PROVE IsList(Replaced(s, p))
<1>1. CASE Named(s, p.name) = {}
  BY <1>1, AppendList DEF Replaced
<1>2. CASE Named(s, p.name) # {}
  <2> DEFINE f == FirstOf(s, p.name)
             before == Without(SubSeq(s, 1, f), p.name)
             after  == Without(SubSeq(s, f + 1, Len(s)), p.name)
  <2>1. f \in 1 .. Len(s) /\ Len(s) \in Nat
    BY <1>2, FirstIsPosition DEF IsList
  <2>2. IsList(SubSeq(s, 1, f)) /\ IsList(SubSeq(s, f + 1, Len(s)))
    <3> HIDE DEF f
    <3> QED BY <2>1, SubSeqList
  <2>3. IsList(before) /\ IsList(after)
    <3> HIDE DEF f
    <3> QED BY <2>2, WithoutList
  <2>4. Replaced(s, p) = Append(before, p) \o after
    BY <1>2 DEF Replaced
  <2> HIDE DEF before, after
  <2> QED BY <2>3, <2>4, AppendList, ConcatList
<1> QED BY <1>1, <1>2
-----------------------------------------------------------------------------
(* The heap.                                                               *)

\* The properties of a variable.
LEMMA ContentsList ==
    ASSUME IInv, NEW v \in Vars
    PROVE  IsList(heap[comp[v].arr].cells) /\ IsList(Contents(v)) /\ Len(Contents(v)) = comp[v].len
<1>1. PICK S, T : heap \in [Arrays -> [cells : Seq(S), cap : T]]
  BY DEF IInv, HeapOK, IsHeap
<1>2. comp[v].arr \in Arrays /\ comp[v].len \in Nat /\ comp[v].len <= Len(heap[comp[v].arr].cells)
  BY DEF IInv, CompOK, InArray
<1>3. heap[comp[v].arr].cells \in Seq(S)
  BY <1>1, <1>2
<1>4. /\ SubSeq(heap[comp[v].arr].cells, 1, comp[v].len) \in Seq(S)
      /\ Len(SubSeq(heap[comp[v].arr].cells, 1, comp[v].len)) = comp[v].len
  BY <1>2, <1>3
<1> QED BY <1>3, <1>4 DEF Contents, IsList

\* What the slices of h that others than v refer to have in common with the heap.
Spares(h, v) ==
    /\ IsHeap(h)
    /\ \A w \in Vars \ {v} : comp[w].len <= Len(h[comp[w].arr].cells)
    /\ \A w \in fresh \ {v} : SubSeq(h[comp[w].arr].cells, 1, comp[w].len) = Contents(w)

LEMMA HeapSpares == ASSUME IInv, NEW v \in Vars PROVE Spares(heap, v)
BY DEF Spares, IInv, HeapOK, InArray, Contents

\* An append in place writes behind the end of v, and so behind that of every
\* refreshed component.
LEMMA AppendSpares ==
    ASSUME IInv, NEW v \in Vars, NEW p
    PROVE  /\ Spares(WrittenInPlace(v, p), v)
           /\ comp[v].len + 1 <= Len(WrittenInPlace(v, p)[comp[v].arr].cells)
<1> DEFINE a == comp[v].arr
           n == comp[v].len
           old == heap[a].cells
           new == IF n < Len(old) THEN [old EXCEPT ![n + 1] = p] ELSE Append(old, p)
           h == WrittenInPlace(v, p)
<1>1. PICK S, T : heap \in [Arrays -> [cells : Seq(S), cap : T]]
  BY DEF IInv, HeapOK, IsHeap
<1>2. a \in Arrays /\ n \in Nat /\ n <= Len(old)
  BY DEF IInv, CompOK, InArray
<1>3. old \in Seq(S) /\ old \in Seq(S \cup {p}) /\ Len(old) \in Nat
  BY <1>1, <1>2
<1>4. /\ new \in Seq(S \cup {p}) /\ n + 1 <= Len(new) /\ Len(old) <= Len(new)
      /\ \A j \in 1 .. n : new[j] = old[j]
  <2> HIDE DEF a, n, old
  <2>1. CASE n < Len(old)
    BY <1>2, <1>3, <2>1
  <2>2. CASE ~(n < Len(old))
    BY <1>2, <1>3, <2>2
  <2> QED BY <2>1, <2>2
<1>5. h = [heap EXCEPT ![a].cells = new]
  BY DEF WrittenInPlace
<1> HIDE DEF new, h
<1>6. h \in [Arrays -> [cells : Seq(S \cup {p}), cap : T]]
  BY <1>1, <1>2, <1>4, <1>5
<1>7. h[a].cells = new /\ \A b \in Arrays \ {a} : h[b] = heap[b]
  BY <1>1, <1>2, <1>5
<1>8. ASSUME NEW w \in Vars PROVE comp[w].len <= Len(h[comp[w].arr].cells)
  BY <1>2, <1>3, <1>4, <1>7 DEF IInv, CompOK, InArray
<1>9. ASSUME NEW w \in fresh \ {v} PROVE SubSeq(h[comp[w].arr].cells, 1, comp[w].len) = Contents(w)
  <2>1. CASE comp[w].arr # a
    BY <1>7, <2>1 DEF IInv, CompOK, Contents
  <2>2. CASE comp[w].arr = a
    <3>1. comp[w].len \in Nat /\ comp[w].len <= n
      BY <2>2 DEF IInv, CompOK, NobodyBehind
    <3>2. SubSeq(new, 1, comp[w].len) = SubSeq(old, 1, comp[w].len)
      <4> HIDE DEF n, old, a
      <4> QED BY <1>2, <1>3, <1>4, <3>1
    <3> QED BY <1>7, <2>2, <3>2 DEF Contents
  <2> QED BY <2>1, <2>2
<1>10. IsHeap(h)
  BY <1>6 DEF IsHeap
<1>11. Spares(h, v)
  BY <1>8, <1>9, <1>10 DEF Spares
<1>12. n + 1 <= Len(h[a].cells)
  BY <1>4, <1>7
<1> QED BY <1>11, <1>12 DEF h
-----------------------------------------------------------------------------
\* A slice that moves to an array of its own takes nothing from the others.
LEMMA AssignKeeps ==
    ASSUME IInv, NEW v \in Vars, NEW h, Spares(h, v), NEW a \in Unused, NEW props, IsList(props), NEW cap,
           Assign(v, h, a, props, cap), StampedOK',
           fresh' \subseteq fresh \cup {v},
           \A w \in fresh' \ {v} : stamped'[w] = stamped[w],
           v \in fresh' => stamped'[v] = props
    PROVE  IInv'
<1>1. PICK S, T : h \in [Arrays -> [cells : Seq(S), cap : T]]
  BY DEF Spares, IsHeap
<1>2. PICK P : props \in Seq(P)
  BY DEF IsList
<1>3. Len(props) \in Nat /\ a \in Arrays /\ \A w \in Vars : comp[w].arr # a
  BY <1>2 DEF Unused
<1>4. CompOK' /\ comp'[v] = [arr |-> a, len |-> Len(props)] /\ \A w \in Vars \ {v} : comp'[w] = comp[w]
  BY <1>3 DEF IInv, CompOK, Assign
<1>5. HeapOK'
  <2> DEFINE cell(b) == IF b = a THEN [cells |-> props, cap |-> cap]
                        ELSE IF \E w \in Vars \ {v} : comp[w].arr = b THEN h[b] ELSE NoCells
  <2>1. ASSUME NEW b \in Arrays PROVE cell(b) \in [cells : Seq(S \cup P), cap : T \cup {cap, 0}]
    BY <1>1, <1>2 DEF NoCells
  <2>2. heap' = [b \in Arrays |-> cell(b)]
    BY DEF Assign
  <2> HIDE DEF cell
  <2>3. heap' \in [Arrays -> [cells : Seq(S \cup P), cap : T \cup {cap, 0}]]
    BY <2>1, <2>2
  <2> QED BY <2>3 DEF HeapOK, IsHeap
<1>6. heap'[a].cells = props /\ \A w \in Vars \ {v} : heap'[comp[w].arr] = h[comp[w].arr]
  BY <1>3 DEF IInv, CompOK, Assign
<1>7. InArray'
  BY <1>3, <1>4, <1>6 DEF InArray, Spares
<1>8. fresh' \subseteq Vars
  BY DEF IInv
<1>9. NobodyBehind'
  <2> SUFFICES ASSUME NEW u \in fresh', NEW w \in Vars, comp'[w].arr = comp'[u].arr
               PROVE  comp'[u].len <= comp'[w].len
    BY DEF NobodyBehind
  <2>1. u \in Vars /\ comp'[u].len \in Nat
    BY <1>4, <1>8 DEF CompOK
  <2>2. CASE u = v \/ w = v
    <3>1. u = w
      BY <1>3, <1>4, <2>1, <2>2
    <3> QED BY <2>1, <3>1
  <2>3. CASE u # v /\ w # v
    <3>1. u \in fresh /\ comp'[u] = comp[u] /\ comp'[w] = comp[w]
      BY <1>4, <2>1, <2>3
    <3> QED BY <3>1 DEF IInv, NobodyBehind
  <2> QED BY <2>2, <2>3
<1>10. ASSUME NEW w \in fresh' PROVE Contents(w)' = stamped'[w]
  <2>1. CASE w = v
    BY <1>2, <1>4, <1>6, <1>10, <2>1, SubSeqList DEF Contents
  <2>2. CASE w # v
    <3>1. w \in fresh /\ w \in Vars \ {v}
      BY <1>8, <1>10, <2>2
    <3>2. stamped'[w] = stamped[w] /\ stamped[w] = Contents(w)
      BY <1>10, <2>2, <3>1 DEF IInv, Isolated
    <3>3. comp'[w] = comp[w] /\ heap'[comp[w].arr] = h[comp[w].arr]
      BY <1>4, <1>6, <3>1
    <3>4. SubSeq(h[comp[w].arr].cells, 1, comp[w].len) = Contents(w)
      BY <3>1 DEF Spares
    <3>5. Contents(w)' = SubSeq(h[comp[w].arr].cells, 1, comp[w].len)
      BY <3>3 DEF Contents
    <3> QED BY <3>2, <3>4, <3>5
  <2> QED BY <2>1, <2>2
<1> QED
  BY <1>4, <1>5, <1>7, <1>8, <1>9, <1>10 DEF IInv, Isolated
-----------------------------------------------------------------------------
(* The operations.                                                         *)

LEMMA RefreshKeeps ==
    ASSUME IInv, NEW v \in Vars, NEW h, Spares(h, v), NEW props, IsList(props), Refresh(v, h, props)
    PROVE  IInv'
<1>1. IsList(Stamped(props))
  BY ReplacedList DEF Stamped
<1>2. PICK a \in Unused, cap \in SetCaps(props, Hash(props)) : Assign(v, h, a, Stamped(props), cap)
  BY DEF Refresh
<1>3. PICK U : stamped \in [Vars -> U]
  BY DEF IInv, StampedOK
<1>4. fresh' = fresh \cup {v} /\ stamped' = [stamped EXCEPT ![v] = Stamped(props)]
  BY DEF Refresh, Refreshed
<1>5. stamped' \in [Vars -> U \cup {Stamped(props)}] /\ stamped'[v] = Stamped(props)
      /\ \A w \in Vars \ {v} : stamped'[w] = stamped[w]
  BY <1>3, <1>4
<1>6. StampedOK' /\ \A w \in fresh' \ {v} : stamped'[w] = stamped[w]
  BY <1>4, <1>5 DEF StampedOK, IInv
<1> QED
  BY <1>1, <1>2, <1>4, <1>5, <1>6, AssignKeeps

LEMMA UnrefreshedKeeps ==
    ASSUME IInv, NEW v \in Vars, NEW a \in Unused, NEW props, IsList(props), NEW cap,
           Assign(v, heap, a, props, cap), Unrefreshed(v)
    PROVE  IInv'
<1>1. StampedOK'
  BY DEF IInv, StampedOK, Unrefreshed
<1>2. fresh' = fresh \ {v} /\ stamped' = stamped
  BY DEF Unrefreshed
<1> QED
  BY <1>1, <1>2, HeapSpares, AssignKeeps

\* Component.Add writes in place when there is room.
LEMMA AddKeeps == ASSUME IInv, NEW v \in Vars, NEW p, Add(v, p) PROVE IInv'
<1>1. CASE HasRoom(v)
  <2> DEFINE h == WrittenInPlace(v, p)
  <2>1. heap' = h /\ comp' = [comp EXCEPT ![v].len = @ + 1]
    BY <1>1 DEF Add
  <2>2. fresh' = fresh \ {v} /\ stamped' = stamped
    BY DEF Add, Unrefreshed
  <2>3. Spares(h, v) /\ comp[v].len + 1 <= Len(h[comp[v].arr].cells)
    BY AppendSpares
  <2> HIDE DEF h
  <2>4. /\ comp[v].arr \in Arrays /\ comp[v].len \in Nat
        /\ comp' \in [Vars -> [arr : Arrays, len : Nat]]
        /\ comp'[v] = [arr |-> comp[v].arr, len |-> comp[v].len + 1]
        /\ \A w \in Vars \ {v} : comp'[w] = comp[w]
    BY <2>1 DEF IInv, CompOK
  <2>5. CompOK' /\ HeapOK' /\ StampedOK' /\ fresh' \subseteq Vars
    BY <2>1, <2>2, <2>3, <2>4 DEF IInv, CompOK, HeapOK, StampedOK, Spares
  <2>6. InArray'
    BY <2>1, <2>3, <2>4 DEF InArray, Spares
  <2>7. NobodyBehind'
    <3> SUFFICES ASSUME NEW u \in fresh', NEW w \in Vars, comp'[w].arr = comp'[u].arr
                 PROVE  comp'[u].len <= comp'[w].len
      BY DEF NobodyBehind
    <3>1. u \in fresh /\ u # v /\ u \in Vars /\ comp'[u] = comp[u]
      BY <2>2, <2>4 DEF IInv
    <3>2. comp'[w].arr = comp[w].arr /\ comp[w].len <= comp'[w].len /\ comp[w].len \in Nat
          /\ comp'[w].len \in Nat /\ comp[u].len \in Nat
      BY <2>4, <3>1 DEF IInv, CompOK
    <3>3. comp[u].len <= comp[w].len
      BY <3>1, <3>2 DEF IInv, NobodyBehind
    <3> QED BY <3>1, <3>2, <3>3
  <2>8. ASSUME NEW w \in fresh' PROVE Contents(w)' = stamped'[w]
    <3>1. w \in fresh \ {v} /\ w \in Vars \ {v}
      BY <2>2, <2>8 DEF IInv
    <3>2. Contents(w)' = SubSeq(h[comp[w].arr].cells, 1, comp[w].len)
      BY <2>1, <2>4, <3>1 DEF Contents
    <3> QED BY <2>2, <2>3, <3>1, <3>2 DEF IInv, Isolated, Spares
  <2> QED BY <2>5, <2>6, <2>7, <2>8 DEF IInv, Isolated
<1>2. CASE ~HasRoom(v)
  <2>1. IsList(Append(Contents(v), p))
    BY ContentsList, AppendList
  <2>2. PICK a \in Unused, cap \in Grown(comp[v].len) :
            Assign(v, heap, a, Append(Contents(v), p), cap)
    BY <1>2 DEF Add
  <2> QED BY <2>1, <2>2, UnrefreshedKeeps DEF Add
<1> QED BY <1>1, <1>2

\* A copy shares the array and the length of the original, and is refreshed if the
\* original is.
LEMMA CopyKeeps == ASSUME IInv, NEW v \in Vars, NEW w \in Vars \ {v}, Copy(v, w) PROVE IInv'
<1>1. /\ comp' = [comp EXCEPT ![w] = comp[v]] /\ stamped' = [stamped EXCEPT ![w] = stamped[v]]
      /\ fresh' = IF v \in fresh THEN fresh \cup {w} ELSE fresh \ {w}
      /\ heap' = [b \in Arrays |-> IF \E u \in Vars \ {w} : comp[u].arr = b THEN heap[b] ELSE NoCells]
  BY DEF Copy
<1> DEFINE Of(u) == IF u = w THEN v ELSE u
<1>2. ASSUME NEW u \in Vars
      PROVE  /\ Of(u) \in Vars \ {w} /\ comp'[u] = comp[Of(u)] /\ stamped'[u] = stamped[Of(u)]
             /\ heap'[comp[Of(u)].arr] = heap[comp[Of(u)].arr]
             /\ u \in fresh' => Of(u) \in fresh
  BY <1>1 DEF IInv, CompOK, StampedOK
<1>3. CompOK' /\ fresh' \subseteq Vars
  BY <1>1 DEF IInv, CompOK
<1>4. StampedOK'
  BY <1>1 DEF IInv, StampedOK
<1>5. HeapOK'
  <2>1. PICK S, T : heap \in [Arrays -> [cells : Seq(S), cap : T]]
    BY DEF IInv, HeapOK, IsHeap
  <2>2. NoCells \in [cells : Seq(S), cap : T \cup {0}]
    BY DEF NoCells
  <2>3. heap' \in [Arrays -> [cells : Seq(S), cap : T \cup {0}]]
    BY <1>1, <2>1, <2>2
  <2> QED BY <2>3 DEF HeapOK, IsHeap
<1> HIDE DEF Of
<1>6. InArray' /\ NobodyBehind'
  BY <1>2, <1>3 DEF IInv, InArray, NobodyBehind
<1>7. Isolated'
  BY <1>2, <1>3 DEF IInv, Isolated, Contents
<1> QED BY <1>3, <1>4, <1>5, <1>6, <1>7 DEF IInv

-----------------------------------------------------------------------------
\* The operations keep the invariant.
LEMMA Invariant == Spec => []IInv
<1>1. Init => IInv
  <2> SUFFICES ASSUME Init PROVE IInv
    OBVIOUS
  <2>1. PICK a \in Arrays, props \in Initial, spare \in 0 .. 1 :
          /\ comp = [v \in Vars |-> [arr |-> a, len |-> Len(props)]]
          /\ heap = [b \in Arrays |-> IF b = a THEN [cells |-> props, cap |-> Len(props) + spare]
                                      ELSE NoCells]
    BY DEF Init
  <2>2. props \in Seq(Property) /\ Len(props) \in Nat
    BY PropSlicesAssumption
  <2>3. heap \in [Arrays -> [cells : Seq(Property), cap : Nat]]
    BY <2>1, <2>2 DEF NoCells
  <2>4. HeapOK
    BY <2>3 DEF HeapOK, IsHeap
  <2>5. CompOK /\ InArray
    BY <2>1, <2>2 DEF CompOK, InArray
  <2>6. fresh = {} /\ stamped \in [Vars -> {<< >>}]
    BY DEF Init
  <2> QED BY <2>4, <2>5, <2>6 DEF IInv, StampedOK, NobodyBehind, Isolated
<1>2. IInv /\ [Next]_vars => IInv'
  <2> SUFFICES ASSUME IInv, [Next]_vars PROVE IInv'
    OBVIOUS
  <2>1. ASSUME NEW v \in Vars, NEW w \in Vars \ {v}, Copy(v, w) PROVE IInv'
    BY <2>1, CopyKeeps
  <2>2. ASSUME NEW v \in Vars, NEW p, Set(v, p) PROVE IInv'
    BY <2>2, ContentsList, ReplacedList, UnrefreshedKeeps DEF Set
  <2>3. ASSUME NEW v \in Vars, NEW name, Remove(v, name) PROVE IInv'
    BY <2>3, ContentsList, WithoutList, UnrefreshedKeeps DEF Remove
  <2>4. ASSUME NEW v \in Vars, NEW u, Add(v, RelatedTo(u)) PROVE IInv'
    BY <2>4, AddKeeps
  <2>5. ASSUME NEW v \in Vars, NEW u, AddRelatedTo(v, u) PROVE IInv'
    BY <2>5, ContentsList, AppendList, HeapSpares, AppendSpares, RefreshKeeps DEF AddRelatedTo
  <2>6. ASSUME NEW v \in Vars, SetXVSTAR(v) \/ SetPriority(v) \/ RemovePriority(v) PROVE IInv'
    BY <2>6, ContentsList, ReplacedList, WithoutList, HeapSpares, RefreshKeeps
    DEF SetXVSTAR, SetPriority, RemovePriority
  <2>7. ASSUME NEW v \in Vars, NEW l, AddCategory(v, l) PROVE IInv'
    BY <2>7, ContentsList, ReplacedList, HeapSpares, RefreshKeeps DEF AddCategory
  <2>8. CASE UNCHANGED vars
    BY <2>8 DEF vars, IInv, HeapOK, CompOK, StampedOK, InArray, NobodyBehind, Isolated, Contents
  <2> QED
    BY <2>1, <2>2, <2>3, <2>4, <2>5, <2>6, <2>7, <2>8 DEF Next
<1> QED
  BY <1>1, <1>2, PTL DEF Spec

-----------------------------------------------------------------------------
(* What an operation on one variable shows in another.                     *)

\* The properties that w sees in the heap h.
Seen(h, w) == SubSeq(h[comp[w].arr].cells, 1, comp[w].len)

\* An append in place replaces the one property behind the end of v.
LEMMA AppendReaches ==
    ASSUME IInv, NEW v \in Vars, NEW p, NEW w \in Vars
    PROVE  \/ Seen(WrittenInPlace(v, p), w) = Contents(w)
           \/ /\ comp[v].arr = comp[w].arr /\ comp[v].len < comp[w].len
              /\ Seen(WrittenInPlace(v, p), w) = [Contents(w) EXCEPT ![comp[v].len + 1] = p]
<1> DEFINE a == comp[v].arr
           n == comp[v].len
           m == comp[w].len
           old == heap[a].cells
           new == IF n < Len(old) THEN [old EXCEPT ![n + 1] = p] ELSE Append(old, p)
           h == WrittenInPlace(v, p)
<1>1. PICK S, T : heap \in [Arrays -> [cells : Seq(S), cap : T]]
  BY DEF IInv, HeapOK, IsHeap
<1>2. /\ a \in Arrays /\ n \in Nat /\ n <= Len(old)
      /\ comp[w].arr \in Arrays /\ m \in Nat /\ m <= Len(heap[comp[w].arr].cells)
  BY DEF IInv, CompOK, InArray
<1>3. old \in Seq(S \cup {p}) /\ Len(old) \in Nat
  BY <1>1, <1>2
<1>4. h[a].cells = new /\ \A b \in Arrays \ {a} : h[b] = heap[b]
  BY <1>1, <1>2 DEF WrittenInPlace
<1> HIDE DEF h
<1>5. CASE comp[w].arr # a
  <2>1. h[comp[w].arr] = heap[comp[w].arr]
    BY <1>2, <1>4, <1>5
  <2> QED BY <2>1 DEF Seen, Contents, h
<1>6. CASE comp[w].arr = a
  <2>1. Contents(w) = SubSeq(old, 1, m) /\ Seen(h, w) = SubSeq(new, 1, m) /\ m <= Len(old)
    BY <1>2, <1>4, <1>6 DEF Seen, Contents
  <2> HIDE DEF a, n, m, old
  <2>2. CASE m <= n
    <3>1. SubSeq(new, 1, m) = SubSeq(old, 1, m)
      <4>1. CASE n < Len(old)
        BY <1>2, <1>3, <2>1, <2>2, <4>1
      <4>2. CASE ~(n < Len(old))
        BY <1>2, <1>3, <2>1, <2>2, <4>2
      <4> QED BY <4>1, <4>2
    <3> QED BY <2>1, <3>1 DEF h
  <2>3. CASE n < m
    <3>1. n < Len(old) /\ new = [old EXCEPT ![n + 1] = p]
      BY <1>2, <1>3, <2>1, <2>3
    <3> HIDE DEF new
    <3>2. SubSeq(new, 1, m) = [SubSeq(old, 1, m) EXCEPT ![n + 1] = p]
      <4> DEFINE s == SubSeq(old, 1, m)
                 t == SubSeq(new, 1, m)
      <4>1. new \in Seq(S \cup {p}) /\ Len(new) = Len(old) /\ n + 1 \in 1 .. m
        BY <1>2, <1>3, <2>3, <3>1
      <4>2. s \in Seq(S \cup {p}) /\ Len(s) = m /\ \A j \in 1 .. m : s[j] = old[j]
        BY <1>2, <1>3, <2>1
      <4>3. t \in Seq(S \cup {p}) /\ Len(t) = m /\ \A j \in 1 .. m : t[j] = new[j]
        BY <1>2, <1>3, <2>1, <4>1
      <4>4. ASSUME NEW j \in 1 .. m PROVE new[j] = IF j = n + 1 THEN p ELSE old[j]
        BY <1>2, <1>3, <2>1, <3>1
      <4> HIDE DEF s, t
      <4>5. [s EXCEPT ![n + 1] = p] \in Seq(S \cup {p}) /\ Len([s EXCEPT ![n + 1] = p]) = m
            /\ \A j \in 1 .. m : [s EXCEPT ![n + 1] = p][j] = IF j = n + 1 THEN p ELSE s[j]
        BY <4>1, <4>2
      <4>6. \A j \in 1 .. m : [s EXCEPT ![n + 1] = p][j] = t[j]
        BY <4>2, <4>3, <4>4, <4>5
      <4> HIDE DEF m
      <4> DEFINE e == [s EXCEPT ![n + 1] = p]
      <4> HIDE DEF e
      <4>7. e = t
        BY <4>3, <4>5, <4>6, SeqEqual DEF e
      <4> QED BY <4>7 DEF e, s, t
    <3> QED BY <1>6, <2>1, <2>3, <3>2 DEF h, a, n, m
  <2> QED BY <1>2, <2>2, <2>3
<1> QED BY <1>5, <1>6

\* A slice that moves to an array of its own leaves what the others see of h.
LEMMA AssignReaches ==
    ASSUME IInv, NEW v \in Vars, NEW h, NEW a \in Unused, NEW props, NEW cap, Assign(v, h, a, props, cap)
    PROVE  /\ comp'[v] # comp[v]
           /\ \A w \in Vars : comp'[w] = comp[w] => Contents(w)' = Seen(h, w)
<1>1. a \in Arrays /\ \A w \in Vars : comp[w].arr # a /\ comp[w].arr \in Arrays
  BY DEF Unused, IInv, CompOK
<1>2. comp'[v].arr = a
  BY DEF IInv, CompOK, Assign
<1>3. ASSUME NEW w \in Vars \ {v} PROVE heap'[comp[w].arr] = h[comp[w].arr]
  BY <1>1 DEF Assign
<1>4. ASSUME NEW w \in Vars, comp'[w] = comp[w] PROVE Contents(w)' = Seen(h, w)
  BY <1>1, <1>2, <1>3, <1>4 DEF Contents, Seen
<1> QED BY <1>1, <1>2, <1>4

\* Next to an operation that takes nothing from the others, an append is the one thing
\* that another variable can see.
Reaches(v) ==
    (Contents(v)' # Contents(v) /\ comp'[v] = comp[v]) =>
        \E w \in Vars, u \in Uids :
            /\ comp'[w] # comp[w]
            /\ comp[w].arr = comp[v].arr /\ comp[w].len < comp[v].len
            /\ Contents(v)' = [Contents(v) EXCEPT ![comp[w].len + 1] = RelatedTo(u)]

LEMMA FromTheHeap ==
    ASSUME IInv, NEW v \in Vars, NEW a \in Unused, NEW props, NEW cap, Assign(v, heap, a, props, cap)
    PROVE  \A w \in Vars : Reaches(w)
BY AssignReaches DEF Seen, Contents, Reaches

LEMMA FromTheAppend ==
    ASSUME IInv, NEW v \in Vars, NEW u \in Uids, NEW w \in Vars, comp'[v] # comp[v],
           comp'[w] = comp[w] => Contents(w)' = Seen(WrittenInPlace(v, RelatedTo(u)), w)
    PROVE  Reaches(w)
<1> SUFFICES ASSUME Contents(w)' # Contents(w), comp'[w] = comp[w]
             PROVE  \E x \in Vars, y \in Uids :
                       /\ comp'[x] # comp[x]
                       /\ comp[x].arr = comp[w].arr /\ comp[x].len < comp[w].len
                       /\ Contents(w)' = [Contents(w) EXCEPT ![comp[x].len + 1] = RelatedTo(y)]
  BY DEF Reaches
<1>1. /\ comp[v].arr = comp[w].arr /\ comp[v].len < comp[w].len
      /\ Contents(w)' = [Contents(w) EXCEPT ![comp[v].len + 1] = RelatedTo(u)]
  BY AppendReaches
<1> QED BY <1>1

\* What one variable sees changes through another by an append only, on a property
\* that the other one had added to its copy before.
THEOREM OnlyAppendsReach == Spec => OnlyAppendReachesOthers
<1>1. IInv /\ [Next]_vars => [\A v \in Vars : Reaches(v)]_vars
  <2> SUFFICES ASSUME IInv, Next PROVE \A v \in Vars : Reaches(v)
    OBVIOUS
  <2>1. ASSUME NEW v \in Vars, NEW w \in Vars \ {v}, Copy(v, w) PROVE \A x \in Vars : Reaches(x)
    <3> SUFFICES ASSUME NEW x \in Vars, comp'[x] = comp[x] PROVE Contents(x)' = Contents(x)
      BY DEF Reaches
    <3>1. \E y \in Vars \ {w} : comp[y].arr = comp[x].arr
      BY <2>1 DEF Copy, IInv, CompOK
    <3>2. heap'[comp[x].arr] = heap[comp[x].arr]
      BY <2>1, <3>1 DEF Copy, IInv, CompOK
    <3> QED BY <3>2 DEF Contents
  <2>2. ASSUME NEW v \in Vars, NEW p, NEW name, Set(v, p) \/ Remove(v, name)
        PROVE  \A w \in Vars : Reaches(w)
    BY <2>2, FromTheHeap DEF Set, Remove
  <2>3. ASSUME NEW v \in Vars, NEW u \in Uids, Add(v, RelatedTo(u)), NEW w \in Vars PROVE Reaches(w)
    <3>1. CASE HasRoom(v)
      <4>1. heap' = WrittenInPlace(v, RelatedTo(u)) /\ comp' = [comp EXCEPT ![v].len = @ + 1]
        BY <2>3, <3>1 DEF Add
      <4>2. comp'[v] # comp[v]
        BY <4>1 DEF IInv, CompOK
      <4>3. comp'[w] = comp[w] => Contents(w)' = Seen(WrittenInPlace(v, RelatedTo(u)), w)
        BY <4>1 DEF Contents, Seen
      <4> QED BY <4>2, <4>3, FromTheAppend
    <3>2. CASE ~HasRoom(v)
      BY <2>3, <3>2, FromTheHeap DEF Add
    <3> QED BY <3>1, <3>2
  <2>4. ASSUME NEW v \in Vars, NEW u \in Uids, AddRelatedTo(v, u), NEW w \in Vars PROVE Reaches(w)
    <3>1. CASE HasRoom(v)
      <4>1. PICK a \in Unused : \E props, cap : Assign(v, WrittenInPlace(v, RelatedTo(u)), a, props, cap)
        BY <2>4, <3>1 DEF AddRelatedTo, Refresh
      <4>2. PICK props, cap : Assign(v, WrittenInPlace(v, RelatedTo(u)), a, props, cap)
        BY <4>1
      <4> QED BY <4>2, AssignReaches, FromTheAppend
    <3>2. CASE ~HasRoom(v)
      BY <2>4, <3>2, FromTheHeap DEF AddRelatedTo, Refresh
    <3> QED BY <3>1, <3>2
  <2>5. ASSUME NEW v \in Vars, NEW props, Refresh(v, heap, props) PROVE \A w \in Vars : Reaches(w)
    BY <2>5, FromTheHeap DEF Refresh
  <2>6. ASSUME NEW v \in Vars, NEW l,
               SetXVSTAR(v) \/ SetPriority(v) \/ RemovePriority(v) \/ AddCategory(v, l)
        PROVE  \A w \in Vars : Reaches(w)
    BY <2>5, <2>6 DEF SetXVSTAR, SetPriority, RemovePriority, AddCategory
  <2> QED
    BY <2>1, <2>2, <2>3, <2>4, <2>6 DEF Next
<1>2. [\A v \in Vars : Reaches(v)]_vars =>
        [\A v \in Vars :
           (Contents(v)' # Contents(v) /\ comp'[v] = comp[v]) =>
              \E w \in Vars, u \in Uids :
                 /\ comp'[w] # comp[w]
                 /\ comp[w].arr = comp[v].arr /\ comp[w].len < comp[v].len
                 /\ Contents(v)' = [Contents(v) EXCEPT ![comp[w].len + 1] = RelatedTo(u)]]_vars
  BY DEF Reaches
<1> QED
  BY <1>1, <1>2, Invariant, PTL DEF Spec, OnlyAppendReachesOthers
-----------------------------------------------------------------------------
(* What removing and replacing does to the properties, as a multiset.      *)

\* How often x is a property of s.
Count(s, x) == Cardinality({k \in 1 .. Len(s) : s[k] = x})

\* Nth enumerates a finite set of positions, each of them once.
LEMMA NthEnumerates ==
    ASSUME NEW S \in SUBSET Nat, IsFiniteSet(S)
    PROVE  /\ Cardinality(S) \in Nat
           /\ \A i \in 1 .. Cardinality(S) : Nth(S, i) \in S
           /\ \A i, j \in 1 .. Cardinality(S) : Nth(S, i) = Nth(S, j) => i = j
           /\ \A k \in S : \E i \in 1 .. Cardinality(S) : Nth(S, i) = k
<1> DEFINE upTo(k) == {j \in S : j <= k}
           rank(k) == Cardinality(upTo(k))
           N == Cardinality(S)
           f == [k \in S |-> rank(k)]
<1>1. N \in Nat
  BY FS_CardinalityType
<1>2. ASSUME NEW k \in S PROVE rank(k) \in 1 .. N /\ rank(k) \in Nat /\ IsFiniteSet(upTo(k))
  <2>1. upTo(k) \in SUBSET S /\ k \in upTo(k)
    OBVIOUS
  <2> HIDE DEF upTo
  <2>2. IsFiniteSet(upTo(k)) /\ Cardinality(upTo(k)) <= N
    BY <2>1, FS_Subset
  <2>3. Cardinality(upTo(k)) \in Nat /\ Cardinality(upTo(k)) # 0
    BY <2>1, <2>2, FS_CardinalityType, FS_EmptySet
  <2> QED BY <1>1, <2>2, <2>3
<1>3. ASSUME NEW k \in S, NEW l \in S, k < l PROVE rank(k) < rank(l)
  <2>0. k \in Nat /\ l \in Nat /\ \A j \in S : j \in Nat
    OBVIOUS
  <2>1. upTo(k) \in SUBSET upTo(l) /\ l \in upTo(l) /\ l \notin upTo(k)
    <3>1. \A j \in S : j <= k => j <= l
      BY <1>3, <2>0
    <3>2. l <= l /\ ~(l <= k)
      BY <1>3, <2>0
    <3> QED BY <3>1, <3>2
  <2> HIDE DEF upTo
  <2>2. Cardinality(upTo(k)) <= Cardinality(upTo(l)) /\ Cardinality(upTo(l)) # Cardinality(upTo(k))
    BY <1>2, <2>1, FS_Subset
  <2> QED BY <1>2, <2>2
<1> HIDE DEF rank
<1>4. ASSUME NEW k \in S, NEW l \in S, rank(k) = rank(l) PROVE k = l
  <2>1. k < l \/ l < k \/ k = l
    <3>1. k \in Nat /\ l \in Nat
      OBVIOUS
    <3> QED BY <3>1
  <2>2. rank(k) \in Nat /\ rank(l) \in Nat
    BY <1>2
  <2> QED BY <1>3, <1>4, <2>1, <2>2
<1>5. f \in Injection(S, 1 .. N)
  <2>1. f \in [S -> 1 .. N]
    BY <1>2
  <2>2. \A k, l \in S : f[k] = f[l] => k = l
    BY <1>4
  <2> QED BY <2>1, <2>2 DEF Injection, IsInjective
<1>6. f \in Surjection(S, 1 .. N)
  <2>1. IsFiniteSet(1 .. N) /\ Cardinality(1 .. N) = N
    BY <1>1, FS_Interval
  <2> HIDE DEF f
  <2> QED BY <1>5, <2>1, FS_Injection
<1>7. \A i \in 1 .. N : \E k \in S : rank(k) = i
  BY <1>6 DEF Surjection
<1>8. ASSUME NEW i \in 1 .. N PROVE Nth(S, i) \in S /\ rank(Nth(S, i)) = i
  BY <1>7 DEF Nth, rank
<1>9. ASSUME NEW k \in S PROVE rank(k) \in 1 .. N /\ Nth(S, rank(k)) = k
  BY <1>2, <1>4, <1>8
<1> HIDE DEF f
<1> QED BY <1>1, <1>8, <1>9

LEMMA CountFinite ==
    ASSUME NEW s, IsList(s), NEW x
    PROVE  IsFiniteSet({k \in 1 .. Len(s) : s[k] = x}) /\ Count(s, x) \in Nat
<1>1. Len(s) \in Nat
  BY DEF IsList
<1> DEFINE A == {k \in 1 .. Len(s) : s[k] = x}
<1>2. IsFiniteSet(1 .. Len(s)) /\ A \in SUBSET (1 .. Len(s))
  BY <1>1, FS_Interval
<1>3. IsFiniteSet(A)
  <2> HIDE DEF A
  <2> QED BY <1>2, FS_Subset
<1>4. Cardinality(A) \in Nat
  <2> HIDE DEF A
  <2> QED BY <1>3, FS_CardinalityType
<1> QED BY <1>3, <1>4 DEF Count

LEMMA CountAppend ==
    ASSUME NEW s, IsList(s), NEW e, NEW x
    PROVE  Count(Append(s, e), x) = IF e = x THEN Count(s, x) + 1 ELSE Count(s, x)
<1> DEFINE t == Append(s, e)
           A == {k \in 1 .. Len(s) : s[k] = x}
           B == {k \in 1 .. Len(t) : t[k] = x}
<1>1. PICK S : s \in Seq(S)
  BY DEF IsList
<1>2. /\ Len(s) \in Nat /\ Len(t) = Len(s) + 1 /\ t[Len(s) + 1] = e
      /\ \A k \in 1 .. Len(s) : t[k] = s[k]
  <2>1. s \in Seq(S \cup {e}) /\ e \in S \cup {e}
    BY <1>1
  <2> QED BY <2>1
<1> HIDE DEF t
<1>3. B = IF e = x THEN A \cup {Len(s) + 1} ELSE A
  <2>1. \A k : k \in 1 .. Len(t) <=> k \in 1 .. Len(s) \/ k = Len(s) + 1
    BY <1>2
  <2>2. \A k : k \in B <=> k \in A \/ (k = Len(s) + 1 /\ e = x)
    BY <1>2, <2>1
  <2> HIDE DEF A, B
  <2>3. CASE e = x
    BY <2>2, <2>3
  <2>4. CASE e # x
    BY <2>2, <2>4
  <2> QED BY <2>3, <2>4
<1>4. IsFiniteSet(A) /\ Len(s) + 1 \notin A
  <2>1. Len(s) + 1 \notin A
    BY <1>2
  <2> QED BY <2>1, CountFinite
<1> HIDE DEF A, B
<1>5. Cardinality(B) = IF e = x THEN Cardinality(A) + 1 ELSE Cardinality(A)
  BY <1>3, <1>4, FS_AddElement
<1> QED BY <1>5 DEF Count, A, B, t

LEMMA CountConcat ==
    ASSUME NEW s, NEW t, IsList(s), IsList(t), NEW x
    PROVE  Count(s \o t, x) = Count(s, x) + Count(t, x) /\ Len(s \o t) = Len(s) + Len(t)
<1>1. PICK S : s \in Seq(S)
  BY DEF IsList
<1>2. PICK T : t \in Seq(T)
  BY DEF IsList
<1>3. s \in Seq(S \cup T) /\ t \in Seq(S \cup T)
  BY <1>1, <1>2
<1> DEFINE m == Len(s)
           n == Len(t)
           A == {k \in 1 .. m : s[k] = x}
           B == {k \in 1 .. n : t[k] = x}
           C == {k \in m + 1 .. m + n : t[k - m] = x}
           D == {k \in 1 .. Len(s \o t) : (s \o t)[k] = x}
<1>4. /\ m \in Nat /\ n \in Nat /\ Len(s \o t) = m + n
      /\ \A k \in 1 .. m + n : (s \o t)[k] = IF k <= m THEN s[k] ELSE t[k - m]
  BY <1>3, ConcatProperties
<1>5. D = A \cup C /\ A \cap C = {}
  <2>1. ASSUME NEW k \in D PROVE k \in A \cup C
    BY <1>4
  <2>2. ASSUME NEW k \in A \cup C PROVE k \in D
    BY <1>4
  <2>3. \A k \in A : k \notin C
    BY <1>4
  <2> QED BY <2>1, <2>2, <2>3
<1>6. IsFiniteSet(A) /\ IsFiniteSet(B)
  BY CountFinite
<1>7. ExistsBijection(B, C)
  <2> DEFINE g == [k \in B |-> k + m]
  <2>1. g \in [B -> C]
    BY <1>4
  <2>2. \A k, l \in B : g[k] = g[l] => k = l
    BY <1>4
  <2>3. \A k \in C : k - m \in B /\ g[k - m] = k
    BY <1>4
  <2>4. \A k \in C : \E l \in B : g[l] = k
    BY <2>3
  <2> HIDE DEF B, C, g
  <2> QED BY <2>1, <2>2, <2>4 DEF ExistsBijection, Bijection, Injection, Surjection, IsInjective
<1> HIDE DEF A, B, C, D
<1>8. IsFiniteSet(C) /\ Cardinality(C) = Cardinality(B)
  BY <1>6, <1>7, FS_Bijection
<1>9. Cardinality(D) = Cardinality(A) + Cardinality(C) - Cardinality({})
  BY <1>5, <1>6, <1>8, FS_Union
<1>10. Cardinality({}) = 0 /\ Cardinality(A) \in Nat /\ Cardinality(C) \in Nat
  BY <1>6, <1>8, FS_EmptySet, FS_CardinalityType
<1>11. Cardinality(D) = Cardinality(A) + Cardinality(B)
  BY <1>8, <1>9, <1>10
<1> QED BY <1>4, <1>11 DEF Count, A, B, D

\* A list is put together of its two parts.
LEMMA CountParts ==
    ASSUME NEW s, IsList(s), NEW f \in 1 .. Len(s), NEW x
    PROVE  Count(s, x) = Count(SubSeq(s, 1, f), x) + Count(SubSeq(s, f + 1, Len(s)), x)
<1>1. PICK S : s \in Seq(S)
  BY DEF IsList
<1> DEFINE a == SubSeq(s, 1, f)
           b == SubSeq(s, f + 1, Len(s))
<1>2. a \in Seq(S) /\ b \in Seq(S)
  BY <1>1
<1>3. /\ Len(s) \in Nat /\ Len(a) = f /\ Len(b) = Len(s) - f
      /\ \A k \in 1 .. f : a[k] = s[k]
      /\ \A k \in 1 .. Len(s) - f : b[k] = s[f + k]
  BY <1>1
<1> HIDE DEF a, b
<1>4. /\ a \o b \in Seq(S) /\ Len(a \o b) = Len(s)
      /\ \A k \in 1 .. Len(s) : (a \o b)[k] = IF k <= f THEN a[k] ELSE b[k - f]
  <2>1. /\ a \o b \in Seq(S) /\ Len(a \o b) = Len(a) + Len(b)
        /\ \A k \in 1 .. Len(a) + Len(b) : (a \o b)[k] = IF k <= Len(a) THEN a[k] ELSE b[k - Len(a)]
    BY <1>2, ConcatProperties
  <2>2. Len(a) + Len(b) = Len(s)
    BY <1>3
  <2> QED BY <1>3, <2>1, <2>2
<1>5. \A k \in 1 .. Len(s) : (a \o b)[k] = s[k]
  BY <1>3, <1>4
<1>6. a \o b = s
  BY <1>1, <1>4, <1>5, SeqEqual
<1>7. IsList(a) /\ IsList(b)
  BY <1>2 DEF IsList
<1> QED BY <1>6, <1>7, CountConcat DEF a, b

\* Component.Remove takes the properties of that name and no other.
LEMMA WithoutIs ==
    ASSUME NEW s, IsList(s), NEW name
    PROVE  LET w == Without(s, name)
           IN  /\ IsList(w) /\ Len(w) <= Len(s)
               /\ Named(s, name) # {} => Len(w) < Len(s)
               /\ Named(w, name) = {}
               /\ \A x : x.name # name => Count(w, x) = Count(s, x)
<1> DEFINE kept == DOMAIN s \ Named(s, name)
           w == Without(s, name)
           N == Cardinality(kept)
<1>1. Len(s) \in Nat /\ DOMAIN s = 1 .. Len(s)
  BY DEF IsList
<1>2. IsFiniteSet(1 .. Len(s)) /\ Cardinality(1 .. Len(s)) = Len(s) /\ kept \in SUBSET (1 .. Len(s))
  <2>1. kept \in SUBSET (1 .. Len(s))
    BY <1>1
  <2>2. IsFiniteSet(1 .. Len(s)) /\ Cardinality(1 .. Len(s)) = Len(s)
    <3> DEFINE n == Len(s)
    <3>1. n \in Nat
      BY <1>1
    <3> HIDE DEF n
    <3>2. IsFiniteSet(1 .. n) /\ Cardinality(1 .. n) = n
      BY <3>1, FS_Interval
    <3> QED BY <3>2 DEF n
  <2> QED BY <2>1, <2>2
<1>3. \A k \in 1 .. Len(s) : k \in kept <=> s[k].name # name
  BY <1>1 DEF Named
<1>4. Named(s, name) # {} => kept # 1 .. Len(s)
  BY <1>1 DEF Named
<1>5. w = [i \in 1 .. N |-> s[Nth(kept, i)]]
  BY DEF Without
<1> HIDE DEF kept, w
<1>6. IsFiniteSet(kept) /\ N <= Len(s) /\ (Named(s, name) # {} => N # Len(s))
  BY <1>2, <1>4, FS_Subset
<1>7. kept \in SUBSET Nat
  BY <1>1, <1>2
<1>8. /\ N \in Nat
      /\ \A i \in 1 .. N : Nth(kept, i) \in kept
      /\ \A i, j \in 1 .. N : Nth(kept, i) = Nth(kept, j) => i = j
      /\ \A k \in kept : \E i \in 1 .. N : Nth(kept, i) = k
  BY <1>6, <1>7, NthEnumerates
<1> HIDE DEF N
<1>9. IsList(w) /\ Len(w) = N /\ DOMAIN w = 1 .. N
  <2> DEFINE S == {s[Nth(kept, i)] : i \in 1 .. N}
  <2>1. [i \in 1 .. N |-> s[Nth(kept, i)]] \in Seq(S)
    <3>1. N \in Nat
      BY <1>8
    <3> QED BY <3>1
  <2>2. w \in Seq(S)
    BY <1>5, <2>1
  <2>3. N \in Nat
    BY <1>8
  <2>4. Len(w) = N /\ DOMAIN w = 1 .. N
    BY <1>5, <2>3
  <2> QED BY <2>2, <2>4 DEF IsList
<1>10. Named(w, name) = {}
  BY <1>2, <1>3, <1>5, <1>8, <1>9 DEF Named
<1>11. ASSUME NEW x, x.name # name PROVE Count(w, x) = Count(s, x)
  <2> DEFINE A == {i \in 1 .. Len(w) : w[i] = x}
             B == {k \in 1 .. Len(s) : s[k] = x}
             g == [i \in A |-> Nth(kept, i)]
  <2>1. g \in [A -> B]
    BY <1>2, <1>5, <1>8, <1>9
  <2>2. \A i, j \in A : g[i] = g[j] => i = j
    BY <1>8, <1>9
  <2>3. ASSUME NEW k \in B PROVE \E i \in A : g[i] = k
    <3>1. k \in kept
      BY <1>3, <1>11
    <3>2. PICK i \in 1 .. N : Nth(kept, i) = k
      BY <1>8, <3>1
    <3>3. i \in A
      BY <1>5, <1>9, <3>2
    <3> QED BY <3>2, <3>3
  <2>4. IsFiniteSet(A)
    BY <1>9, CountFinite
  <2> HIDE DEF A, B, g
  <2>5. ExistsBijection(A, B)
    BY <2>1, <2>2, <2>3 DEF ExistsBijection, Bijection, Injection, Surjection, IsInjective
  <2>6. Cardinality(B) = Cardinality(A)
    BY <2>4, <2>5, FS_Bijection
  <2> QED BY <2>6 DEF Count, A, B
<1>12. Len(w) <= Len(s) /\ (Named(s, name) # {} => Len(w) < Len(s))
  <2>1. Len(s) \in Nat /\ N \in Nat /\ Len(w) = N
    BY <1>1, <1>8, <1>9
  <2> QED BY <1>6, <2>1
<1> QED BY <1>9, <1>10, <1>11, <1>12 DEF w

\* Component.Set leaves one property of the name, the new one, and all of the others.
LEMMA ReplacedIs ==
    ASSUME NEW s, IsList(s), NEW p
    PROVE  LET r == Replaced(s, p)
           IN  /\ IsList(r) /\ Len(r) <= Len(s) + 1
               /\ Named(s, p.name) # {} => Len(r) <= Len(s)
               /\ \E k \in 1 .. Len(r) : Named(r, p.name) = {k} /\ r[k] = p
               /\ \A x : x.name # p.name => Count(r, x) = Count(s, x)
<1> DEFINE r == Replaced(s, p)
<1>0. Len(s) \in Nat /\ IsList(r)
  BY ReplacedList DEF IsList
<1>1. CASE Named(s, p.name) = {}
  <2>1. r = Append(s, p)
    BY <1>1 DEF Replaced
  <2>2. /\ Len(r) = Len(s) + 1 /\ r[Len(s) + 1] = p /\ DOMAIN r = 1 .. Len(s) + 1
        /\ \A k \in 1 .. Len(s) : r[k] = s[k]
    <3>1. PICK S : s \in Seq(S)
      BY DEF IsList
    <3>2. s \in Seq(S \cup {p}) /\ p \in S \cup {p}
      BY <3>1
    <3>3. DOMAIN Append(s, p) = 1 .. Len(s) + 1 /\ Len(Append(s, p)) = Len(s) + 1
      BY <3>2
    <3>4. Append(s, p)[Len(s) + 1] = p /\ \A k \in 1 .. Len(s) : Append(s, p)[k] = s[k]
      BY <3>2
    <3> QED BY <2>1, <3>3, <3>4
  <2> HIDE DEF r
  <2>3. Named(r, p.name) = {Len(s) + 1}
    <3>1. \A k \in 1 .. Len(s) : s[k].name # p.name
      BY <1>1 DEF Named, IsList
    <3>2. \A k \in 1 .. Len(s) + 1 : k \in 1 .. Len(s) \/ k = Len(s) + 1
      BY <1>0
    <3>3. Len(s) + 1 \in 1 .. Len(s) + 1
      BY <1>0
    <3> QED BY <2>2, <3>1, <3>2, <3>3 DEF Named
  <2>4. ASSUME NEW x, x.name # p.name PROVE Count(r, x) = Count(s, x)
    <3>1. p # x
      BY <2>4
    <3> QED BY <2>1, <3>1, CountAppend
  <2>5. Len(s) + 1 \in 1 .. Len(r) /\ Len(r) <= Len(s) + 1
    BY <1>0, <2>2
  <2> QED BY <1>0, <1>1, <2>2, <2>3, <2>4, <2>5 DEF r
<1>2. CASE Named(s, p.name) # {}
  <2> DEFINE f == FirstOf(s, p.name)
             front == SubSeq(s, 1, f)
             back == SubSeq(s, f + 1, Len(s))
             before == Without(front, p.name)
             after  == Without(back, p.name)
             m == Len(before)
             left == Append(before, p)
  <2>1. f \in 1 .. Len(s) /\ f \in Named(s, p.name) /\ s[f].name = p.name
    <3>1. f \in Named(s, p.name)
      BY <1>2, FirstIsPosition
    <3> QED BY <3>1 DEF Named, IsList
  <2>2. r = left \o after
    BY <1>2 DEF Replaced
  <2> HIDE DEF r, f
  <2>3. /\ IsList(front) /\ IsList(back) /\ Len(front) = f /\ Len(back) = Len(s) - f /\ front[f] = s[f]
    <3>1. PICK S : s \in Seq(S)
      BY DEF IsList
    <3>2. front \in Seq(S) /\ back \in Seq(S)
      BY <1>0, <2>1, <3>1
    <3>3. Len(front) = f /\ Len(back) = Len(s) - f /\ front[f] = s[f]
      BY <1>0, <2>1, <3>1
    <3> QED BY <3>2, <3>3 DEF IsList
  <2>4. Named(front, p.name) # {}
    <3>1. f \in DOMAIN front
      BY <2>1, <2>3 DEF IsList
    <3> QED BY <2>1, <2>3, <3>1 DEF Named
  <2>5. \A x : x.name # p.name => Count(s, x) = Count(front, x) + Count(back, x)
    BY <2>1, CountParts
  <2> HIDE DEF front, back
  <2>6. /\ IsList(before) /\ m < Len(front) /\ Named(before, p.name) = {}
        /\ \A x : x.name # p.name => Count(before, x) = Count(front, x)
    BY <2>3, <2>4, WithoutIs
  <2>7. /\ IsList(after) /\ Len(after) <= Len(back) /\ Named(after, p.name) = {}
        /\ \A x : x.name # p.name => Count(after, x) = Count(back, x)
    BY <2>3, WithoutIs
  <2> HIDE DEF before, after
  <2>8. /\ IsList(left) /\ Len(left) = m + 1 /\ m \in Nat /\ Len(after) \in Nat
        /\ left[m + 1] = p /\ \A k \in 1 .. m : left[k] = before[k]
    <3>1. PICK S : before \in Seq(S)
      BY <2>6 DEF IsList
    <3>2. before \in Seq(S \cup {p}) /\ p \in S \cup {p}
      BY <3>1
    <3>3. left[m + 1] = p /\ \A k \in 1 .. m : left[k] = before[k]
      BY <3>2
    <3>4. m \in Nat /\ Len(after) \in Nat
      BY <2>6, <2>7 DEF IsList
    <3> QED BY <2>6, <3>3, <3>4, AppendList
  <2>9. \A x : x.name # p.name => Count(left, x) = Count(before, x)
    <3> TAKE x
    <3> HAVE x.name # p.name
    <3>1. p # x
      OBVIOUS
    <3> QED BY <2>6, <3>1, CountAppend
  <2> HIDE DEF left, m
  <2>10. ASSUME NEW x, x.name # p.name PROVE Count(r, x) = Count(s, x)
    <3>1. Count(r, x) = Count(left, x) + Count(after, x)
      BY <2>2, <2>7, <2>8, CountConcat
    <3> QED BY <2>5, <2>6, <2>7, <2>9, <2>10, <3>1
  <2>11. /\ Len(r) = m + 1 + Len(after) /\ DOMAIN r = 1 .. Len(r)
         /\ \A k \in 1 .. m + 1 : r[k] = left[k]
         /\ \A k \in 1 .. Len(after) : r[m + 1 + k] = after[k]
    <3>1. PICK S : left \in Seq(S)
      BY <2>8 DEF IsList
    <3>2. PICK T : after \in Seq(T)
      BY <2>7 DEF IsList
    <3>3. left \in Seq(S \cup T) /\ after \in Seq(S \cup T)
      BY <3>1, <3>2
    <3>4. /\ r \in Seq(S \cup T) /\ Len(r) = Len(left) + Len(after)
          /\ \A k \in 1 .. Len(left) + Len(after) :
                r[k] = IF k <= Len(left) THEN left[k] ELSE after[k - Len(left)]
      BY <2>2, <3>3, ConcatProperties
    <3>5. \A k \in 1 .. m + 1 : r[k] = left[k]
      BY <2>8, <3>4
    <3>6. \A k \in 1 .. Len(after) : r[m + 1 + k] = after[k]
      BY <2>8, <3>4
    <3> QED BY <2>8, <3>4, <3>5, <3>6
  <2>12. Named(r, p.name) = {m + 1} /\ r[m + 1] = p /\ m + 1 \in 1 .. Len(r)
    <3>1. \A k \in 1 .. m : r[k].name # p.name
      <4>1. \A k \in 1 .. m : before[k].name # p.name /\ k \in 1 .. m + 1
        <5>1. DOMAIN before = 1 .. m
          BY <2>6 DEF IsList, m
        <5> QED BY <2>6, <2>8, <5>1 DEF Named
      <4> QED BY <2>8, <2>11, <4>1
    <3>2. \A k \in 1 .. Len(after) : r[m + 1 + k].name # p.name
      <4>1. DOMAIN after = 1 .. Len(after)
        BY <2>7 DEF IsList
      <4>2. \A k \in 1 .. Len(after) : after[k].name # p.name
        BY <2>7, <4>1 DEF Named
      <4> TAKE k \in 1 .. Len(after)
      <4>3. r[m + 1 + k] = after[k]
        BY <2>11
      <4> QED BY <4>2, <4>3
    <3>3. \A k \in 1 .. Len(r) :
             k \in 1 .. m \/ k = m + 1 \/ \E j \in 1 .. Len(after) : k = m + 1 + j
      <4> TAKE k \in 1 .. Len(r)
      <4>1. CASE k <= m + 1
        BY <2>8, <4>1
      <4>2. CASE k > m + 1
        <5>1. k - (m + 1) \in 1 .. Len(after) /\ k = m + 1 + (k - (m + 1))
          BY <2>8, <2>11, <4>2
        <5> QED BY <5>1
      <4> QED BY <2>8, <4>1, <4>2
    <3>4. m + 1 \in 1 .. Len(r) /\ m + 1 \in 1 .. m + 1
      BY <2>8, <2>11
    <3>5. r[m + 1] = p
      BY <2>8, <2>11, <3>4
    <3> QED BY <2>11, <3>1, <3>2, <3>3, <3>4, <3>5 DEF Named
  <2>13. Len(r) <= Len(s) /\ Len(r) <= Len(s) + 1
    BY <1>0, <2>1, <2>3, <2>6, <2>7, <2>8, <2>11
  <2> QED BY <1>0, <2>10, <2>12, <2>13 DEF r
<1> QED BY <1>1, <1>2

\* The digest depends on how often each of the other properties is there.
LEMMA DigestByCount ==
    ASSUME NEW s, NEW t, IsList(s), IsList(t),
           \A x : x.name # "HASH" => Count(s, x) = Count(t, x)
    PROVE  Digest(s) = Digest(t)
<1> DEFINE Counted(u) == {k \in DOMAIN u : u[k].name # "HASH"}
           Of(u, k) == <<u[k], Cardinality({j \in Counted(u) : u[j] = u[k]})>>
           Elements(u) == {Of(u, k) : k \in Counted(u)}
<1>1. ASSUME NEW u, NEW v, IsList(u), IsList(v),
             \A x : x.name # "HASH" => Count(u, x) = Count(v, x),
             NEW k \in Counted(u)
      PROVE  \E j \in Counted(v) : Of(v, j) = Of(u, k)
  <2> DEFINE x == u[k]
             U == {j \in 1 .. Len(u) : u[j] = x}
             V == {j \in 1 .. Len(v) : v[j] = x}
  <2>1. DOMAIN u = 1 .. Len(u) /\ DOMAIN v = 1 .. Len(v)
    BY <1>1 DEF IsList
  <2>2. k \in U /\ x.name # "HASH"
    BY <2>1
  <2>3. {j \in Counted(u) : u[j] = x} = U /\ {j \in Counted(v) : v[j] = x} = V
    BY <2>1, <2>2
  <2>4. Cardinality(U) = Cardinality(V)
    BY <1>1, <2>2 DEF Count
  <2>5. IsFiniteSet(U) /\ IsFiniteSet(V)
    BY <1>1, CountFinite
  <2>6. V # {}
    <3> HIDE DEF U, V
    <3> QED BY <2>2, <2>4, <2>5, FS_EmptySet
  <2>7. PICK j \in V : TRUE
    BY <2>6
  <2>8. j \in Counted(v) /\ v[j] = x
    BY <2>1, <2>2, <2>7
  <2>9. Of(v, j) = <<x, Cardinality(V)>> /\ Of(u, k) = <<x, Cardinality(U)>>
    BY <2>3, <2>8
  <2> QED BY <2>4, <2>8, <2>9
<1>2. Digest(s) = Elements(s) /\ Digest(t) = Elements(t)
  BY DEF Digest
<1> HIDE DEF Counted, Of
<1>3. Elements(s) \subseteq Elements(t)
  BY <1>1
<1>4. Elements(t) \subseteq Elements(s)
  BY <1>1
<1> QED BY <1>2, <1>3, <1>4

\* A component verifies after SetXVSTAR, whatever its properties were: the hash that
\* went in is the one that comes out of the result, and it is there once.
LEMMA StampedVerifies ==
    ASSUME NEW s, IsList(s)
    PROVE  /\ Verifies(Stamped(s))
           /\ Cardinality(Named(Stamped(s), "HASH")) = 1
<1> DEFINE r == Stamped(s)
           p == Hash(s)
<1>1. p.name = "HASH" /\ r = Replaced(s, p)
  BY DEF Hash, Stamped
<1> HIDE DEF p, r
<1>2. /\ IsList(r) /\ \E k \in 1 .. Len(r) : Named(r, "HASH") = {k} /\ r[k] = p
      /\ \A x : x.name # "HASH" => Count(r, x) = Count(s, x)
  <2>1. /\ IsList(r) /\ \E k \in 1 .. Len(r) : Named(r, p.name) = {k} /\ r[k] = p
        /\ \A x : x.name # p.name => Count(r, x) = Count(s, x)
    <3>1. LET q == Replaced(s, p)
          IN  /\ IsList(q) /\ \E k \in 1 .. Len(q) : Named(q, p.name) = {k} /\ q[k] = p
              /\ \A x : x.name # p.name => Count(q, x) = Count(s, x)
      BY ReplacedIs
    <3>2. r = Replaced(s, p)
      BY <1>1
    <3> QED BY <3>1, <3>2
  <2> QED BY <1>1, <2>1
<1>3. PICK k \in 1 .. Len(r) : Named(r, "HASH") = {k} /\ r[k] = p
  BY <1>2
<1>4. FirstOf(r, "HASH") = k
  <2>1. k <= k
    OBVIOUS
  <2> QED BY <1>3, <2>1 DEF FirstOf
<1>5. Digest(r) = Digest(s)
  BY <1>2, DigestByCount
<1>6. Hash(r) = p
  BY <1>5 DEF Hash, p
<1>7. Verifies(r)
  BY <1>3, <1>4, <1>6 DEF Verifies
<1>8. Cardinality(Named(r, "HASH")) = 1
  BY <1>3, FS_Singleton
<1> QED BY <1>7, <1>8 DEF r
-----------------------------------------------------------------------------
(* Capacities, and the hash of a refreshed component.                      *)

\* No array of h holds more than its capacity.
Holds(h) == \A a \in Arrays : h[a].cap \in Nat /\ Len(h[a].cells) <= h[a].cap

Fits == Holds(heap)

StampsVerify ==
    \A v \in fresh : /\ Verifies(stamped[v])
                     /\ Cardinality(Named(stamped[v], "HASH")) = 1

\* append and Component.Set make room for what they put there.
LEMMA GrownFits == ASSUME NEW n \in Nat, NEW cap \in Grown(n) PROVE cap \in Nat /\ n + 1 <= cap
BY DEF Grown

LEMMA SetFits ==
    ASSUME NEW s, IsList(s), NEW p, NEW cap \in SetCaps(s, p)
    PROVE  cap \in Nat /\ Len(Replaced(s, p)) <= cap
<1> DEFINE r == Replaced(s, p)
<1>1. /\ IsList(r) /\ Len(r) <= Len(s) + 1
      /\ Named(s, p.name) # {} => Len(r) <= Len(s)
  BY ReplacedIs
<1> HIDE DEF r
<1>2. Len(s) \in Nat /\ Len(r) \in Nat
  BY <1>1 DEF IsList
<1>3. CASE Named(s, p.name) = {}
  <2>1. cap \in Nat /\ Len(s) + 1 <= cap
    BY <1>2, <1>3, GrownFits DEF SetCaps
  <2> QED BY <1>1, <1>2, <2>1 DEF r
<1>4. CASE Named(s, p.name) # {}
  BY <1>1, <1>2, <1>4 DEF SetCaps, r
<1> QED BY <1>3, <1>4

LEMMA AssignFits ==
    ASSUME IInv, NEW v \in Vars, NEW h, Holds(h), NEW a \in Unused, NEW props,
           NEW cap \in Nat, Len(props) <= cap, Assign(v, h, a, props, cap)
    PROVE  Fits'
<1> SUFFICES ASSUME NEW b \in Arrays
             PROVE  heap'[b].cap \in Nat /\ Len(heap'[b].cells) <= heap'[b].cap
  BY DEF Fits, Holds
<1>1. \/ heap'[b] = [cells |-> props, cap |-> cap]
      \/ heap'[b] = h[b]
      \/ heap'[b] = NoCells
  BY DEF Assign
<1> QED BY <1>1 DEF Holds, NoCells

LEMMA AppendFits ==
    ASSUME IInv, Fits, NEW v \in Vars, HasRoom(v), NEW p
    PROVE  Holds(WrittenInPlace(v, p))
<1> DEFINE a == comp[v].arr
           n == comp[v].len
           old == heap[a].cells
           new == IF n < Len(old) THEN [old EXCEPT ![n + 1] = p] ELSE Append(old, p)
           h == WrittenInPlace(v, p)
<1>1. PICK S, T : heap \in [Arrays -> [cells : Seq(S), cap : T]]
  BY DEF IInv, HeapOK, IsHeap
<1>2. a \in Arrays /\ n \in Nat /\ n <= Len(old) /\ n < heap[a].cap
  BY DEF IInv, CompOK, InArray, HasRoom
<1>3. old \in Seq(S \cup {p}) /\ Len(old) \in Nat /\ heap[a].cap \in Nat /\ Len(old) <= heap[a].cap
  BY <1>1, <1>2 DEF Fits, Holds
<1>4. Len(new) <= heap[a].cap
  <2> HIDE DEF a, n, old
  <2>1. CASE n < Len(old)
    BY <1>2, <1>3, <2>1
  <2>2. CASE ~(n < Len(old))
    BY <1>2, <1>3, <2>2
  <2> QED BY <2>1, <2>2
<1>5. h = [heap EXCEPT ![a].cells = new]
  BY DEF WrittenInPlace
<1> HIDE DEF new, h
<1>6. /\ h[a].cells = new /\ h[a].cap = heap[a].cap
      /\ \A b \in Arrays \ {a} : h[b] = heap[b]
  BY <1>1, <1>2, <1>5
<1>7. \A b \in Arrays : h[b].cap \in Nat /\ Len(h[b].cells) <= h[b].cap
  BY <1>3, <1>4, <1>6 DEF Fits, Holds
<1> QED BY <1>7 DEF Holds, h

LEMMA RefreshFits ==
    ASSUME IInv, NEW v \in Vars, NEW h, Holds(h), NEW props, IsList(props), Refresh(v, h, props)
    PROVE  Fits'
<1>1. PICK a \in Unused, cap \in SetCaps(props, Hash(props)) : Assign(v, h, a, Stamped(props), cap)
  BY DEF Refresh
<1>2. cap \in Nat /\ Len(Stamped(props)) <= cap
  BY SetFits DEF Stamped
<1> QED BY <1>1, <1>2, AssignFits

LEMMA RefreshStamps ==
    ASSUME IInv, StampsVerify, NEW v \in Vars, NEW h, NEW props, IsList(props), Refresh(v, h, props)
    PROVE  StampsVerify'
<1>1. PICK U : stamped \in [Vars -> U]
  BY DEF IInv, StampedOK
<1>2. fresh' = fresh \cup {v} /\ stamped' = [stamped EXCEPT ![v] = Stamped(props)] /\ fresh \subseteq Vars
  BY DEF Refresh, Refreshed, IInv
<1>3. stamped'[v] = Stamped(props) /\ \A w \in Vars \ {v} : stamped'[w] = stamped[w]
  BY <1>1, <1>2
<1>4. ASSUME NEW w \in fresh'
      PROVE  Verifies(stamped'[w]) /\ Cardinality(Named(stamped'[w], "HASH")) = 1
  <2>1. CASE w = v
    BY <1>3, <2>1, StampedVerifies
  <2>2. CASE w # v
    BY <1>2, <1>3, <2>2 DEF StampsVerify
  <2> QED BY <2>1, <2>2
<1> QED BY <1>4 DEF StampsVerify

LEMMA UnrefreshedStamps ==
    ASSUME StampsVerify, NEW v \in Vars, Unrefreshed(v) PROVE StampsVerify'
BY DEF StampsVerify, Unrefreshed

\* Every operation keeps within the capacities, and leaves behind hashes that verify.
LEMMA StepKeepsHashes ==
    ASSUME IInv, Fits, StampsVerify, [Next]_vars
    PROVE  Fits' /\ StampsVerify'
<1>1. ASSUME NEW v \in Vars, NEW w \in Vars \ {v}, Copy(v, w) PROVE Fits' /\ StampsVerify'
  <2>1. ASSUME NEW b \in Arrays
        PROVE  heap'[b].cap \in Nat /\ Len(heap'[b].cells) <= heap'[b].cap
    <3>1. heap'[b] = heap[b] \/ heap'[b] = NoCells
      BY <1>1 DEF Copy
    <3> QED BY <3>1 DEF Fits, Holds, NoCells
  <2>2. PICK U : stamped \in [Vars -> U]
    BY DEF IInv, StampedOK
  <2>3. /\ stamped' = [stamped EXCEPT ![w] = stamped[v]] /\ fresh \subseteq Vars
        /\ fresh' = IF v \in fresh THEN fresh \cup {w} ELSE fresh \ {w}
    BY <1>1 DEF Copy, IInv
  <2>4. ASSUME NEW u \in fresh' PROVE \E x \in fresh : stamped'[u] = stamped[x]
    BY <2>2, <2>3
  <2>5. Fits'
    BY <2>1 DEF Fits, Holds
  <2>6. StampsVerify'
    BY <2>4 DEF StampsVerify
  <2> QED BY <2>5, <2>6
<1>2. ASSUME NEW v \in Vars, NEW p, Set(v, p) PROVE Fits' /\ StampsVerify'
  <2>1. PICK a \in Unused, cap \in SetCaps(Contents(v), p) :
            Assign(v, heap, a, Replaced(Contents(v), p), cap)
    BY <1>2 DEF Set
  <2>2. cap \in Nat /\ Len(Replaced(Contents(v), p)) <= cap
    BY ContentsList, SetFits
  <2> QED BY <1>2, <2>1, <2>2, AssignFits, UnrefreshedStamps DEF Set, Fits
<1>3. ASSUME NEW v \in Vars, NEW name, Remove(v, name) PROVE Fits' /\ StampsVerify'
  <2> DEFINE props == Without(Contents(v), name)
             cap == IF props = << >> THEN 0 ELSE comp[v].len
  <2>1. PICK a \in Unused : Assign(v, heap, a, props, cap)
    BY <1>3 DEF Remove
  <2>2. Len(props) <= comp[v].len /\ comp[v].len \in Nat
    BY ContentsList, WithoutIs DEF IInv, CompOK
  <2> HIDE DEF props
  <2>3. cap \in Nat /\ Len(props) <= cap
    BY <2>2
  <2> QED BY <1>3, <2>1, <2>3, AssignFits, UnrefreshedStamps DEF Remove, Fits
<1>4. ASSUME NEW v \in Vars, NEW p, Add(v, p) PROVE Fits' /\ StampsVerify'
  <2>1. CASE HasRoom(v)
    BY <1>4, <2>1, AppendFits, UnrefreshedStamps DEF Add, Fits
  <2>2. CASE ~HasRoom(v)
    <3> DEFINE props == Append(Contents(v), p)
    <3>1. PICK a \in Unused, cap \in Grown(comp[v].len) : Assign(v, heap, a, props, cap)
      BY <1>4, <2>2 DEF Add
    <3>2. Len(props) = comp[v].len + 1 /\ comp[v].len \in Nat
      BY ContentsList, AppendList DEF IInv, CompOK
    <3> HIDE DEF props
    <3>3. cap \in Nat /\ Len(props) <= cap
      BY <3>1, <3>2, GrownFits
    <3> QED BY <1>4, <3>1, <3>3, AssignFits, UnrefreshedStamps DEF Add, Fits
  <2> QED BY <2>1, <2>2
<1>5. ASSUME NEW v \in Vars, NEW u, AddRelatedTo(v, u) PROVE Fits' /\ StampsVerify'
  <2>1. Holds(IF HasRoom(v) THEN WrittenInPlace(v, RelatedTo(u)) ELSE heap)
    BY AppendFits DEF Fits
  <2> QED BY <1>5, <2>1, ContentsList, AppendList, RefreshFits, RefreshStamps DEF AddRelatedTo
<1>6. ASSUME NEW v \in Vars, SetXVSTAR(v) \/ SetPriority(v) \/ RemovePriority(v)
      PROVE  Fits' /\ StampsVerify'
  BY <1>6, ContentsList, ReplacedList, WithoutList, RefreshFits, RefreshStamps
  DEF SetXVSTAR, SetPriority, RemovePriority, Fits
<1>7. ASSUME NEW v \in Vars, NEW l, AddCategory(v, l) PROVE Fits' /\ StampsVerify'
  BY <1>7, ContentsList, ReplacedList, RefreshFits, RefreshStamps DEF AddCategory, Fits
<1>8. CASE UNCHANGED vars
  BY <1>8 DEF vars, Fits, Holds, StampsVerify
<1> QED
  BY <1>1, <1>2, <1>3, <1>4, <1>5, <1>6, <1>7, <1>8 DEF Next

\* Although copies share their arrays and Component.Add writes into them: a component
\* that a helper was the last to change stays as the helper left it, however many copies
\* of it there are and whatever is done to them. It carries one hash, and that verifies.
THEOREM RefreshedVerifies == Spec => []RefreshedIsIsolated
<1>1. Init => Fits /\ StampsVerify
  <2> SUFFICES ASSUME Init PROVE Fits /\ StampsVerify
    OBVIOUS
  <2>1. PICK a \in Arrays, props \in Initial, spare \in 0 .. 1 :
          heap = [b \in Arrays |-> IF b = a THEN [cells |-> props, cap |-> Len(props) + spare]
                                   ELSE NoCells]
    BY DEF Init
  <2>2. Len(props) \in Nat
    BY PropSlicesAssumption
  <2>3. Fits
    BY <2>1, <2>2 DEF Fits, Holds, NoCells
  <2>4. StampsVerify
    BY DEF Init, StampsVerify
  <2> QED BY <2>3, <2>4
<1>2. IInv /\ Fits /\ StampsVerify /\ [Next]_vars => Fits' /\ StampsVerify'
  BY StepKeepsHashes
<1>3. ASSUME IInv, Fits, StampsVerify PROVE RefreshedIsIsolated
  <2>1. ASSUME NEW v \in Vars
        PROVE  comp[v].arr \in Arrays /\ comp[v].len \in 0 .. Len(heap[comp[v].arr].cells)
    <3>1. comp[v].arr \in Arrays /\ comp[v].len \in Nat /\ comp[v].len <= Len(heap[comp[v].arr].cells)
      BY <1>3 DEF IInv, CompOK, InArray
    <3>2. Len(heap[comp[v].arr].cells) \in Nat
      BY <1>3, ContentsList DEF IsList
    <3> QED BY <3>1, <3>2
  <2>2. TypeOK
    BY <1>3, <2>1 DEF TypeOK, IInv, Fits, Holds
  <2>3. \A v \in fresh : Contents(v) = stamped[v]
    BY <1>3 DEF IInv, Isolated
  <2> QED BY <1>3, <2>2, <2>3 DEF RefreshedIsIsolated, StampsVerify, Isolated
<1> QED
  BY <1>1, <1>2, <1>3, Invariant, PTL DEF Spec

=============================================================================
