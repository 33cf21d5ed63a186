------------------------- MODULE ComponentTimes_proofs -------------------------
(***************************************************************************)
(* The times of a component, for any properties it starts with, any         *)
(* instants and days and any number of calls of the setters: what was set    *)
(* is what is read, and an alarm follows it.                                *)
(***************************************************************************)
EXTENDS ComponentTimes, FiniteSetTheorems, SequenceTheorems, TLAPS

\* Any operator of two arguments serves: only the laws of lists are used.
Pair(a, b) == <<a, b>>
Lists == INSTANCE FoldLaws WITH Op <- Pair

\* A sequence, of whatever elements.
IsList(s) == \E S : s \in Seq(S)

\* The properties of the name, in order.
Chosen(props, name) ==
    FlattenSeq([k \in DOMAIN props |-> IF props[k].name = name THEN <<props[k]>> ELSE << >>])

-----------------------------------------------------------------------------
(* Lists that are put together from pieces.                                *)

LEMMA ListType == ASSUME NEW s, IsList(s) PROVE Len(s) \in Nat /\ DOMAIN s = 1 .. Len(s)
BY DEF IsList

LEMMA EmptyList == IsList(<< >>) /\ Len(<< >>) = 0
BY DEF IsList

LEMMA SingleList == ASSUME NEW e PROVE IsList(<<e>>) /\ Len(<<e>>) = 1
<1>1. <<e>> \in Seq({e})
  OBVIOUS
<1> QED BY <1>1 DEF IsList

LEMMA ListAppend ==
    ASSUME NEW s, IsList(s), NEW e
    PROVE  /\ IsList(Append(s, e)) /\ Len(Append(s, e)) = Len(s) + 1
           /\ \A i \in 1 .. Len(s) : Append(s, e)[i] = s[i]
           /\ Append(s, e)[Len(s) + 1] = e
           /\ Append(s, e) # << >>
BY Lists!ListAppend DEF IsList, Lists!IsList

LEMMA ListEqual ==
    ASSUME NEW s, NEW t, IsList(s), IsList(t), Len(s) = Len(t),
           \A i \in 1 .. Len(s) : s[i] = t[i]
    PROVE  s = t
BY Lists!ListEqual DEF IsList, Lists!IsList

LEMMA ListCases ==
    ASSUME NEW s, IsList(s)
    PROVE  \/ s = << >>
           \/ \E r, e : IsList(r) /\ Len(r) + 1 = Len(s) /\ s = Append(r, e)
BY Lists!ListCases DEF IsList, Lists!IsList

LEMMA ListConcat ==
    ASSUME NEW s, NEW t, IsList(s), IsList(t)
    PROVE  /\ IsList(s \o t) /\ Len(s \o t) = Len(s) + Len(t)
           /\ \A i \in 1 .. Len(s) : (s \o t)[i] = s[i]
           /\ \A i \in 1 .. Len(t) : (s \o t)[Len(s) + i] = t[i]
           /\ s \o << >> = s /\ << >> \o s = s
BY Lists!ListConcat DEF IsList, Lists!IsList

LEMMA TableIsList ==
    ASSUME NEW n \in Nat, NEW f, f = [k \in 1 .. n |-> f[k]]
    PROVE  IsList(f) /\ Len(f) = n
<1> DEFINE T == {f[k] : k \in 1 .. n}
<1>1. f \in [1 .. n -> T]
  OBVIOUS
<1> HIDE DEF T
<1>2. f \in Seq(T) /\ Len(f) = n
  BY <1>1
<1> QED BY <1>2 DEF IsList

LEMMA FlattenIs == ASSUME NEW ss PROVE FlattenSeq(ss) = Lists!FlattenSeq(ss)
BY DEF FlattenSeq, Lists!FlattenSeq

LEMMA FlattenEmpty == FlattenSeq(<< >>) = << >>
BY FlattenIs, Lists!FlattenEmpty

LEMMA FlattenAppend ==
    ASSUME NEW ss, IsList(ss), NEW s, IsList(s)
    PROVE  FlattenSeq(Append(ss, s)) = FlattenSeq(ss) \o s
BY FlattenIs, Lists!FlattenAppend DEF IsList, Lists!IsList

LEMMA FlattenType ==
    ASSUME NEW T, NEW ss, IsList(ss), \A i \in 1 .. Len(ss) : ss[i] \in Seq(T)
    PROVE  FlattenSeq(ss) \in Seq(T)
BY FlattenIs, Lists!FlattenType DEF IsList, Lists!IsList

\* A table with an entry for each element of a list.
IsTable(f, s) == f = [k \in DOMAIN s |-> f[k]]

\* The table f, for s and e after it, is the table g, for s, and a piece after it.
Grows(f, g, s, e, piece) ==
    /\ IsTable(f, Append(s, e)) /\ IsTable(g, s)
    /\ \A k \in 1 .. Len(s) : f[k] = g[k]
    /\ f[Len(s) + 1] = piece /\ IsList(piece)

LEMMA PieceMore ==
    ASSUME NEW s, IsList(s), NEW e, NEW f, NEW g, NEW piece, Grows(f, g, s, e, piece)
    PROVE  FlattenSeq(f) = FlattenSeq(g) \o piece
<1> USE DEF Grows
<1> DEFINE n == Len(s)
           a == Append(s, e)
           b == Append(g, piece)
<1>1. n \in Nat /\ n + 1 \in Nat /\ DOMAIN s = 1 .. n /\ DOMAIN a = 1 .. n + 1
  <2>1. IsList(a) /\ Len(a) = n + 1
    BY ListAppend
  <2> QED BY <2>1, ListType
<1>2. f = [k \in 1 .. n + 1 |-> f[k]] /\ g = [k \in 1 .. n |-> g[k]]
  BY <1>1 DEF IsTable
<1> HIDE DEF n, a
<1>3. IsList(f) /\ Len(f) = n + 1 /\ IsList(g) /\ Len(g) = n
  BY ONLY <1>1, <1>2, TableIsList
<1>4. IsList(b) /\ Len(b) = n + 1 /\ b[n + 1] = piece /\ \A i \in 1 .. n : b[i] = g[i]
  BY <1>3, ListAppend
<1>5. f[n + 1] = piece /\ \A i \in 1 .. n : f[i] = g[i]
  BY DEF n
<1> HIDE DEF b
<1>6. ASSUME NEW i \in 1 .. n + 1 PROVE f[i] = b[i]
  <2>1. i \in 1 .. n \/ i = n + 1
    BY <1>1
  <2> QED BY <1>4, <1>5, <2>1
<1>7. f = b
  BY ONLY <1>3, <1>4, <1>6, ListEqual
<1> QED BY <1>3, <1>7, FlattenAppend DEF b

\* An induction over the lengths of lists.
LEMMA NatInduct ==
    ASSUME NEW S \in SUBSET Nat, 0 \in S, \A n \in S : n + 1 \in S
    PROVE  \A n \in Nat : n \in S
BY Lists!NatInduct

-----------------------------------------------------------------------------
(* The properties of a name.                                               *)

\* e alone if it has the name, otherwise nothing.
Just(e, name) == IF e.name = name THEN <<e>> ELSE << >>

LEMMA JustIsList == ASSUME NEW e, NEW name PROVE IsList(Just(e, name))
BY EmptyList, SingleList DEF Just

LEMMA ChosenEmpty == ASSUME NEW name PROVE Chosen(<< >>, name) = << >>
<1> DEFINE f == [k \in DOMAIN << >> |-> IF << >>[k].name = name THEN << << >>[k]>> ELSE << >>]
<1>1. DOMAIN << >> = 1 .. 0
  BY EmptyList, ListType
<1>2. f = [k \in 1 .. 0 |-> f[k]]
  BY <1>1
<1> HIDE DEF f
<1>3. IsList(f) /\ Len(f) = 0
  BY ONLY <1>2, TableIsList
<1>4. f = << >>
  BY <1>3 DEF IsList
<1> QED BY <1>4, FlattenEmpty DEF Chosen, f

LEMMA ChosenAppend ==
    ASSUME NEW s, IsList(s), NEW e, NEW name
    PROVE  Chosen(Append(s, e), name) = Chosen(s, name) \o Just(e, name)
<1> DEFINE f == [k \in DOMAIN Append(s, e) |->
                   IF Append(s, e)[k].name = name THEN <<Append(s, e)[k]>> ELSE << >>]
           g == [k \in DOMAIN s |-> IF s[k].name = name THEN <<s[k]>> ELSE << >>]
<1>1. Len(s) \in Nat /\ DOMAIN s = 1 .. Len(s) /\ DOMAIN Append(s, e) = 1 .. Len(s) + 1
      /\ Append(s, e)[Len(s) + 1] = e /\ \A i \in 1 .. Len(s) : Append(s, e)[i] = s[i]
  BY ListAppend, ListType
<1>2. IsTable(f, Append(s, e)) /\ IsTable(g, s)
  BY DEF IsTable
<1>3. f[Len(s) + 1] = Just(e, name) /\ \A i \in 1 .. Len(s) : f[i] = g[i]
  BY <1>1 DEF Just
<1> HIDE DEF f, g
<1>4. FlattenSeq(f) = FlattenSeq(g) \o Just(e, name)
  <2>1. Grows(f, g, s, e, Just(e, name))
    BY ONLY <1>2, <1>3, JustIsList DEF Grows
  <2> QED BY ONLY IsList(s), <2>1, PieceMore
<1> QED BY <1>4 DEF Chosen, f, g

LEMMA ChosenIsList == ASSUME NEW s, IsList(s), NEW name PROVE IsList(Chosen(s, name))
<1> DEFINE f == [k \in DOMAIN s |-> IF s[k].name = name THEN <<s[k]>> ELSE << >>]
<1>1. PICK S : s \in Seq(S)
  BY DEF IsList
<1>2. Len(s) \in Nat /\ DOMAIN s = 1 .. Len(s) /\ \A k \in 1 .. Len(s) : s[k] \in S
  BY <1>1
<1>3. \A k \in 1 .. Len(s) : f[k] \in Seq(S)
  <2> TAKE k \in 1 .. Len(s)
  <2>1. s[k] \in S
    BY <1>2
  <2>2. << >> \in Seq(S) /\ <<s[k]>> \in Seq(S)
    BY <2>1
  <2> QED BY <1>2, <2>2
<1>4. f = [k \in 1 .. Len(s) |-> f[k]]
  BY <1>2
<1> HIDE DEF f
<1>5. IsList(f) /\ Len(f) = Len(s)
  BY ONLY <1>2, <1>4, TableIsList
<1>6. FlattenSeq(f) \in Seq(S)
  BY <1>3, <1>5, FlattenType
<1> QED BY <1>6 DEF IsList, Chosen, f

\* What is not chosen from the end of a list.
LEMMA ChosenMore ==
    ASSUME NEW s, IsList(s), NEW e, NEW name
    PROVE  /\ Chosen(s \o <<e>>, name) = Chosen(s, name) \o Just(e, name)
           /\ Chosen(s \o << >>, name) = Chosen(s, name)
           /\ e.name # name => Chosen(s \o <<e>>, name) = Chosen(s, name)
<1>1. s \o <<e>> = Append(s, e) /\ s \o << >> = s
  BY ListConcat, EmptyList DEF IsList
<1>2. Chosen(Append(s, e), name) = Chosen(s, name) \o Just(e, name)
  BY ChosenAppend
<1>3. Chosen(s, name) \o << >> = Chosen(s, name)
  BY ChosenIsList, EmptyList, ListConcat
<1>4. e.name # name => Just(e, name) = << >>
  BY DEF Just
<1> QED BY <1>1, <1>2, <1>3, <1>4

LEMMA ChosenSingle ==
    ASSUME NEW s, IsList(s), NEW e, NEW name
    PROVE  Chosen(s \o <<e>>, name) = Chosen(s, name) \o Just(e, name)
<1>1. s \o <<e>> = Append(s, e)
  BY DEF IsList
<1>2. Chosen(Append(s, e), name) = Chosen(s, name) \o Just(e, name)
  BY ChosenAppend
<1> QED BY <1>1, <1>2, Zenon

LEMMA NamedEmpty == ASSUME NEW name PROVE Named(<< >>, name) = {}
<1>1. DOMAIN << >> = {}
  BY EmptyList, ListType
<1> QED BY <1>1 DEF Named

LEMMA NamedAppend ==
    ASSUME NEW s, IsList(s), NEW e, NEW name
    PROVE  Named(Append(s, e), name) =
             Named(s, name) \cup (IF e.name = name THEN {Len(s) + 1} ELSE {})
<1>1. Len(s) \in Nat /\ DOMAIN s = 1 .. Len(s) /\ DOMAIN Append(s, e) = 1 .. Len(s) + 1
      /\ Append(s, e)[Len(s) + 1] = e /\ \A i \in 1 .. Len(s) : Append(s, e)[i] = s[i]
  BY ListAppend, ListType
<1>2. 1 .. Len(s) + 1 = 1 .. Len(s) \cup {Len(s) + 1}
  BY <1>1
<1> HIDE DEF IsList
<1> QED BY <1>1, <1>2, Zenon DEF Named

\* No property has the name, and one alone has it.
LEMMA ChosenNamed ==
    ASSUME NEW s, IsList(s), NEW name
    PROVE  /\ Named(s, name) = {} <=> Chosen(s, name) = << >>
           /\ Len(Chosen(s, name)) = 1 =>
                \E k \in DOMAIN s : Named(s, name) = {k} /\ s[k] = Chosen(s, name)[1]
<1> DEFINE P(t) == /\ Named(t, name) = {} <=> Chosen(t, name) = << >>
                   /\ Len(Chosen(t, name)) = 1 =>
                        \E k \in DOMAIN t : Named(t, name) = {k} /\ t[k] = Chosen(t, name)[1]
           S == {n \in Nat : \A t : IsList(t) /\ Len(t) = n => P(t)}
<1>1. 0 \in S
  <2> SUFFICES ASSUME NEW t, IsList(t), Len(t) = 0 PROVE P(t)
    OBVIOUS
  <2>1. t = << >>
    BY DEF IsList
  <2>2. Named(t, name) = {} /\ Chosen(t, name) = << >>
    BY <2>1, NamedEmpty, ChosenEmpty
  <2>3. Len(Chosen(t, name)) # 1
    BY <2>2
  <2> QED BY <2>2, <2>3
<1>2. ASSUME NEW n \in S PROVE n + 1 \in S
  <2> SUFFICES ASSUME NEW t, IsList(t), Len(t) = n + 1 PROVE P(t)
    OBVIOUS
  <2>1. PICK r, e : IsList(r) /\ Len(r) + 1 = Len(t) /\ t = Append(r, e)
    <3>1. t # << >>
      OBVIOUS
    <3> QED BY <3>1, ListCases
  <2>2. Len(r) = n
    BY <2>1, ListType
  <2>3. P(r)
    BY <1>2, <2>1, <2>2
  <2> DEFINE c == Chosen(r, name)
  <2>4. Chosen(t, name) = c \o Just(e, name)
    BY <2>1, ChosenAppend
  <2>5. Named(t, name) = Named(r, name) \cup (IF e.name = name THEN {n + 1} ELSE {})
    BY <2>1, <2>2, NamedAppend
  <2>6. DOMAIN t = 1 .. n + 1 /\ DOMAIN r = 1 .. n /\ t[n + 1] = e /\ \A k \in 1 .. n : t[k] = r[k]
    BY <2>1, <2>2, ListAppend, ListType
  <2>7. IsList(c)
    BY <2>1, ChosenIsList
  <2>8. n \in Nat
    OBVIOUS
  <2> HIDE DEF S
  <2>9. CASE e.name = name
    <3>1. Chosen(t, name) = c \o <<e>> /\ Named(t, name) = Named(r, name) \cup {n + 1}
      BY <2>4, <2>5, <2>9 DEF Just
    <3> HIDE DEF c
    <3>2. Len(c) \in Nat /\ Len(c \o <<e>>) = Len(c) + 1 /\ (c \o <<e>>)[Len(c) + 1] = e
      <4>1. IsList(<<e>>) /\ Len(<<e>>) = 1 /\ <<e>>[1] = e
        BY SingleList
      <4>2. Len(c \o <<e>>) = Len(c) + Len(<<e>>)
            /\ \A i \in 1 .. Len(<<e>>) : (c \o <<e>>)[Len(c) + i] = <<e>>[i]
        BY <2>7, <4>1, ListConcat
      <4>3. Len(c) \in Nat /\ 1 \in 1 .. Len(<<e>>)
        BY <2>7, <4>1, ListType
      <4> QED BY <4>1, <4>2, <4>3
    <3>3. c \o <<e>> # << >>
      BY <3>2, EmptyList
    <3>4. ASSUME Len(c \o <<e>>) = 1
          PROVE  Named(t, name) = {n + 1} /\ t[n + 1] = (c \o <<e>>)[1]
      <4>1. Len(c) = 0
        BY <3>2, <3>4
      <4>2. c = << >>
        BY <2>7, <4>1 DEF IsList
      <4>3. Named(r, name) = {}
        BY <2>3, <4>2 DEF c
      <4> QED BY <2>6, <3>1, <3>2, <4>1, <4>3
    <3>5. n + 1 \in DOMAIN t
      BY <2>6, <2>8
    <3> QED BY <3>1, <3>3, <3>4, <3>5
  <2>10. CASE e.name # name
    <3>1. Chosen(t, name) = c /\ Named(t, name) = Named(r, name)
      <4>1. c \o << >> = c
        BY <2>7, EmptyList, ListConcat
      <4> QED BY <2>4, <2>5, <2>10, <4>1 DEF Just
    <3>2. \A k \in DOMAIN r : k \in DOMAIN t /\ t[k] = r[k]
      BY <2>6, <2>8
    <3> QED BY <2>3, <3>1, <3>2
  <2>11. P(t)
    BY <2>9, <2>10
  <2> QED BY <2>11
<1> HIDE DEF S
<1>3. S \in SUBSET Nat
  BY DEF S
<1>4. Len(s) \in S
  BY <1>1, <1>2, <1>3, NatInduct, ListType
<1> QED BY <1>4 DEF S

-----------------------------------------------------------------------------
(* Removing the properties of a name, and replacing them by one.           *)

\* e alone unless it has the name.
Unless(e, name) == IF e.name = name THEN << >> ELSE <<e>>

LEMMA UnlessIsList == ASSUME NEW e, NEW name PROVE IsList(Unless(e, name))
BY EmptyList, SingleList DEF Unless

LEMMA WithoutEmpty == ASSUME NEW name PROVE Without(<< >>, name) = << >>
<1> DEFINE f == [k \in DOMAIN << >> |-> IF << >>[k].name = name THEN << >> ELSE << << >>[k]>>]
<1>1. DOMAIN << >> = 1 .. 0
  BY EmptyList, ListType
<1>2. f = [k \in 1 .. 0 |-> f[k]]
  BY <1>1
<1> HIDE DEF f
<1>3. IsList(f) /\ Len(f) = 0
  BY ONLY <1>2, TableIsList
<1>4. f = << >>
  BY <1>3 DEF IsList
<1> QED BY <1>4, FlattenEmpty DEF Without, f

LEMMA WithoutAppend ==
    ASSUME NEW s, IsList(s), NEW e, NEW name
    PROVE  Without(Append(s, e), name) = Without(s, name) \o Unless(e, name)
<1> DEFINE f == [k \in DOMAIN Append(s, e) |->
                   IF Append(s, e)[k].name = name THEN << >> ELSE <<Append(s, e)[k]>>]
           g == [k \in DOMAIN s |-> IF s[k].name = name THEN << >> ELSE <<s[k]>>]
<1>1. Len(s) \in Nat /\ DOMAIN s = 1 .. Len(s) /\ DOMAIN Append(s, e) = 1 .. Len(s) + 1
      /\ Append(s, e)[Len(s) + 1] = e /\ \A i \in 1 .. Len(s) : Append(s, e)[i] = s[i]
  BY ListAppend, ListType
<1>2. IsTable(f, Append(s, e)) /\ IsTable(g, s)
  BY DEF IsTable
<1>3. f[Len(s) + 1] = Unless(e, name) /\ \A i \in 1 .. Len(s) : f[i] = g[i]
  BY <1>1 DEF Unless
<1> HIDE DEF f, g
<1>4. FlattenSeq(f) = FlattenSeq(g) \o Unless(e, name)
  <2>1. Grows(f, g, s, e, Unless(e, name))
    BY ONLY <1>2, <1>3, UnlessIsList DEF Grows
  <2> QED BY ONLY IsList(s), <2>1, PieceMore
<1> QED BY <1>4 DEF Without, f, g

LEMMA WithoutType ==
    ASSUME NEW S, NEW s \in Seq(S), NEW name
    PROVE  Without(s, name) \in Seq(S)
<1> DEFINE f == [k \in DOMAIN s |-> IF s[k].name = name THEN << >> ELSE <<s[k]>>]
<1>1. Len(s) \in Nat /\ DOMAIN s = 1 .. Len(s) /\ \A k \in 1 .. Len(s) : s[k] \in S
  OBVIOUS
<1>2. \A k \in 1 .. Len(s) : f[k] \in Seq(S)
  <2> TAKE k \in 1 .. Len(s)
  <2>1. s[k] \in S
    BY <1>1
  <2>2. << >> \in Seq(S) /\ <<s[k]>> \in Seq(S)
    BY <2>1
  <2> QED BY <1>1, <2>2
<1>3. f = [k \in 1 .. Len(s) |-> f[k]]
  BY <1>1
<1> HIDE DEF f
<1>4. IsList(f) /\ Len(f) = Len(s)
  BY ONLY <1>1, <1>3, TableIsList
<1>5. FlattenSeq(f) \in Seq(S)
  BY <1>2, <1>4, FlattenType
<1> QED BY <1>5 DEF Without, f

LEMMA ChosenWithout ==
    ASSUME NEW s, IsList(s), NEW name, NEW other
    PROVE  Chosen(Without(s, name), other) = IF other = name THEN << >> ELSE Chosen(s, other)
<1> DEFINE P(t) == Chosen(Without(t, name), other) = IF other = name THEN << >> ELSE Chosen(t, other)
           S == {n \in Nat : \A t : IsList(t) /\ Len(t) = n => P(t)}
<1>1. 0 \in S
  <2> SUFFICES ASSUME NEW t, IsList(t), Len(t) = 0 PROVE P(t)
    OBVIOUS
  <2>1. t = << >>
    BY DEF IsList
  <2> QED BY <2>1, WithoutEmpty, ChosenEmpty
<1>2. ASSUME NEW n \in S PROVE n + 1 \in S
  <2> SUFFICES ASSUME NEW t, IsList(t), Len(t) = n + 1 PROVE P(t)
    OBVIOUS
  <2>1. PICK r, e : IsList(r) /\ Len(r) + 1 = Len(t) /\ t = Append(r, e)
    <3>1. t # << >>
      OBVIOUS
    <3> QED BY <3>1, ListCases
  <2>2. Len(r) = n
    BY <2>1, ListType
  <2>3. P(r)
    BY <1>2, <2>1, <2>2
  <2> DEFINE w == Without(r, name)
  <2>4. IsList(w)
    BY <2>1, WithoutType DEF IsList
  <2>5. Without(t, name) = w \o Unless(e, name) /\ Chosen(t, other) = Chosen(r, other) \o Just(e, other)
    BY <2>1, WithoutAppend, ChosenAppend
  <2>6. Chosen(r, other) \o << >> = Chosen(r, other) /\ << >> \o << >> = << >>
    BY <2>1, ChosenIsList, EmptyList, ListConcat
  <2> HIDE DEF S
  <2>7. CASE e.name = name
    <3>1. Chosen(Without(t, name), other) = Chosen(w, other)
      BY <2>4, <2>5, <2>7, ChosenMore DEF Unless
    <3>2. other # name => Chosen(t, other) = Chosen(r, other)
      BY <2>5, <2>6, <2>7 DEF Just
    <3> QED BY <2>3, <3>1, <3>2
  <2>8. CASE e.name # name
    <3>1. Chosen(Without(t, name), other) = Chosen(w, other) \o Just(e, other)
      <4>1. Without(t, name) = w \o <<e>>
        BY <2>5, <2>8 DEF Unless
      <4> HIDE DEF w
      <4>2. Chosen(w \o <<e>>, other) = Chosen(w, other) \o Just(e, other)
        BY ONLY <2>4, ChosenSingle
      <4> QED BY <4>1, <4>2, Zenon
    <3>2. other = name => Just(e, other) = << >>
      BY <2>8 DEF Just
    <3> QED BY <2>3, <2>5, <2>6, <3>1, <3>2
  <2>9. P(t)
    BY <2>7, <2>8
  <2> QED BY <2>9
<1> HIDE DEF S
<1>3. S \in SUBSET Nat
  BY DEF S
<1>4. Len(s) \in S
  BY <1>1, <1>2, <1>3, NatInduct, ListType
<1> QED BY <1>4 DEF S

LEMMA MinIsSmallest ==
    ASSUME NEW T \in SUBSET Nat, T # {}
    PROVE  Min(T) \in T /\ \A y \in T : Min(T) <= y
<1> DEFINE S == {n \in Nat : (\E k \in T : k <= n) => \E x \in T : \A y \in T : x <= y}
<1>1. 0 \in S
  OBVIOUS
<1>2. ASSUME NEW n \in S PROVE n + 1 \in S
  OBVIOUS
<1> HIDE DEF S
<1>3. S \in SUBSET Nat
  BY DEF S
<1>4. \A n \in Nat : n \in S
  BY <1>1, <1>2, <1>3, NatInduct
<1>5. \E x \in T : \A y \in T : x <= y
  <2>1. PICK k \in T : TRUE
    OBVIOUS
  <2>2. k \in S /\ k <= k
    BY <1>4
  <2> QED BY <2>2 DEF S
<1> QED BY <1>5 DEF Min

\* The first of them is where it was when the list grows.
LEMMA MinStays ==
    ASSUME NEW s, IsList(s), NEW e, NEW name, Named(s, name) # {}
    PROVE  /\ Named(Append(s, e), name) # {}
           /\ Min(Named(Append(s, e), name)) = Min(Named(s, name))
           /\ Min(Named(s, name)) \in 1 .. Len(s)
<1> DEFINE T == Named(s, name)
           U == Named(Append(s, e), name)
<1>1. Len(s) \in Nat /\ T \subseteq 1 .. Len(s)
  BY ListType DEF Named
<1>2. T \subseteq U /\ \A x \in U : x \in T \/ x = Len(s) + 1
  BY NamedAppend
<1>3. T # {}
  OBVIOUS
<1> HIDE DEF T, U
<1>4. U # {} /\ T \in SUBSET Nat /\ U \in SUBSET Nat
  <2>1. \A x \in 1 .. Len(s) : x \in Nat
    BY <1>1
  <2>2. Len(s) + 1 \in Nat
    BY <1>1
  <2> QED BY ONLY <1>1, <1>2, <1>3, <2>1, <2>2
<1>5. /\ Min(T) \in T /\ \A y \in T : Min(T) <= y
      /\ Min(U) \in U /\ \A y \in U : Min(U) <= y
  BY <1>3, <1>4, MinIsSmallest
<1>6. Min(U) = Min(T) /\ Min(T) \in 1 .. Len(s)
  <2> DEFINE u == Min(U)
             t == Min(T)
  <2>1. t \in 1 .. Len(s) /\ u <= t
    BY ONLY <1>1, <1>2, <1>5
  <2>2. u \in T \/ u = Len(s) + 1
    BY <1>2, <1>5
  <2>3. u \in T => t <= u
    BY <1>5
  <2> HIDE DEF t, u
  <2>4. u \in T => u \in 1 .. Len(s)
    BY <1>1
  <2>5. t \in Nat /\ (u \in T => u \in Nat) /\ t < Len(s) + 1
    BY ONLY <1>1, <2>1, <2>4
  <2>6. u \in T
    BY ONLY <1>1, <2>1, <2>2, <2>5
  <2>7. u = t
    BY ONLY <2>1, <2>3, <2>5, <2>6
  <2> QED BY <2>1, <2>7 DEF t, u
<1> QED BY <1>4, <1>6 DEF T, U

\* The list with p in the place of the first property of its name.
Replaced(props, p) ==
    FlattenSeq([k \in DOMAIN props |-> IF k \notin Named(props, p.name) THEN <<props[k]>>
                                       ELSE IF k = Min(Named(props, p.name)) THEN <<p>> ELSE << >>])

LEMMA SetCases ==
    ASSUME NEW s, NEW p
    PROVE  Set(s, p) = IF Named(s, p.name) = {} THEN Append(s, p) ELSE Replaced(s, p)
BY DEF Set, Replaced

LEMMA ReplacedType ==
    ASSUME NEW S, NEW s \in Seq(S), NEW p \in S
    PROVE  Replaced(s, p) \in Seq(S)
<1> DEFINE T == Named(s, p.name)
           f == [k \in DOMAIN s |-> IF k \notin T THEN <<s[k]>> ELSE IF k = Min(T) THEN <<p>> ELSE << >>]
<1>1. Len(s) \in Nat /\ DOMAIN s = 1 .. Len(s) /\ \A k \in 1 .. Len(s) : s[k] \in S
  OBVIOUS
<1> HIDE DEF T
<1>2. \A k \in 1 .. Len(s) : f[k] \in Seq(S)
  <2> TAKE k \in 1 .. Len(s)
  <2>1. s[k] \in S
    BY <1>1
  <2>2. << >> \in Seq(S) /\ <<s[k]>> \in Seq(S) /\ <<p>> \in Seq(S)
    BY <2>1
  <2> QED BY <1>1, <2>2
<1>3. f = [k \in 1 .. Len(s) |-> f[k]]
  BY <1>1
<1> HIDE DEF f
<1>4. IsList(f) /\ Len(f) = Len(s)
  BY ONLY <1>1, <1>3, TableIsList
<1>5. FlattenSeq(f) \in Seq(S)
  BY <1>2, <1>4, FlattenType
<1> QED BY <1>5 DEF Replaced, f, T

LEMMA SetType ==
    ASSUME NEW S, NEW s \in Seq(S), NEW p \in S
    PROVE  Set(s, p) \in Seq(S)
<1>1. Append(s, p) \in Seq(S)
  OBVIOUS
<1> QED BY <1>1, SetCases, ReplacedType

\* After the first, what has the name goes.
LEMMA ReplacedAppend ==
    ASSUME NEW s, IsList(s), NEW e, NEW p, Named(s, p.name) # {}
    PROVE  Replaced(Append(s, e), p) = Replaced(s, p) \o Unless(e, p.name)
<1> DEFINE T == Named(s, p.name)
           U == Named(Append(s, e), p.name)
           f == [k \in DOMAIN Append(s, e) |-> IF k \notin U THEN <<Append(s, e)[k]>>
                                               ELSE IF k = Min(U) THEN <<p>> ELSE << >>]
           g == [k \in DOMAIN s |-> IF k \notin T THEN <<s[k]>> ELSE IF k = Min(T) THEN <<p>> ELSE << >>]
<1>1. Len(s) \in Nat /\ DOMAIN s = 1 .. Len(s) /\ DOMAIN Append(s, e) = 1 .. Len(s) + 1
      /\ Append(s, e)[Len(s) + 1] = e /\ \A i \in 1 .. Len(s) : Append(s, e)[i] = s[i]
  BY ListAppend, ListType
<1>2. IsTable(f, Append(s, e)) /\ IsTable(g, s)
  BY DEF IsTable
<1>3. Min(U) = Min(T) /\ Min(T) \in 1 .. Len(s)
  BY MinStays
<1>4. U = T \cup (IF e.name = p.name THEN {Len(s) + 1} ELSE {}) /\ T \subseteq 1 .. Len(s)
  BY <1>1, NamedAppend DEF Named
<1> HIDE DEF T, U
<1>5. \A i \in 1 .. Len(s) : i # Len(s) + 1
  BY <1>1
<1>6. \A i \in 1 .. Len(s) : i \in U <=> i \in T
  BY <1>4, <1>5
<1>7. Len(s) + 1 \notin T /\ Len(s) + 1 # Min(U) /\ Len(s) + 1 \in 1 .. Len(s) + 1
  BY <1>1, <1>3, <1>4
<1>8. f[Len(s) + 1] = Unless(e, p.name)
  <2>1. Len(s) + 1 \in U <=> e.name = p.name
    BY <1>4, <1>7
  <2>2. f[Len(s) + 1] = IF Len(s) + 1 \notin U THEN <<e>> ELSE << >>
    BY <1>1, <1>7
  <2> QED BY <2>1, <2>2 DEF Unless
<1>9. \A i \in 1 .. Len(s) : f[i] = g[i]
  <2> TAKE i \in 1 .. Len(s)
  <2>1. i \in DOMAIN s /\ i \in DOMAIN Append(s, e) /\ Append(s, e)[i] = s[i]
    BY <1>1
  <2> QED BY <1>3, <1>6, <2>1
<1> HIDE DEF f, g
<1>10. FlattenSeq(f) = FlattenSeq(g) \o Unless(e, p.name)
  <2>1. Grows(f, g, s, e, Unless(e, p.name))
    BY ONLY <1>2, <1>8, <1>9, UnlessIsList DEF Grows
  <2> QED BY ONLY IsList(s), <2>1, PieceMore
<1> QED BY <1>10 DEF Replaced, f, g, T, U

\* The first of the name gives its place to p.
LEMMA ReplacedFirst ==
    ASSUME NEW s, IsList(s), NEW e, NEW p, Named(s, p.name) = {}, e.name = p.name
    PROVE  Replaced(Append(s, e), p) = Without(s, p.name) \o <<p>>
<1> DEFINE U == Named(Append(s, e), p.name)
           f == [k \in DOMAIN Append(s, e) |-> IF k \notin U THEN <<Append(s, e)[k]>>
                                               ELSE IF k = Min(U) THEN <<p>> ELSE << >>]
           g == [k \in DOMAIN s |-> IF s[k].name = p.name THEN << >> ELSE <<s[k]>>]
<1>1. Len(s) \in Nat /\ DOMAIN s = 1 .. Len(s) /\ DOMAIN Append(s, e) = 1 .. Len(s) + 1
      /\ Append(s, e)[Len(s) + 1] = e /\ \A i \in 1 .. Len(s) : Append(s, e)[i] = s[i]
  BY ListAppend, ListType
<1>2. IsTable(f, Append(s, e)) /\ IsTable(g, s)
  BY DEF IsTable
<1>3. U = {Len(s) + 1}
  BY NamedAppend
<1>4. \A i \in 1 .. Len(s) : s[i].name # p.name
  BY <1>1 DEF Named
<1>5. Min(U) = Len(s) + 1
  <2>1. U \in SUBSET Nat /\ U # {}
    BY <1>1, <1>3
  <2> HIDE DEF U
  <2> QED BY <1>3, <2>1, MinIsSmallest
<1> HIDE DEF U
<1>6. f[Len(s) + 1] = <<p>>
  <2>1. Len(s) + 1 \in 1 .. Len(s) + 1
    BY <1>1
  <2> QED BY <1>1, <1>3, <1>5, <2>1
<1>7. \A i \in 1 .. Len(s) : f[i] = g[i]
  <2> TAKE i \in 1 .. Len(s)
  <2>1. i \in DOMAIN s /\ i \in DOMAIN Append(s, e) /\ Append(s, e)[i] = s[i] /\ i # Len(s) + 1
    BY <1>1
  <2> QED BY <1>3, <1>4, <2>1
<1> HIDE DEF f, g
<1> DEFINE single == <<p>>
<1>8. FlattenSeq(f) = FlattenSeq(g) \o single
  <2>1. IsList(single) /\ f[Len(s) + 1] = single
    BY <1>6, SingleList
  <2> HIDE DEF single
  <2>2. Grows(f, g, s, e, single)
    BY ONLY <1>2, <1>7, <2>1 DEF Grows
  <2> QED BY ONLY IsList(s), <2>2, PieceMore
<1> QED BY <1>8 DEF Replaced, Without, f, g, U

\* What a setter puts there is alone of its name, and the others are as they were.
LEMMA ChosenReplaced ==
    ASSUME NEW s, IsList(s), NEW p, NEW other, Named(s, p.name) # {}
    PROVE  Chosen(Replaced(s, p), other) = IF other = p.name THEN <<p>> ELSE Chosen(s, other)
<1> DEFINE P(t) == Chosen(Replaced(t, p), other) = IF other = p.name THEN <<p>> ELSE Chosen(t, other)
           S == {n \in Nat : \A t : IsList(t) /\ Len(t) = n /\ Named(t, p.name) # {} => P(t)}
<1>1. 0 \in S
  <2> SUFFICES ASSUME NEW t, IsList(t), Len(t) = 0, Named(t, p.name) # {} PROVE FALSE
    OBVIOUS
  <2>1. t = << >>
    BY DEF IsList
  <2> QED BY <2>1, NamedEmpty
<1>2. ASSUME NEW n \in S PROVE n + 1 \in S
  <2> SUFFICES ASSUME NEW t, IsList(t), Len(t) = n + 1, Named(t, p.name) # {} PROVE P(t)
    OBVIOUS
  <2>1. PICK r, e : IsList(r) /\ Len(r) + 1 = Len(t) /\ t = Append(r, e)
    <3>1. t # << >>
      OBVIOUS
    <3> QED BY <3>1, ListCases
  <2>2. Len(r) = n
    BY <2>1, ListType
  <2> DEFINE c == Chosen(r, other)
  <2>3. Chosen(t, other) = c \o Just(e, other)
    BY <2>1, ChosenAppend
  <2>4. IsList(c) /\ c \o << >> = c /\ << >> \o << >> = << >>
    BY <2>1, ChosenIsList, EmptyList, ListConcat
  <2>5. CASE Named(r, p.name) # {}
    <3> DEFINE w == Replaced(r, p)
    <3>1. Chosen(w, other) = IF other = p.name THEN <<p>> ELSE c
      BY <1>2, <2>1, <2>2, <2>5
    <3>2. IsList(w)
      <4>1. PICK R : r \in Seq(R)
        BY <2>1 DEF IsList
      <4>2. r \in Seq(R \cup {p}) /\ p \in R \cup {p}
        BY <4>1
      <4>3. w \in Seq(R \cup {p})
        BY <4>2, ReplacedType
      <4> QED BY <4>3 DEF IsList
    <3>3. Replaced(t, p) = w \o Unless(e, p.name)
      BY <2>1, <2>5, ReplacedAppend
    <3> HIDE DEF w, c, S
    <3>4. CASE e.name = p.name
      <4>1. Replaced(t, p) = w
        BY <3>2, <3>3, <3>4, EmptyList, ListConcat DEF Unless
      <4>2. other # p.name => Chosen(t, other) = c
        BY <2>3, <2>4, <3>4 DEF Just
      <4> QED BY <3>1, <4>1, <4>2
    <3>5. CASE e.name # p.name
      <4>1. Replaced(t, p) = w \o <<e>>
        BY <3>3, <3>5 DEF Unless
      <4>2. Chosen(w \o <<e>>, other) = Chosen(w, other) \o Just(e, other)
        BY <3>2, ChosenSingle
      <4>3. Chosen(Replaced(t, p), other) = Chosen(w, other) \o Just(e, other)
        BY <4>1, <4>2, Zenon
      <4>4. CASE other = p.name
        <5>1. Just(e, other) = << >>
          BY <3>5, <4>4 DEF Just
        <5>2. <<p>> \o << >> = <<p>>
          BY SingleList, EmptyList, ListConcat
        <5> QED BY <3>1, <4>3, <4>4, <5>1, <5>2
      <4>5. CASE other # p.name
        BY <2>3, <3>1, <4>3, <4>5
      <4> QED BY <4>4, <4>5
    <3> QED BY <3>4, <3>5
  <2>6. CASE Named(r, p.name) = {}
    <3> DEFINE w == Without(r, p.name)
    <3>1. e.name = p.name
      BY <2>1, <2>6, NamedAppend
    <3>2. Replaced(t, p) = w \o <<p>>
      BY <2>1, <2>6, <3>1, ReplacedFirst
    <3>3. IsList(w)
      BY <2>1, WithoutType DEF IsList
    <3>4. Chosen(w, other) = IF other = p.name THEN << >> ELSE c
      BY <2>1, ChosenWithout
    <3> HIDE DEF w, c, S
    <3>5. Chosen(w \o <<p>>, other) = Chosen(w, other) \o Just(p, other)
      BY <3>3, ChosenSingle
    <3>6. Chosen(Replaced(t, p), other) = Chosen(w, other) \o Just(p, other)
      BY <3>2, <3>5, Zenon
    <3>7. CASE other = p.name
      <4>1. << >> \o <<p>> = <<p>> /\ Just(p, other) = <<p>>
        BY <3>7, SingleList, EmptyList, ListConcat DEF Just
      <4> QED BY <3>4, <3>6, <3>7, <4>1
    <3>8. CASE other # p.name
      <4>1. Just(p, other) = << >> /\ Just(e, other) = << >>
        BY <3>1, <3>8 DEF Just
      <4> QED BY <2>3, <2>4, <3>4, <3>6, <3>8, <4>1
    <3> QED BY <3>7, <3>8
  <2> QED BY <2>5, <2>6
<1> HIDE DEF S
<1>3. S \in SUBSET Nat
  BY DEF S
<1>4. Len(s) \in S
  BY <1>1, <1>2, <1>3, NatInduct, ListType
<1> QED BY <1>4 DEF S

LEMMA ChosenSet ==
    ASSUME NEW s, IsList(s), NEW p, NEW other
    PROVE  Chosen(Set(s, p), other) = IF other = p.name THEN <<p>> ELSE Chosen(s, other)
<1>1. CASE Named(s, p.name) # {}
  BY <1>1, SetCases, ChosenReplaced
<1>2. CASE Named(s, p.name) = {}
  <2>1. Chosen(Append(s, p), other) = Chosen(s, other) \o Just(p, other)
    BY ChosenAppend
  <2>2. Set(s, p) = Append(s, p)
    BY <1>2, SetCases
  <2>3. CASE other = p.name
    <3>1. Chosen(s, other) = << >>
      BY <1>2, <2>3, ChosenNamed
    <3>2. << >> \o <<p>> = <<p>> /\ Just(p, other) = <<p>>
      BY <2>3, SingleList, EmptyList, ListConcat DEF Just
    <3> QED BY <2>1, <2>2, <2>3, <3>1, <3>2
  <2>4. CASE other # p.name
    <3>1. Just(p, other) = << >>
      BY <2>4 DEF Just
    <3>2. Chosen(s, other) \o << >> = Chosen(s, other)
      BY ChosenIsList, EmptyList, ListConcat
    <3> QED BY <2>1, <2>2, <2>4, <3>1, <3>2
  <2> QED BY <2>3, <2>4
<1> QED BY <1>1, <1>2

\* Get, by what is chosen.
LEMMA GetChosen ==
    ASSUME NEW s, IsList(s), NEW name
    PROVE  /\ Chosen(s, name) = << >> => Get(s, name) = << >> /\ Cardinality(Named(s, name)) <= 1
           /\ \A p : Chosen(s, name) = <<p>> => Get(s, name) = <<p>> /\ Cardinality(Named(s, name)) <= 1
<1>1. ASSUME Chosen(s, name) = << >>
      PROVE  Get(s, name) = << >> /\ Cardinality(Named(s, name)) <= 1
  <2>1. Named(s, name) = {}
    BY <1>1, ChosenNamed
  <2> QED BY <2>1, FS_EmptySet DEF Get
<1>2. ASSUME NEW p, Chosen(s, name) = <<p>>
      PROVE  Get(s, name) = <<p>> /\ Cardinality(Named(s, name)) <= 1
  <2>1. Len(Chosen(s, name)) = 1 /\ Chosen(s, name)[1] = p
    BY <1>2
  <2>2. PICK k \in DOMAIN s : Named(s, name) = {k} /\ s[k] = p
    BY <2>1, ChosenNamed
  <2>3. k \in Nat
    BY ListType
  <2>4. Min({k}) = k
    BY <2>3, MinIsSmallest
  <2>5. Get(s, name) = <<p>>
    <3>1. Named(s, name) # {} /\ Min(Named(s, name)) = k
      BY <2>2, <2>4
    <3> QED BY <2>2, <3>1 DEF Get
  <2>6. Cardinality({k}) = 1
    BY FS_Singleton
  <2>7. Cardinality(Named(s, name)) = 1
    BY <2>2, <2>6, Zenon
  <2> QED BY <2>5, <2>7
<1> QED BY <1>1, <1>2

-----------------------------------------------------------------------------
(* What the accessors make of a property that a setter wrote.              *)

LEMMA TimeIsRead ==
    ASSUME NEW props, NEW name, NEW t, Get(props, name) = <<TimeProperty(name, t)>>
    PROVE  TimeProp(props, name) = <<t>> /\ DateProp(props, name) = << >>
<1> DEFINE p == TimeProperty(name, t)
<1>1. p.VALUE = "" /\ p.TZID = "" /\ p.value = Value("utc", t)
  BY DEF TimeProperty, Property, FormatTime
<1>2. ~HasValueDate(p) /\ ParseTime(p.value) = <<t>>
  <2>1. \A x : ParseTime(Value("utc", x)) = <<x>>
    BY DEF ParseTime, Value
  <2>2. ~HasValueDate(p)
    <3> HIDE DEF p
    <3> QED BY <1>1 DEF HasValueDate
  <2> HIDE DEF p
  <2> QED BY <1>1, <2>1, <2>2
<1> HIDE DEF p
<1>3. Get(props, name) = <<p>>
  BY DEF p
<1>4. Get(props, name) # << >> /\ Get(props, name)[1] = p
  BY <1>3
<1> QED BY <1>1, <1>2, <1>4 DEF TimeProp, DateProp

\* A month has at most 31 days.
LEMMA MonthLength ==
    ASSUME NEW y \in Int, NEW m \in 1 .. 12
    PROVE  daysInMonth(y, m) \in Int /\ daysInMonth(y, m) <= 31
<1> DEFINE x == daysInYear(y) - 365
<1>1. x \in Int /\ x <= 3
  <2>1. daysInYear(y) = 365 + (LeapDaysBefore(y + 1) - LeapDaysBefore(y))
    BY DEF daysInYear, DaysBeforeYear, LeapDaysBefore
  <2>2. y \div 4 - (y - 1) \div 4 <= 1
    OBVIOUS
  <2>3. y \div 100 - (y - 1) \div 100 >= 0
    OBVIOUS
  <2>4. y \div 400 - (y - 1) \div 400 <= 1
    OBVIOUS
  <2> QED BY <2>1, <2>2, <2>3, <2>4 DEF LeapDaysBefore
<1> HIDE DEF x
<1>2. daysInMonth(y, m) = (MonthStarts[m + 1] + IF m + 1 > 2 THEN x ELSE 0) - (MonthStarts[m] + IF m > 2 THEN x ELSE 0)
  BY DEF daysInMonth, DaysBeforeMonth, x
<1>3. m \in {1, 2, 3, 4, 5, 6, 7, 8, 9, 10, 11, 12}
  OBVIOUS
<1> QED BY <1>1, <1>2, <1>3 DEF MonthStarts

\* FormatDate, read back.
LEMMA DayIsRead ==
    ASSUME NEW y \in Int, NEW m \in Int, NEW k \in Int
    PROVE  ParseDate(FormatDate(<<y, m, k>>)) =
             IF IsDay(<<y, m, k>>) THEN <<DayNumber(y, m, k)>> ELSE << >>
<1> DEFINE last   == daysInMonth(y, m)
           inY    == y \in 0 .. 9999
           inM    == m \in 1 .. 12
           in31   == k \in 1 .. 31
           inLast == k \in 1 .. last
           late   == k > last
           day    == DayNumber(y, m, k)
           none   == Value("text", "20260230")
           some   == Value("date", day)
<1>1. FormatDate(<<y, m, k>>) =
        IF y \notin 0 .. 9999 \/ m \notin 1 .. 12 \/ k \notin 1 .. 31 THEN EmptyValue
        ELSE IF late THEN none ELSE some
  BY DEF FormatDate
<1>2. IsDay(<<y, m, k>>) <=> inY /\ inM /\ inLast
  BY DEF IsDay
<1>3. inM => last \in Int /\ last <= 31
  BY MonthLength
<1>4. ParseDate(EmptyValue) = << >> /\ ParseDate(none) = << >>
  BY DEF ParseDate, EmptyValue, Value
<1>5. \A n : ParseDate(Value("date", n)) = <<n>>
  BY DEF ParseDate, Value
<1>6. ParseDate(some) = <<day>>
  BY <1>5
<1> HIDE DEF last, day, none, some
<1>7. inM /\ inLast => in31
  BY <1>3
<1>8. inM /\ in31 => (late <=> ~inLast)
  <2>1. ASSUME NEW z \in Int, k >= 1 PROVE k > z <=> ~(k \in 1 .. z)
    BY <2>1
  <2>2. inM /\ in31 => last \in Int /\ k >= 1
    BY <1>3
  <2> QED BY <2>1, <2>2, Zenon
<1>9. FormatDate(<<y, m, k>>) = IF ~inY \/ ~inM \/ ~in31 THEN EmptyValue ELSE IF late THEN none ELSE some
  <2> DEFINE outside == y \notin 0 .. 9999 \/ m \notin 1 .. 12 \/ k \notin 1 .. 31
  <2>1. outside <=> ~inY \/ ~inM \/ ~in31
    OBVIOUS
  <2>2. FormatDate(<<y, m, k>>) = IF outside THEN EmptyValue ELSE IF late THEN none ELSE some
    BY <1>1
  <2> HIDE DEF outside, inY, inM, in31, late
  <2> QED BY <2>1, <2>2
<1> HIDE DEF inY, inM, in31, inLast, late
<1>10. CASE inY /\ inM /\ in31 /\ late
  <2>1. FormatDate(<<y, m, k>>) = none
    BY <1>9, <1>10, Zenon
  <2>2. ~IsDay(<<y, m, k>>)
    BY <1>2, <1>8, <1>10, Zenon
  <2> QED BY <1>4, <2>1, <2>2, Zenon
<1>11. CASE inY /\ inM /\ in31 /\ ~late
  <2>1. FormatDate(<<y, m, k>>) = some
    BY <1>9, <1>11, Zenon
  <2>2. IsDay(<<y, m, k>>)
    BY <1>2, <1>8, <1>11, Zenon
  <2> QED BY <1>6, <2>1, <2>2, Zenon DEF day
<1>12. CASE ~inY \/ ~inM \/ ~in31
  <2>1. FormatDate(<<y, m, k>>) = EmptyValue
    BY <1>9, <1>12, Zenon
  <2>2. ~IsDay(<<y, m, k>>)
    BY <1>2, <1>7, <1>12, Zenon
  <2> QED BY <1>4, <2>1, <2>2, Zenon
<1> QED BY <1>10, <1>11, <1>12, Zenon

LEMMA DateIsRead ==
    ASSUME NEW props, NEW name, NEW d \in Int \X Int \X Int, Get(props, name) = <<DateProperty(name, d)>>
    PROVE  /\ TimeProp(props, name) = << >>
           /\ DateProp(props, name) = IF IsDay(d) THEN <<DayNumber(d[1], d[2], d[3])>> ELSE << >>
<1> DEFINE p == DateProperty(name, d)
<1>1. p.VALUE = "DATE" /\ p.value = FormatDate(d)
  BY DEF DateProperty, Property
<1>2. HasValueDate(p)
  BY <1>1 DEF HasValueDate
<1>3. ParseDate(FormatDate(d)) = IF IsDay(d) THEN <<DayNumber(d[1], d[2], d[3])>> ELSE << >>
  <2>1. PICK y \in Int, m \in Int, k \in Int : d = <<y, m, k>>
    OBVIOUS
  <2>2. d[1] = y /\ d[2] = m /\ d[3] = k
    BY <2>1
  <2>3. ParseDate(FormatDate(<<y, m, k>>)) = IF IsDay(<<y, m, k>>) THEN <<DayNumber(y, m, k)>> ELSE << >>
    BY DayIsRead
  <2> QED BY <2>1, <2>2, <2>3, Zenon
<1> HIDE DEF p
<1>4. Get(props, name) # << >> /\ Get(props, name)[1] = p
  <2>1. Get(props, name) = <<p>>
    BY DEF p
  <2> QED BY <2>1
<1> QED BY <1>1, <1>2, <1>3, <1>4 DEF TimeProp, DateProp

LEMMA NothingIsRead ==
    ASSUME NEW props, NEW name, Get(props, name) = << >>
    PROVE  TimeProp(props, name) = << >> /\ DateProp(props, name) = << >>
BY DEF TimeProp, DateProp

LEMMA NotBoth ==
    ASSUME NEW props, NEW name
    PROVE  TimeProp(props, name) = << >> \/ DateProp(props, name) = << >>
BY DEF TimeProp, DateProp

-----------------------------------------------------------------------------
(* The inductive invariant: of each name that a setter was called for, the  *)
(* component has what the last call wrote, and nothing else.                *)

IsProps(s) == IsList(s) /\ \A k \in 1 .. Len(s) : IsProperty(s[k])

AsWritten(props, name, last) ==
    \/ last = Untouched
    \/ \E t \in Instants :
         /\ last = <<"time", t>>
         /\ Chosen(props, name) = IF IsZero(t) THEN << >> ELSE <<TimeProperty(name, t)>>
    \/ \E d \in Days :
         /\ last = <<"date", d>>
         /\ Chosen(props, name) = IF d = NoDate THEN << >> ELSE <<DateProperty(name, d)>>

Shape ==
    /\ item = [type |-> item.type, props |-> item.props]
    /\ item.type \in {"VEVENT", "VTODO"}
    /\ IsProps(item.props) /\ IsProps(alarm)
    /\ written = [n \in Names |-> written[n]]
    /\ sets \in 0 .. MaxSets

IInv == Shape /\ \A name \in Names : AsWritten(item.props, name, written[name])

LEMMA GivenIsProps == ASSUME NEW s, IsPropertyList(s) PROVE IsProps(s)
<1>1. s \in Seq(ToSet(s)) /\ \A p \in ToSet(s) : IsProperty(p)
  BY DEF IsPropertyList
<1>2. IsList(s)
  BY <1>1 DEF IsList
<1>3. \A k \in 1 .. Len(s) : s[k] \in ToSet(s)
  BY <1>1, ElementOfSeq
<1> QED BY <1>1, <1>2, <1>3 DEF IsProps

LEMMA PropsSet ==
    ASSUME NEW s, IsProps(s)
    PROVE  \E S : s \in Seq(S) /\ \A p \in S : IsProperty(p)
<1> DEFINE S == {s[k] : k \in 1 .. Len(s)}
<1>1. PICK R : s \in Seq(R)
  BY DEF IsProps, IsList
<1>2. s \in Seq(S)
  BY <1>1
<1>3. \A p \in S : IsProperty(p)
  BY DEF IsProps
<1> QED BY <1>2, <1>3

LEMMA PropsOf ==
    ASSUME NEW S, NEW s \in Seq(S), \A p \in S : IsProperty(p)
    PROVE  IsProps(s)
<1>1. \A k \in 1 .. Len(s) : s[k] \in S
  OBVIOUS
<1>2. IsList(s)
  BY DEF IsList
<1> QED BY <1>1, <1>2 DEF IsProps

LEMMA WithoutProps == ASSUME NEW s, IsProps(s), NEW name PROVE IsProps(Without(s, name))
<1>1. PICK S : s \in Seq(S) /\ \A p \in S : IsProperty(p)
  BY PropsSet
<1>2. Without(s, name) \in Seq(S)
  BY <1>1, WithoutType
<1> QED BY <1>1, <1>2, PropsOf

LEMMA SetProps == ASSUME NEW s, IsProps(s), NEW q, IsProperty(q) PROVE IsProps(Set(s, q))
<1>1. PICK S : s \in Seq(S) /\ \A p \in S : IsProperty(p)
  BY PropsSet
<1>2. s \in Seq(S \cup {q}) /\ q \in S \cup {q} /\ \A p \in S \cup {q} : IsProperty(p)
  <2>1. s \in Seq(S \cup {q})
    BY <1>1
  <2>2. \A p \in S \cup {q} : IsProperty(p)
    BY <1>1
  <2> QED BY <2>1, <2>2
<1>3. Set(s, q) \in Seq(S \cup {q})
  BY <1>2, SetType
<1> QED BY <1>2, <1>3, PropsOf

LEMMA WrittenProperties ==
    ASSUME NEW name
    PROVE  /\ \A t : IsProperty(TimeProperty(name, t)) /\ TimeProperty(name, t).name = name
           /\ \A d : IsProperty(DateProperty(name, d)) /\ DateProperty(name, d).name = name
<1>1. ASSUME NEW t PROVE FormatTime(t).form = "utc"
  BY DEF FormatTime, Value
<1>2. ASSUME NEW d PROVE FormatDate(d).form \in {"date", "text"}
  <2>1. \A x : Value("date", x).form = "date" /\ Value("text", x).form = "text"
    BY DEF Value
  <2>2. EmptyValue.form = "text"
    BY <2>1 DEF EmptyValue
  <2>3. \/ FormatDate(d) = EmptyValue
        \/ FormatDate(d) = Value("text", "20260230")
        \/ FormatDate(d) = Value("date", DayNumber(d[1], d[2], d[3]))
    <3> DEFINE A == d[1] \notin 0..9999 \/ d[2] \notin 1..12 \/ d[3] \notin 1..31
               B == d[3] > daysInMonth(d[1], d[2])
    <3>1. FormatDate(d) = IF A THEN EmptyValue ELSE IF B THEN Value("text", "20260230")
                          ELSE Value("date", DayNumber(d[1], d[2], d[3]))
      BY DEF FormatDate
    <3> HIDE DEF A, B
    <3> QED BY <3>1
  <2> QED BY <2>1, <2>2, <2>3
<1>3. ASSUME NEW t
      PROVE  IsProperty(TimeProperty(name, t)) /\ TimeProperty(name, t).name = name
  <2> DEFINE v == FormatTime(t)
  <2>1. v.form \in {"utc", "date", "text"}
    BY <1>1
  <2>2. TimeProperty(name, t) = Property(name, "", "", "", v)
    BY DEF TimeProperty
  <2> HIDE DEF v
  <2>3. IsProperty(Property(name, "", "", "", v)) /\ Property(name, "", "", "", v).name = name
    BY <2>1 DEF IsProperty, Property
  <2> QED BY <2>2, <2>3
<1>4. ASSUME NEW d
      PROVE  IsProperty(DateProperty(name, d)) /\ DateProperty(name, d).name = name
  <2> DEFINE v == FormatDate(d)
  <2>1. v.form \in {"utc", "date", "text"}
    BY <1>2
  <2>2. DateProperty(name, d) = Property(name, "DATE", "", "", v)
    BY DEF DateProperty
  <2> HIDE DEF v
  <2>3. IsProperty(Property(name, "DATE", "", "", v)) /\ Property(name, "DATE", "", "", v).name = name
    BY <2>1 DEF IsProperty, Property
  <2> QED BY <2>2, <2>3
<1> QED BY <1>3, <1>4

LEMMA InitInv == Init => IInv
<1> SUFFICES ASSUME Init PROVE IInv
  OBVIOUS
<1>1. PICK i \in Items : item = [type |-> i.type, props |-> i.props] /\ alarm = i.alarm
  BY DEF Init
<1>2. i.type \in {"VEVENT", "VTODO"} /\ IsPropertyList(i.props) /\ IsPropertyList(i.alarm) /\ MaxSets \in Nat
  BY TimesAssumption
<1>3. item.type = i.type /\ item.props = i.props
  BY <1>1
<1>4. IsProps(item.props) /\ IsProps(alarm)
  BY <1>1, <1>2, <1>3, GivenIsProps
<1>5. written = [n \in Names |-> Untouched] /\ sets = 0
  BY DEF Init
<1>6. Shape
  <2>1. sets \in 0 .. MaxSets
    BY <1>2, <1>5
  <2>2. written = [n \in Names |-> written[n]]
    BY <1>5
  <2>3. item = [type |-> item.type, props |-> item.props] /\ item.type \in {"VEVENT", "VTODO"}
    BY <1>1, <1>2
  <2> QED BY <1>4, <2>1, <2>2, <2>3 DEF Shape
<1>7. \A name \in Names : AsWritten(item.props, name, written[name])
  BY <1>5 DEF AsWritten
<1> QED BY <1>6, <1>7 DEF IInv

\* What a call leaves alone is as it was, and what it changes is as the call says.
LEMMA CallInv ==
    ASSUME IInv, NEW name \in Names, NEW arg, NEW props,
           SetCall(name, arg), item' = [item EXCEPT !.props = props],
           IsProps(props), AsWritten(props, name, arg),
           \A n \in Names \ {name} : Chosen(props, n) = Chosen(item.props, n)
    PROVE  IInv'
<1>1. Shape /\ \A n \in Names : AsWritten(item.props, n, written[n])
  BY DEF IInv
<1>2. sets < MaxSets /\ sets' = sets + 1 /\ written' = [written EXCEPT ![name] = arg] /\ alarm' = alarm
  BY DEF SetCall
<1>3. item'.props = props /\ item'.type = item.type /\ item' = [type |-> item.type, props |-> props]
  <2>1. item = [type |-> item.type, props |-> item.props]
    BY <1>1 DEF Shape
  <2> QED BY <2>1
<1>4. written'[name] = arg /\ (\A n \in Names \ {name} : written'[n] = written[n])
      /\ written' = [n \in Names |-> written'[n]]
  <2>1. written = [n \in Names |-> written[n]]
    BY <1>1 DEF Shape
  <2> QED BY <1>2, <2>1
<1>5. sets' \in 0 .. MaxSets
  BY <1>1, <1>2, TimesAssumption DEF Shape
<1>6. Shape'
  <2>1. IsProps(item'.props) /\ IsProps(alarm')
    BY <1>1, <1>2, <1>3 DEF Shape
  <2>2. item'.type \in {"VEVENT", "VTODO"} /\ item' = [type |-> item'.type, props |-> item'.props]
    BY <1>1, <1>3 DEF Shape
  <2> QED BY <1>4, <1>5, <2>1, <2>2 DEF Shape
<1>7. ASSUME NEW n \in Names PROVE AsWritten(item'.props, n, written'[n])
  <2>1. CASE n = name
    BY <1>3, <1>4, <2>1
  <2>2. CASE n # name
    <3>1. written'[n] = written[n] /\ Chosen(props, n) = Chosen(item.props, n)
          /\ AsWritten(item.props, n, written[n])
      BY <1>1, <1>4, <2>2
    <3>2. AsWritten(props, n, written[n])
      BY <3>1, Zenon DEF AsWritten
    <3> QED BY <1>3, <3>1, <3>2
  <2> QED BY <2>1, <2>2
<1> QED BY <1>6, <1>7 DEF IInv

LEMMA TimeInv ==
    ASSUME IInv, NEW name \in Names, NEW t \in Instants, SetOrClearTime(name, t)
    PROVE  IInv'
<1> DEFINE props == IF IsZero(t) THEN Without(item.props, name)
                    ELSE Set(item.props, TimeProperty(name, t))
           p == TimeProperty(name, t)
<1>1. SetCall(name, <<"time", t>>) /\ item' = [item EXCEPT !.props = props]
  BY DEF SetOrClearTime
<1>2. IsProps(item.props) /\ IsList(item.props)
  BY DEF IInv, Shape, IsProps
<1>3. IsProperty(p) /\ p.name = name
  BY WrittenProperties
<1>4. IsProps(props)
  BY <1>2, <1>3, WithoutProps, SetProps
<1> HIDE DEF p
<1>5. ASSUME NEW n
      PROVE  Chosen(props, n) = IF n # name THEN Chosen(item.props, n)
                                ELSE IF IsZero(t) THEN << >> ELSE <<p>>
  <2>1. CASE IsZero(t)
    <3>1. props = Without(item.props, name)
      BY <2>1
    <3>2. Chosen(Without(item.props, name), n) = IF n = name THEN << >> ELSE Chosen(item.props, n)
      BY <1>2, ChosenWithout
    <3> QED BY <2>1, <3>1, <3>2
  <2>2. CASE ~IsZero(t)
    <3>1. props = Set(item.props, p)
      BY <2>2 DEF p
    <3>2. Chosen(Set(item.props, p), n) = IF n = p.name THEN <<p>> ELSE Chosen(item.props, n)
      BY <1>2, ChosenSet
    <3> QED BY <1>3, <2>2, <3>1, <3>2
  <2> QED BY <2>1, <2>2
<1> HIDE DEF props
<1>6. AsWritten(props, name, <<"time", t>>)
  BY <1>5 DEF AsWritten, p
<1> QED BY <1>1, <1>4, <1>5, <1>6, CallInv

LEMMA DateInv ==
    ASSUME IInv, NEW name \in Names, NEW d \in Days, SetOrClearDate(name, d)
    PROVE  IInv'
<1> DEFINE props == IF d = NoDate THEN Without(item.props, name)
                    ELSE Set(item.props, DateProperty(name, d))
           p == DateProperty(name, d)
<1>1. SetCall(name, <<"date", d>>) /\ item' = [item EXCEPT !.props = props]
  BY DEF SetOrClearDate
<1>2. IsProps(item.props) /\ IsList(item.props)
  BY DEF IInv, Shape, IsProps
<1>3. IsProperty(p) /\ p.name = name
  BY WrittenProperties
<1>4. IsProps(props)
  BY <1>2, <1>3, WithoutProps, SetProps
<1> HIDE DEF p
<1>5. ASSUME NEW n
      PROVE  Chosen(props, n) = IF n # name THEN Chosen(item.props, n)
                                ELSE IF d = NoDate THEN << >> ELSE <<p>>
  <2>1. CASE d = NoDate
    <3>1. props = Without(item.props, name)
      BY <2>1
    <3>2. Chosen(Without(item.props, name), n) = IF n = name THEN << >> ELSE Chosen(item.props, n)
      BY <1>2, ChosenWithout
    <3> QED BY <2>1, <3>1, <3>2
  <2>2. CASE d # NoDate
    <3>1. props = Set(item.props, p)
      BY <2>2 DEF p
    <3>2. Chosen(Set(item.props, p), n) = IF n = p.name THEN <<p>> ELSE Chosen(item.props, n)
      BY <1>2, ChosenSet
    <3> QED BY <1>3, <2>2, <3>1, <3>2
  <2> QED BY <2>1, <2>2
<1> HIDE DEF props
<1>6. AsWritten(props, name, <<"date", d>>)
  BY <1>5 DEF AsWritten, p
<1> QED BY <1>1, <1>4, <1>5, <1>6, CallInv

LEMMA NextInv == IInv /\ [Next]_vars => IInv'
<1> SUFFICES ASSUME IInv, [Next]_vars PROVE IInv'
  OBVIOUS
<1>1. ASSUME NEW name \in Names, NEW t \in Instants, SetOrClearTime(name, t) PROVE IInv'
  BY <1>1, TimeInv
<1>2. ASSUME NEW name \in Names, NEW d \in Days, SetOrClearDate(name, d) PROVE IInv'
  BY <1>2, DateInv
<1>3. CASE UNCHANGED vars
  BY <1>3 DEF vars, IInv, Shape
<1> QED BY <1>1, <1>2, <1>3 DEF Next

-----------------------------------------------------------------------------
(* The theorems.                                                           *)

LEMMA InvIsInductive == Spec => []IInv
<1>1. Init => IInv
  BY InitInv
<1>2. IInv /\ [Next]_vars => IInv'
  BY NextInv
<1> QED BY <1>1, <1>2, PTL DEF Spec

LEMMA CycleType == ASSUME IsProps(alarm), AlarmRepeatCycle # << >> PROVE AlarmRepeatCycle[2] \in Nat
<1> DEFINE dur == Get(alarm, "DURATION")
           rep == Get(alarm, "REPEAT")
           d   == IF dur = << >> THEN Malformed ELSE ParseDuration(DurationText(dur[1].value))
           z   == Zero
<1>1. AlarmRepeatCycle = IF dur = << >> /\ rep = << >> THEN <<z, 0>>
                         ELSE IF dur = << >> \/ rep = << >> THEN << >>
                         ELSE IF d = Malformed \/ rep[1].value.form # "number" \/ rep[1].value.at < 0 THEN << >>
                         ELSE <<d[1], rep[1].value.at>>
  BY DEF AlarmRepeatCycle
<1>2. rep # << >> => IsProperty(rep[1])
  <2>1. SUFFICES ASSUME rep # << >> PROVE IsProperty(rep[1])
    OBVIOUS
  <2> DEFINE T == Named(alarm, "REPEAT")
  <2>2. T # {} /\ rep = <<alarm[Min(T)]>>
    BY <2>1 DEF Get
  <2>3. T \subseteq 1 .. Len(alarm) /\ Len(alarm) \in Nat
    BY ListType DEF Named, IsProps
  <2> HIDE DEF T
  <2>4. T \in SUBSET Nat
    BY <2>3
  <2>5. Min(T) \in 1 .. Len(alarm)
    BY <2>2, <2>3, <2>4, MinIsSmallest
  <2>6. rep[1] = alarm[Min(T)]
    BY <2>2
  <2> QED BY <2>5, <2>6 DEF IsProps
<1> HIDE DEF dur, rep, d, z
<1>3. CASE dur = << >> /\ rep = << >>
  <2>1. AlarmRepeatCycle = <<z, 0>>
    BY <1>1, <1>3
  <2> QED BY <2>1
<1>4. CASE ~(dur = << >> /\ rep = << >>)
  <2>1. /\ rep # << >> /\ rep[1].value.form = "number" /\ ~(rep[1].value.at < 0)
        /\ AlarmRepeatCycle = <<d[1], rep[1].value.at>>
    BY <1>1, <1>4
  <2>2. rep[1].value.at \in Int
    BY <1>2, <2>1 DEF IsProperty
  <2>3. rep[1].value.at \in Nat
    BY <2>1, <2>2
  <2> DEFINE x == d[1]
             n == rep[1].value.at
  <2>4. AlarmRepeatCycle = <<x, n>> /\ n \in Nat
    BY <2>1, <2>3
  <2> HIDE DEF x, n
  <2> QED BY <2>4
<1> QED BY <1>3, <1>4

LEMMA InvTypeOK == IInv => TypeOK
<1> SUFFICES ASSUME IInv PROVE TypeOK
  OBVIOUS
<1>1. Shape
  BY DEF IInv
<1>2. ASSUME NEW k \in DOMAIN AllProps PROVE IsProperty(AllProps[k])
  <2> DEFINE s == item.props
             n == Len(s)
  <2>1. IsList(s) /\ IsList(alarm) /\ AllProps = s \o alarm
        /\ (\A i \in 1 .. n : IsProperty(s[i])) /\ (\A i \in 1 .. Len(alarm) : IsProperty(alarm[i]))
    BY <1>1 DEF Shape, IsProps, AllProps
  <2> HIDE DEF s
  <2>2. /\ IsList(s \o alarm) /\ Len(s \o alarm) = n + Len(alarm)
        /\ (\A i \in 1 .. n : (s \o alarm)[i] = s[i])
        /\ (\A i \in 1 .. Len(alarm) : (s \o alarm)[n + i] = alarm[i])
    BY <2>1, ListConcat
  <2>3. n \in Nat /\ Len(alarm) \in Nat /\ k \in 1 .. n + Len(alarm)
    BY <2>1, <2>2, ListType
  <2>4. CASE k <= n
    <3>1. k \in 1 .. n
      BY <2>3, <2>4
    <3> QED BY <2>1, <2>2, <3>1
  <2>5. CASE ~(k <= n)
    <3>1. k - n \in 1 .. Len(alarm) /\ n + (k - n) = k
      BY <2>3, <2>5
    <3>2. (s \o alarm)[n + (k - n)] = alarm[k - n]
      BY <2>2, <3>1
    <3> QED BY <2>1, <3>1, <3>2
  <2> QED BY <2>4, <2>5
<1>3. AlarmRepeatCycle # << >> => AlarmRepeatCycle[2] \in Nat
  BY <1>1, CycleType DEF Shape
<1> QED BY <1>1, <1>2, <1>3 DEF TypeOK, Shape

\* What the accessors of a name read, by its last call.
LEMMA LastIsRead ==
    ASSUME IInv, NEW name \in Names
    PROVE  /\ \A t : written[name] = <<"time", t>> =>
                /\ TimeProp(item.props, name) = IF IsZero(t) THEN << >> ELSE <<t>>
                /\ DateProp(item.props, name) = << >>
                /\ Cardinality(Named(item.props, name)) <= 1
           /\ \A d : written[name] = <<"date", d>> =>
                /\ DateProp(item.props, name) = IF IsDay(d) THEN <<DayNumber(d[1], d[2], d[3])>> ELSE << >>
                /\ TimeProp(item.props, name) = << >>
                /\ Cardinality(Named(item.props, name)) <= 1
<1> DEFINE s == item.props
<1>1. AsWritten(s, name, written[name]) /\ IsList(s)
  BY DEF IInv, Shape, IsProps
<1> HIDE DEF s
<1>2. \A a, b : <<"time", a>> # <<"date", b>> /\ <<"time", a>> # Untouched /\ <<"date", a>> # Untouched
  BY DEF Untouched
<1>3. \A a, b : (<<"time", a>> = <<"time", b>> => a = b) /\ (<<"date", a>> = <<"date", b>> => a = b)
  OBVIOUS
<1>4. ASSUME NEW t, written[name] = <<"time", t>>
      PROVE  /\ TimeProp(s, name) = IF IsZero(t) THEN << >> ELSE <<t>>
             /\ DateProp(s, name) = << >>
             /\ Cardinality(Named(s, name)) <= 1
  <2>1. Chosen(s, name) = IF IsZero(t) THEN << >> ELSE <<TimeProperty(name, t)>>
    BY ONLY <1>1, <1>2, <1>3, <1>4 DEF AsWritten
  <2>2. CASE IsZero(t)
    <3>1. Get(s, name) = << >> /\ Cardinality(Named(s, name)) <= 1
      BY <1>1, <2>1, <2>2, GetChosen
    <3> QED BY <2>2, <3>1, NothingIsRead
  <2>3. CASE ~IsZero(t)
    <3>1. Get(s, name) = <<TimeProperty(name, t)>> /\ Cardinality(Named(s, name)) <= 1
      BY <1>1, <2>1, <2>3, GetChosen
    <3> QED BY <2>3, <3>1, TimeIsRead
  <2> QED BY <2>2, <2>3
<1>5. ASSUME NEW d, written[name] = <<"date", d>>
      PROVE  /\ DateProp(s, name) = IF IsDay(d) THEN <<DayNumber(d[1], d[2], d[3])>> ELSE << >>
             /\ TimeProp(s, name) = << >>
             /\ Cardinality(Named(s, name)) <= 1
  <2>1. d \in Days /\ Chosen(s, name) = IF d = NoDate THEN << >> ELSE <<DateProperty(name, d)>>
    BY ONLY <1>1, <1>2, <1>3, <1>5 DEF AsWritten
  <2>2. d \in Int \X Int \X Int
    BY <2>1, TimesAssumption
  <2>3. CASE d = NoDate
    <3>1. Get(s, name) = << >> /\ Cardinality(Named(s, name)) <= 1
      BY <1>1, <2>1, <2>3, GetChosen
    <3>2. ~IsDay(d)
      BY <2>3 DEF IsDay, NoDate
    <3> QED BY <3>1, <3>2, NothingIsRead
  <2>4. CASE d # NoDate
    <3>1. Get(s, name) = <<DateProperty(name, d)>> /\ Cardinality(Named(s, name)) <= 1
      BY <1>1, <2>1, <2>4, GetChosen
    <3> QED BY <2>2, <3>1, DateIsRead
  <2> QED BY <2>3, <2>4
<1> QED BY <1>4, <1>5 DEF s

\* What a setter wrote is what is read: for any properties that a codec delivered, any
\* instants and days, and any number of calls in any order, the accessors of the kind
\* that was set last read it (src/go/component_time.go, component_date.go), those of
\* the other kind read nothing, and no second property of the name is left.
THEOREM SettersAreRead == Spec => []ReadsBackAsWritten
<1>1. IInv => ReadsBackAsWritten
  <2> SUFFICES ASSUME IInv, NEW name \in Names
      PROVE  LET last == written[name]
                 time == TimeProp(item.props, name)
                 date == DateProp(item.props, name)
             IN  /\ TypeOK
                 /\ last # Untouched => Cardinality(Named(item.props, name)) <= 1
                 /\ CASE last = Untouched -> time = << >> \/ date = << >>
                      [] last[1] = "time" ->
                        /\ time = IF IsZero(last[2]) THEN << >> ELSE <<last[2]>>
                        /\ date = << >>
                      [] last[1] = "date" ->
                        /\ date = IF IsDay(last[2])
                                  THEN <<DayNumber(last[2][1], last[2][2], last[2][3])>> ELSE << >>
                        /\ time = << >>
    BY DEF ReadsBackAsWritten
  <2> DEFINE last == written[name]
             time == TimeProp(item.props, name)
             date == DateProp(item.props, name)
             one  == Cardinality(Named(item.props, name)) <= 1
  <2>1. TypeOK
    BY InvTypeOK
  <2>2. time = << >> \/ date = << >>
    BY NotBoth
  <2>3. /\ \A t : last = <<"time", t>> =>
             time = (IF IsZero(t) THEN << >> ELSE <<t>>) /\ date = << >> /\ one
        /\ \A d : last = <<"date", d>> =>
             date = (IF IsDay(d) THEN <<DayNumber(d[1], d[2], d[3])>> ELSE << >>) /\ time = << >> /\ one
    BY LastIsRead
  <2>4. \/ last = Untouched \/ \E t : last = <<"time", t>> \/ \E d : last = <<"date", d>>
    BY DEF IInv, AsWritten
  <2> HIDE DEF last, time, date, one
  <2>5. Untouched[1] = "untouched"
    BY DEF Untouched
  <2>6. CASE last = Untouched
    BY <2>1, <2>2, <2>5, <2>6 DEF last, time, date
  <2>7. ASSUME NEW t, last = <<"time", t>>
        PROVE  /\ last # Untouched /\ last[1] = "time" /\ last[1] # "date" /\ last[2] = t
               /\ time = (IF IsZero(t) THEN << >> ELSE <<t>>) /\ date = << >> /\ one
    <3>1. last[1] = "time" /\ last[2] = t
      BY <2>7
    <3> QED BY <2>3, <2>5, <2>7, <3>1
  <2>8. ASSUME NEW d, last = <<"date", d>>
        PROVE  /\ last # Untouched /\ last[1] = "date" /\ last[1] # "time" /\ last[2] = d
               /\ date = (IF IsDay(d) THEN <<DayNumber(d[1], d[2], d[3])>> ELSE << >>)
               /\ time = << >> /\ one
    <3>1. last[1] = "date" /\ last[2] = d
      BY <2>8
    <3> QED BY <2>3, <2>5, <2>8, <3>1
  <2>9. CASE \E t : last = <<"time", t>>
    <3>1. PICK t : last = <<"time", t>>
      BY <2>9
    <3>2. /\ last # Untouched /\ last[1] = "time" /\ last[1] # "date" /\ last[2] = t
          /\ time = (IF IsZero(t) THEN << >> ELSE <<t>>) /\ date = << >> /\ one
      BY <2>7, <3>1
    <3> QED BY <2>1, <3>2, Zenon DEF last, time, date, one
  <2>10. CASE \E d : last = <<"date", d>>
    <3>1. PICK d : last = <<"date", d>>
      BY <2>10
    <3>2. /\ last # Untouched /\ last[1] = "date" /\ last[1] # "time" /\ last[2] = d
          /\ date = (IF IsDay(d) THEN <<DayNumber(d[1], d[2], d[3])>> ELSE << >>)
          /\ time = << >> /\ one
      BY <2>8, <3>1
    <3> QED BY <2>1, <3>2, Zenon DEF last, time, date, one
  <2> QED BY <2>4, <2>6, <2>9, <2>10
<1> QED BY <1>1, InvIsInductive, PTL

\* What ParseTrigger makes of any property is relative, to the start or the end, or absolute.
LEMMA TriggerShape ==
    ASSUME NEW p, ParseTrigger(p) # NoTrigger
    PROVE  \/ \E d : \E r \in {"START", "END"} : ParseTrigger(p) = <<RelativeTrigger(d, r)>>
           \/ \E at : ParseTrigger(p) = <<AbsoluteTrigger(at)>>
<1> DEFINE d     == ParseDuration(DurationText(p.value))
           at    == ParseTime(p.value)
           isRel == \/ p.VALUE = "DURATION"
                    \/ p.VALUE = "" /\ d # Malformed
           known == p.VALUE \in {"", "DURATION", "DATE-TIME"}
           r     == IF p.RELATED = "" THEN "START" ELSE p.RELATED
<1>1. ParseTrigger(p) =
        CASE p.VALUE \notin {"", "DURATION", "DATE-TIME"} -> NoTrigger
          [] p.VALUE \in {"", "DURATION", "DATE-TIME"} /\ isRel ->
               IF d = Malformed \/ p.RELATED \notin {"", "START", "END"} THEN NoTrigger
               ELSE <<RelativeTrigger(d[1], r)>>
          [] OTHER ->
               IF at = << >> \/ p.RELATED # "" THEN NoTrigger ELSE <<AbsoluteTrigger(at[1])>>
  BY DEF ParseTrigger
<1>2. p.VALUE \notin {"", "DURATION", "DATE-TIME"} <=> ~known
  BY DEF known
<1> HIDE DEF d, at, isRel, known
<1>3. CASE ~known
  BY <1>1, <1>2, <1>3
<1>4. CASE known /\ isRel
  <2>1. ParseTrigger(p) = IF d = Malformed \/ p.RELATED \notin {"", "START", "END"} THEN NoTrigger
                          ELSE <<RelativeTrigger(d[1], r)>>
    BY <1>1, <1>2, <1>4
  <2>2. p.RELATED \in {"", "START", "END"} /\ ParseTrigger(p) = <<RelativeTrigger(d[1], r)>>
    BY <2>1
  <2>3. r \in {"START", "END"}
    BY <2>2
  <2> QED BY <2>2, <2>3
<1>5. CASE known /\ ~isRel
  <2>1. ParseTrigger(p) = IF at = << >> \/ p.RELATED # "" THEN NoTrigger ELSE <<AbsoluteTrigger(at[1])>>
    BY <1>1, <1>2, <1>5
  <2> QED BY <2>1
<1> QED BY <1>3, <1>4, <1>5

\* An alarm related to the end of a task goes off by the DUE that was set last, and one
\* related to the start by its DTSTART alone (Trigger.Resolve,
\* src/go/duration/trigger.go): for any alarm, whatever else the task carries.
THEOREM AlarmsFollowDue == Spec => []AlarmFollowsDue
<1>1. \A a, b, c, e : [relative |-> a, d |-> b, related |-> c, at |-> e].related = c
  OBVIOUS
<1>2. IInv => AlarmFollowsDue
  <2> DEFINE t   == AlarmTrigger[1]
             set == written["DUE"]
  <2> SUFFICES ASSUME IInv, AlarmTrigger # NoTrigger, t.relative, item.type = "VTODO",
                      set[1] = "time", set # <<"time", ZeroTime>>
               PROVE  Resolve(t) = IF t.related = "END" THEN <<AddTo(t.d, set[2])>>
                                   ELSE IF TimeProp(item.props, "DTSTART") = << >> THEN << >>
                                   ELSE <<AddTo(t.d, TimeProp(item.props, "DTSTART")[1])>>
    BY Zenon DEF AlarmFollowsDue
  <2>1. t.related \in {"START", "END"}
    <3> DEFINE p == Get(alarm, "TRIGGER")[1]
    <3>1. AlarmTrigger = ParseTrigger(p)
      BY Zenon DEF AlarmTrigger
    <3> HIDE DEF p
    <3>2. ParseTrigger(p) # NoTrigger
      BY <3>1
    <3>3. CASE \E d : \E r \in {"START", "END"} : ParseTrigger(p) = <<RelativeTrigger(d, r)>>
      <4>0. PICK d : \E r \in {"START", "END"} : ParseTrigger(p) = <<RelativeTrigger(d, r)>>
        BY <3>3
      <4>1. PICK r \in {"START", "END"} : ParseTrigger(p) = <<RelativeTrigger(d, r)>>
        BY <4>0
      <4>2. t = RelativeTrigger(d, r)
        BY <3>1, <4>1
      <4>3. RelativeTrigger(d, r).related = r
        BY <1>1, Zenon DEF RelativeTrigger
      <4> HIDE DEF t
      <4> QED BY <4>2, <4>3, Zenon
    <3>4. CASE \E at : ParseTrigger(p) = <<AbsoluteTrigger(at)>>
      <4>1. PICK at : ParseTrigger(p) = <<AbsoluteTrigger(at)>>
        BY <3>4
      <4>2. t = AbsoluteTrigger(at)
        BY <3>1, <4>1
      <4>3. AbsoluteTrigger(at).related = "START"
        BY <1>1, Zenon DEF AbsoluteTrigger
      <4> HIDE DEF t
      <4> QED BY <4>2, <4>3, Zenon
    <3> QED BY <3>2, <3>3, <3>4, TriggerShape
  <2>2. Resolve(t) = IF Anchor(t) = << >> THEN << >> ELSE <<AddTo(t.d, Anchor(t)[1])>>
    <3> HIDE DEF t
    <3> QED BY Zenon DEF Resolve
  <2>3. PICK x : set = <<"time", x>> /\ x # ZeroTime
    <3>1. "DUE" \in Names
      BY DEF Names
    <3>2. AsWritten(item.props, "DUE", set)
      BY <3>1 DEF IInv
    <3>3. Untouched[1] = "untouched" /\ \A d : <<"date", d>>[1] = "date"
      BY DEF Untouched
    <3> HIDE DEF set
    <3>4. PICK x : set = <<"time", x>>
      BY <3>2, <3>3 DEF AsWritten
    <3> QED BY <3>4
  <2>4. TimeProp(item.props, "DUE") = <<x>>
    <3>1. "DUE" \in Names /\ ~IsZero(x)
      BY <2>3 DEF Names, IsZero
    <3> QED BY <2>3, <3>1, LastIsRead
  <2> DEFINE due   == TimeProp(item.props, "DUE")
             start == TimeProp(item.props, "DTSTART")
             end   == EventEnd(item.props)
  <2>5. Anchor(t) = IF t.related = "START" THEN start
                    ELSE IF item.type = "VTODO" /\ due # << >> THEN due ELSE end
    BY DEF Anchor
  <2>6. set[2] = x /\ due # << >> /\ due[1] = x
    BY <2>3, <2>4
  <2> HIDE DEF t, set, due, start, end
  <2>7. CASE t.related = "START"
    <3>1. Anchor(t) = start /\ t.related # "END"
      BY <2>5, <2>7
    <3> QED BY <2>2, <3>1, Zenon DEF start
  <2>8. CASE t.related = "END"
    <3>1. Anchor(t) = due
      BY <2>5, <2>6, <2>8
    <3> QED BY <2>2, <2>6, <2>8, <3>1, Zenon
  <2> QED BY <2>1, <2>7, <2>8
<1> QED BY <1>2, InvIsInductive, PTL

=============================================================================
