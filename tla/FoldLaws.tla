-------------------------------- MODULE FoldLaws --------------------------------
(***************************************************************************)
(* Laws of finite sequences that the proofs of the codecs rest on: folding  *)
(* with an operator of the caller's choice, an element at a time and over a *)
(* concatenation; parts of sequences; and flattening.                       *)
(***************************************************************************)
EXTENDS Naturals, Sequences, SequencesExt, WellFoundedInduction, SequenceTheorems, TLAPS

CONSTANT Op(_, _)      \* what one element does to the state of the fold

Fold(base, s) == FoldLeft(Op, base, s)

\* A sequence, of whatever elements.
IsList(s) == \E S : s \in Seq(S)

-----------------------------------------------------------------------------
\* A set of numbers that holds 0 and the successor of each of its elements holds
\* them all.
LEMMA NatInduct ==
    ASSUME NEW S \in SUBSET Nat, 0 \in S, \A n \in S : n + 1 \in S
    PROVE  \A n \in Nat : n \in S
<1> SUFFICES ASSUME NEW m \in Nat, m \notin S PROVE FALSE
  OBVIOUS
<1> DEFINE T == Nat \ S
<1>1. PICK x \in T : \A y \in T : ~(<<y, x>> \in OpToRel(<, Nat))
  <2>1. T \subseteq Nat /\ T # {}
    OBVIOUS
  <2> HIDE DEF T
  <2> QED BY <2>1, WFMin, NatLessThanWellFounded, Zenon
<1>2. x \in Nat /\ x - 1 \in Nat /\ x - 1 < x /\ (x - 1) + 1 = x
  OBVIOUS
<1>3. <<x - 1, x>> \in OpToRel(<, Nat)
  BY <1>2, Zenon DEF OpToRel
<1>4. x - 1 \in S
  BY <1>1, <1>2, <1>3
<1> QED BY <1>2, <1>4

-----------------------------------------------------------------------------
(* Lists.                                                                  *)

LEMMA ListType ==
    ASSUME NEW s, IsList(s)
    PROVE  /\ Len(s) \in Nat /\ DOMAIN s = 1 .. Len(s)
           /\ \A n \in 0 .. Len(s) : SubSeq(s, 1, n) = [i \in 1 .. n |-> s[i]]
BY DEF IsList

LEMMA ListAppend ==
    ASSUME NEW s, IsList(s), NEW e
    PROVE  /\ IsList(Append(s, e)) /\ Len(Append(s, e)) = Len(s) + 1
           /\ \A i \in 1 .. Len(s) : Append(s, e)[i] = s[i]
           /\ Append(s, e)[Len(s) + 1] = e
           /\ Append(s, e) # << >>
<1>1. PICK S : s \in Seq(S)
  BY DEF IsList
<1>2. s \in Seq(S \cup {e}) /\ e \in S \cup {e}
  BY <1>1
<1>3. Append(s, e) \in Seq(S \cup {e}) /\ Len(Append(s, e)) = Len(s) + 1
  BY <1>2
<1> QED BY <1>2, <1>3 DEF IsList
\* Two lists are lists over one set.
LEMMA ListUnion == ASSUME NEW s, NEW t, IsList(s), IsList(t)
                   PROVE  \E S : s \in Seq(S) /\ t \in Seq(S)
<1>1. PICK S : s \in Seq(S)
  BY DEF IsList
<1>2. PICK T : t \in Seq(T)
  BY DEF IsList
<1>3. s \in Seq(S \cup T) /\ t \in Seq(S \cup T)
  BY <1>1, <1>2
<1> QED BY <1>3

LEMMA ListEqual ==
    ASSUME NEW s, NEW t, IsList(s), IsList(t), Len(s) = Len(t),
           \A i \in 1 .. Len(s) : s[i] = t[i]
    PROVE  s = t
BY ListUnion, SeqEqual

LEMMA ListConcat ==
    ASSUME NEW s, NEW t, IsList(s), IsList(t)
    PROVE  /\ IsList(s \o t) /\ Len(s \o t) = Len(s) + Len(t)
           /\ \A i \in 1 .. Len(s) : (s \o t)[i] = s[i]
           /\ \A i \in 1 .. Len(t) : (s \o t)[Len(s) + i] = t[i]
           /\ s \o << >> = s /\ << >> \o s = s
<1>1. PICK S : s \in Seq(S) /\ t \in Seq(S)
  BY ListUnion
<1>2. s \o t \in Seq(S)
  BY <1>1, ConcatProperties
<1>3. Len(s) \in Nat /\ Len(t) \in Nat
  BY <1>1
<1>4. /\ Len(s \o t) = Len(s) + Len(t)
      /\ \A i \in 1 .. Len(s) + Len(t) :
            (s \o t)[i] = IF i <= Len(s) THEN s[i] ELSE t[i - Len(s)]
  BY <1>1, ConcatProperties
<1>5. s \o << >> = s /\ << >> \o s = s
  BY <1>1, ConcatEmptySeq
<1> QED BY <1>2, <1>3, <1>4, <1>5 DEF IsList

LEMMA ConcatAppend ==
    ASSUME NEW s, NEW t, IsList(s), IsList(t), NEW e
    PROVE  s \o Append(t, e) = Append(s \o t, e)
<1>1. PICK S : s \in Seq(S) /\ t \in Seq(S)
  BY ListUnion
<1>2. /\ s \in Seq(S \cup {e}) /\ t \in Seq(S \cup {e}) /\ <<e>> \in Seq(S \cup {e})
      /\ e \in S \cup {e} /\ s \o t \in Seq(S \cup {e})
  <2>1. s \in Seq(S \cup {e}) /\ t \in Seq(S \cup {e})
    BY <1>1
  <2> QED BY <2>1, ConcatProperties
<1>3. Append(t, e) = t \o <<e>> /\ Append(s \o t, e) = (s \o t) \o <<e>>
  BY <1>2, AppendIsConcat
<1> QED BY <1>2, <1>3, ConcatAssociative

\* A part of a list, and one that is an element longer.
LEMMA ListPart ==
    ASSUME NEW s, IsList(s), NEW m \in Nat \ {0}, NEW n \in Nat, n <= Len(s), m <= n + 1
    PROVE  /\ IsList(SubSeq(s, m, n)) /\ Len(SubSeq(s, m, n)) = n - m + 1
           /\ \A i \in 1 .. n - m + 1 : SubSeq(s, m, n)[i] = s[m + i - 1]
           /\ n < Len(s) => SubSeq(s, m, n + 1) = Append(SubSeq(s, m, n), s[n + 1])
           /\ SubSeq(s, 1, Len(s)) = s
<1>1. PICK S : s \in Seq(S)
  BY DEF IsList
<1>2. SubSeq(s, m, n) \in Seq(S) /\ Len(SubSeq(s, m, n)) = n - m + 1
  BY <1>1
<1>3. \A i \in 1 .. n - m + 1 : SubSeq(s, m, n)[i] = s[m + i - 1]
  BY <1>1
<1>4. ASSUME n < Len(s) PROVE SubSeq(s, m, n + 1) = Append(SubSeq(s, m, n), s[n + 1])
  BY <1>1, <1>2, <1>4
<1>5. SubSeq(s, 1, Len(s)) = s
  BY <1>1
<1> QED BY <1>2, <1>3, <1>4, <1>5 DEF IsList

\* A list is empty or has a last element.
LEMMA ListCases ==
    ASSUME NEW s, IsList(s)
    PROVE  \/ s = << >>
           \/ \E r, e : IsList(r) /\ Len(r) + 1 = Len(s) /\ s = Append(r, e)
<1>1. CASE Len(s) = 0
  BY <1>1 DEF IsList
<1>2. CASE Len(s) # 0
  <2> DEFINE n == Len(s) - 1
  <2>1. n \in Nat /\ n < Len(s) /\ n <= Len(s) /\ 1 <= n + 1 /\ n + 1 = Len(s)
    BY <1>2 DEF IsList
  <2> HIDE DEF n
  <2>2. /\ IsList(SubSeq(s, 1, n)) /\ Len(SubSeq(s, 1, n)) = n - 1 + 1
        /\ SubSeq(s, 1, n + 1) = Append(SubSeq(s, 1, n), s[n + 1])
        /\ SubSeq(s, 1, Len(s)) = s
    BY <2>1, ListPart
  <2>3. Len(SubSeq(s, 1, n)) + 1 = Len(s)
    BY <2>1, <2>2
  <2> QED BY <2>1, <2>2, <2>3, Zenon
<1> QED BY <1>1, <1>2

-----------------------------------------------------------------------------
(* Folding, from the definition of the community modules: a function on the *)
(* sets of positions, that takes the largest position off.                  *)

\* it is that function for the first n positions of s.
Folds(it, base, s, n) ==
    it = [T \in SUBSET (1 .. n) |->
            IF T = {} THEN base ELSE Op(it[T \ {Max(T)}], s[Max(T)])]

LEMMA MaxIsLargest ==
    ASSUME NEW n \in Nat, NEW T \in SUBSET (1 .. n), T # {}
    PROVE  Max(T) \in T /\ \A y \in T : y <= Max(T)
<1> DEFINE S == {k \in Nat : \A U \in SUBSET (1 .. k) : U # {} => \E x \in U : \A y \in U : x >= y}
<1>1. 0 \in S
  <2>1. 1 .. 0 = {}
    OBVIOUS
  <2> QED BY <2>1
<1>2. ASSUME NEW k \in S PROVE k + 1 \in S
  <2> SUFFICES ASSUME NEW U \in SUBSET (1 .. k + 1), U # {}
               PROVE  \E x \in U : \A y \in U : x >= y
    OBVIOUS
  <2>1. CASE k + 1 \in U
    BY <2>1
  <2>2. CASE k + 1 \notin U
    <3>1. U \in SUBSET (1 .. k)
      BY <2>2
    <3> QED BY <1>2, <3>1
  <2> QED BY <2>1, <2>2
<1>3. n \in S
  <2> HIDE DEF S
  <2>1. S \in SUBSET Nat
    BY DEF S
  <2> QED BY <1>1, <1>2, <2>1, NatInduct
<1>4. \E x \in T : \A y \in T : x >= y
  BY <1>3
<1>5. Max(T) \in T /\ \A y \in T : Max(T) >= y
  BY <1>4 DEF Max
<1> QED BY <1>5

LEMMA FoldsExists == ASSUME NEW base, NEW s, NEW n \in Nat PROVE \E it : Folds(it, base, s, n)
<1> DEFINE S == {k \in Nat : \E it : Folds(it, base, s, k)}
<1>1. 0 \in S
  <2> DEFINE it == [T \in SUBSET (1 .. 0) |-> base]
  <2>1. Folds(it, base, s, 0)
    BY DEF Folds
  <2> QED BY <2>1
<1>2. ASSUME NEW k \in S PROVE k + 1 \in S
  <2>1. PICK it : Folds(it, base, s, k)
    OBVIOUS
  <2> DEFINE longer == [T \in SUBSET (1 .. k + 1) |->
                          IF k + 1 \in T THEN Op(it[T \ {k + 1}], s[k + 1]) ELSE it[T]]
             F(T) == IF T = {} THEN base ELSE Op(longer[T \ {Max(T)}], s[Max(T)])
  <2>2. ASSUME NEW T \in SUBSET (1 .. k + 1) PROVE longer[T] = F(T)
    <3>1. CASE k + 1 \in T
      <4>1. Max(T) = k + 1
        <5>1. k + 1 \in Nat /\ T # {}
          BY <3>1
        <5>2. Max(T) \in T /\ k + 1 <= Max(T)
          BY <3>1, <5>1, MaxIsLargest
        <5>3. Max(T) \in 1 .. k + 1 /\ k \in Nat
          BY <5>2
        <5> QED BY <5>2, <5>3
      <4>2. T \ {k + 1} \in SUBSET (1 .. k + 1) /\ k + 1 \notin T \ {k + 1}
        OBVIOUS
      <4>3. longer[T \ {k + 1}] = it[T \ {k + 1}]
        BY <4>2
      <4>4. T # {}
        BY <3>1
      <4>5. longer[T] = Op(it[T \ {k + 1}], s[k + 1])
        BY <3>1
      <4> QED BY <4>1, <4>3, <4>4, <4>5
    <3>2. CASE k + 1 \notin T
      <4>1. T \in SUBSET (1 .. k)
        BY <3>2
      <4>2. longer[T] = it[T] /\ it[T] = IF T = {} THEN base ELSE Op(it[T \ {Max(T)}], s[Max(T)])
        BY <2>1, <3>2, <4>1 DEF Folds
      <4>3. T \ {Max(T)} \in SUBSET (1 .. k + 1) /\ k + 1 \notin T \ {Max(T)}
        BY <3>2
      <4>4. longer[T \ {Max(T)}] = it[T \ {Max(T)}]
        BY <4>3
      <4> QED BY <4>2, <4>4
    <3> QED BY <3>1, <3>2
  <2>3. longer = [T \in SUBSET (1 .. k + 1) |-> F(T)]
    BY <2>2
  <2>4. Folds(longer, base, s, k + 1)
    BY <2>3 DEF Folds
  <2> QED BY <2>4
<1> HIDE DEF S
<1>3. S \in SUBSET Nat
  BY DEF S
<1>4. n \in S
  BY <1>1, <1>2, <1>3, NatInduct
<1> QED BY <1>4 DEF S

\* It looks at the elements up to the last position only.
LEMMA FoldsAgree ==
    ASSUME NEW base, NEW s, NEW t, NEW m \in Nat, NEW n \in Nat, m <= n,
           \A i \in 1 .. m : s[i] = t[i],
           NEW it, NEW jt, Folds(it, base, s, m), Folds(jt, base, t, n)
    PROVE  \A T \in SUBSET (1 .. m) : it[T] = jt[T]
<1> DEFINE S == {k \in Nat : k <= m => \A T \in SUBSET (1 .. k) : it[T] = jt[T]}
<1>1. 0 \in S
  <2>1. {} \in SUBSET (1 .. m) /\ {} \in SUBSET (1 .. n)
    OBVIOUS
  <2>2. it[{}] = base /\ jt[{}] = base
    BY <2>1 DEF Folds
  <2>3. 1 .. 0 = {}
    OBVIOUS
  <2>4. \A T \in SUBSET (1 .. 0) : it[T] = jt[T]
    BY <2>2, <2>3
  <2> QED BY <2>4
<1>2. ASSUME NEW k \in S PROVE k + 1 \in S
  <2> SUFFICES ASSUME k + 1 <= m PROVE \A T \in SUBSET (1 .. k + 1) : it[T] = jt[T]
    OBVIOUS
  <2> TAKE T \in SUBSET (1 .. k + 1)
  <2> DEFINE x == Max(T)
  <2>1. CASE T = {}
    <3>1. T \in SUBSET (1 .. m) /\ T \in SUBSET (1 .. n)
      OBVIOUS
    <3> QED BY <2>1, <3>1 DEF Folds
  <2>2. CASE T # {}
    <3>1. x \in T /\ \A y \in T : y <= x
      <4>1. k + 1 \in Nat
        OBVIOUS
      <4> QED BY <2>2, <4>1, MaxIsLargest
    <3> HIDE DEF x
    <3>2. T \ {x} \in SUBSET (1 .. k) /\ x \in 1 .. m
      BY <3>1
    <3>3. it[T \ {x}] = jt[T \ {x}] /\ s[x] = t[x]
      BY <1>2, <3>2
    <3>4. T \in SUBSET (1 .. m) /\ T \in SUBSET (1 .. n)
      OBVIOUS
    <3>5. it[T] = Op(it[T \ {x}], s[x]) /\ jt[T] = Op(jt[T \ {x}], t[x])
      BY <2>2, <3>4 DEF Folds, x
    <3> QED BY <3>3, <3>5
  <2> QED BY <2>1, <2>2
<1> HIDE DEF S
<1>3. S \in SUBSET Nat
  BY DEF S
<1>4. m \in S
  BY <1>1, <1>2, <1>3, NatInduct
<1> QED BY <1>4 DEF S

LEMMA FoldIs ==
    ASSUME NEW base, NEW s, IsList(s)
    PROVE  \E it : Folds(it, base, s, Len(s)) /\ Fold(base, s) = it[1 .. Len(s)]
<1>1. Len(s) \in Nat /\ DOMAIN s = 1 .. Len(s)
  BY ListType
<1> DEFINE it == CHOOSE it : Folds(it, base, s, Len(s))
<1>2. Folds(it, base, s, Len(s))
  BY <1>1, FoldsExists
<1>3. Fold(base, s) = it[1 .. Len(s)]
  BY <1>1 DEF Fold, FoldLeft, MapThenFoldSet, Folds
<1> QED BY <1>2, <1>3

\* The two equations of a fold.
LEMMA FoldEmpty == \A base : Fold(base, << >>) = base
<1> TAKE base
<1>1. IsList(<< >>) /\ Len(<< >>) = 0 /\ 1 .. 0 = {}
  BY DEF IsList
<1>2. PICK it : Folds(it, base, << >>, 0) /\ Fold(base, << >>) = it[{}]
  BY <1>1, FoldIs
<1>3. {} \in SUBSET (1 .. 0)
  OBVIOUS
<1> QED BY <1>2, <1>3 DEF Folds

LEMMA FoldAppend ==
    ASSUME NEW base, NEW s, IsList(s), NEW e
    PROVE  Fold(base, Append(s, e)) = Op(Fold(base, s), e)
<1> DEFINE t == Append(s, e)
           n == Len(s)
<1>1. /\ n \in Nat /\ IsList(t) /\ Len(t) = n + 1
      /\ \A i \in 1 .. n : s[i] = t[i]
      /\ t[n + 1] = e
  BY ListType, ListAppend
<1> HIDE DEF t, n
<1>2. PICK it : Folds(it, base, s, n) /\ Fold(base, s) = it[1 .. n]
  BY FoldIs DEF n
<1>3. PICK jt : Folds(jt, base, t, n + 1) /\ Fold(base, t) = jt[1 .. n + 1]
  BY <1>1, FoldIs
<1>4. it[1 .. n] = jt[1 .. n]
  <2>1. 1 .. n \in SUBSET (1 .. n) /\ n <= n + 1 /\ n + 1 \in Nat
    BY <1>1
  <2>2. /\ n \in Nat /\ n + 1 \in Nat /\ n <= n + 1 /\ \A i \in 1 .. n : s[i] = t[i]
        /\ Folds(it, base, s, n) /\ Folds(jt, base, t, n + 1)
    BY <1>1, <1>2, <1>3, <2>1
  <2>3. \A T \in SUBSET (1 .. n) : it[T] = jt[T]
    BY <2>2, FoldsAgree
  <2> QED BY <2>1, <2>3
<1>5. Max(1 .. n + 1) = n + 1
  <2>1. 1 .. n + 1 \in SUBSET (1 .. n + 1) /\ n + 1 \in 1 .. n + 1 /\ n + 1 \in Nat
    BY <1>1
  <2>2. Max(1 .. n + 1) \in 1 .. n + 1 /\ n + 1 <= Max(1 .. n + 1)
    BY <2>1, MaxIsLargest
  <2> QED BY <1>1, <2>2
<1>6. (1 .. n + 1) \ {n + 1} = 1 .. n /\ 1 .. n + 1 # {} /\ 1 .. n + 1 \in SUBSET (1 .. n + 1)
  BY <1>1
<1>7. jt[1 .. n + 1] = Op(jt[(1 .. n + 1) \ {Max(1 .. n + 1)}], t[Max(1 .. n + 1)])
  BY <1>3, <1>6 DEF Folds
<1> QED BY <1>1, <1>2, <1>3, <1>4, <1>5, <1>6, <1>7 DEF t

LEMMA FoldConcat ==
    ASSUME NEW base, NEW s, IsList(s), NEW t, IsList(t)
    PROVE  Fold(base, s \o t) = Fold(Fold(base, s), t)
<1> DEFINE P(u) == Fold(base, s \o u) = Fold(Fold(base, s), u)
           S == {n \in Nat : \A u : IsList(u) /\ Len(u) = n => P(u)}
<1>1. 0 \in S
  <2> SUFFICES ASSUME NEW u, IsList(u), Len(u) = 0 PROVE P(u)
    OBVIOUS
  <2>1. u = << >>
    BY DEF IsList
  <2> QED BY <2>1, ListConcat, FoldEmpty
<1>2. ASSUME NEW n \in S PROVE n + 1 \in S
  <2> SUFFICES ASSUME NEW u, IsList(u), Len(u) = n + 1 PROVE P(u)
    OBVIOUS
  <2>1. PICK r, e : IsList(r) /\ Len(r) + 1 = Len(u) /\ u = Append(r, e)
    <3>1. u # << >>
      OBVIOUS
    <3> QED BY <3>1, ListCases
  <2>2. Len(r) = n
    BY <2>1, ListType
  <2>3. P(r)
    BY <1>2, <2>1, <2>2
  <2>4. s \o u = Append(s \o r, e) /\ IsList(s \o r)
    BY <2>1, ConcatAppend, ListConcat
  <2> QED BY <2>1, <2>3, <2>4, FoldAppend
<1> HIDE DEF S
<1>3. S \in SUBSET Nat
  BY DEF S
<1>4. Len(t) \in S
  BY <1>1, <1>2, <1>3, NatInduct, ListType
<1> QED BY <1>4 DEF S

-----------------------------------------------------------------------------
(* Flattening.                                                             *)

Flattens(f, ss) == f = [i \in 1 .. Len(ss) |-> IF i = 1 THEN ss[i] ELSE f[i - 1] \o ss[i]]

LEMMA FlattensExists ==
    ASSUME NEW ss, IsList(ss)
    PROVE  \E f : Flattens(f, ss)
<1> DEFINE S == {n \in Nat : \A u : IsList(u) /\ Len(u) = n => \E f : Flattens(f, u)}
<1>1. 0 \in S
  <2> SUFFICES ASSUME NEW u, Len(u) = 0 PROVE \E f : Flattens(f, u)
    OBVIOUS
  <2> DEFINE f == [i \in 1 .. 0 |-> u]
  <2>1. Flattens(f, u)
    BY DEF Flattens
  <2> QED BY <2>1
<1>2. ASSUME NEW n \in S PROVE n + 1 \in S
  <2> SUFFICES ASSUME NEW u, IsList(u), Len(u) = n + 1 PROVE \E f : Flattens(f, u)
    OBVIOUS
  <2>1. PICK r, e : IsList(r) /\ Len(r) + 1 = Len(u) /\ u = Append(r, e)
    <3>1. u # << >>
      OBVIOUS
    <3> QED BY <3>1, ListCases
  <2>2. Len(r) = n
    BY <2>1, ListType
  <2>3. PICK f : Flattens(f, r)
    BY <1>2, <2>1, <2>2
  <2>4. \A i \in 1 .. n : u[i] = r[i]
    BY <2>1, <2>2, ListAppend
  <2> DEFINE G(i) == IF i = 1 THEN u[i] ELSE f[i - 1] \o u[i]
             g == [i \in 1 .. n + 1 |-> IF i = n + 1 THEN G(i) ELSE f[i]]
  <2>5. ASSUME NEW i \in 1 .. n + 1
        PROVE  g[i] = IF i = 1 THEN u[i] ELSE g[i - 1] \o u[i]
    <3>1. CASE i = n + 1
      <4>1. i # 1 => i - 1 \in 1 .. n + 1 /\ i - 1 # n + 1
        BY <3>1
      <4> QED BY <3>1, <4>1
    <3>2. CASE i # n + 1
      <4>1. i \in 1 .. n /\ (i # 1 => i - 1 \in 1 .. n + 1 /\ i - 1 # n + 1)
        BY <3>2
      <4>2. f[i] = IF i = 1 THEN r[i] ELSE f[i - 1] \o r[i]
        BY <2>2, <2>3, <4>1 DEF Flattens
      <4> QED BY <2>4, <3>2, <4>1, <4>2
    <3> QED BY <3>1, <3>2
  <2>6. g = [i \in 1 .. n + 1 |-> IF i = 1 THEN u[i] ELSE g[i - 1] \o u[i]]
    BY <2>5
  <2>7. Flattens(g, u)
    BY <2>6 DEF Flattens
  <2> QED BY <2>7
<1> HIDE DEF S
<1>3. S \in SUBSET Nat
  BY DEF S
<1>4. Len(ss) \in S
  BY <1>1, <1>2, <1>3, NatInduct, ListType
<1> QED BY <1>4 DEF S

LEMMA FlattensAgree ==
    ASSUME NEW ss, IsList(ss), NEW s, NEW f, NEW g, Flattens(f, ss), Flattens(g, Append(ss, s))
    PROVE  \A i \in 1 .. Len(ss) : f[i] = g[i]
<1> DEFINE n == Len(ss)
           S == {k \in Nat : k \in 1 .. n => f[k] = g[k]}
<1>1. n \in Nat /\ Len(Append(ss, s)) = n + 1 /\ \A i \in 1 .. n : Append(ss, s)[i] = ss[i]
  BY ListType, ListAppend
<1>2. 0 \in S
  OBVIOUS
<1>3. ASSUME NEW k \in S PROVE k + 1 \in S
  <2> SUFFICES ASSUME k + 1 \in 1 .. n PROVE f[k + 1] = g[k + 1]
    OBVIOUS
  <2> DEFINE j == k + 1
  <2>1. j \in 1 .. n /\ j \in 1 .. n + 1 /\ (j # 1 => j - 1 = k /\ k \in 1 .. n)
    BY <1>1
  <2> HIDE DEF j
  <2>2. f[j] = IF j = 1 THEN ss[j] ELSE f[j - 1] \o ss[j]
    BY <2>1 DEF Flattens
  <2>3. g[j] = IF j = 1 THEN Append(ss, s)[j] ELSE g[j - 1] \o Append(ss, s)[j]
    BY <1>1, <2>1 DEF Flattens
  <2>4. j # 1 => f[j - 1] = g[j - 1]
    BY <2>1
  <2> QED BY <1>1, <2>1, <2>2, <2>3, <2>4 DEF j
<1> HIDE DEF S
<1>4. S \in SUBSET Nat
  BY DEF S
<1>5. \A k \in Nat : k \in S
  BY <1>2, <1>3, <1>4, NatInduct
<1>6. \A k \in 1 .. n : k \in Nat
  BY <1>1
<1> QED BY <1>5, <1>6 DEF S

LEMMA FlattenIs ==
    ASSUME NEW ss, IsList(ss), ss # << >>
    PROVE  \E f : Flattens(f, ss) /\ FlattenSeq(ss) = f[Len(ss)]
<1> DEFINE f == CHOOSE f : Flattens(f, ss)
<1>1. Flattens(f, ss)
  BY FlattensExists
<1>2. Len(ss) # 0
  BY DEF IsList
<1>3. FlattenSeq(ss) = f[Len(ss)]
  BY <1>2 DEF FlattenSeq, Flattens
<1> QED BY <1>1, <1>3

LEMMA FlattenEmpty == FlattenSeq(<< >>) = << >>
BY DEF FlattenSeq

LEMMA FlattenAppend ==
    ASSUME NEW ss, IsList(ss), NEW s, IsList(s)
    PROVE  FlattenSeq(Append(ss, s)) = FlattenSeq(ss) \o s
<1> DEFINE n == Len(ss)
           tt == Append(ss, s)
<1>1. /\ n \in Nat /\ IsList(tt) /\ Len(tt) = n + 1 /\ tt # << >> /\ tt[n + 1] = s
  BY ListType, ListAppend
<1> HIDE DEF n, tt
<1>2. PICK g : Flattens(g, tt) /\ FlattenSeq(tt) = g[n + 1]
  BY <1>1, FlattenIs
<1>3. g[n + 1] = IF n + 1 = 1 THEN s ELSE g[n] \o s
  <2>1. n + 1 \in 1 .. n + 1 /\ (n + 1) - 1 = n
    BY <1>1
  <2>2. g[n + 1] = IF n + 1 = 1 THEN tt[n + 1] ELSE g[(n + 1) - 1] \o tt[n + 1]
    BY <1>1, <1>2, <2>1 DEF Flattens
  <2> QED BY <1>1, <2>1, <2>2
<1>4. CASE n = 0
  <2>1. ss = << >>
    BY <1>4 DEF IsList, n
  <2>2. FlattenSeq(tt) = s
    BY <1>2, <1>3, <1>4
  <2>3. FlattenSeq(ss) \o s = s
    BY <2>1, FlattenEmpty, ListConcat
  <2> QED BY <2>2, <2>3 DEF tt
<1>5. CASE n # 0
  <2>1. ss # << >>
    BY <1>5 DEF n
  <2>2. PICK f : Flattens(f, ss) /\ FlattenSeq(ss) = f[n]
    BY <2>1, FlattenIs DEF n
  <2>3. f[n] = g[n]
    <3>1. n \in 1 .. n
      BY <1>1, <1>5
    <3> QED BY <1>2, <2>2, <3>1, FlattensAgree DEF n, tt
  <2>4. n + 1 # 1
    BY <1>1, <1>5
  <2> QED BY <1>2, <1>3, <2>2, <2>3, <2>4 DEF tt
<1> QED BY <1>4, <1>5

\* What sequences over a set flatten to is a sequence over it.
LEMMA FlattenType ==
    ASSUME NEW T, NEW ss, IsList(ss), \A i \in 1 .. Len(ss) : ss[i] \in Seq(T)
    PROVE  FlattenSeq(ss) \in Seq(T)
<1> DEFINE Parts(u) == IsList(u) /\ \A i \in 1 .. Len(u) : u[i] \in Seq(T)
           S == {n \in Nat : \A u : Parts(u) /\ Len(u) = n => FlattenSeq(u) \in Seq(T)}
<1>1. 0 \in S
  <2> SUFFICES ASSUME NEW u, IsList(u), Len(u) = 0 PROVE FlattenSeq(u) \in Seq(T)
    OBVIOUS
  <2>1. u = << >>
    BY DEF IsList
  <2>2. FlattenSeq(u) = << >>
    BY <2>1, FlattenEmpty
  <2> QED BY <2>2
<1>2. ASSUME NEW n \in S PROVE n + 1 \in S
  <2> SUFFICES ASSUME NEW u, Parts(u), Len(u) = n + 1 PROVE FlattenSeq(u) \in Seq(T)
    OBVIOUS
  <2>1. PICK r, e : IsList(r) /\ Len(r) + 1 = Len(u) /\ u = Append(r, e)
    <3>1. u # << >>
      OBVIOUS
    <3> QED BY <3>1, ListCases
  <2>2. Len(r) = n
    BY <2>1, ListType
  <2>3. e \in Seq(T) /\ Parts(r)
    <3>1. (\A i \in 1 .. n : u[i] = r[i]) /\ u[n + 1] = e
      BY <2>1, <2>2, ListAppend
    <3>2. n + 1 \in 1 .. n + 1 /\ \A i \in 1 .. n : i \in 1 .. n + 1
      OBVIOUS
    <3>3. \A i \in 1 .. n + 1 : u[i] \in Seq(T)
      OBVIOUS
    <3>4. e \in Seq(T) /\ \A i \in 1 .. n : r[i] \in Seq(T)
      BY <3>1, <3>2, <3>3
    <3> QED BY <2>1, <2>2, <3>4
  <2>4. FlattenSeq(r) \in Seq(T)
    BY <1>2, <2>2, <2>3
  <2>5. FlattenSeq(u) = FlattenSeq(r) \o e
    BY <2>1, <2>3, FlattenAppend DEF IsList
  <2> QED BY <2>3, <2>4, <2>5
<1> HIDE DEF S
<1>3. S \in SUBSET Nat
  BY DEF S
<1>4. Len(ss) \in S
  BY <1>1, <1>2, <1>3, NatInduct, ListType
<1> QED BY <1>4 DEF S
=============================================================================
