--------------------------- MODULE VCardStream_proofs ---------------------------
(***************************************************************************)
(* The vCard codec for texts, lines, files and numbers of calls of any       *)
(* size.  First the grammar: splitting outside quotes, escaping, and what   *)
(* the group in front of a name does to a line.  Then the pull parser       *)
(* against the batch parser, one line at a time.  Then what the encoder     *)
(* writes and what is read of it, whether or not the writer failed, and the  *)
(* same properties on lines of the iCalendar codec.                         *)
(***************************************************************************)
EXTENDS VCardStream, SequenceTheorems, WellFoundedInduction, TLAPS

Parsing    == INSTANCE FoldLaws WITH Op <- ParseStep
Splitting  == INSTANCE FoldLaws WITH Op <- SplitStep
Unescaping == INSTANCE FoldLaws WITH Op <- UnescapeStep

\* The loops, from any state on.
Run(st, lines)     == FoldLeft(ParseStep, st, lines)
SplitRun(st, s)    == FoldLeft(SplitStep, st, s)
UnescapeRun(st, s) == FoldLeft(UnescapeStep, st, s)

\* A sequence, of whatever elements.
IsList(s) == \E S : s \in Seq(S)

\* t begins with s.
Extends(t, s) == Len(s) <= Len(t) /\ \A i \in 1 .. Len(s) : t[i] = s[i]

-----------------------------------------------------------------------------
(* Lists.                                                                  *)

LEMMA EmptyList == IsList(<< >>) /\ Len(<< >>) = 0
BY DEF IsList

LEMMA SingleList == ASSUME NEW e PROVE IsList(<<e>>) /\ Len(<<e>>) = 1
<1>1. <<e>> \in Seq({e})
  OBVIOUS
<1> QED BY <1>1 DEF IsList

LEMMA ListType == ASSUME NEW s, IsList(s) PROVE Len(s) \in Nat /\ DOMAIN s = 1 .. Len(s)
BY DEF IsList

LEMMA ListAppend ==
    ASSUME NEW s, IsList(s), NEW e
    PROVE  /\ IsList(Append(s, e)) /\ Len(Append(s, e)) = Len(s) + 1
           /\ \A i \in 1 .. Len(s) : Append(s, e)[i] = s[i]
           /\ Append(s, e)[Len(s) + 1] = e
           /\ Append(s, e) # << >>
BY Parsing!ListAppend DEF IsList, Parsing!IsList

LEMMA ListConcat ==
    ASSUME NEW s, NEW t, IsList(s), IsList(t)
    PROVE  /\ IsList(s \o t) /\ Len(s \o t) = Len(s) + Len(t)
           /\ \A i \in 1 .. Len(s) : (s \o t)[i] = s[i]
           /\ \A i \in 1 .. Len(t) : (s \o t)[Len(s) + i] = t[i]
           /\ s \o << >> = s /\ << >> \o s = s
BY Parsing!ListConcat DEF IsList, Parsing!IsList

LEMMA ConcatAppend ==
    ASSUME NEW s, NEW t, IsList(s), IsList(t), NEW e
    PROVE  s \o Append(t, e) = Append(s \o t, e)
BY Parsing!ConcatAppend DEF IsList, Parsing!IsList

LEMMA ListPart ==
    ASSUME NEW s, IsList(s), NEW m \in Nat \ {0}, NEW n \in Nat, n <= Len(s), m <= n + 1
    PROVE  /\ IsList(SubSeq(s, m, n)) /\ Len(SubSeq(s, m, n)) = n - m + 1
           /\ \A i \in 1 .. n - m + 1 : SubSeq(s, m, n)[i] = s[m + i - 1]
           /\ n < Len(s) => SubSeq(s, m, n + 1) = Append(SubSeq(s, m, n), s[n + 1])
           /\ SubSeq(s, 1, Len(s)) = s
BY Parsing!ListPart DEF IsList, Parsing!IsList

LEMMA ListEqual ==
    ASSUME NEW s, NEW t, IsList(s), IsList(t), Len(s) = Len(t),
           \A i \in 1 .. Len(s) : s[i] = t[i]
    PROVE  s = t
BY Parsing!ListEqual DEF IsList, Parsing!IsList

LEMMA ListCases ==
    ASSUME NEW s, IsList(s)
    PROVE  \/ s = << >>
           \/ \E r, e : IsList(r) /\ Len(r) + 1 = Len(s) /\ s = Append(r, e)
BY Parsing!ListCases DEF IsList, Parsing!IsList

LEMMA TableIsList ==
    ASSUME NEW n \in Nat, NEW f, f = [k \in 1 .. n |-> f[k]]
    PROVE  IsList(f) /\ Len(f) = n
<1> DEFINE T == {f[k] : k \in 1 .. n}
<1>1. f \in [1 .. n -> T]
  OBVIOUS
<1> HIDE DEF T
<1>2. f \in Seq(T) /\ Len(f) = n
  BY <1>1
<1> QED BY <1>2 DEF IsList

LEMMA FlattenIs == ASSUME NEW ss PROVE FlattenSeq(ss) = Parsing!FlattenSeq(ss)
BY DEF FlattenSeq, Parsing!FlattenSeq

LEMMA FlattenEmpty == FlattenSeq(<< >>) = << >>
BY FlattenIs, Parsing!FlattenEmpty

LEMMA FlattenAppend ==
    ASSUME NEW ss, IsList(ss), NEW s, IsList(s)
    PROVE  FlattenSeq(Append(ss, s)) = FlattenSeq(ss) \o s
BY FlattenIs, Parsing!FlattenAppend DEF IsList, Parsing!IsList

LEMMA FlattenType ==
    ASSUME NEW T, NEW ss, IsList(ss), \A i \in 1 .. Len(ss) : ss[i] \in Seq(T)
    PROVE  FlattenSeq(ss) \in Seq(T)
BY FlattenIs, Parsing!FlattenType DEF IsList, Parsing!IsList

LEMMA FrontAndLast ==
    ASSUME NEW s, IsList(s), NEW e
    PROVE  Front(Append(s, e)) = s /\ Last(Append(s, e)) = e
<1>1. PICK S : s \in Seq(S)
  BY DEF IsList
<1>2. s \in Seq(S \cup {e}) /\ e \in S \cup {e}
  BY <1>1
<1> QED BY <1>2 DEF Front, Last

LEMMA ExtendsIsPrefix ==
    ASSUME NEW s, NEW t, IsList(s), IsList(t)
    PROVE  IsPrefix(s, t) <=> Extends(t, s)
<1>1. Len(s) \in Nat /\ Len(t) \in Nat
  BY ListType
<1>2. SubSeq(s, 1, Len(s)) = s
  BY <1>1, ListPart
<1>3. ASSUME Len(s) <= Len(t)
      PROVE  SubSeq(t, 1, Len(s)) = s <=> \A i \in 1 .. Len(s) : t[i] = s[i]
  <2>1. /\ IsList(SubSeq(t, 1, Len(s))) /\ Len(SubSeq(t, 1, Len(s))) = Len(s)
        /\ \A i \in 1 .. Len(s) : SubSeq(t, 1, Len(s))[i] = t[i]
    <3>1. /\ IsList(SubSeq(t, 1, Len(s))) /\ Len(SubSeq(t, 1, Len(s))) = Len(s) - 1 + 1
          /\ \A i \in 1 .. Len(s) - 1 + 1 : SubSeq(t, 1, Len(s))[i] = t[1 + i - 1]
      BY <1>1, <1>3, ListPart
    <3> QED BY <1>1, <3>1
  <2> QED BY <2>1, ListEqual
<1> QED BY <1>2, <1>3 DEF IsPrefix, Extends

-----------------------------------------------------------------------------
(* One loop continues another.                                             *)

LEMMA RunIsFold == ASSUME NEW st, NEW s PROVE Run(st, s) = Parsing!Fold(st, s)
BY DEF Run, Parsing!Fold, FoldLeft, Parsing!FoldLeft, MapThenFoldSet, Parsing!MapThenFoldSet,
       Max, Parsing!Max

LEMMA RunEmpty == ASSUME NEW st PROVE Run(st, << >>) = st
BY RunIsFold, Parsing!FoldEmpty

LEMMA RunAppend ==
    ASSUME NEW st, NEW s, IsList(s), NEW e
    PROVE  Run(st, Append(s, e)) = ParseStep(Run(st, s), e)
BY RunIsFold, Parsing!FoldAppend DEF IsList, Parsing!IsList

LEMMA RunConcat ==
    ASSUME NEW st, NEW s, IsList(s), NEW t, IsList(t)
    PROVE  Run(st, s \o t) = Run(Run(st, s), t)
BY RunIsFold, Parsing!FoldConcat DEF IsList, Parsing!IsList

LEMMA SplitRunIsFold == ASSUME NEW st, NEW s PROVE SplitRun(st, s) = Splitting!Fold(st, s)
BY DEF SplitRun, Splitting!Fold, FoldLeft, Splitting!FoldLeft, MapThenFoldSet, Splitting!MapThenFoldSet,
       Max, Splitting!Max

LEMMA SplitRunEmpty == ASSUME NEW st PROVE SplitRun(st, << >>) = st
BY SplitRunIsFold, Splitting!FoldEmpty

LEMMA SplitRunAppend ==
    ASSUME NEW st, NEW s, IsList(s), NEW e
    PROVE  SplitRun(st, Append(s, e)) = SplitStep(SplitRun(st, s), e)
BY SplitRunIsFold, Splitting!FoldAppend DEF IsList, Splitting!IsList

LEMMA SplitRunConcat ==
    ASSUME NEW st, NEW s, IsList(s), NEW t, IsList(t)
    PROVE  SplitRun(st, s \o t) = SplitRun(SplitRun(st, s), t)
BY SplitRunIsFold, Splitting!FoldConcat DEF IsList, Splitting!IsList

LEMMA UnescapeRunIsFold == ASSUME NEW st, NEW s PROVE UnescapeRun(st, s) = Unescaping!Fold(st, s)
BY DEF UnescapeRun, Unescaping!Fold, FoldLeft, Unescaping!FoldLeft, MapThenFoldSet, Unescaping!MapThenFoldSet,
       Max, Unescaping!Max

LEMMA UnescapeRunEmpty == ASSUME NEW st PROVE UnescapeRun(st, << >>) = st
BY UnescapeRunIsFold, Unescaping!FoldEmpty

LEMMA UnescapeRunAppend ==
    ASSUME NEW st, NEW s, IsList(s), NEW e
    PROVE  UnescapeRun(st, Append(s, e)) = UnescapeStep(UnescapeRun(st, s), e)
BY UnescapeRunIsFold, Unescaping!FoldAppend DEF IsList, Unescaping!IsList

LEMMA UnescapeRunConcat ==
    ASSUME NEW st, NEW s, IsList(s), NEW t, IsList(t)
    PROVE  UnescapeRun(st, s \o t) = UnescapeRun(UnescapeRun(st, s), t)
BY UnescapeRunIsFold, Unescaping!FoldConcat DEF IsList, Unescaping!IsList

\* The first n elements of a list.
LEMMA ListPrefix ==
    ASSUME NEW s, IsList(s), NEW n \in 0 .. Len(s)
    PROVE  /\ IsList(SubSeq(s, 1, n)) /\ Len(SubSeq(s, 1, n)) = n
           /\ \A i \in 1 .. n : SubSeq(s, 1, n)[i] = s[i]
           /\ n < Len(s) => SubSeq(s, 1, n + 1) = Append(SubSeq(s, 1, n), s[n + 1])
           /\ SubSeq(s, 1, Len(s)) = s
<1>1. n \in Nat /\ Len(s) \in Nat /\ 1 \in Nat \ {0} /\ n <= Len(s) /\ 1 <= n + 1
  BY ListType
<1>2. n - 1 + 1 = n /\ \A i \in 1 .. n : 1 + i - 1 = i
  BY <1>1
<1>3. /\ IsList(SubSeq(s, 1, n)) /\ Len(SubSeq(s, 1, n)) = n - 1 + 1
      /\ \A i \in 1 .. n - 1 + 1 : SubSeq(s, 1, n)[i] = s[1 + i - 1]
      /\ n < Len(s) => SubSeq(s, 1, n + 1) = Append(SubSeq(s, 1, n), s[n + 1])
      /\ SubSeq(s, 1, Len(s)) = s
  BY <1>1, ListPart
<1> QED BY <1>2, <1>3

\* A set of sequences over S that holds the empty one, and with each of its elements
\* those that are one longer, holds them all.
LEMMA SeqInduct ==
    ASSUME NEW S, NEW T \in SUBSET Seq(S), << >> \in T,
           \A s \in T, e \in S : Append(s, e) \in T
    PROVE  \A s \in Seq(S) : s \in T
<1> DEFINE N == {n \in Nat : \A s \in Seq(S) : Len(s) = n => s \in T}
<1>1. 0 \in N
  <2> SUFFICES ASSUME NEW s \in Seq(S), Len(s) = 0 PROVE s \in T
    OBVIOUS
  <2>1. s = << >>
    OBVIOUS
  <2> QED BY <2>1
<1>2. ASSUME NEW n \in N PROVE n + 1 \in N
  <2> SUFFICES ASSUME NEW s \in Seq(S), Len(s) = n + 1 PROVE s \in T
    OBVIOUS
  <2> DEFINE r == SubSeq(s, 1, n)
  <2>1. n \in Nat /\ n < Len(s) /\ n + 1 \in 1 .. Len(s) /\ s[n + 1] \in S
    OBVIOUS
  <2>2. r \in Seq(S) /\ Len(r) = n
    BY <2>1
  <2>3. IsList(s)
    BY DEF IsList
  <2>4. SubSeq(s, 1, n + 1) = Append(r, s[n + 1]) /\ SubSeq(s, 1, Len(s)) = s
    <3>1. n \in 0 .. Len(s)
      BY <2>1
    <3> QED BY <2>1, <2>3, <3>1, ListPrefix
  <2>5. r \in T
    BY <2>2
  <2> HIDE DEF r
  <2> QED BY <2>1, <2>4, <2>5
<1> HIDE DEF N
<1>3. N \in SUBSET Nat
  BY DEF N
<1>4. \A n \in Nat : n \in N
  BY <1>1, <1>2, <1>3, Parsing!NatInduct
<1> TAKE s \in Seq(S)
<1> QED BY <1>4 DEF N

LEMMA ConcatAssoc ==
    ASSUME NEW s, NEW t, NEW u, IsList(s), IsList(t), IsList(u)
    PROVE  (s \o t) \o u = s \o (t \o u)
<1>1. PICK S : s \in Seq(S)
  BY DEF IsList
<1>2. PICK T : t \in Seq(T)
  BY DEF IsList
<1>3. PICK U : u \in Seq(U)
  BY DEF IsList
<1>4. s \in Seq(S \cup T \cup U) /\ t \in Seq(S \cup T \cup U) /\ u \in Seq(S \cup T \cup U)
  BY <1>1, <1>2, <1>3
<1> QED BY <1>4, ConcatAssociative

LEMMA AppendIs == ASSUME NEW s, IsList(s), NEW e PROVE Append(s, e) = s \o <<e>>
<1>1. PICK S : s \in Seq(S)
  BY DEF IsList
<1>2. s \in Seq(S \cup {e}) /\ e \in S \cup {e}
  BY <1>1
<1> QED BY <1>2, AppendIsConcat

\* The two parts of a concatenation, and what is left of one from a position on.
LEMMA ConcatParts ==
    ASSUME NEW s, NEW t, IsList(s), IsList(t)
    PROVE  /\ SubSeq(s \o t, 1, Len(s)) = s
           /\ SubSeq(s \o t, Len(s) + 1, Len(s \o t)) = t
<1>1. Len(s) \in Nat /\ Len(t) \in Nat
  BY ListType
<1>2. /\ IsList(s \o t) /\ Len(s \o t) = Len(s) + Len(t)
      /\ \A i \in 1 .. Len(s) : (s \o t)[i] = s[i]
      /\ \A i \in 1 .. Len(t) : (s \o t)[Len(s) + i] = t[i]
  BY ListConcat
<1>3. SubSeq(s \o t, 1, Len(s)) = s
  <2> DEFINE n == Len(s)
             w == s \o t
  <2>1. n \in 0 .. Len(w) /\ IsList(w) /\ n = Len(s) /\ \A i \in 1 .. n : w[i] = s[i]
    BY <1>1, <1>2
  <2> HIDE DEF n, w
  <2>2. /\ IsList(SubSeq(w, 1, n)) /\ Len(SubSeq(w, 1, n)) = n
        /\ \A i \in 1 .. n : SubSeq(w, 1, n)[i] = w[i]
    BY <2>1, ListPrefix
  <2>3. SubSeq(w, 1, n) = s
    BY <2>1, <2>2, ListEqual
  <2> QED BY <2>3 DEF n, w
<1>4. SubSeq(s \o t, Len(s) + 1, Len(s) + Len(t)) = t
  <2> DEFINE m == Len(s) + 1
             n == Len(s) + Len(t)
             w == s \o t
  <2>1. m \in Nat \ {0} /\ n \in Nat /\ n <= Len(w) /\ m <= n + 1 /\ IsList(w)
    BY <1>1, <1>2
  <2>a. n - m + 1 = Len(t) /\ \A i \in 1 .. Len(t) : m + i - 1 = Len(s) + i
    BY <1>1
  <2> HIDE DEF m, n, w
  <2>2. /\ IsList(SubSeq(w, m, n)) /\ Len(SubSeq(w, m, n)) = n - m + 1
        /\ \A i \in 1 .. n - m + 1 : SubSeq(w, m, n)[i] = w[m + i - 1]
    BY <2>1, ListPart
  <2>3. /\ IsList(SubSeq(w, m, n)) /\ Len(SubSeq(w, m, n)) = Len(t)
        /\ \A i \in 1 .. Len(t) : SubSeq(w, m, n)[i] = w[Len(s) + i]
    BY <2>2, <2>a
  <2>4. SubSeq(w, m, n) = t
    BY <1>2, <2>3, ListEqual DEF w
  <2> QED BY <2>4 DEF m, n, w
<1> QED BY <1>2, <1>3, <1>4

LEMMA ConcatSame ==
    ASSUME NEW s, NEW t, NEW u, IsList(s), IsList(t), IsList(u), s \o t = s \o u
    PROVE  t = u
<1>1. t = SubSeq(s \o t, Len(s) + 1, Len(s \o t))
  BY ConcatParts
<1>2. u = SubSeq(s \o u, Len(s) + 1, Len(s \o u))
  BY ConcatParts
<1> QED BY <1>1, <1>2

\* A list is its part up to a position and the part after it.
LEMMA ListSplits ==
    ASSUME NEW s, IsList(s), NEW n \in 0 .. Len(s)
    PROVE  /\ IsList(SubSeq(s, 1, n)) /\ Len(SubSeq(s, 1, n)) = n
           /\ IsList(SubSeq(s, n + 1, Len(s))) /\ Len(SubSeq(s, n + 1, Len(s))) = Len(s) - n
           /\ \A i \in 1 .. n : SubSeq(s, 1, n)[i] = s[i]
           /\ \A i \in 1 .. Len(s) - n : SubSeq(s, n + 1, Len(s))[i] = s[n + i]
           /\ s = SubSeq(s, 1, n) \o SubSeq(s, n + 1, Len(s))
<1> DEFINE L == Len(s)
           x == SubSeq(s, 1, n)
           y == SubSeq(s, n + 1, L)
<1>1. L \in Nat /\ n \in Nat /\ n <= L /\ n + 1 \in Nat \ {0} /\ n + 1 <= L + 1
  BY ListType
<1>2. IsList(x) /\ Len(x) = n - 1 + 1 /\ \A i \in 1 .. n - 1 + 1 : x[i] = s[1 + i - 1]
  BY <1>1, ListPart
<1>3. /\ IsList(y) /\ Len(y) = L - (n + 1) + 1
      /\ \A i \in 1 .. L - (n + 1) + 1 : y[i] = s[(n + 1) + i - 1]
  BY <1>1, ListPart
<1> HIDE DEF x, y, L
<1>4. IsList(x) /\ Len(x) = n /\ \A i \in 1 .. n : x[i] = s[i]
  BY <1>1, <1>2
<1>5. IsList(y) /\ Len(y) = L - n /\ \A i \in 1 .. L - n : y[i] = s[n + i]
  BY <1>1, <1>3
<1>6. IsList(x \o y) /\ Len(x \o y) = L /\ \A i \in 1 .. L : (x \o y)[i] = s[i]
  <2>1. /\ IsList(x \o y) /\ Len(x \o y) = n + (L - n)
        /\ \A i \in 1 .. n : (x \o y)[i] = x[i]
        /\ \A i \in 1 .. L - n : (x \o y)[n + i] = y[i]
    BY <1>4, <1>5, ListConcat
  <2>2. ASSUME NEW i \in 1 .. L PROVE (x \o y)[i] = s[i]
    <3>1. CASE i \in 1 .. n
      BY <1>4, <2>1, <3>1
    <3>2. CASE i \notin 1 .. n
      <4>1. i - n \in 1 .. L - n /\ n + (i - n) = i
        BY <1>1, <3>2
      <4> QED BY <1>5, <2>1, <4>1
    <3> QED BY <3>1, <3>2
  <2> QED BY <1>1, <2>1, <2>2
<1>7. x \o y = s
  BY <1>6, ListEqual DEF L
<1>8. /\ IsList(x) /\ Len(x) = n /\ IsList(y) /\ Len(y) = L - n
      /\ \A i \in 1 .. n : x[i] = s[i]
      /\ \A i \in 1 .. L - n : y[i] = s[n + i]
      /\ s = x \o y
  BY <1>4, <1>5, <1>7
<1> QED BY <1>8, Zenon DEF x, y, L

-----------------------------------------------------------------------------
(* Splitting outside quotes.                                               *)

SplitState(c, q, o, s) == [at |-> c, quotes |-> q, out |-> o, seg |-> s]

\* c does not occur in x outside quotes, and x ends outside quotes.
Whole(x, c) == SplitRun(SplitStart(c), x) = SplitState(c, 0, << >>, x)

\* Is the loop inside quotes (1) or not (0) after x?
Toggled(q, x) == IF x = DQ THEN 1 - q ELSE q

LEMMA SplitStartIs == ASSUME NEW c PROVE SplitStart(c) = SplitState(c, 0, << >>, << >>)
BY DEF SplitStart, SplitState

LEMMA SplitFields ==
    ASSUME NEW c, NEW q, NEW o, NEW s
    PROVE  /\ SplitState(c, q, o, s).quotes = q /\ SplitState(c, q, o, s).out = o
           /\ SplitState(c, q, o, s).seg = s
BY DEF SplitState

LEMMA SplitNil ==
    ASSUME NEW c, NEW q, NEW s, NEW r, NEW o, NEW t,
           SplitState(c, q, << >>, s) = SplitState(c, r, o, t)
    PROVE  q = r /\ o = << >> /\ s = t
<1>1. /\ SplitState(c, q, << >>, s).out = << >> /\ SplitState(c, q, << >>, s).quotes = q
      /\ SplitState(c, q, << >>, s).seg = s
  BY SplitFields
<1>2. /\ SplitState(c, r, o, t).out = o /\ SplitState(c, r, o, t).quotes = r
      /\ SplitState(c, r, o, t).seg = t
  BY SplitFields
<1> QED BY <1>1, <1>2

LEMMA SplitAtIt ==
    ASSUME NEW c, NEW o, NEW s
    PROVE  SplitStep(SplitState(c, 0, o, s), c) = SplitState(c, 0, Append(o, s), << >>)
BY DEF SplitStep, SplitState

LEMMA SplitAtOther ==
    ASSUME NEW c, NEW q \in {0, 1}, NEW o, NEW s, NEW x, x # c \/ q = 1
    PROVE  /\ Toggled(q, x) \in {0, 1}
           /\ SplitStep(SplitState(c, q, o, s), x)
                = SplitState(c, Toggled(q, x), o, Append(s, x))
<1>1. ~(x = c /\ q = 0) /\ 1 - 0 = 1 /\ 1 - 1 = 0
  OBVIOUS
<1>2. Toggled(q, x) \in {0, 1}
  BY <1>1 DEF Toggled
<1>3. CASE x = DQ
  <2>1. Toggled(q, x) = 1 - q
    BY <1>3 DEF Toggled
  <2>2. SplitStep(SplitState(c, q, o, s), x) = SplitState(c, 1 - q, o, Append(s, x))
    BY <1>1, <1>3, Zenon DEF SplitStep, SplitState
  <2> QED BY <1>2, <2>1, <2>2
<1>4. CASE x # DQ
  <2>1. Toggled(q, x) = q
    BY <1>4 DEF Toggled
  <2>2. SplitStep(SplitState(c, q, o, s), x) = SplitState(c, q, o, Append(s, x))
    BY <1>1, <1>4 DEF SplitStep, SplitState
  <2> QED BY <1>2, <2>1, <2>2
<1> QED BY <1>3, <1>4

\* Two runs over y: from nothing, and from some segments and a begun one.
Shifts(c, q, o, s, y, r) ==
    \/ /\ SplitRun(SplitState(c, q, << >>, << >>), y) = SplitState(c, r, << >>, y)
       /\ SplitRun(SplitState(c, q, o, s), y) = SplitState(c, r, o, s \o y)
    \/ \E f, l, t, m, n :
         /\ IsList(f) /\ IsList(l) /\ IsList(t)
         /\ m = <<f>> \o l /\ n = Append(o, s \o f) \o l
         /\ SplitRun(SplitState(c, q, << >>, << >>), y) = SplitState(c, r, m, t)
         /\ SplitRun(SplitState(c, q, o, s), y) = SplitState(c, r, n, t)

LEMMA SplitShift ==
    ASSUME NEW c, NEW q \in {0, 1}, NEW o, IsList(o), NEW s, IsList(s), NEW y, IsList(y)
    PROVE  \E r \in {0, 1} : Shifts(c, q, o, s, y, r)
<1>1. PICK S : y \in Seq(S)
  BY DEF IsList
<1> DEFINE T == {u \in Seq(S) : \E r \in {0, 1} : Shifts(c, q, o, s, u, r)}
           A == SplitState(c, q, << >>, << >>)
           B == SplitState(c, q, o, s)
<1>2. << >> \in T
  <2>1. SplitRun(A, << >>) = A /\ SplitRun(B, << >>) = B /\ s \o << >> = s
    BY SplitRunEmpty, ListConcat, EmptyList
  <2>2. Shifts(c, q, o, s, << >>, q)
    BY <2>1 DEF Shifts
  <2> QED BY <2>2
<1>3. ASSUME NEW u \in T, NEW e \in S PROVE Append(u, e) \in T
  <2> DEFINE w == Append(u, e)
  <2>1. PICK r \in {0, 1} : Shifts(c, q, o, s, u, r)
    OBVIOUS
  <2>2. IsList(u) /\ w \in Seq(S) /\ IsList(w)
    BY DEF IsList
  <2>3. SplitRun(A, w) = SplitStep(SplitRun(A, u), e) /\ SplitRun(B, w) = SplitStep(SplitRun(B, u), e)
    BY <2>2, SplitRunAppend
  <2> SUFFICES \E k \in {0, 1} : Shifts(c, q, o, s, w, k)
    BY <2>2
  <2> HIDE DEF A, B, w, T
  <2>4. CASE SplitRun(A, u) = SplitState(c, r, << >>, u) /\ SplitRun(B, u) = SplitState(c, r, o, s \o u)
    <3>1. CASE e = c /\ r = 0
      <4>1. SplitRun(A, w) = SplitState(c, 0, Append(<< >>, u), << >>)
        BY <2>3, <2>4, <3>1, SplitAtIt
      <4>2. SplitRun(B, w) = SplitState(c, 0, Append(o, s \o u), << >>)
        BY <2>3, <2>4, <3>1, SplitAtIt
      <4>3. Append(<< >>, u) = <<u>> \o << >> /\ Append(o, s \o u) = Append(o, s \o u) \o << >>
        <5>1. IsList(<<u>>) /\ IsList(Append(o, s \o u)) /\ Append(<< >>, u) = <<u>>
          BY SingleList, ListAppend
        <5> QED BY <5>1, EmptyList, ListConcat
      <4>4. IsList(u) /\ IsList(<< >>)
        BY <2>2, EmptyList
      <4>5. Shifts(c, q, o, s, w, 0)
        BY <4>1, <4>2, <4>3, <4>4 DEF Shifts, A, B
      <4> QED BY <4>5
    <3>2. CASE e # c \/ r = 1
      <4>1. SplitRun(A, w) = SplitState(c, Toggled(r, e), << >>, w)
        BY <2>3, <2>4, <3>2, SplitAtOther DEF w
      <4>2. SplitRun(B, w) = SplitState(c, Toggled(r, e), o, Append(s \o u, e))
        BY <2>3, <2>4, <3>2, SplitAtOther
      <4>3. Append(s \o u, e) = s \o w
        BY <2>2, ConcatAppend DEF w
      <4>4. Shifts(c, q, o, s, w, Toggled(r, e))
        BY <4>1, <4>2, <4>3 DEF Shifts, A, B
      <4> QED BY <3>2, <4>4, SplitAtOther
    <3> QED BY <3>1, <3>2
  <2>5. ASSUME NEW f, NEW l, NEW t, NEW m, NEW n, IsList(f), IsList(l), IsList(t),
               m = <<f>> \o l, n = Append(o, s \o f) \o l,
               SplitRun(A, u) = SplitState(c, r, m, t),
               SplitRun(B, u) = SplitState(c, r, n, t)
        PROVE  \E k \in {0, 1} : Shifts(c, q, o, s, w, k)
    <3>1. CASE e = c /\ r = 0
      <4>1. SplitRun(A, w) = SplitState(c, 0, Append(m, t), << >>)
        BY <2>3, <2>5, <3>1, SplitAtIt
      <4>2. SplitRun(B, w) = SplitState(c, 0, Append(n, t), << >>)
        BY <2>3, <2>5, <3>1, SplitAtIt
      <4>3. /\ Append(m, t) = <<f>> \o Append(l, t)
            /\ Append(n, t) = Append(o, s \o f) \o Append(l, t)
        <5> DEFINE x == <<f>>
                   z == Append(o, s \o f)
        <5>0. IsList(x) /\ IsList(z) /\ IsList(l)
          BY <2>5, SingleList, ListAppend
        <5>1. m = x \o l /\ n = z \o l
          BY <2>5
        <5> HIDE DEF x, z
        <5>2. Append(m, t) = x \o Append(l, t) /\ Append(n, t) = z \o Append(l, t)
          <6>1. Append(x \o l, t) = x \o Append(l, t)
            BY <5>0, ConcatAppend
          <6>2. Append(z \o l, t) = z \o Append(l, t)
            BY <5>0, ConcatAppend
          <6> QED BY <5>1, <6>1, <6>2
        <5> QED BY <5>2 DEF x, z
      <4>4. IsList(f) /\ IsList(Append(l, t)) /\ IsList(<< >>)
        BY <2>5, ListAppend, EmptyList
      <4>5. Shifts(c, q, o, s, w, 0)
        BY <4>1, <4>2, <4>3, <4>4 DEF Shifts, A, B
      <4> QED BY <4>5
    <3>2. CASE e # c \/ r = 1
      <4>0. \A k : SplitStep(SplitState(c, r, k, t), e) = SplitState(c, Toggled(r, e), k, Append(t, e))
        BY <3>2, SplitAtOther
      <4>1. SplitRun(A, w) = SplitState(c, Toggled(r, e), m, Append(t, e))
        BY <2>3, <2>5, <4>0
      <4>2. SplitRun(B, w) = SplitState(c, Toggled(r, e), n, Append(t, e))
        BY <2>3, <2>5, <4>0
      <4>3. IsList(Append(t, e))
        BY <2>5, ListAppend
      <4>4. Shifts(c, q, o, s, w, Toggled(r, e))
        BY <2>5, <4>1, <4>2, <4>3 DEF Shifts, A, B
      <4> QED BY <3>2, <4>4, SplitAtOther
    <3> QED BY <3>1, <3>2
  <2>6. \/ SplitRun(A, u) = SplitState(c, r, << >>, u) /\ SplitRun(B, u) = SplitState(c, r, o, s \o u)
        \/ \E f, l, t, m, n :
             /\ IsList(f) /\ IsList(l) /\ IsList(t)
             /\ m = <<f>> \o l /\ n = Append(o, s \o f) \o l
             /\ SplitRun(A, u) = SplitState(c, r, m, t)
             /\ SplitRun(B, u) = SplitState(c, r, n, t)
    BY <2>1 DEF Shifts, A, B
  <2> QED BY <2>4, <2>5, <2>6
<1> HIDE DEF T
<1>4. T \in SUBSET Seq(S)
  BY DEF T
<1>5. y \in T
  BY <1>1, <1>2, <1>3, <1>4, SeqInduct
<1> QED BY <1>5 DEF T

\* Whether the loop is inside quotes does not depend on what it splits at.
LEMMA QuotedSame ==
    ASSUME NEW c, NEW d, c # DQ, d # DQ, NEW y, IsList(y)
    PROVE  \E q \in {0, 1} : \E o, s, p, t :
              /\ SplitRun(SplitStart(c), y) = SplitState(c, q, o, s)
              /\ SplitRun(SplitStart(d), y) = SplitState(d, q, p, t)
<1>1. PICK S : y \in Seq(S)
  BY DEF IsList
<1> DEFINE Same(u) == \E q \in {0, 1} : \E o, s, p, t :
                        /\ SplitRun(SplitStart(c), u) = SplitState(c, q, o, s)
                        /\ SplitRun(SplitStart(d), u) = SplitState(d, q, p, t)
           T == {u \in Seq(S) : Same(u)}
<1>2. << >> \in T
  <2>1. /\ SplitRun(SplitStart(c), << >>) = SplitState(c, 0, << >>, << >>)
        /\ SplitRun(SplitStart(d), << >>) = SplitState(d, 0, << >>, << >>)
    BY SplitRunEmpty, SplitStartIs
  <2>2. Same(<< >>)
    BY <2>1
  <2> QED BY <2>2
<1>3. ASSUME NEW u \in T, NEW e \in S PROVE Append(u, e) \in T
  <2> DEFINE w == Append(u, e)
  <2>1. PICK q \in {0, 1} : \E o, s, p, t :
              /\ SplitRun(SplitStart(c), u) = SplitState(c, q, o, s)
              /\ SplitRun(SplitStart(d), u) = SplitState(d, q, p, t)
    OBVIOUS
  <2>a. PICK o, s, p, t :
              /\ SplitRun(SplitStart(c), u) = SplitState(c, q, o, s)
              /\ SplitRun(SplitStart(d), u) = SplitState(d, q, p, t)
    BY <2>1
  <2>2. IsList(u) /\ w \in Seq(S)
    BY DEF IsList
  <2>3. /\ SplitRun(SplitStart(c), w) = SplitStep(SplitState(c, q, o, s), e)
        /\ SplitRun(SplitStart(d), w) = SplitStep(SplitState(d, q, p, t), e)
    BY <2>a, <2>2, SplitRunAppend
  <2> HIDE DEF w, T
  <2>4. ASSUME NEW b, b # DQ, NEW x, NEW z
        PROVE  \E m, n : SplitStep(SplitState(b, q, x, z), e) = SplitState(b, Toggled(q, e), m, n)
    <3>1. CASE e = b /\ q = 0
      <4>1. Toggled(q, e) = 0
        BY <2>4, <3>1 DEF Toggled
      <4>2. SplitStep(SplitState(b, 0, x, z), b) = SplitState(b, 0, Append(x, z), << >>)
        BY SplitAtIt
      <4> QED BY <3>1, <4>1, <4>2
    <3>2. CASE e # b \/ q = 1
      <4>1. SplitStep(SplitState(b, q, x, z), e) = SplitState(b, Toggled(q, e), x, Append(z, e))
        BY <3>2, SplitAtOther
      <4> QED BY <4>1
    <3> QED BY <3>1, <3>2
  <2>5. Toggled(q, e) \in {0, 1}
    BY DEF Toggled
  <2>6. Same(w)
    BY <2>3, <2>4, <2>5
  <2> QED BY <2>2, <2>6 DEF w, T
<1> HIDE DEF T
<1>4. T \in SUBSET Seq(S)
  BY DEF T
<1>5. y \in T
  BY <1>1, <1>2, <1>3, <1>4, SeqInduct
<1> QED BY <1>5 DEF T

LEMMA WholeEmpty == ASSUME NEW c PROVE Whole(<< >>, c)
BY SplitRunEmpty, SplitStartIs DEF Whole

LEMMA NotEmptyConcat ==
    ASSUME NEW f, NEW l, IsList(l), NEW o
    PROVE  <<f>> \o l # << >> /\ (IsList(o) => Append(o, f) \o l # << >>)
<1>1. Len(<<f>> \o l) = 1 + Len(l) /\ Len(l) \in Nat
  BY SingleList, ListConcat, ListType
<1>2. ASSUME IsList(o) PROVE Append(o, f) \o l # << >>
  <2>1. IsList(Append(o, f)) /\ Len(Append(o, f)) = Len(o) + 1 /\ Len(o) \in Nat
    BY <1>2, ListAppend, ListType
  <2>2. Len(Append(o, f) \o l) = Len(o) + 1 + Len(l)
    BY <2>1, ListConcat
  <2> QED BY <1>1, <2>1, <2>2, EmptyList
<1> QED BY <1>1, <1>2, EmptyList

\* A whole text leaves a loop as it was, but for the segment that is open.
LEMMA WholeRun ==
    ASSUME NEW c, NEW o, IsList(o), NEW s, IsList(s), NEW y, IsList(y), Whole(y, c)
    PROVE  SplitRun(SplitState(c, 0, o, s), y) = SplitState(c, 0, o, s \o y)
<1>1. PICK r \in {0, 1} : Shifts(c, 0, o, s, y, r)
  BY SplitShift
<1>2. SplitRun(SplitState(c, 0, << >>, << >>), y) = SplitState(c, 0, << >>, y)
  BY SplitStartIs DEF Whole
<1>3. ASSUME NEW f, NEW l, NEW t, NEW m, IsList(l), m = <<f>> \o l,
             SplitRun(SplitState(c, 0, << >>, << >>), y) = SplitState(c, r, m, t)
      PROVE  FALSE
  <2>1. SplitState(c, 0, << >>, y) = SplitState(c, r, m, t)
    BY <1>2, <1>3
  <2>2. m = << >>
    BY <2>1, SplitNil
  <2> QED BY <1>3, <2>2, NotEmptyConcat
<1>4. /\ SplitState(c, r, << >>, y) = SplitState(c, 0, << >>, y)
      /\ SplitRun(SplitState(c, 0, o, s), y) = SplitState(c, r, o, s \o y)
  BY <1>1, <1>2, <1>3 DEF Shifts
<1>5. r = 0
  BY <1>4, SplitNil
<1> QED BY <1>4, <1>5

LEMMA WholeConcat ==
    ASSUME NEW c, NEW x, IsList(x), NEW y, IsList(y), Whole(x, c), Whole(y, c)
    PROVE  Whole(x \o y, c)
<1>1. SplitRun(SplitStart(c), x \o y) = SplitRun(SplitState(c, 0, << >>, x), y)
  BY SplitRunConcat DEF Whole
<1> QED BY <1>1, WholeRun, EmptyList DEF Whole

\* The beginning of a text that has no c outside quotes has none, ...
LEMMA WholePrefix ==
    ASSUME NEW c, NEW x, IsList(x), NEW y, IsList(y), NEW q \in {0, 1}, NEW t,
           SplitRun(SplitStart(c), x \o y) = SplitState(c, q, << >>, t)
    PROVE  \E r \in {0, 1} : SplitRun(SplitStart(c), x) = SplitState(c, r, << >>, x)
<1>1. PICK r \in {0, 1} : Shifts(c, 0, << >>, << >>, x, r)
  BY SplitShift, EmptyList
<1>2. ASSUME NEW f, NEW l, NEW u, NEW m, IsList(f), IsList(l), IsList(u), m = <<f>> \o l,
             SplitRun(SplitStart(c), x) = SplitState(c, r, m, u)
      PROVE  FALSE
  <2>0. IsList(m) /\ m # << >>
    <3>1. IsList(<<f>>)
      BY SingleList
    <3> QED BY <1>2, <3>1, ListConcat, NotEmptyConcat
  <2>1. SplitRun(SplitState(c, r, m, u), y) = SplitState(c, q, << >>, t)
    BY <1>2, SplitRunConcat
  <2>2. PICK k \in {0, 1} : Shifts(c, r, m, u, y, k)
    BY <1>2, <2>0, SplitShift
  <2>3. CASE SplitRun(SplitState(c, r, m, u), y) = SplitState(c, k, m, u \o y)
    <3>1. SplitState(c, q, << >>, t) = SplitState(c, k, m, u \o y)
      BY <2>1, <2>3
    <3>2. m = << >>
      BY <3>1, SplitNil
    <3> QED BY <2>0, <3>2
  <2>4. ASSUME NEW g, NEW h, NEW v, NEW n, IsList(h), n = Append(m, u \o g) \o h,
               SplitRun(SplitState(c, r, m, u), y) = SplitState(c, k, n, v)
        PROVE  FALSE
    <3>1. SplitState(c, q, << >>, t) = SplitState(c, k, n, v)
      BY <2>1, <2>4
    <3>2. n = << >>
      BY <3>1, SplitNil
    <3>3. Append(m, u \o g) \o h # << >>
      BY <2>0, <2>4, NotEmptyConcat
    <3> QED BY <2>4, <3>2, <3>3
  <2> QED BY <2>2, <2>3, <2>4 DEF Shifts
<1> QED BY <1>1, <1>2, SplitStartIs DEF Shifts

\* ... and its end, after a whole beginning, has none.
LEMMA WholeSuffix ==
    ASSUME NEW c, NEW x, IsList(x), NEW y, IsList(y), Whole(x, c), Whole(x \o y, c)
    PROVE  Whole(y, c)
<1>1. SplitRun(SplitState(c, 0, << >>, x), y) = SplitState(c, 0, << >>, x \o y)
  BY SplitRunConcat DEF Whole
<1>2. PICK r \in {0, 1} : Shifts(c, 0, << >>, x, y, r)
  BY SplitShift, EmptyList
<1>3. ASSUME NEW f, NEW l, NEW t, NEW n, IsList(l), n = Append(<< >>, x \o f) \o l,
             SplitRun(SplitState(c, 0, << >>, x), y) = SplitState(c, r, n, t)
      PROVE  FALSE
  <2>1. SplitState(c, 0, << >>, x \o y) = SplitState(c, r, n, t)
    BY <1>1, <1>3
  <2>2. n = << >>
    BY <2>1, SplitNil
  <2>3. Append(<< >>, x \o f) \o l # << >>
    BY <1>3, NotEmptyConcat, EmptyList
  <2> QED BY <1>3, <2>2, <2>3
<1>4. /\ SplitRun(SplitState(c, 0, << >>, << >>), y) = SplitState(c, r, << >>, y)
      /\ SplitRun(SplitState(c, 0, << >>, x), y) = SplitState(c, r, << >>, x \o y)
  BY <1>2, <1>3 DEF Shifts
<1>5. SplitState(c, 0, << >>, x \o y) = SplitState(c, r, << >>, x \o y)
  BY <1>1, <1>4
<1>6. r = 0
  BY <1>5, SplitNil
<1> QED BY <1>4, <1>6, SplitStartIs DEF Whole

\* A text with neither c nor DQUOTE in it, also between quotes.
LEMMA PlainRun ==
    ASSUME NEW c, NEW q \in {0, 1}, NEW o, NEW s, IsList(s), NEW y, IsList(y),
           \A i \in 1 .. Len(y) : y[i] # DQ /\ (y[i] # c \/ q = 1)
    PROVE  SplitRun(SplitState(c, q, o, s), y) = SplitState(c, q, o, s \o y)
<1> DEFINE S == {y[i] : i \in 1 .. Len(y)}
           A == SplitState(c, q, o, s)
           T == {u \in Seq(S) : SplitRun(A, u) = SplitState(c, q, o, s \o u)}
<1>1. y \in Seq(S)
  <2>1. PICK R : y \in Seq(R)
    BY DEF IsList
  <2> QED BY <2>1
<1>2. << >> \in T
  BY SplitRunEmpty, ListConcat, EmptyList
<1>3. ASSUME NEW u \in T, NEW e \in S PROVE Append(u, e) \in T
  <2>1. IsList(u) /\ Append(u, e) \in Seq(S)
    BY DEF IsList
  <2>2. SplitRun(A, Append(u, e)) = SplitStep(SplitState(c, q, o, s \o u), e)
    BY <2>1, SplitRunAppend
  <2>3. e # DQ /\ (e # c \/ q = 1)
    OBVIOUS
  <2>4. Toggled(q, e) = q
    BY <2>3 DEF Toggled
  <2>5. SplitStep(SplitState(c, q, o, s \o u), e) = SplitState(c, q, o, Append(s \o u, e))
    BY <2>3, <2>4, SplitAtOther
  <2>6. Append(s \o u, e) = s \o Append(u, e)
    <3> HIDE DEF T, S, A
    <3> QED BY <2>1, ConcatAppend
  <2> QED BY <2>1, <2>2, <2>5, <2>6
<1> HIDE DEF T, S
<1>4. T \in SUBSET Seq(S)
  BY DEF T
<1>5. y \in T
  BY <1>1, <1>2, <1>3, <1>4, SeqInduct
<1> QED BY <1>5 DEF T

LEMMA WholePlain ==
    ASSUME NEW c, NEW y, IsList(y), \A i \in 1 .. Len(y) : y[i] \notin {c, DQ}
    PROVE  Whole(y, c)
<1> DEFINE e == << >>
<1>0. IsList(e)
  BY EmptyList
<1>1. 0 \in {0, 1} /\ e \o y = y
  BY <1>0, ListConcat
<1>2. \A i \in 1 .. Len(y) : y[i] # DQ /\ (y[i] # c \/ 0 = 1)
  OBVIOUS
<1> HIDE DEF e
<1>a. \A q \in {0, 1} : q = 0 =>
        SplitRun(SplitState(c, q, e, e), y) = SplitState(c, q, e, e \o y)
  <2> SUFFICES ASSUME NEW q \in {0, 1}, q = 0
               PROVE  SplitRun(SplitState(c, q, e, e), y) = SplitState(c, q, e, e \o y)
    OBVIOUS
  <2>1. \A i \in 1 .. Len(y) : y[i] # DQ /\ (y[i] # c \/ q = 1)
    BY <1>2
  <2> QED BY <1>0, <2>1, PlainRun
<1>3. SplitRun(SplitState(c, 0, e, e), y) = SplitState(c, 0, e, e \o y)
  BY <1>a
<1>4. SplitRun(SplitState(c, 0, e, e), y) = SplitState(c, 0, e, y)
  BY <1>1, <1>3
<1> QED BY <1>4, SplitStartIs DEF Whole, e

LEMMA WholeQuoted ==
    ASSUME NEW c, c # DQ, NEW v, IsList(v), \A i \in 1 .. Len(v) : v[i] # DQ
    PROVE  Whole(<<DQ>> \o v \o <<DQ>>, c)
<1> DEFINE e == << >>
           d == <<DQ>>
           w == d \o v
<1>1. /\ IsList(e) /\ IsList(d) /\ IsList(w) /\ Append(e, DQ) = d /\ Append(w, DQ) = w \o d
      /\ SplitStart(c) = SplitState(c, 0, e, e)
  <2>1. IsList(e) /\ IsList(d) /\ Append(e, DQ) = d
    BY EmptyList, SingleList
  <2>2. IsList(w)
    BY <2>1, ListConcat
  <2> QED BY <2>1, <2>2, AppendIs, SplitStartIs
<1>2. 0 \in {0, 1} /\ 1 \in {0, 1} /\ Toggled(0, DQ) = 1 /\ Toggled(1, DQ) = 0
  BY DEF Toggled
<1> HIDE DEF e, d, w
<1>3. SplitRun(SplitStart(c), d) = SplitState(c, 1, e, d)
  <2>1. SplitRun(SplitStart(c), Append(e, DQ)) = SplitStep(SplitRun(SplitStart(c), e), DQ)
    BY <1>1, SplitRunAppend
  <2>2. SplitRun(SplitStart(c), e) = SplitState(c, 0, e, e)
    BY <1>1, SplitRunEmpty DEF e
  <2>3. SplitStep(SplitState(c, 0, e, e), DQ) = SplitState(c, 1, e, d)
    <3>1. \A q \in {0, 1} : SplitStep(SplitState(c, q, e, e), DQ)
                               = SplitState(c, Toggled(q, DQ), e, Append(e, DQ))
      BY SplitAtOther
    <3> QED BY <1>1, <1>2, <3>1
  <2> QED BY <1>1, <2>1, <2>2, <2>3
<1>4. SplitRun(SplitStart(c), w) = SplitState(c, 1, e, w)
  <2>1. SplitRun(SplitStart(c), w) = SplitRun(SplitState(c, 1, e, d), v)
    BY <1>1, <1>3, SplitRunConcat DEF w
  <2>2. \A i \in 1 .. Len(v) : v[i] # DQ /\ (v[i] # c \/ 1 = 1)
    OBVIOUS
  <2>3. SplitRun(SplitState(c, 1, e, d), v) = SplitState(c, 1, e, w)
    BY <1>1, <1>2, <2>2, PlainRun DEF w
  <2> QED BY <2>1, <2>3
<1>5. SplitRun(SplitStart(c), Append(w, DQ)) = SplitState(c, 0, e, Append(w, DQ))
  <2>1. SplitRun(SplitStart(c), Append(w, DQ)) = SplitStep(SplitState(c, 1, e, w), DQ)
    <3>1. SplitRun(SplitStart(c), Append(w, DQ)) = SplitStep(SplitRun(SplitStart(c), w), DQ)
      BY <1>1, SplitRunAppend
    <3> QED BY <1>4, <3>1
  <2>2. SplitStep(SplitState(c, 1, e, w), DQ) = SplitState(c, 0, e, Append(w, DQ))
    BY <1>2, SplitAtOther
  <2> QED BY <2>1, <2>2
<1>6. Whole(w \o d, c)
  BY <1>1, <1>5 DEF Whole, e
<1> QED BY <1>6 DEF w, d

\* What the loop returns, and where the first segment of several ends.
LEMMA SplitIs ==
    ASSUME NEW c, NEW x, NEW q, NEW o, NEW s,
           SplitRun(SplitStart(c), x) = SplitState(c, q, o, s)
    PROVE  SplitUnquoted(x, c) = Append(o, s)
BY SplitFields DEF SplitUnquoted, SplitRun

LEMMA SplitSingle ==
    ASSUME NEW c, NEW x, NEW q, SplitRun(SplitStart(c), x) = SplitState(c, q, << >>, x)
    PROVE  SplitUnquoted(x, c) = <<x>> /\ FirstUnquoted(x, c) = 0
<1>1. SplitUnquoted(x, c) = Append(<< >>, x)
  BY SplitIs
<1>2. SplitUnquoted(x, c) = <<x>>
  BY <1>1
<1> QED BY <1>2 DEF FirstUnquoted

LEMMA SplitWhole ==
    ASSUME NEW c, NEW x, Whole(x, c)
    PROVE  SplitUnquoted(x, c) = <<x>> /\ FirstUnquoted(x, c) = 0
BY SplitSingle DEF Whole

\* The text before the first c outside quotes, and the text after it.
LEMMA SplitAt ==
    ASSUME NEW c, NEW h, IsList(h), Whole(h, c), NEW v, IsList(v), NEW x,
           x = Append(h, c) \o v
    PROVE  /\ SplitUnquoted(x, c) = <<h>> \o SplitUnquoted(v, c)
           /\ FirstUnquoted(x, c) = Len(h) + 1
           /\ IsList(SplitUnquoted(v, c)) /\ SplitUnquoted(v, c) # << >>
<1> DEFINE e == << >>
           g == <<h>>
<1>0. IsList(e) /\ IsList(g) /\ Append(e, h) = g /\ IsList(Append(h, c))
  BY EmptyList, SingleList, ListAppend
<1>1. SplitRun(SplitStart(c), h) = SplitState(c, 0, e, h) /\ SplitStart(c) = SplitState(c, 0, e, e)
  BY SplitStartIs DEF Whole
<1> HIDE DEF e, g
<1>2. SplitRun(SplitStart(c), Append(h, c)) = SplitState(c, 0, g, e)
  <2>1. SplitRun(SplitStart(c), Append(h, c)) = SplitStep(SplitRun(SplitStart(c), h), c)
    BY SplitRunAppend
  <2>2. SplitStep(SplitState(c, 0, e, h), c) = SplitState(c, 0, Append(e, h), e)
    BY SplitAtIt DEF e
  <2> QED BY <1>0, <1>1, <2>1, <2>2
<1>3. SplitRun(SplitStart(c), x) = SplitRun(SplitState(c, 0, g, e), v)
  <2>1. SplitRun(SplitStart(c), Append(h, c) \o v) = SplitRun(SplitRun(SplitStart(c), Append(h, c)), v)
    BY <1>0, SplitRunConcat
  <2> QED BY <1>2, <2>1
<1>4. PICK r \in {0, 1} : Shifts(c, 0, g, e, v, r)
  <2>1. 0 \in {0, 1}
    OBVIOUS
  <2> QED BY <1>0, <2>1, SplitShift
<1>5. SUFFICES ASSUME NEW w, IsList(w), w # << >>,
                      SplitUnquoted(v, c) = w, SplitUnquoted(x, c) = g \o w
               PROVE  /\ SplitUnquoted(x, c) = g \o SplitUnquoted(v, c)
                      /\ FirstUnquoted(x, c) = Len(h) + 1
                      /\ IsList(SplitUnquoted(v, c)) /\ SplitUnquoted(v, c) # << >>
  <2>0. \/ /\ SplitRun(SplitState(c, 0, e, e), v) = SplitState(c, r, e, v)
           /\ SplitRun(SplitState(c, 0, g, e), v) = SplitState(c, r, g, e \o v)
        \/ \E f, l, t, m, n :
             /\ IsList(f) /\ IsList(l) /\ IsList(t)
             /\ m = <<f>> \o l /\ n = Append(g, e \o f) \o l
             /\ SplitRun(SplitState(c, 0, e, e), v) = SplitState(c, r, m, t)
             /\ SplitRun(SplitState(c, 0, g, e), v) = SplitState(c, r, n, t)
    BY <1>4 DEF Shifts, e
  <2>1. CASE /\ SplitRun(SplitState(c, 0, e, e), v) = SplitState(c, r, e, v)
             /\ SplitRun(SplitState(c, 0, g, e), v) = SplitState(c, r, g, e \o v)
    <3>0. /\ SplitRun(SplitStart(c), v) = SplitState(c, r, e, v)
          /\ SplitRun(SplitStart(c), x) = SplitState(c, r, g, e \o v)
      BY <1>1, <1>3, <2>1
    <3>a. SplitUnquoted(v, c) = Append(e, v)
      BY <3>0, SplitIs
    <3>b. SplitUnquoted(x, c) = Append(g, e \o v)
      <4> DEFINE d == e \o v
      <4>1. SplitRun(SplitStart(c), x) = SplitState(c, r, g, d)
        BY <3>0
      <4> HIDE DEF d
      <4>2. SplitUnquoted(x, c) = Append(g, d)
        BY <4>1, SplitIs
      <4> QED BY <4>2 DEF d
    <3>1. SplitUnquoted(v, c) = Append(e, v) /\ SplitUnquoted(x, c) = Append(g, e \o v)
      BY <3>a, <3>b
    <3>2. e \o v = v
      BY ListConcat, EmptyList DEF e
    <3>3. IsList(Append(e, v)) /\ Append(e, v) # << >>
      BY <1>0, ListAppend
    <3>4. g \o Append(e, v) = Append(g \o e, v)
      BY <1>0, ConcatAppend
    <3>5. g \o e = g
      BY <1>0, ListConcat DEF e
    <3> QED BY <3>1, <3>2, <3>3, <3>4, <3>5 DEF g
  <2>2. CASE \E f, l, t, m, n :
             /\ IsList(f) /\ IsList(l) /\ IsList(t)
             /\ m = <<f>> \o l /\ n = Append(g, e \o f) \o l
             /\ SplitRun(SplitState(c, 0, e, e), v) = SplitState(c, r, m, t)
             /\ SplitRun(SplitState(c, 0, g, e), v) = SplitState(c, r, n, t)
    <3>0. PICK f, l, t, m, n :
             /\ IsList(f) /\ IsList(l) /\ IsList(t)
             /\ m = <<f>> \o l /\ n = Append(g, e \o f) \o l
             /\ SplitRun(SplitState(c, 0, e, e), v) = SplitState(c, r, m, t)
             /\ SplitRun(SplitState(c, 0, g, e), v) = SplitState(c, r, n, t)
      BY <2>2
    <3> DEFINE k == <<f>>
    <3>1. e \o f = f
      BY <3>0, ListConcat, EmptyList DEF e
    <3>2. IsList(k) /\ IsList(l) /\ IsList(g)
      BY <1>0, <3>0, SingleList
    <3>3. Append(g, f) = g \o k
      BY <1>0, AppendIs
    <3> HIDE DEF k
    <3>4. (g \o k) \o l = g \o (k \o l)
      BY ONLY <3>2, ConcatAssoc
    <3>5. IsList(k \o l)
      BY ONLY <3>2, ListConcat
    <3>6. IsList(m) /\ n = g \o m
      BY <3>0, <3>1, <3>3, <3>4, <3>5 DEF k
    <3>7. /\ SplitRun(SplitStart(c), v) = SplitState(c, r, m, t)
          /\ SplitRun(SplitStart(c), x) = SplitState(c, r, n, t)
      BY <1>1, <1>3, <3>0
    <3>8. SplitUnquoted(v, c) = Append(m, t)
      BY <3>7, SplitIs
    <3>9. SplitUnquoted(x, c) = Append(n, t)
      BY <3>7, SplitIs
    <3>10. g \o Append(m, t) = Append(g \o m, t)
      BY <1>0, <3>6, ConcatAppend
    <3>11. IsList(Append(m, t)) /\ Append(m, t) # << >>
      BY <3>6, ListAppend
    <3> QED BY <3>6, <3>8, <3>9, <3>10, <3>11 DEF g
  <2> QED BY <2>0, <2>1, <2>2
<1>6. Len(g \o w) = 1 + Len(w) /\ (g \o w)[1] = h /\ Len(w) \in Nat /\ Len(w) # 0
  <2>1. Len(g) = 1 /\ g[1] = h
    BY SingleList DEF g
  <2>2. Len(w) \in Nat /\ Len(w) # 0
    BY <1>5, ListType DEF IsList
  <2>3. Len(g \o w) = Len(g) + Len(w) /\ \A i \in 1 .. Len(g) : (g \o w)[i] = g[i]
    BY <1>0, <1>5, ListConcat
  <2> QED BY <2>1, <2>2, <2>3
<1>7. FirstUnquoted(x, c) = Len(h) + 1
  BY <1>5, <1>6 DEF FirstUnquoted
<1> QED BY <1>5, <1>7

\* A text has no c outside quotes, or there is a first one.
LEMMA SplitCases ==
    ASSUME NEW c, NEW x, IsList(x)
    PROVE  \/ \E q \in {0, 1} : SplitRun(SplitStart(c), x) = SplitState(c, q, << >>, x)
           \/ \E h, v : IsList(h) /\ IsList(v) /\ Whole(h, c) /\ x = Append(h, c) \o v
<1>1. PICK S : x \in Seq(S)
  BY DEF IsList
<1> DEFINE e == << >>
           Has1(u) == \E h, v : IsList(h) /\ IsList(v) /\ Whole(h, c) /\ u = Append(h, c) \o v
           None(u) == \E q \in {0, 1} : SplitRun(SplitStart(c), u) = SplitState(c, q, e, u)
           T == {u \in Seq(S) : None(u) \/ Has1(u)}
<1>2. << >> \in T
  BY SplitRunEmpty, SplitStartIs
<1>3. ASSUME NEW u \in T, NEW a \in S PROVE Append(u, a) \in T
  <2> DEFINE w == Append(u, a)
  <2>a. u \in Seq(S) /\ (None(u) \/ Has1(u))
    OBVIOUS
  <2>0. w \in Seq(S) /\ IsList(u) /\ (None(u) \/ Has1(u))
    <3> HIDE DEF None, Has1
    <3> QED BY <2>a DEF IsList
  <2> SUFFICES None(w) \/ Has1(w)
    BY <2>0
  <2> HIDE DEF T
  <2>1. CASE Has1(u)
    <3>1. PICK h, v : IsList(h) /\ IsList(v) /\ Whole(h, c) /\ u = Append(h, c) \o v
      BY <2>1
    <3> DEFINE g == Append(h, c)
    <3>2. IsList(g) /\ IsList(v) /\ IsList(Append(v, a))
      BY <3>1, ListAppend
    <3> HIDE DEF g, w
    <3>3. Append(g \o v, a) = g \o Append(v, a)
      BY <3>2, ConcatAppend
    <3>4. w = g \o Append(v, a)
      BY <3>1, <3>3 DEF w, g
    <3> QED BY <3>1, <3>2, <3>4 DEF g
  <2>2. CASE None(u)
    <3>1. PICK q \in {0, 1} : SplitRun(SplitStart(c), u) = SplitState(c, q, e, u)
      BY <2>2
    <3>2. SplitRun(SplitStart(c), w) = SplitStep(SplitState(c, q, e, u), a)
      BY <2>0, <3>1, SplitRunAppend
    <3> HIDE DEF w
    <3>3. CASE a = c /\ q = 0
      <4>1. Append(u, c) = Append(u, c) \o e /\ IsList(e)
        BY <2>0, ListAppend, ListConcat, EmptyList
      <4>2. Whole(u, c)
        BY <3>1, <3>3 DEF Whole, e
      <4> QED BY <2>0, <3>3, <4>1, <4>2 DEF w
    <3>4. CASE a # c \/ q = 1
      <4>0. \A k : SplitStep(SplitState(c, q, k, u), a) = SplitState(c, Toggled(q, a), k, Append(u, a))
        BY <3>4, SplitAtOther
      <4>1. Toggled(q, a) \in {0, 1}
        BY DEF Toggled
      <4> HIDE DEF e
      <4>2. SplitRun(SplitStart(c), w) = SplitState(c, Toggled(q, a), e, w)
        BY <3>2, <4>0 DEF w
      <4> QED BY <4>1, <4>2
    <3> QED BY <3>3, <3>4
  <2> QED BY <2>0, <2>1, <2>2
<1> HIDE DEF T
<1>4. T \in SUBSET Seq(S)
  BY DEF T
<1>5. x \in T
  BY <1>1, <1>2, <1>3, <1>4, SeqInduct
<1> QED BY <1>5 DEF T

\* The last segment of several.
LEMMA SplitLast ==
    ASSUME NEW c, NEW y, IsList(y), NEW o, IsList(o), NEW s, IsList(s), NEW w, IsList(w),
           SplitRun(SplitStart(c), y) = SplitState(c, 0, o, s), Whole(w, c)
    PROVE  SplitRun(SplitStart(c), Append(y, c) \o w) = SplitState(c, 0, Append(o, s), w)
<1> DEFINE e == << >>
           z == Append(y, c)
<1>1. IsList(z) /\ IsList(Append(o, s)) /\ IsList(e)
  BY ListAppend, EmptyList
<1>2. SplitRun(SplitStart(c), z) = SplitState(c, 0, Append(o, s), e)
  <2>1. SplitRun(SplitStart(c), z) = SplitStep(SplitRun(SplitStart(c), y), c)
    BY SplitRunAppend
  <2> QED BY <2>1, SplitAtIt
<1> HIDE DEF e, z
<1>3. SplitRun(SplitStart(c), z \o w) = SplitRun(SplitRun(SplitStart(c), z), w)
  BY <1>1, SplitRunConcat
<1>4. SplitRun(SplitState(c, 0, Append(o, s), e), w) = SplitState(c, 0, Append(o, s), e \o w)
  BY <1>1, WholeRun
<1>5. e \o w = w
  BY ListConcat, EmptyList DEF e
<1> QED BY <1>2, <1>3, <1>4, <1>5 DEF z

\* A whole text without a last character that is neither c nor DQUOTE.
LEMMA WholeSingle == ASSUME NEW c, NEW a, a # c, a # DQ PROVE Whole(<<a>>, c)
<1>1. IsList(<<a>>) /\ Len(<<a>>) = 1 /\ <<a>>[1] = a
  BY SingleList
<1>2. \A i \in 1 .. Len(<<a>>) : <<a>>[i] \notin {c, DQ}
  BY <1>1
<1> QED BY <1>1, <1>2, WholePlain

LEMMA WholeFront ==
    ASSUME NEW c, NEW x, IsList(x), NEW a, a # c, a # DQ, Whole(Append(x, a), c)
    PROVE  Whole(x, c)
<1> DEFINE y == <<a>>
           w == Append(x, a)
           e == << >>
<1>1. IsList(y) /\ w = x \o y /\ 0 \in {0, 1}
  BY SingleList, AppendIs
<1>2. SplitRun(SplitStart(c), w) = SplitState(c, 0, e, w)
  BY DEF Whole
<1> HIDE DEF y, w
<1>3. SplitRun(SplitStart(c), x \o y) = SplitState(c, 0, e, w)
  BY <1>1, <1>2
<1>4. PICK r \in {0, 1} : SplitRun(SplitStart(c), x) = SplitState(c, r, << >>, x)
  BY <1>1, <1>3, WholePrefix
<1>5. SplitRun(SplitStart(c), w) = SplitStep(SplitRun(SplitStart(c), x), a)
  BY SplitRunAppend DEF w
<1>6. Toggled(r, a) = r
  BY DEF Toggled
<1> HIDE DEF e
<1>7. SplitStep(SplitState(c, r, e, x), a) = SplitState(c, Toggled(r, a), e, w)
  BY SplitAtOther DEF w
<1>8. SplitState(c, 0, e, w) = SplitState(c, r, e, w)
  BY <1>2, <1>4, <1>5, <1>6, <1>7 DEF e
<1>9. r = 0
  <2>1. SplitState(c, 0, e, w).quotes = 0 /\ SplitState(c, r, e, w).quotes = r
    BY SplitFields
  <2> QED BY <1>8, <2>1
<1> QED BY <1>4, <1>9 DEF Whole

-----------------------------------------------------------------------------
(* Content lines.                                                          *)

\* DQUOTE, semicolon and comma stand for themselves by name only: the SMT backend cannot
\* read their texts.
LEMMA Separators ==
    /\ ":" # DQ /\ Semi # DQ /\ "=" # DQ /\ "." # DQ /\ Comma # DQ
    /\ Semi # ":" /\ Semi # "=" /\ Semi # "." /\ Semi # Comma
    /\ Comma # ":" /\ Comma # "=" /\ Comma # "."
BY Zenon DEF DQ, Semi, Comma

LEMMA TailIs ==
    ASSUME NEW x, NEW w, IsList(w)
    PROVE  (<<x>> \o w)[1] = x /\ Tail(<<x>> \o w) = w /\ Tail(<<x>>) = << >>
<1>1. PICK S : w \in Seq(S)
  BY DEF IsList
<1>2. w \in Seq(S \cup {x}) /\ <<x>> \in Seq(S \cup {x})
  BY <1>1
<1> DEFINE s == <<x>> \o w
<1>3. s \in Seq(S \cup {x}) /\ Len(s) = 1 + Len(w) /\ s[1] = x /\ \A i \in 1 .. Len(w) : s[i + 1] = w[i]
  BY <1>2
<1> HIDE DEF s
<1>4. Tail(s) \in Seq(S \cup {x}) /\ Len(Tail(s)) = Len(w) /\ \A i \in 1 .. Len(w) : Tail(s)[i] = s[i + 1]
  BY <1>2, <1>3
<1>5. Tail(s) = w
  BY <1>2, <1>3, <1>4, SeqEqual
<1>6. Tail(<<x>>) = << >>
  OBVIOUS
<1> QED BY <1>3, <1>5, <1>6 DEF s

\* The line of a head and a value.
LEMMA LineAt ==
    ASSUME NEW h, IsList(h), Whole(h, ":"), NEW v, IsList(v), NEW line, line = Append(h, ":") \o v
    PROVE  /\ IsList(line) /\ FirstUnquoted(line, ":") = Len(h) + 1 /\ Len(h) \in Nat
           /\ Head5545(line) = h /\ Value5545(line) = v
           /\ Segments(line) = SplitUnquoted(h, Semi)
<1> DEFINE g == Append(h, ":")
           k == <<":">>
<1>1. FirstUnquoted(line, ":") = Len(h) + 1
  BY SplitAt
<1>2. IsList(g) /\ Len(g) = Len(h) + 1 /\ Len(h) \in Nat /\ g = h \o k /\ IsList(k)
  BY ListAppend, ListType, AppendIs, SingleList
<1> HIDE DEF g, k
<1>3. IsList(g \o v) /\ IsList(k \o v)
  BY <1>2, ListConcat
<1>4. SubSeq(g \o v, Len(g) + 1, Len(g \o v)) = v
  BY <1>2, ConcatParts
<1>5. Value5545(line) = v
  BY <1>1, <1>2, <1>4 DEF Value5545, g
<1>6. (h \o k) \o v = h \o (k \o v)
  BY <1>2, ConcatAssoc
<1>7. SubSeq(h \o (k \o v), 1, Len(h)) = h
  BY <1>3, ConcatParts
<1>8. SubSeq(line, 1, Len(h)) = h
  BY <1>2, <1>6, <1>7 DEF g
<1>9. Len(h) + 1 - 1 = Len(h)
  BY <1>2
<1>10. Head5545(line) = h
  BY <1>1, <1>8, <1>9 DEF Head5545
<1> QED BY <1>1, <1>2, <1>3, <1>5, <1>10 DEF Segments, g

LEMMA LineCases ==
    ASSUME NEW line, IsList(line), FirstUnquoted(line, ":") # 0
    PROVE  \E h, v : IsList(h) /\ IsList(v) /\ Whole(h, ":") /\ line = Append(h, ":") \o v
<1>1. ASSUME NEW q, SplitRun(SplitStart(":"), line) = SplitState(":", q, << >>, line) PROVE FALSE
  BY <1>1, SplitSingle
<1> QED BY <1>1, SplitCases

\* The name at the beginning of a head.
NameOf(n, h) ==
    \/ h = n /\ SplitUnquoted(h, Semi) = <<n>>
    \/ \E r : /\ IsList(r) /\ h = Append(n, Semi) \o r
              /\ IsList(SplitUnquoted(r, Semi)) /\ SplitUnquoted(r, Semi) # << >>
              /\ SplitUnquoted(h, Semi) = <<n>> \o SplitUnquoted(r, Semi)

LEMMA SameQuotes ==
    ASSUME NEW c, NEW d, c # DQ, d # DQ, NEW x, IsList(x), NEW q, NEW r,
           SplitRun(SplitStart(c), x) = SplitState(c, q, << >>, x),
           SplitRun(SplitStart(d), x) = SplitState(d, r, << >>, x)
    PROVE  q = r
<1>1. PICK k \in {0, 1} : \E o, s, p, t :
              /\ SplitRun(SplitStart(c), x) = SplitState(c, k, o, s)
              /\ SplitRun(SplitStart(d), x) = SplitState(d, k, p, t)
  BY QuotedSame
<1>2. PICK o, s, p, t :
              /\ SplitRun(SplitStart(c), x) = SplitState(c, k, o, s)
              /\ SplitRun(SplitStart(d), x) = SplitState(d, k, p, t)
  BY <1>1
<1>3. SplitState(c, q, << >>, x) = SplitState(c, k, o, s)
  BY <1>2
<1>4. SplitState(d, r, << >>, x) = SplitState(d, k, p, t)
  BY <1>2
<1>5. q = k
  BY <1>3, SplitNil
<1>6. r = k
  BY <1>4, SplitNil
<1> QED BY <1>5, <1>6

LEMMA HeadName ==
    ASSUME NEW h, IsList(h), Whole(h, ":")
    PROVE  \E n : IsList(n) /\ Whole(n, ":") /\ Whole(n, Semi) /\ NameOf(n, h)
<1>0. SplitRun(SplitStart(":"), h) = SplitState(":", 0, << >>, h) /\ 0 \in {0, 1}
  BY DEF Whole
<1>1. CASE \E q \in {0, 1} : SplitRun(SplitStart(Semi), h) = SplitState(Semi, q, << >>, h)
  <2>1. PICK q \in {0, 1} : SplitRun(SplitStart(Semi), h) = SplitState(Semi, q, << >>, h)
    BY <1>1
  <2>2. q = 0
    BY <1>0, <2>1, Separators, SameQuotes
  <2>3. Whole(h, Semi)
    BY <2>1, <2>2 DEF Whole
  <2>4. SplitUnquoted(h, Semi) = <<h>>
    BY <2>3, SplitWhole
  <2> QED BY <2>3, <2>4 DEF NameOf
<1>2. CASE \E n, r : IsList(n) /\ IsList(r) /\ Whole(n, Semi) /\ h = Append(n, Semi) \o r
  <2>1. PICK n, r : IsList(n) /\ IsList(r) /\ Whole(n, Semi) /\ h = Append(n, Semi) \o r
    BY <1>2
  <2> DEFINE g == Append(n, Semi)
             k == <<Semi>>
  <2>2. IsList(g) /\ IsList(k) /\ g = n \o k
    BY <2>1, ListAppend, SingleList, AppendIs
  <2> HIDE DEF g, k
  <2>3. SplitRun(SplitStart(":"), g \o r) = SplitState(":", 0, << >>, h)
    BY <1>0, <2>1 DEF g
  <2>4. PICK p \in {0, 1} : SplitRun(SplitStart(":"), g) = SplitState(":", p, << >>, g)
    BY <1>0, <2>1, <2>2, <2>3, WholePrefix
  <2>5. SplitRun(SplitStart(":"), n \o k) = SplitState(":", p, << >>, g)
    BY <2>2, <2>4
  <2>6. PICK q \in {0, 1} : SplitRun(SplitStart(":"), n) = SplitState(":", q, << >>, n)
    BY <2>1, <2>2, <2>5, WholePrefix
  <2>7. SplitRun(SplitStart(Semi), n) = SplitState(Semi, 0, << >>, n)
    BY <2>1 DEF Whole
  <2>8. q = 0
    BY <2>1, <2>6, <2>7, Separators, SameQuotes
  <2>9. Whole(n, ":")
    BY <2>6, <2>8 DEF Whole
  <2>10. /\ SplitUnquoted(h, Semi) = <<n>> \o SplitUnquoted(r, Semi)
         /\ IsList(SplitUnquoted(r, Semi)) /\ SplitUnquoted(r, Semi) # << >>
    BY <2>1, SplitAt
  <2>11. NameOf(n, h)
    BY <2>1, <2>10 DEF NameOf
  <2> QED BY <2>1, <2>9, <2>11
<1> QED BY <1>1, <1>2, SplitCases

LEMMA NameIs ==
    ASSUME NEW n, NEW h, NameOf(n, h)
    PROVE  SplitUnquoted(h, Semi)[1] = n
<1>1. CASE h = n /\ SplitUnquoted(h, Semi) = <<n>>
  <2> DEFINE one == <<n>>
  <2>1. one[1] = n
    OBVIOUS
  <2>2. SplitUnquoted(h, Semi) = one
    BY <1>1
  <2> HIDE DEF one
  <2> QED BY <2>1, <2>2
<1>2. ASSUME NEW r, IsList(SplitUnquoted(r, Semi)),
             SplitUnquoted(h, Semi) = <<n>> \o SplitUnquoted(r, Semi)
      PROVE  SplitUnquoted(h, Semi)[1] = n
  BY <1>2, TailIs
<1> QED BY <1>1, <1>2 DEF NameOf

-----------------------------------------------------------------------------
(* Groups.                                                                 *)

LEMMA MinIs ==
    ASSUME NEW S, S \subseteq Nat, S # {}
    PROVE  Min(S) \in S /\ \A y \in S : Min(S) <= y
<1>1. PICK k \in S : \A j \in S : ~(<<j, k>> \in OpToRel(<, Nat))
  BY WFMin, NatLessThanWellFounded, Zenon
<1>2. \A j \in S : k <= j
  <2> SUFFICES ASSUME NEW j \in S, ~(k <= j) PROVE FALSE
    OBVIOUS
  <2>1. j \in Nat /\ k \in Nat /\ j < k
    OBVIOUS
  <2>2. <<j, k>> \in OpToRel(<, Nat)
    BY <2>1, Zenon DEF OpToRel
  <2> QED BY <1>1, <2>2
<1> QED BY <1>2 DEF Min

LEMMA GroupEndIs ==
    ASSUME NEW n, IsList(n)
    PROVE  /\ GroupEnd(n) \in 0 .. Len(n)
           /\ GroupEnd(n) # 0 => n[GroupEnd(n)] = "."
           /\ \A i \in 1 .. Len(n) : n[i] = "." => GroupEnd(n) # 0 /\ GroupEnd(n) <= i
<1> DEFINE at == {k \in DOMAIN n : n[k] = "."}
<1>1. Len(n) \in Nat /\ DOMAIN n = 1 .. Len(n)
  BY ListType
<1>2. at \subseteq Nat /\ at = {k \in 1 .. Len(n) : n[k] = "."}
  BY <1>1
<1>3. GroupEnd(n) = IF at = {} THEN 0 ELSE Min(at)
  BY DEF GroupEnd
<1>4. CASE at = {}
  BY <1>1, <1>2, <1>3, <1>4
<1>5. CASE at # {}
  <2>1. Min(at) \in at /\ \A y \in at : Min(at) <= y
    <3> HIDE DEF at
    <3> QED BY <1>2, <1>5, MinIs
  <2> QED BY <1>1, <1>2, <1>3, <1>5, <2>1
<1> QED BY <1>4, <1>5

\* A name is its group and its bare name.
LEMMA NameSplits ==
    ASSUME NEW n, IsList(n)
    PROVE  LET g == SubSeq(n, 1, GroupEnd(n))
           IN  /\ IsList(g) /\ Len(g) = GroupEnd(n) /\ IsList(BareName(n))
               /\ n = g \o BareName(n) /\ Len(BareName(n)) = Len(n) - GroupEnd(n)
               /\ GroupEnd(n) = 0 => BareName(n) = n
<1>0. GroupEnd(n) \in 0 .. Len(n)
  BY GroupEndIs
<1> DEFINE g == SubSeq(n, 1, GroupEnd(n))
           b == SubSeq(n, GroupEnd(n) + 1, Len(n))
<1>1. IsList(g) /\ Len(g) = GroupEnd(n) /\ IsList(b) /\ Len(b) = Len(n) - GroupEnd(n) /\ n = g \o b
  BY <1>0, ListSplits
<1>2. ASSUME GroupEnd(n) = 0 PROVE b = n
  <2>1. Len(n) \in Nat /\ \A i \in 1 .. Len(n) - 0 : SubSeq(n, 0 + 1, Len(n))[i] = n[0 + i]
    BY ListType, ListSplits
  <2>2. Len(b) = Len(n) /\ \A i \in 1 .. Len(b) : b[i] = n[i]
    BY <1>1, <1>2, <2>1
  <2> HIDE DEF b
  <2> QED BY <1>1, <2>2, ListEqual
<1> QED BY <1>1, <1>2 DEF BareName

\* The names of UID, KIND and VERSION, in any case.
Reserved == {<<"UID">>, <<"KIND">>, <<"VERSION">>}
IsReservedAtom(a) == UpperAtom(a) \in {"UID", "KIND", "VERSION"}

LEMMA UpperOfList ==
    ASSUME NEW s, IsList(s)
    PROVE  /\ IsList(ToUpper(s)) /\ Len(ToUpper(s)) = Len(s)
           /\ \A i \in 1 .. Len(s) : ToUpper(s)[i] = UpperAtom(s[i])
<1>1. Len(s) \in Nat /\ DOMAIN s = 1 .. Len(s)
  BY ListType
<1>2. ToUpper(s) = [k \in 1 .. Len(s) |-> UpperAtom(s[k])]
  BY <1>1 DEF ToUpper
<1>3. IsList([k \in 1 .. Len(s) |-> UpperAtom(s[k])]) /\ Len([k \in 1 .. Len(s) |-> UpperAtom(s[k])]) = Len(s)
  BY <1>1, TableIsList
<1> QED BY <1>2, <1>3

LEMMA UpperOfSingle == ASSUME NEW a PROVE ToUpper(<<a>>) = <<UpperAtom(a)>>
BY DEF ToUpper

LEMMA AtomCases ==
    ASSUME NEW a
    PROVE  /\ UpperAtom(a) = a
              \/ UpperAtom(a) \in {"UID", "VERSION", "KIND", "FN", "ORG", "END", "VCARD", "TYPE", "N"}
           /\ UpperAtom("UID") = "UID" /\ UpperAtom("KIND") = "KIND"
           /\ UpperAtom("VERSION") = "VERSION" /\ UpperAtom("BEGIN") = "BEGIN"
           /\ UpperAtom("END") = "END" /\ UpperAtom("VCARD") = "VCARD" /\ UpperAtom(":") = ":"
           /\ UpperAtom(".") = "."
BY DEF UpperAtom, Cases

LEMMA SeparatorCases ==
    ASSUME NEW c \in {Semi, DQ, Comma, BS}
    PROVE  /\ UpperAtom(c) = c
           /\ c \notin {"UID", "VERSION", "KIND", "FN", "ORG", "END", "VCARD", "TYPE", "N", "BEGIN"}
<1>1. DOMAIN Cases = {"uid", "version", "kind", "fn", "org", "end", "vcard", "type", "n"}
  BY DEF Cases
<1>2. c \notin {"uid", "version", "kind", "fn", "org", "end", "vcard", "type", "n"}
  BY Zenon DEF Semi, DQ, Comma, BS
<1>3. c \notin {"UID", "VERSION", "KIND", "FN", "ORG", "END", "VCARD", "TYPE", "N", "BEGIN"}
  BY Zenon DEF Semi, DQ, Comma, BS
<1> QED BY <1>1, <1>2, <1>3 DEF UpperAtom

LEMMA ReservedIs ==
    ASSUME NEW s, IsList(s), ToUpper(s) \in Reserved
    PROVE  \E a : s = <<a>> /\ IsReservedAtom(a)
<1>1. Len(ToUpper(s)) = 1 /\ ToUpper(s)[1] \in {"UID", "KIND", "VERSION"}
  BY DEF Reserved
<1>2. Len(s) = 1 /\ UpperAtom(s[1]) \in {"UID", "KIND", "VERSION"}
  BY <1>1, UpperOfList
<1>3. s = <<s[1]>>
  <2> DEFINE t == <<s[1]>>
  <2>1. IsList(t) /\ Len(t) = 1 /\ t[1] = s[1]
    BY SingleList
  <2> HIDE DEF t
  <2>2. s = t
    BY <1>2, <2>1, ListEqual
  <2> QED BY <2>2 DEF t
<1> QED BY <1>2, <1>3 DEF IsReservedAtom

LEMMA ReservedAtom ==
    ASSUME NEW a, IsReservedAtom(a)
    PROVE  a \notin {":", Semi, "=", DQ, "."} /\ UpperAtom(a) \notin {"BEGIN", "END"}
<1>1. UpperAtom("=") = "="
  BY DEF UpperAtom, Cases
<1> QED BY <1>1, SeparatorCases, AtomCases, Separators DEF IsReservedAtom

LEMMA SingleWhole ==
    ASSUME NEW a, a \notin {":", Semi, DQ}
    PROVE  IsList(<<a>>) /\ <<a>> # << >> /\ Whole(<<a>>, ":") /\ Whole(<<a>>, Semi)
           /\ SplitUnquoted(<<a>>, Semi) = <<<<a>>>>
<1>0. a # ":" /\ a # Semi /\ a # DQ
  OBVIOUS
<1>1. Whole(<<a>>, ":") /\ Whole(<<a>>, Semi)
  BY <1>0, WholeSingle
<1> QED BY <1>1, SingleList, SplitWhole

\* A head with a group in front of its last name atom, without it.
Away(g, a, h) ==
    \E k : /\ IsList(k) /\ Whole(k, ":") /\ h = g \o k /\ k # << >> /\ k[1] = a
           /\ SplitUnquoted(k, Semi)[1] = <<a>>
           /\ Tail(SplitUnquoted(k, Semi)) = Tail(SplitUnquoted(h, Semi))

LEMMA HeadAway ==
    ASSUME NEW g, IsList(g), NEW a, a \notin {":", Semi, DQ},
           NEW h, IsList(h), Whole(h, ":"), NameOf(Append(g, a), h),
           Whole(Append(g, a), ":"), Whole(Append(g, a), Semi)
    PROVE  Away(g, a, h)
<1> DEFINE n == Append(g, a)
<1>0. Whole(g, ":") /\ Whole(g, Semi)
  BY WholeFront
<1> DEFINE b == <<a>>
<1>1. IsList(b) /\ b # << >> /\ b[1] = a /\ Whole(b, ":") /\ Whole(b, Semi) /\ SplitUnquoted(b, Semi) = <<b>>
  BY SingleWhole
<1>2. n = g \o b
  BY AppendIs
<1> HIDE DEF b, n
<1>3. CASE h = n /\ SplitUnquoted(h, Semi) = <<n>>
  <2>1. <<b>>[1] = b /\ Tail(<<b>>) = << >> /\ Tail(<<n>>) = << >>
    BY TailIs, EmptyList
  <2>2. SplitUnquoted(b, Semi)[1] = b /\ Tail(SplitUnquoted(b, Semi)) = Tail(SplitUnquoted(h, Semi))
    BY <1>1, <1>3, <2>1
  <2>3. h = g \o b
    BY <1>2, <1>3
  <2> QED BY <1>1, <2>2, <2>3 DEF b, Away
<1>4. CASE \E r : /\ IsList(r) /\ h = Append(n, Semi) \o r
                  /\ IsList(SplitUnquoted(r, Semi)) /\ SplitUnquoted(r, Semi) # << >>
                  /\ SplitUnquoted(h, Semi) = <<n>> \o SplitUnquoted(r, Semi)
  <2>1. PICK r : /\ IsList(r) /\ h = Append(n, Semi) \o r
                 /\ IsList(SplitUnquoted(r, Semi))
                 /\ SplitUnquoted(h, Semi) = <<n>> \o SplitUnquoted(r, Semi)
    BY <1>4
  <2> DEFINE m == Append(b, Semi)
             k == m \o r
  <2>2. IsList(m) /\ m[1] = a /\ Len(m) \in Nat /\ Len(m) > 0
    <3>1. Len(b) = 1 /\ IsList(b)
      BY SingleList DEF b
    <3>2. /\ IsList(m) /\ Len(m) = Len(b) + 1
          /\ \A i \in 1 .. Len(b) : m[i] = b[i]
      BY <3>1, ListAppend
    <3> HIDE DEF m
    <3> QED BY <1>1, <3>1, <3>2
  <2>3. IsList(k) /\ k[1] = a /\ k # << >>
    <3> HIDE DEF m
    <3>0. IsList(r)
      BY <2>1
    <3>1. IsList(k) /\ Len(k) = Len(m) + Len(r) /\ \A i \in 1 .. Len(m) : k[i] = m[i]
      BY <2>2, <3>0, ListConcat
    <3>2. Len(r) \in Nat
      BY <3>0, ListType
    <3>3. k[1] = a
      BY <2>2, <3>1
    <3> HIDE DEF k
    <3>4. Len(k) # 0
      BY <2>2, <3>1, <3>2
    <3>5. k # << >>
      BY <3>4, EmptyList
    <3> QED BY <3>1, <3>3, <3>5
  <2>4. g \o m = Append(n, Semi)
    <3>1. IsList(g) /\ IsList(b)
      BY <1>1
    <3>2. g \o Append(b, Semi) = Append(g \o b, Semi)
      BY ONLY <3>1, ConcatAppend
    <3> QED BY <1>2, <3>2
  <2> HIDE DEF m
  <2>5. (g \o m) \o r = g \o (m \o r)
    <3>1. IsList(g) /\ IsList(m) /\ IsList(r)
      BY <2>1, <2>2
    <3> QED BY ONLY <3>1, ConcatAssoc
  <2>6. h = g \o k
    BY <2>1, <2>4, <2>5
  <2>7. SplitUnquoted(k, Semi) = <<b>> \o SplitUnquoted(r, Semi)
    <3>1. IsList(r)
      BY <2>1
    <3> QED BY <1>1, <3>1, SplitAt DEF m
  <2>8. /\ SplitUnquoted(k, Semi)[1] = b
        /\ Tail(SplitUnquoted(k, Semi)) = SplitUnquoted(r, Semi)
        /\ Tail(SplitUnquoted(h, Semi)) = SplitUnquoted(r, Semi)
    <3> DEFINE w == SplitUnquoted(r, Semi)
    <3>1. IsList(w)
      BY <2>1
    <3>2. SplitUnquoted(k, Semi) = <<b>> \o w /\ SplitUnquoted(h, Semi) = <<n>> \o w
      BY <2>1, <2>7
    <3> HIDE DEF w
    <3>3. (<<b>> \o w)[1] = b /\ Tail(<<b>> \o w) = w
      BY <3>1, TailIs
    <3>4. Tail(<<n>> \o w) = w
      BY <3>1, TailIs
    <3>5. /\ SplitUnquoted(k, Semi)[1] = b /\ Tail(SplitUnquoted(k, Semi)) = w
          /\ Tail(SplitUnquoted(h, Semi)) = w
      BY <3>2, <3>3, <3>4
    <3> QED BY <3>5 DEF w
  <2> HIDE DEF k
  <2>9. Whole(k, ":")
    <3>1. Whole(g \o k, ":")
      BY <2>6
    <3> QED BY ONLY <1>0, <2>3, <3>1, IsList(g), WholeSuffix
  <2> QED BY <2>3, <2>6, <2>8, <2>9 DEF b, Away
<1>5. NameOf(n, h)
  BY DEF n
<1> QED BY <1>3, <1>4, <1>5 DEF NameOf

\* What a line stands for is in the name, the other segments and the value.
LEMMA SameLine ==
    ASSUME NEW l, NEW m, FirstUnquoted(l, ":") # 0, FirstUnquoted(m, ":") # 0,
           Tail(Segments(m)) = Tail(Segments(l)), Value5545(m) = Value5545(l),
           ~Rejects(l), Segments(m)[1] # << >>
    PROVE  /\ ~Rejects(m)
           /\ ParseContentLine(m) = [ParseContentLine(l) EXCEPT !.name = Segments(m)[1]]
<1>1. ParamSegments(m) = ParamSegments(l)
  BY DEF ParamSegments
<1>2. ~Rejects(m)
  BY <1>1 DEF Rejects
<1> DEFINE segs == ParamSegments(l)
           params == [k \in DOMAIN segs |-> Param(segs[k], FirstUnquoted(segs[k], "="))]
           value == UnescapeText(Value5545(l))
<1>3. ParseContentLine(l) = [name |-> Segments(l)[1], params |-> params, value |-> value]
  BY DEF ParseContentLine
<1>4. ParseContentLine(m) = [name |-> Segments(m)[1], params |-> params, value |-> value]
  BY <1>1 DEF ParseContentLine
<1> HIDE DEF params, value
<1> QED BY <1>2, <1>3, <1>4

\* Without the group of a reserved name a line is what it was, but for that.
LEMMA GroupAway ==
    ASSUME NEW l, IsList(l), l # << >>, ~Rejects(l), ToUpper(BareName(Segments(l)[1])) \in Reserved
    PROVE  \E a : /\ BareName(Segments(l)[1]) = <<a>> /\ IsReservedAtom(a)
                  /\ IsList(Ungrouped(l)) /\ Ungrouped(l) # << >> /\ Ungrouped(l)[1] = a
                  /\ ~Rejects(Ungrouped(l))
                  /\ ParseContentLine(Ungrouped(l)) = [ParseContentLine(l) EXCEPT !.name = <<a>>]
<1>1. PICK h, v : IsList(h) /\ IsList(v) /\ Whole(h, ":") /\ l = Append(h, ":") \o v
  <2>1. FirstUnquoted(l, ":") # 0
    BY DEF Rejects
  <2> QED BY <2>1, LineCases
<1>2. PICK n : IsList(n) /\ Whole(n, ":") /\ Whole(n, Semi) /\ NameOf(n, h)
  BY <1>1, HeadName
<1>3. /\ FirstUnquoted(l, ":") # 0 /\ Value5545(l) = v
      /\ Segments(l) = SplitUnquoted(h, Semi) /\ Segments(l)[1] = n
  <2>1. FirstUnquoted(l, ":") = Len(h) + 1 /\ Len(h) \in Nat /\ Value5545(l) = v
        /\ Segments(l) = SplitUnquoted(h, Semi)
    BY <1>1, LineAt
  <2>2. SplitUnquoted(h, Semi)[1] = n
    BY <1>2, NameIs
  <2>3. FirstUnquoted(l, ":") # 0
    BY <2>1
  <2> QED BY <2>1, <2>2, <2>3
<1> DEFINE g == SubSeq(n, 1, GroupEnd(n))
<1>4. IsList(g) /\ Len(g) = GroupEnd(n) /\ IsList(BareName(n)) /\ n = g \o BareName(n)
  BY <1>2, NameSplits
<1>5. PICK a : BareName(n) = <<a>> /\ IsReservedAtom(a)
  BY <1>3, <1>4, ReservedIs
<1>6. a \notin {":", Semi, DQ}
  BY <1>5, ReservedAtom
<1> HIDE DEF g
<1>7. n = Append(g, a)
  <2>1. Append(g, a) = g \o <<a>>
    BY <1>4, AppendIs
  <2> QED BY <1>4, <1>5, <2>1
<1>8. PICK k : /\ IsList(k) /\ Whole(k, ":") /\ h = g \o k /\ k # << >> /\ k[1] = a
               /\ SplitUnquoted(k, Semi)[1] = <<a>>
               /\ Tail(SplitUnquoted(k, Semi)) = Tail(SplitUnquoted(h, Semi))
  <2>1. IsList(g) /\ IsList(h) /\ Whole(h, ":")
    BY <1>1, <1>4
  <2>2. LET x == Append(g, a) IN NameOf(x, h) /\ Whole(x, ":") /\ Whole(x, Semi)
    BY <1>2, <1>7
  <2>3. Away(g, a, h)
    BY ONLY <1>6, <2>1, <2>2, HeadAway
  <2> QED BY <2>3 DEF Away
<1> DEFINE c == Append(k, ":")
           m == c \o v
<1>9. IsList(c) /\ IsList(v) /\ IsList(k) /\ IsList(g) /\ c[1] = a /\ Len(c) \in Nat /\ Len(c) > 0
  <2>1. IsList(k) /\ k[1] = a /\ k # << >> /\ Len(k) \in Nat
    BY <1>8, ListType
  <2>2. Len(k) # 0
    BY <2>1 DEF IsList
  <2> QED BY <1>1, <1>4, <2>1, <2>2, ListAppend
<1>10. /\ IsList(m) /\ FirstUnquoted(m, ":") # 0 /\ Value5545(m) = v
       /\ Segments(m) = SplitUnquoted(k, Semi)
  <2>1. IsList(m) /\ FirstUnquoted(m, ":") = Len(k) + 1 /\ Len(k) \in Nat /\ Value5545(m) = v
        /\ Segments(m) = SplitUnquoted(k, Semi)
    BY <1>1, <1>8, LineAt
  <2>2. FirstUnquoted(m, ":") # 0
    BY <2>1
  <2> QED BY <2>1, <2>2
<1>11. g \o c = Append(h, ":")
  <2>1. g \o Append(k, ":") = Append(g \o k, ":")
    BY <1>9, ConcatAppend
  <2> QED BY <1>8, <2>1
<1> HIDE DEF c
<1>12. l = g \o m
  <2>1. IsList(g) /\ IsList(c) /\ IsList(v)
    BY <1>9
  <2>2. (g \o c) \o v = g \o (c \o v)
    BY ONLY <2>1, ConcatAssoc
  <2> QED BY <1>1, <1>11, <2>2
<1>13. m # << >> /\ m[1] = a
  <2>1. Len(m) = Len(c) + Len(v) /\ \A i \in 1 .. Len(c) : m[i] = c[i]
    BY <1>9, ListConcat
  <2>2. Len(v) \in Nat
    BY <1>9, ListType
  <2> HIDE DEF m
  <2> QED BY <1>9, <2>1, <2>2, EmptyList
<1> HIDE DEF m
<1>14. SubSeq(l, GroupEnd(n) + 1, Len(l)) = m
  <2>1. SubSeq(g \o m, Len(g) + 1, Len(g \o m)) = m
    BY <1>9, <1>10, ConcatParts
  <2> QED BY <1>4, <1>12, <2>1
<1>15. Ungrouped(l) = m
  BY <1>3, <1>14 DEF Ungrouped, Reserved
<1>16. Segments(m)[1] = <<a>> /\ Tail(Segments(m)) = Tail(Segments(l))
  BY <1>3, <1>8, <1>10
<1>17. ~Rejects(m) /\ ParseContentLine(m) = [ParseContentLine(l) EXCEPT !.name = <<a>>]
  <2>1. Segments(m)[1] # << >>
    BY <1>6, <1>16, SingleWhole
  <2> QED BY <1>3, <1>10, <1>16, <2>1, SameLine
<1> QED BY <1>3, <1>5, <1>10, <1>13, <1>15, <1>17

\* The delimiters of a card have no group.
LEMMA CardLine ==
    ASSUME NEW l, IsList(l), EqualFold(l, BeginCard) \/ EqualFold(l, EndCard)
    PROVE  /\ Ungrouped(l) = l /\ l # << >>
           /\ EqualFold(l, BeginCard) => UpperAtom(l[1]) = "BEGIN"
           /\ EqualFold(l, EndCard) => UpperAtom(l[1]) = "END"
<1> DEFINE w == UpperAtom(l[1])
<1>1. ToUpper(BeginCard) = <<"BEGIN", ":", "VCARD">> /\ ToUpper(EndCard) = <<"END", ":", "VCARD">>
  BY AtomCases DEF ToUpper, BeginCard, EndCard
<1>2. Len(ToUpper(l)) = 3 /\ ToUpper(l)[1] \in {"BEGIN", "END"} /\ ToUpper(l)[2] = ":"
      /\ (EqualFold(l, BeginCard) => ToUpper(l)[1] = "BEGIN")
      /\ (EqualFold(l, EndCard) => ToUpper(l)[1] = "END")
  BY <1>1 DEF EqualFold
<1>3. /\ Len(l) = 3 /\ UpperAtom(l[1]) \in {"BEGIN", "END"} /\ UpperAtom(l[2]) = ":"
      /\ (EqualFold(l, BeginCard) => UpperAtom(l[1]) = "BEGIN")
      /\ (EqualFold(l, EndCard) => UpperAtom(l[1]) = "END")
  BY <1>2, UpperOfList
<1>4. l # << >>
  BY <1>3, EmptyList
<1>5. ASSUME ~Rejects(l), ToUpper(BareName(Segments(l)[1])) \in Reserved
      PROVE  FALSE
  <2> DEFINE b == <<l[1]>>
             c == Append(b, ":")
             v == <<l[3]>>
  <2>1. l[2] = ":" /\ l[1] \notin {":", Semi, DQ, "."}
    <3>1. \A x : UpperAtom(x) = ":" => x = ":"
      BY DEF UpperAtom, Cases
    <3>2. \A x : UpperAtom(x) \in {"BEGIN", "END"} => x \notin {":", Semi, DQ, "."}
      BY SeparatorCases, AtomCases, Separators
    <3> QED BY <1>3, <3>1, <3>2
  <2>2. IsList(b) /\ Whole(b, ":") /\ SplitUnquoted(b, Semi) = <<b>> /\ IsList(v) /\ Len(b) = 1 /\ b[1] = l[1]
        /\ Len(v) = 1 /\ v[1] = l[3]
    BY <2>1, SingleWhole, SingleList
  <2> HIDE DEF b, v
  <2>3. IsList(c) /\ Len(c) = 2 /\ c[1] = l[1] /\ c[2] = l[2]
    <3>0. IsList(b)
      BY <2>2
    <3>1. Len(c) = Len(b) + 1 /\ (\A i \in 1 .. Len(b) : c[i] = b[i]) /\ c[Len(b) + 1] = ":" /\ IsList(c)
      BY ONLY <3>0, ListAppend
    <3> HIDE DEF c
    <3>2. Len(b) = 1 /\ b[1] = l[1] /\ l[2] = ":"
      BY <2>1, <2>2
    <3> QED BY <3>1, <3>2
  <2> HIDE DEF c
  <2>4. l = c \o v
    <3> DEFINE x == c \o v
    <3>1. /\ IsList(x) /\ Len(x) = Len(c) + Len(v) /\ (\A i \in 1 .. Len(c) : x[i] = c[i])
          /\ \A i \in 1 .. Len(v) : x[Len(c) + i] = v[i]
      <4>1. IsList(c) /\ IsList(v)
        BY <2>2, <2>3
      <4> QED BY ONLY <4>1, ListConcat
    <3> HIDE DEF x
    <3>2. Len(x) = 3 /\ x[1] = l[1] /\ x[2] = l[2] /\ x[3] = l[3]
      <4>1. Len(c) = 2 /\ c[1] = l[1] /\ c[2] = l[2] /\ Len(v) = 1 /\ v[1] = l[3]
        BY <2>2, <2>3
      <4>2. x[2 + 1] = v[1]
        BY <3>1, <4>1
      <4> QED BY <3>1, <4>1, <4>2
    <3>3. x = l
      <4>1. Len(x) = Len(l) /\ \A i \in 1 .. Len(x) : x[i] = l[i]
        BY <1>3, <3>2
      <4> QED BY <3>1, <4>1, ListEqual
    <3> QED BY <3>3 DEF x
  <2>5. Segments(l) = <<b>>
    <3>1. Segments(l) = SplitUnquoted(b, Semi)
      BY <2>2, <2>4, LineAt DEF c
    <3> QED BY <2>2, <3>1
  <2>6. GroupEnd(b) = 0
    <3>1. GroupEnd(b) \in 0 .. Len(b) /\ (GroupEnd(b) # 0 => b[GroupEnd(b)] = ".")
      BY <2>2, GroupEndIs
    <3>2. b[1] # "." /\ Len(b) = 1
      BY <2>1, <2>2
    <3> QED BY <3>1, <3>2
  <2>7. BareName(b) = b
    BY <2>2, <2>6, NameSplits
  <2>8. PICK a : b = <<a>> /\ IsReservedAtom(a)
    <3>1. Segments(l)[1] = b
      BY <2>5
    <3>2. ToUpper(b) \in Reserved
      BY <1>5, <2>7, <3>1
    <3> QED BY <2>2, <3>2, ReservedIs
  <2>9. a = l[1]
    BY <2>2, <2>8
  <2> QED BY <1>3, <2>8, <2>9, ReservedAtom
<1> QED BY <1>3, <1>4, <1>5 DEF Ungrouped, Reserved

-----------------------------------------------------------------------------
(* One line, for the batch parser without its group.                        *)

\* The states of the batch parser between two lines: inside a card, or not.
Opened(cs, c, v) == [cards |-> cs, at |-> "inside", cur |-> c, ver |-> v, error |-> "nil"]
Closed(cs)       == [cards |-> cs, at |-> "outside", cur |-> EmptyCard, ver |-> << >>, error |-> "nil"]

LEMMA ClosedIs ==
    ASSUME NEW cs
    PROVE  [ParseStart EXCEPT !.cards = cs] = Closed(cs) /\ ParseStart = Closed(<< >>)
BY DEF ParseStart, Closed

LEMMA StateFields ==
    ASSUME NEW cs, NEW c, NEW v
    PROVE  /\ Opened(cs, c, v).cards = cs /\ Opened(cs, c, v).at = "inside" /\ Opened(cs, c, v).cur = c
           /\ Opened(cs, c, v).ver = v /\ Opened(cs, c, v).error = "nil"
           /\ Closed(cs).cards = cs /\ Closed(cs).at = "outside" /\ Closed(cs).error = "nil"
           /\ Closed(cs).ver = << >>
BY DEF Opened, Closed

LEMMA SameDelimiter ==
    ASSUME NEW l, IsList(l), l # << >>
    PROVE  /\ Ungrouped(l) # << >> /\ IsList(Ungrouped(l))
           /\ EqualFold(Ungrouped(l), BeginCard) <=> EqualFold(l, BeginCard)
           /\ EqualFold(Ungrouped(l), EndCard) <=> EqualFold(l, EndCard)
<1>1. CASE ~Rejects(l) /\ ToUpper(BareName(Segments(l)[1])) \in Reserved
  <2> DEFINE u == Ungrouped(l)
  <2>1. PICK a : IsReservedAtom(a) /\ IsList(u) /\ u # << >> /\ u[1] = a
    BY <1>1, GroupAway
  <2>2. UpperAtom(a) \notin {"BEGIN", "END"}
    BY <2>1, ReservedAtom
  <2>3. ~EqualFold(u, BeginCard) /\ ~EqualFold(u, EndCard)
    <3> HIDE DEF u
    <3> QED BY <2>1, <2>2, CardLine
  <2>4. ~EqualFold(l, BeginCard) /\ ~EqualFold(l, EndCard)
    <3> SUFFICES ASSUME EqualFold(l, BeginCard) \/ EqualFold(l, EndCard) PROVE FALSE
      OBVIOUS
    <3>1. u = l
      BY CardLine
    <3> QED BY <2>3, <3>1
  <2> QED BY <2>1, <2>3, <2>4
<1>2. CASE ~(~Rejects(l) /\ ToUpper(BareName(Segments(l)[1])) \in Reserved)
  <2>1. Ungrouped(l) = l
    BY <1>2 DEF Ungrouped, Reserved
  <2> QED BY <2>1
<1> QED BY <1>1, <1>2

LEMMA NotBoth == ASSUME NEW l, EqualFold(l, BeginCard), EqualFold(l, EndCard) PROVE FALSE
<1>1. ToUpper(BeginCard) = <<"BEGIN", ":", "VCARD">> /\ ToUpper(EndCard) = <<"END", ":", "VCARD">>
  BY AtomCases DEF ToUpper, BeginCard, EndCard
<1>2. <<"BEGIN", ":", "VCARD">> # <<"END", ":", "VCARD">>
  OBVIOUS
<1>3. ToUpper(l) = ToUpper(BeginCard) /\ ToUpper(l) = ToUpper(EndCard)
  BY DEF EqualFold
<1>4. ToUpper(BeginCard) # ToUpper(EndCard)
  BY <1>1, <1>2
<1> QED BY <1>3, <1>4

LEMMA StepBlank == ASSUME NEW st PROVE ParseStep(st, Ungrouped(<< >>)) = st
<1>1. Ungrouped(<< >>) = << >>
  BY DEF Ungrouped
<1>2. ~EqualFold(<< >>, BeginCard) /\ ~EqualFold(<< >>, EndCard)
  BY EmptyList, CardLine
<1>3. ParseStep(st, << >>) = st
  BY <1>2 DEF ParseStep
<1> QED BY <1>1, <1>3

LEMMA StepBegin ==
    ASSUME NEW l, IsList(l), EqualFold(l, BeginCard), NEW cs, NEW c, NEW v
    PROVE  /\ ParseStep(Closed(cs), Ungrouped(l)) = Opened(cs, EmptyCard, << >>)
           /\ ParseStep(Opened(cs, c, v), Ungrouped(l)).error # "nil"
<1>1. Ungrouped(l) = l /\ l # << >> /\ ~EqualFold(l, EndCard)
  BY CardLine, NotBoth
<1>2. ParseStep(Closed(cs), l) = [ParseStart EXCEPT !.cards = cs, !.at = "inside"]
  BY <1>1, StateFields DEF ParseStep
<1>3. ParseStep(Opened(cs, c, v), l) = ParseError(Opened(cs, c, v), "ErrMalformed")
  BY <1>1, StateFields DEF ParseStep
<1>4. ParseError(Opened(cs, c, v), "ErrMalformed").error = "ErrMalformed"
  BY DEF ParseError, Opened
<1> QED BY <1>1, <1>2, <1>3, <1>4 DEF ParseStart, Opened

LEMMA StepEnd ==
    ASSUME NEW l, IsList(l), EqualFold(l, EndCard), NEW cs, NEW c, NEW v
    PROVE  /\ ParseStep(Closed(cs), Ungrouped(l)).error # "nil"
           /\ v # SupportedVersion => ParseStep(Opened(cs, c, v), Ungrouped(l)).error # "nil"
           /\ v = SupportedVersion => ParseStep(Opened(cs, c, v), Ungrouped(l)) = Closed(Append(cs, c))
<1>1. Ungrouped(l) = l /\ l # << >> /\ ~EqualFold(l, BeginCard)
  BY CardLine, NotBoth
<1>2. ParseStep(Closed(cs), l) = ParseEnd(Closed(cs))
  BY <1>1, StateFields DEF ParseStep
<1>3. ParseStep(Opened(cs, c, v), l) = ParseEnd(Opened(cs, c, v))
  BY <1>1, StateFields DEF ParseStep
<1>4. ParseEnd(Closed(cs)).error # "nil"
  BY DEF ParseEnd, ParseError, Closed
<1>5. v # SupportedVersion => ParseEnd(Opened(cs, c, v)).error # "nil"
  <2>1. CASE v = << >>
    BY <2>1 DEF ParseEnd, ParseError, Opened
  <2>2. CASE v \notin {<< >>, SupportedVersion}
    BY <2>2 DEF ParseEnd, ParseError, Opened
  <2> QED BY <2>1, <2>2
<1>6. v = SupportedVersion => ParseEnd(Opened(cs, c, v)) = Closed(Append(cs, c))
  <2>1. SupportedVersion # << >>
    BY DEF SupportedVersion
  <2>2. ASSUME v = SupportedVersion
        PROVE  ParseEnd(Opened(cs, c, v)) = [ParseStart EXCEPT !.cards = Append(cs, c)]
    BY <2>1, <2>2 DEF ParseEnd, Opened
  <2> QED BY <2>2, ClosedIs
<1> QED BY <1>1, <1>2, <1>3, <1>4, <1>5, <1>6

\* What is neither blank nor a delimiter.
IsOther(l) == IsList(l) /\ l # << >> /\ ~EqualFold(l, BeginCard) /\ ~EqualFold(l, EndCard)

LEMMA StepOutside ==
    ASSUME NEW l, IsOther(l), NEW cs
    PROVE  ParseStep(Closed(cs), Ungrouped(l)).error # "nil"
<1> DEFINE u == Ungrouped(l)
<1>1. u # << >> /\ ~EqualFold(u, BeginCard) /\ ~EqualFold(u, EndCard)
  BY SameDelimiter DEF IsOther
<1> HIDE DEF u
<1>2. ParseStep(Closed(cs), u) = ParseError(Closed(cs), "ErrMalformed")
  BY <1>1, StateFields DEF ParseStep
<1>3. ParseError(Closed(cs), "ErrMalformed").error = "ErrMalformed"
  BY DEF ParseError, Closed
<1> QED BY <1>2, <1>3 DEF u

LEMMA StepRejected ==
    ASSUME NEW l, IsOther(l), Rejects(l), NEW cs, NEW c, NEW v
    PROVE  ParseStep(Opened(cs, c, v), Ungrouped(l)).error # "nil"
<1>1. Ungrouped(l) = l
  BY DEF Ungrouped
<1>2. ParseStep(Opened(cs, c, v), l) = ParseError(Opened(cs, c, v), "ErrMalformed")
  BY <1>1, StateFields DEF ParseStep, IsOther
<1>3. ParseError(Opened(cs, c, v), "ErrMalformed").error = "ErrMalformed"
  BY DEF ParseError, Opened
<1> QED BY <1>1, <1>2, <1>3

\* What the pull parser takes a name for, and what the batch parser takes it for once
\* the group is away.
LEMMA SameName ==
    ASSUME NEW l, IsOther(l), ~Rejects(l)
    PROVE  LET p == ParseContentLine(l)
               b == ParseContentLine(Ungrouped(l))
               name == ToUpper(BareName(p.name))
           IN  /\ ~Rejects(Ungrouped(l))
               /\ b.value = p.value
               /\ EqualFold(b.name, <<"VERSION">>) <=> name = <<"VERSION">>
               /\ EqualFold(b.name, <<"UID">>) <=> name = <<"UID">>
               /\ EqualFold(b.name, <<"KIND">>) <=> name = <<"KIND">>
               /\ name \notin Reserved => b = p
<1> DEFINE p == ParseContentLine(l)
           b == ParseContentLine(Ungrouped(l))
           n == Segments(l)[1]
<1>1. p.name = n
  BY DEF ParseContentLine
<1>0. /\ ToUpper(<<"VERSION">>) = <<"VERSION">> /\ ToUpper(<<"UID">>) = <<"UID">>
      /\ ToUpper(<<"KIND">>) = <<"KIND">>
  BY UpperOfSingle, AtomCases
<1>2. CASE ToUpper(BareName(n)) \in Reserved
  <2>1. PICK a : /\ BareName(n) = <<a>> /\ ~Rejects(Ungrouped(l))
                 /\ b = [p EXCEPT !.name = <<a>>]
    BY <1>2, GroupAway DEF IsOther
  <2>2. b.name = <<a>> /\ b.value = p.value
    BY <2>1 DEF ParseContentLine
  <2>3. ToUpper(p.name) = ToUpper(n) /\ ToUpper(BareName(p.name)) = ToUpper(b.name)
    BY <1>1, <2>1, <2>2
  <2>4. /\ EqualFold(b.name, <<"VERSION">>) <=> ToUpper(BareName(p.name)) = <<"VERSION">>
        /\ EqualFold(b.name, <<"UID">>) <=> ToUpper(BareName(p.name)) = <<"UID">>
        /\ EqualFold(b.name, <<"KIND">>) <=> ToUpper(BareName(p.name)) = <<"KIND">>
    BY <1>0, <2>3 DEF EqualFold
  <2>5. ToUpper(BareName(p.name)) \in Reserved
    BY <1>1, <1>2
  <2> QED BY <2>1, <2>2, <2>4, <2>5
<1>3. CASE ToUpper(BareName(n)) \notin Reserved
  <2>1. Ungrouped(l) = l
    BY <1>3 DEF Ungrouped, Reserved
  <2>2. IsList(n)
    <3>1. FirstUnquoted(l, ":") # 0 /\ IsList(l)
      BY DEF Rejects, IsOther
    <3>2. PICK h, v : IsList(h) /\ IsList(v) /\ Whole(h, ":") /\ l = Append(h, ":") \o v
      BY <3>1, LineCases
    <3>3. PICK m : IsList(m) /\ NameOf(m, h)
      BY <3>2, HeadName
    <3>4. Segments(l) = SplitUnquoted(h, Semi)
      BY <3>2, LineAt
    <3>5. SplitUnquoted(h, Semi)[1] = m
      BY <3>3, NameIs
    <3> QED BY <3>3, <3>4, <3>5
  <2>3. ToUpper(n) \notin Reserved
    <3> SUFFICES ASSUME ToUpper(n) \in Reserved PROVE FALSE
      OBVIOUS
    <3> HIDE DEF n
    <3>1. PICK a : n = <<a>> /\ IsReservedAtom(a)
      BY <2>2, ReservedIs
    <3>2. Len(n) = 1 /\ n[1] # "."
      BY <3>1, ReservedAtom
    <3>3. GroupEnd(n) = 0
      <4>1. GroupEnd(n) \in 0 .. Len(n) /\ (GroupEnd(n) # 0 => n[GroupEnd(n)] = ".")
        BY <2>2, GroupEndIs
      <4> QED BY <3>2, <4>1
    <3>4. BareName(n) = n
      BY <2>2, <3>3, NameSplits
    <3> QED BY <1>3, <3>4
  <2>4. b = p
    BY <2>1
  <2>5. /\ ~EqualFold(b.name, <<"VERSION">>) /\ ~EqualFold(b.name, <<"UID">>)
        /\ ~EqualFold(b.name, <<"KIND">>)
    <3> HIDE DEF b, p, n
    <3> QED BY <1>0, <1>1, <2>3, <2>4 DEF EqualFold, Reserved
  <2>6. ToUpper(BareName(p.name)) \notin Reserved
    BY <1>1, <1>3
  <2>7. /\ ToUpper(BareName(p.name)) # <<"VERSION">> /\ ToUpper(BareName(p.name)) # <<"UID">>
        /\ ToUpper(BareName(p.name)) # <<"KIND">>
    BY <2>6 DEF Reserved
  <2> QED BY <2>1, <2>4, <2>5, <2>7
<1> QED BY <1>2, <1>3

\* What a property does to an open card.
PropertyStep(cs, c, v, l) ==
    LET p == ParseContentLine(l)
        name == ToUpper(BareName(p.name))
        st == ParseStep(Opened(cs, c, v), Ungrouped(l))
    IN  /\ name = <<"VERSION">> /\ v # << >> => st.error # "nil"
        /\ name = <<"VERSION">> /\ v = << >> => st = Opened(cs, c, p.value)
        /\ name = <<"UID">> => st = Opened(cs, [c EXCEPT !.uid = p.value], v)
        /\ name = <<"KIND">> => st = Opened(cs, [c EXCEPT !.kind = ToLower(p.value)], v)
        /\ name \notin Reserved => st = Opened(cs, [c EXCEPT !.props = Append(@, p)], v)

LEMMA StepProperty ==
    ASSUME NEW l, IsOther(l), ~Rejects(l), NEW cs, NEW c, NEW v
    PROVE  PropertyStep(cs, c, v, l)
<1> DEFINE p == ParseContentLine(l)
           b == ParseContentLine(Ungrouped(l))
           name == ToUpper(BareName(p.name))
           st == Opened(cs, c, v)
<1>1. /\ ~Rejects(Ungrouped(l)) /\ b.value = p.value
      /\ EqualFold(b.name, <<"VERSION">>) <=> name = <<"VERSION">>
      /\ EqualFold(b.name, <<"UID">>) <=> name = <<"UID">>
      /\ EqualFold(b.name, <<"KIND">>) <=> name = <<"KIND">>
      /\ name \notin Reserved => b = p
  BY SameName
<1>2. ParseStep(st, Ungrouped(l)) = ParseProperty(st, b)
  <2>1. /\ Ungrouped(l) # << >> /\ ~EqualFold(Ungrouped(l), BeginCard)
        /\ ~EqualFold(Ungrouped(l), EndCard)
    BY SameDelimiter DEF IsOther
  <2> QED BY <1>1, <2>1, StateFields DEF ParseStep
<1> HIDE DEF p, b, name
<1>3. <<"VERSION">> # <<"UID">> /\ <<"VERSION">> # <<"KIND">> /\ <<"UID">> # <<"KIND">>
  OBVIOUS
<1>4. CASE name = <<"VERSION">>
  <2>1. v # << >> => ParseProperty(st, b) = ParseError(st, "ErrMalformed")
    BY <1>1, <1>4 DEF ParseProperty, Opened
  <2>2. v = << >> => ParseProperty(st, b) = Opened(cs, c, p.value)
    BY <1>1, <1>4 DEF ParseProperty, Opened
  <2>3. ParseError(st, "ErrMalformed").error = "ErrMalformed"
    BY DEF ParseError, Opened
  <2> QED BY <1>2, <1>3, <1>4, <2>1, <2>2, <2>3 DEF Reserved, PropertyStep, p, name
<1>5. CASE name = <<"UID">>
  <2>1. ParseProperty(st, b) = [st EXCEPT !.cur.uid = b.value]
    BY <1>1, <1>3, <1>5 DEF ParseProperty
  <2>2. ParseProperty(st, b) = Opened(cs, [c EXCEPT !.uid = p.value], v)
    BY <1>1, <2>1 DEF Opened
  <2> QED BY <1>2, <1>3, <1>5, <2>2 DEF Reserved, PropertyStep, p, name
<1>6. CASE name = <<"KIND">>
  <2>1. ParseProperty(st, b) = [st EXCEPT !.cur.kind = ToLower(b.value)]
    BY <1>1, <1>3, <1>6 DEF ParseProperty
  <2>2. ParseProperty(st, b) = Opened(cs, [c EXCEPT !.kind = ToLower(p.value)], v)
    BY <1>1, <2>1 DEF Opened
  <2> QED BY <1>2, <1>3, <1>6, <2>2 DEF Reserved, PropertyStep, p, name
<1>7. CASE name \notin Reserved
  <2>1. ParseProperty(st, p) = [st EXCEPT !.cur.props = Append(@, p)]
    BY <1>1, <1>7 DEF ParseProperty, Reserved
  <2>2. ParseProperty(st, p) = Opened(cs, [c EXCEPT !.props = Append(@, p)], v)
    BY <2>1 DEF Opened
  <2>3. ParseStep(st, Ungrouped(l)) = Opened(cs, [c EXCEPT !.props = Append(@, p)], v)
    BY <1>1, <1>2, <1>7, <2>2
  <2> QED BY <1>7, <2>3 DEF Reserved, PropertyStep, p, name
<1> QED BY <1>4, <1>5, <1>6, <1>7 DEF Reserved, PropertyStep

LEMMA StepOnError == ASSUME NEW st, st.error # "nil", NEW l PROVE ParseStep(st, l) = st
BY DEF ParseStep

LEMMA RunOnError ==
    ASSUME NEW st, st.error # "nil", NEW t, IsList(t)
    PROVE  Run(st, t) = st
<1>1. PICK S : t \in Seq(S)
  BY DEF IsList
<1> DEFINE T == {u \in Seq(S) : Run(st, u) = st}
<1>2. << >> \in T
  BY RunEmpty
<1>3. ASSUME NEW u \in T, NEW a \in S PROVE Append(u, a) \in T
  <2>1. u \in Seq(S) /\ IsList(u) /\ Run(st, u) = st /\ Append(u, a) \in Seq(S)
    BY DEF IsList
  <2>2. Run(st, Append(u, a)) = ParseStep(Run(st, u), a)
    BY <2>1, RunAppend
  <2> QED BY <2>1, <2>2, StepOnError
<1> HIDE DEF T
<1>4. T \in SUBSET Seq(S)
  BY DEF T
<1>5. t \in T
  BY <1>1, <1>2, <1>3, <1>4, SeqInduct
<1> QED BY <1>5 DEF T

-----------------------------------------------------------------------------
(* Lists of lines.                                                         *)

AllLists(w) == IsList(w) /\ \A i \in 1 .. Len(w) : IsList(w[i])

LEMMA AllEmpty == AllLists(<< >>)
BY EmptyList DEF AllLists

LEMMA AllSingle == ASSUME NEW l, IsList(l) PROVE AllLists(<<l>>)
BY SingleList DEF AllLists

LEMMA AllConcat == ASSUME NEW v, NEW w, AllLists(v), AllLists(w) PROVE AllLists(v \o w)
<1> DEFINE x == v \o w
<1>1. /\ IsList(x) /\ Len(x) = Len(v) + Len(w) /\ Len(v) \in Nat /\ Len(w) \in Nat
      /\ \A i \in 1 .. Len(v) : x[i] = v[i]
      /\ \A i \in 1 .. Len(w) : x[Len(v) + i] = w[i]
  BY ListConcat, ListType DEF AllLists
<1> HIDE DEF x
<1>2. ASSUME NEW i \in 1 .. Len(x) PROVE IsList(x[i])
  <2>1. CASE i \in 1 .. Len(v)
    BY <1>1, <2>1 DEF AllLists
  <2>2. CASE i \notin 1 .. Len(v)
    <3>1. i - Len(v) \in 1 .. Len(w) /\ Len(v) + (i - Len(v)) = i
      BY <1>1, <2>2
    <3>2. x[i] = w[i - Len(v)]
      BY <1>1, <3>1
    <3> QED BY <3>1, <3>2 DEF AllLists
  <2> QED BY <2>1, <2>2
<1>3. AllLists(x)
  BY <1>1, <1>2 DEF AllLists
<1> QED BY <1>3 DEF x

LEMMA AllParts ==
    ASSUME NEW w, AllLists(w), NEW n \in 0 .. Len(w)
    PROVE  AllLists(SubSeq(w, 1, n)) /\ AllLists(SubSeq(w, n + 1, Len(w)))
<1> DEFINE a == SubSeq(w, 1, n)
           b == SubSeq(w, n + 1, Len(w))
<1>1. /\ IsList(a) /\ Len(a) = n /\ IsList(b) /\ Len(b) = Len(w) - n
      /\ \A i \in 1 .. n : a[i] = w[i]
      /\ \A i \in 1 .. Len(w) - n : b[i] = w[n + i]
  BY ListSplits DEF AllLists
<1>2. Len(w) \in Nat
  BY ListType DEF AllLists
<1> HIDE DEF a, b
<1>3. AllLists(a)
  BY <1>1, <1>2 DEF AllLists
<1>4. ASSUME NEW i \in 1 .. Len(b) PROVE IsList(b[i])
  <2>1. n + i \in 1 .. Len(w) /\ b[i] = w[n + i]
    BY <1>1, <1>2
  <2> QED BY <2>1 DEF AllLists
<1> QED BY <1>1, <1>3, <1>4 DEF AllLists, a, b

LEMMA AllAppend == ASSUME NEW w, AllLists(w), NEW l, IsList(l) PROVE AllLists(Append(w, l))
<1>1. Append(w, l) = w \o <<l>>
  BY AppendIs DEF AllLists
<1> QED BY <1>1, AllSingle, AllConcat

LEMMA FlattenList == ASSUME NEW w, AllLists(w) PROVE IsList(FlattenSeq(w))
<1> DEFINE T == UNION {{w[i][j] : j \in 1 .. Len(w[i])} : i \in 1 .. Len(w)}
<1>1. ASSUME NEW i \in 1 .. Len(w) PROVE w[i] \in Seq(T)
  <2>1. PICK S : w[i] \in Seq(S)
    BY DEF AllLists, IsList
  <2>2. \A j \in 1 .. Len(w[i]) : w[i][j] \in T
    OBVIOUS
  <2> HIDE DEF T
  <2> QED BY <2>1, <2>2
<1> HIDE DEF T
<1>2. FlattenSeq(w) \in Seq(T)
  BY <1>1, FlattenType DEF AllLists
<1> QED BY <1>2 DEF IsList

\* A table of lists, as the definitions write it.
LEMMA TableOfLists ==
    ASSUME NEW s, IsList(s), NEW f, f = [k \in DOMAIN s |-> f[k]],
           \A k \in 1 .. Len(s) : IsList(f[k])
    PROVE  AllLists(f) /\ Len(f) = Len(s)
<1>1. Len(s) \in Nat /\ DOMAIN s = 1 .. Len(s)
  BY ListType
<1>2. f = [k \in 1 .. Len(s) |-> f[k]]
  BY <1>1
<1>3. IsList(f) /\ Len(f) = Len(s)
  BY ONLY <1>1, <1>2, TableIsList
<1> QED BY <1>3 DEF AllLists

\* What the reader loses or cuts.
LEMMA DamagedLines ==
    ASSUME NEW k \in DOMAIN wire, AllLists(wire), NEW w \in Damaged(k)
    PROVE  AllLists(w)
<1>1. Len(wire) \in Nat /\ DOMAIN wire = 1 .. Len(wire) /\ k \in Nat /\ k - 1 \in 0 .. Len(wire)
      /\ k \in 0 .. Len(wire)
  BY ListType DEF AllLists
<1>2. CASE w = RemoveAt(wire, k)
  <2>1. AllLists(SubSeq(wire, 1, k - 1)) /\ AllLists(SubSeq(wire, k + 1, Len(wire)))
    BY <1>1, AllParts
  <2> QED BY <1>2, <2>1, AllConcat DEF RemoveAt
<1>3. CASE Len(wire[k]) > 1 /\ w = ReplaceAt(wire, k, Tail(wire[k]))
  <2> DEFINE t == Tail(wire[k])
  <2>1. PICK S : wire[k] \in Seq(S)
    BY <1>1 DEF AllLists, IsList
  <2>2. wire[k] # << >>
    BY <1>3, EmptyList
  <2>3. t \in Seq(S)
    BY <2>1, <2>2
  <2>4. IsList(t)
    BY <2>3 DEF IsList
  <2> HIDE DEF t
  <2>5. w = [wire EXCEPT ![k] = t]
    BY <1>3 DEF ReplaceAt, t
  <2>6. PICK R : wire \in Seq(R)
    BY DEF AllLists, IsList
  <2>7. w \in Seq(R \cup {t}) /\ Len(w) = Len(wire) /\ \A i \in 1 .. Len(wire) : w[i] = IF i = k THEN t ELSE wire[i]
    BY <1>1, <2>5, <2>6
  <2> QED BY <2>4, <2>7 DEF AllLists, IsList
<1> QED BY <1>2, <1>3 DEF Damaged

-----------------------------------------------------------------------------
(* What the encoder writes are lines.                                      *)

LEMMA TextList == ASSUME NEW t \in Texts PROVE IsList(t)
BY DEF Texts, IsList

LEMMA EscapeIsList == ASSUME NEW c PROVE IsList(Escape(c))
<1>1. IsList(<<BS, c>>) /\ IsList(<<BS, "n">>) /\ IsList(<<c>>)
  <2>1. <<BS, c>> \in Seq({BS, c}) /\ <<BS, "n">> \in Seq({BS, "n"}) /\ <<c>> \in Seq({c})
    OBVIOUS
  <2> QED BY <2>1 DEF IsList
<1> QED BY <1>1 DEF Escape

LEMMA EscapedIsList == ASSUME NEW s, IsList(s) PROVE IsList(EscapeText(s))
<1> DEFINE f == [k \in DOMAIN s |-> Escape(s[k])]
<1>1. f = [k \in DOMAIN s |-> f[k]]
  OBVIOUS
<1>2. \A k \in 1 .. Len(s) : IsList(f[k])
  BY EscapeIsList, ListType
<1> HIDE DEF f
<1>3. AllLists(f)
  BY ONLY <1>1, <1>2, IsList(s), TableOfLists
<1>4. IsList(FlattenSeq(f))
  BY <1>3, FlattenList
<1> QED BY <1>4 DEF EscapeText, Escaped, f

LEMMA LowerIsList ==
    ASSUME NEW s, IsList(s)
    PROVE  /\ IsList(ToLower(s)) /\ Len(ToLower(s)) = Len(s)
           /\ \A i \in 1 .. Len(s) : ToLower(s)[i] = LowerAtom(s[i])
<1>1. Len(s) \in Nat /\ DOMAIN s = 1 .. Len(s)
  BY ListType
<1>2. ToLower(s) = [k \in 1 .. Len(s) |-> LowerAtom(s[k])]
  BY <1>1 DEF ToLower
<1>3. IsList([k \in 1 .. Len(s) |-> LowerAtom(s[k])]) /\ Len([k \in 1 .. Len(s) |-> LowerAtom(s[k])]) = Len(s)
  BY <1>1, TableIsList
<1> QED BY <1>2, <1>3

IsParam(q) == IsList(q.name) /\ IsList(q.value)
IsProp(p) == /\ IsList(p.name) /\ IsList(p.value) /\ IsList(p.params)
             /\ \A k \in 1 .. Len(p.params) : IsParam(p.params[k])
IsCard(c) == /\ IsList(c.uid) /\ IsList(c.kind) /\ IsList(c.props)
             /\ \A k \in 1 .. Len(c.props) : IsProp(c.props[k])

LEMMA PropsAreProps == ASSUME NEW p \in Props PROVE IsProp(p)
<1>1. /\ p.name \in Texts /\ p.value \in Texts
      /\ p.params \in Seq([name : Texts, value : Texts])
  BY DEF Props
<1>2. \A k \in 1 .. Len(p.params) : p.params[k].name \in Texts /\ p.params[k].value \in Texts
  <2> DEFINE Q == [name : Texts, value : Texts]
  <2>1. \A k \in 1 .. Len(p.params) : p.params[k] \in Q
    <3> HIDE DEF Q
    <3>1. p.params \in Seq(Q)
      BY <1>1 DEF Q
    <3> QED BY <3>1
  <2> QED BY <2>1
<1>3. IsList(p.params)
  BY <1>1 DEF IsList
<1> QED BY <1>1, <1>2, <1>3, TextList DEF IsProp, IsParam

LEMMA CardsAreCards == ASSUME NEW c \in Cards PROVE IsCard(c)
<1>1. c.uid \in Texts /\ c.kind \in Texts /\ c.props \in Seq(Props)
  BY DEF Cards
<1>2. \A k \in 1 .. Len(c.props) : c.props[k] \in Props
  BY <1>1
<1>3. IsList(c.props)
  BY <1>1 DEF IsList
<1> QED BY <1>1, <1>2, <1>3, TextList, PropsAreProps DEF IsCard

\* The text of one parameter.
ParamText(q) == <<Semi>> \o ToUpper(q.name) \o <<"=">> \o FormatParamValue(q.value)

LEMMA FormatValueIsList == ASSUME NEW v, IsList(v) PROVE IsList(FormatParamValue(v))
<1> DEFINE d == <<DQ>>
<1>1. IsList(d)
  BY SingleList
<1> HIDE DEF d
<1>2. IsList(d \o v)
  BY <1>1, ListConcat
<1>3. IsList((d \o v) \o d)
  BY <1>1, <1>2, ListConcat
<1> QED BY <1>3 DEF FormatParamValue, d

LEMMA ParamTextIsList == ASSUME NEW q, IsParam(q) PROVE IsList(ParamText(q))
<1> DEFINE s == <<Semi>>
           e == <<"=">>
           n == ToUpper(q.name)
           v == FormatParamValue(q.value)
<1>1. IsList(s) /\ IsList(e) /\ IsList(n) /\ IsList(v)
  BY SingleList, UpperOfList, FormatValueIsList DEF IsParam
<1>2. ParamText(q) = s \o n \o e \o v
  BY DEF ParamText
<1> HIDE DEF s, e, n, v
<1>3. IsList(s \o n)
  BY <1>1, ListConcat
<1>4. IsList((s \o n) \o e)
  BY <1>1, <1>3, ListConcat
<1>5. IsList(((s \o n) \o e) \o v)
  BY <1>1, <1>4, ListConcat
<1> QED BY <1>2, <1>5

ParamTexts(params) == FlattenSeq([k \in DOMAIN params |-> ParamText(params[k])])

LEMMA FormatParamsIs == ASSUME NEW params PROVE FormatParams(params, FormatParamValue) = ParamTexts(params)
BY DEF FormatParams, ParamTexts, ParamText

LEMMA ParamTextsIsList ==
    ASSUME NEW ps, IsList(ps), \A k \in 1 .. Len(ps) : IsParam(ps[k])
    PROVE  IsList(ParamTexts(ps))
<1> DEFINE f == [k \in DOMAIN ps |-> ParamText(ps[k])]
<1>1. f = [k \in DOMAIN ps |-> f[k]]
  OBVIOUS
<1>2. \A k \in 1 .. Len(ps) : IsList(f[k])
  BY ParamTextIsList, ListType
<1> HIDE DEF f
<1>3. AllLists(f)
  BY ONLY <1>1, <1>2, IsList(ps), TableOfLists
<1>4. IsList(FlattenSeq(f))
  BY <1>3, FlattenList
<1> QED BY <1>4 DEF ParamTexts, f

\* What stands before the parameters.
NameText(n) == (IF GroupEnd(n) > 1 THEN SubSeq(n, 1, GroupEnd(n)) ELSE << >>) \o ToUpper(BareName(n))

LEMMA NameTextIsList == ASSUME NEW n, IsList(n) PROVE IsList(NameText(n))
<1> DEFINE g == IF GroupEnd(n) > 1 THEN SubSeq(n, 1, GroupEnd(n)) ELSE << >>
           b == ToUpper(BareName(n))
<1>1. IsList(g)
  BY NameSplits, EmptyList
<1>2. IsList(b)
  BY NameSplits, UpperOfList
<1> HIDE DEF g, b
<1>3. IsList(g \o b)
  BY <1>1, <1>2, ListConcat
<1> QED BY <1>3 DEF NameText, g, b

\* A property line: its head, a colon, its value.
HeadText(p) == NameText(p.name) \o ParamTexts(p.params)

LEMMA FormatPropertyIs ==
    ASSUME NEW p, IsProp(p)
    PROVE  /\ IsList(HeadText(p)) /\ IsList(EscapeText(p.value)) /\ IsList(FormatProperty(p))
           /\ FormatProperty(p) = Append(HeadText(p), ":") \o EscapeText(p.value)
<1> DEFINE h == HeadText(p)
           v == EscapeText(p.value)
           c == <<":">>
<1>1. IsList(NameText(p.name)) /\ IsList(ParamTexts(p.params)) /\ IsList(v) /\ IsList(c)
  BY NameTextIsList, ParamTextsIsList, EscapedIsList, SingleList DEF IsProp
<1>2. IsList(h)
  BY <1>1, ListConcat DEF HeadText
<1>3. FormatProperty(p) = (h \o c) \o v
  BY FormatParamsIs DEF FormatProperty, HeadText, NameText
<1>4. Append(h, ":") = h \o c
  BY <1>2, AppendIs
<1> HIDE DEF h, v, c
<1>5. IsList(h \o c)
  BY <1>1, <1>2, ListConcat
<1>6. IsList((h \o c) \o v)
  BY <1>1, <1>5, ListConcat
<1> QED BY <1>1, <1>2, <1>3, <1>4, <1>6 DEF h, v

\* The lines of a card, in three parts.
HeaderLines(card) ==
    << BeginCard, <<"VERSION", ":">> \o SupportedVersion, <<"UID", ":">> \o EscapeText(card.uid) >>
    \o (IF card.kind = << >> THEN << >> ELSE <<KindLine(card.kind)>>)
PropLines(card) == [k \in DOMAIN card.props |-> FormatProperty(card.props[k])]

LEMMA PairList == ASSUME NEW a, NEW b, NEW s, IsList(s) PROVE IsList(<<a, b>>) /\ IsList(<<a, b>> \o s)
<1> DEFINE p == <<a, b>>
<1>1. p \in Seq({a, b})
  OBVIOUS
<1>2. IsList(p)
  BY <1>1 DEF IsList
<1> HIDE DEF p
<1>3. IsList(p \o s)
  BY <1>2, ListConcat
<1> QED BY <1>2, <1>3 DEF p

LEMMA Triple ==
    ASSUME NEW a, NEW b, NEW c
    PROVE  /\ IsList(<<a, b, c>>) /\ Len(<<a, b, c>>) = 3
           /\ <<a, b, c>>[1] = a /\ <<a, b, c>>[2] = b /\ <<a, b, c>>[3] = c
<1> DEFINE T == {a, b, c}
<1>0. a \in T /\ b \in T /\ c \in T
  OBVIOUS
<1> HIDE DEF T
<1>1. <<a, b, c>> \in Seq(T) /\ Len(<<a, b, c>>) = 3
  BY <1>0
<1> QED BY <1>1 DEF IsList

LEMMA DelimitersAreLines == IsList(BeginCard) /\ IsList(EndCard) /\ IsList(SupportedVersion)
BY Triple, SingleList DEF BeginCard, EndCard, SupportedVersion

LEMMA AllTriple ==
    ASSUME NEW a, NEW b, NEW c, IsList(a), IsList(b), IsList(c)
    PROVE  AllLists(<<a, b, c>>)
<1> DEFINE w == <<a, b, c>>
<1>1. IsList(w) /\ Len(w) = 3 /\ w[1] = a /\ w[2] = b /\ w[3] = c
  BY Triple
<1> HIDE DEF w
<1>2. \A i \in 1 .. Len(w) : IsList(w[i])
  BY <1>1
<1>3. AllLists(w)
  BY <1>1, <1>2 DEF AllLists
<1> QED BY <1>3 DEF w

LEMMA HeaderIsLines ==
    ASSUME NEW card, IsCard(card)
    PROVE  AllLists(HeaderLines(card))
<1> DEFINE b == BeginCard
           v == <<"VERSION", ":">> \o SupportedVersion
           u == <<"UID", ":">> \o EscapeText(card.uid)
           k == IF card.kind = << >> THEN << >> ELSE <<KindLine(card.kind)>>
<1>1. IsList(b) /\ IsList(v) /\ IsList(u)
  BY DelimitersAreLines, PairList, EscapedIsList DEF IsCard
<1>2. AllLists(k)
  <2>1. IsList(KindLine(card.kind))
    BY LowerIsList, PairList DEF KindLine, IsCard
  <2> QED BY <2>1, AllSingle, AllEmpty
<1> HIDE DEF b, v, u, k
<1>3. AllLists(<<b, v, u>>)
  BY <1>1, AllTriple
<1>4. AllLists(<<b, v, u>> \o k)
  BY <1>2, <1>3, AllConcat
<1> QED BY <1>4 DEF HeaderLines, b, v, u, k

LEMMA PropLinesAreLines ==
    ASSUME NEW card, IsCard(card)
    PROVE  AllLists(PropLines(card)) /\ Len(PropLines(card)) = Len(card.props)
           /\ \A k \in 1 .. Len(card.props) : PropLines(card)[k] = FormatProperty(card.props[k])
<1> DEFINE f == PropLines(card)
<1>1. f = [k \in DOMAIN card.props |-> f[k]] /\ DOMAIN card.props = 1 .. Len(card.props)
  BY ListType DEF PropLines, IsCard
<1>2. \A k \in 1 .. Len(card.props) : f[k] = FormatProperty(card.props[k])
  BY <1>1 DEF PropLines
<1>3. \A k \in 1 .. Len(card.props) : IsList(f[k])
  BY <1>2, FormatPropertyIs DEF IsCard
<1>4. IsList(card.props)
  BY DEF IsCard
<1> HIDE DEF f
<1>5. AllLists(f) /\ Len(f) = Len(card.props)
  BY ONLY <1>1, <1>3, <1>4, TableOfLists
<1> QED BY <1>2, <1>5 DEF f

LEMMA EncodedIsLines ==
    ASSUME NEW card, IsCard(card)
    PROVE  /\ AllLists(EncodeCard(card)) /\ EncodeCard(card) # << >>
           /\ EncodeCard(card) = Append(HeaderLines(card) \o PropLines(card), EndCard)
<1> DEFINE h == HeaderLines(card)
           f == PropLines(card)
<1>1. AllLists(h) /\ AllLists(f)
  BY HeaderIsLines, PropLinesAreLines
<1>2. EncodeCard(card) = (h \o f) \o <<EndCard>>
  BY DEF EncodeCard, HeaderLines, PropLines
<1> HIDE DEF h, f
<1>3. AllLists(h \o f)
  BY <1>1, AllConcat
<1>4. IsList(h \o f)
  BY <1>3 DEF AllLists
<1>5. Append(h \o f, EndCard) = (h \o f) \o <<EndCard>> /\ Append(h \o f, EndCard) # << >>
  BY <1>4, AppendIs, ListAppend
<1>6. AllLists(Append(h \o f, EndCard))
  BY <1>3, AllAppend, DelimitersAreLines
<1> QED BY <1>2, <1>5, <1>6 DEF h, f

-----------------------------------------------------------------------------
(* Types: the inductive invariant that everything else rests on.            *)

\* The list that an edit of a list of properties gives.
LEMMA EditedProps ==
    ASSUME NEW T, NEW ps \in Seq(T), NEW f, f = [k \in DOMAIN ps |-> f[k]],
           \A k \in 1 .. Len(ps) : f[k] \in Seq(T)
    PROVE  FlattenSeq(f) \in Seq(T)
<1>1. IsList(ps)
  BY DEF IsList
<1>2. \A k \in 1 .. Len(ps) : IsList(f[k])
  BY DEF IsList
<1>3. AllLists(f) /\ Len(f) = Len(ps)
  BY ONLY <1>1, <1>2, f = [k \in DOMAIN ps |-> f[k]], TableOfLists
<1> QED BY <1>3, FlattenType DEF AllLists

CardWith(c, ps) == [c EXCEPT !.props = ps]

\* An edit changes the properties only, and brings in none but its own.
LEMMA EditGives ==
    ASSUME NEW T, NEW c \in Cards, c.props \in Seq(T), NEW p \in T,
           NEW d \in {SetProp(c, p), AddProp(c, p), RemoveProp(c, p.name)}
    PROVE  \E s \in Seq(T) : d = CardWith(c, s)
<1> DEFINE ps == c.props
           named == Named(c, p.name)
           f == [k \in DOMAIN ps |-> IF k \notin named THEN <<ps[k]>>
                                     ELSE IF k = Min(named) THEN <<p>> ELSE << >>]
           g == [k \in DOMAIN ps |-> IF k \in named THEN << >> ELSE <<ps[k]>>]
<1>1. ps \in Seq(T)
  OBVIOUS
<1>7. AddProp(c, p) = CardWith(c, Append(ps, p))
  BY DEF AddProp, CardWith, ps
<1>8. SetProp(c, p) = CardWith(c, IF named = {} THEN Append(ps, p) ELSE FlattenSeq(f))
  BY DEF SetProp, CardWith, ps, named
<1>9. RemoveProp(c, p.name) = CardWith(c, FlattenSeq(g))
  BY DEF RemoveProp, CardWith, ps, named
<1> HIDE DEF ps, named
<1>3. DOMAIN ps = 1 .. Len(ps) /\ \A k \in 1 .. Len(ps) : ps[k] \in T
  BY <1>1
<1>4. FlattenSeq(f) \in Seq(T)
  <2>1. f = [k \in DOMAIN ps |-> f[k]]
    OBVIOUS
  <2>2. \A k \in 1 .. Len(ps) : f[k] \in Seq(T)
    BY <1>3
  <2> HIDE DEF f
  <2> QED BY ONLY <1>1, <2>1, <2>2, EditedProps
<1>5. FlattenSeq(g) \in Seq(T)
  <2>1. g = [k \in DOMAIN ps |-> g[k]]
    OBVIOUS
  <2>2. \A k \in 1 .. Len(ps) : g[k] \in Seq(T)
    BY <1>3
  <2> HIDE DEF g
  <2> QED BY ONLY <1>1, <2>1, <2>2, EditedProps
<1>6. Append(ps, p) \in Seq(T)
  BY <1>1
<1> HIDE DEF f, g
<1> QED BY <1>4, <1>5, <1>6, <1>7, <1>8, <1>9

LEMMA EditKeeps ==
    ASSUME NEW c \in Cards, NEW p \in Props,
           NEW d \in {SetProp(c, p), AddProp(c, p), RemoveProp(c, p.name)}
    PROVE  d \in Cards
<1>1. c.props \in Seq(Props)
  BY DEF Cards
<1>2. PICK s \in Seq(Props) : d = CardWith(c, s)
  BY <1>1, EditGives
<1> QED BY <1>2 DEF Cards, CardWith

\* TypeOK, and what types it does not state; and how far each side can be.
Typed ==
    /\ TypeOK
    /\ AllLists(wire) /\ AllLists(buffered)
    /\ draft \in Cards /\ IsList(yielded)
    /\ IsList(acked) /\ IsList(attempted) /\ encodes \in Nat
    /\ attempted # << >> => broken
    /\ readErrors \in Nat
    /\ pc = "write" => readErrors = 0 /\ ~failed /\ result = "none" /\ ~done
    /\ done => pc = "idle" /\ AtEOF
    /\ pc = "idle" /\ result = "EOF" => done

LEMMA MadeCards ==
    ASSUME NEW u \in UIDs, NEW k \in Kinds
    PROVE  Made(u, k) \in Cards
BY VCardAssumption

LEMMA EmptyCardIsCard == EmptyCard \in Cards
<1>1. << >> \in Texts /\ << >> \in Seq(Props)
  BY DEF Texts
<1> QED BY <1>1 DEF EmptyCard, Cards

LEMMA TypedStarts == Init => Typed
<1> SUFFICES ASSUME Init PROVE Typed
  OBVIOUS
<1>1. draft \in Cards
  <2>1. (CHOOSE u \in UIDs : u # << >>) \in UIDs /\ (CHOOSE k \in Kinds : TRUE) \in Kinds
    BY VCardAssumption
  <2> QED BY <2>1, MadeCards DEF Init
<1>2. AllLists(wire)
  <2>1. CASE wire = << >>
    BY <2>1, AllEmpty
  <2>2. CASE wire \in Documents
    <3>1. wire \in Seq(Texts)
      BY <2>2, VCardAssumption
    <3>2. \A i \in 1 .. Len(wire) : wire[i] \in Texts
      BY <3>1
    <3> QED BY <3>1, <3>2, TextList DEF AllLists, IsList
  <2> QED BY <2>1, <2>2 DEF Init
<1>3. Len(wire) \in Nat
  BY <1>2, ListType DEF AllLists
<1>4. TypeOK
  <2>1. pos \in 0 .. Len(wire) /\ Len(acked) + Len(attempted) <= encodes
    BY <1>3, EmptyList DEF Init
  <2>2. done \in BOOLEAN /\ failed \in BOOLEAN /\ (closed => buffered = << >>)
    BY DEF Init
  <2>3. pc \in {"write", "idle"} /\ pos = 0 /\ yielded = << >>
    BY DEF Init
  <2> QED BY <2>1, <2>2, <2>3 DEF TypeOK
<1> QED BY <1>1, <1>2, <1>4, AllEmpty, EmptyList DEF Init, Typed

\* What leaves the writing client's part of the state to it leaves the rest alone.
LEMMA WritingTyped ==
    ASSUME Typed, pc = "write", UNCHANGED readVars, AllLists(wire'), AllLists(buffered'), draft' \in Cards,
           IsList(acked'), IsList(attempted'), encodes' \in Nat, attempted' # << >> => broken',
           closed' => buffered' = << >>, Len(acked') + Len(attempted') <= encodes',
           pc' \in {"write", "idle"}
    PROVE  Typed'
<1>1. pos = 0 /\ ~done /\ yielded = << >> /\ readErrors = 0 /\ ~failed /\ result = "none"
  BY DEF Typed, TypeOK
<1>2. Len(wire') \in Nat
  BY ListType DEF AllLists
<1>3. TypeOK'
  <2>1. pos' \in 0 .. Len(wire')
    BY <1>1, <1>2 DEF readVars
  <2>2. done' \in BOOLEAN /\ failed' \in BOOLEAN /\ pos' = 0 /\ yielded' = << >>
    <3>1. done \in BOOLEAN /\ failed \in BOOLEAN
      BY DEF Typed, TypeOK
    <3> QED BY <1>1, <3>1 DEF readVars
  <2> QED BY <2>1, <2>2 DEF TypeOK
<1> QED BY <1>1, <1>3, EmptyList DEF Typed, readVars, AtEOF

LEMMA EditTyped == ASSUME Typed, Edit PROVE Typed'
<1>1. pc = "write" /\ pc' = "write" /\ UNCHANGED readVars
  BY DEF Edit
<1>2. draft' \in Cards
  <2>1. PICK p \in NewProps : draft' \in {SetProp(draft, p), AddProp(draft, p), RemoveProp(draft, p.name)}
    BY DEF Edit
  <2>2. p \in Props /\ draft \in Cards
    BY VCardAssumption DEF Typed
  <2> QED BY <2>1, <2>2, EditKeeps
<1>3. UNCHANGED <<buffered, broken, closed, acked, attempted, encodes, wire>>
  BY DEF Edit
<1> QED BY <1>1, <1>2, <1>3, WritingTyped DEF Typed, TypeOK

\* What a flush, a spill and a failing writer do to lines.
LEMMA SpillLines ==
    ASSUME AllLists(wire), NEW lines, AllLists(lines), Spill(lines)
    PROVE  AllLists(wire') /\ AllLists(buffered')
<1>1. PICK k \in 0 .. Len(lines) : /\ wire' = wire \o SubSeq(lines, 1, k)
                                   /\ buffered' = SubSeq(lines, k + 1, Len(lines))
  BY DEF Spill
<1>2. AllLists(SubSeq(lines, 1, k)) /\ AllLists(SubSeq(lines, k + 1, Len(lines)))
  BY AllParts
<1>3. AllLists(wire \o SubSeq(lines, 1, k))
  BY <1>2, AllConcat
<1> QED BY <1>1, <1>2, <1>3

LEMMA FrontIsList == ASSUME NEW l, IsList(l), Len(l) > 1 PROVE IsList(Front(l))
<1>1. PICK r, e : IsList(r) /\ l = Append(r, e)
  BY ListCases, EmptyList
<1>2. Front(Append(r, e)) = r
  BY <1>1, FrontAndLast
<1> QED BY <1>1, <1>2

LEMMA FailLines ==
    ASSUME AllLists(wire), NEW lines, AllLists(lines), WriterFails(lines)
    PROVE  AllLists(wire')
<1>1. PICK k \in 0 .. Len(lines) :
            \/ wire' = wire \o SubSeq(lines, 1, k)
            \/ k < Len(lines) /\ Len(lines[k + 1]) > 1
               /\ wire' = Append(wire \o SubSeq(lines, 1, k), Front(lines[k + 1]))
  BY DEF WriterFails
<1>2. AllLists(SubSeq(lines, 1, k))
  BY AllParts
<1>3. AllLists(wire \o SubSeq(lines, 1, k))
  BY <1>2, AllConcat
<1>4. ASSUME k < Len(lines), Len(lines[k + 1]) > 1
      PROVE  AllLists(Append(wire \o SubSeq(lines, 1, k), Front(lines[k + 1])))
  <2>1. k + 1 \in 1 .. Len(lines)
    BY <1>4, ListType DEF AllLists
  <2>2. IsList(Front(lines[k + 1]))
    BY <1>4, <2>1, FrontIsList DEF AllLists
  <2> QED BY <1>3, <2>2, AllAppend
<1> QED BY <1>1, <1>3, <1>4

LEMMA EncodeTyped == ASSUME Typed, Encode PROVE Typed'
<1>0. pc = "write" /\ UNCHANGED <<edits, closed, pc, readVars>> /\ encodes' = encodes + 1 /\ encodes \in Nat
  BY DEF Encode, Typed
<1>1. draft' \in Cards
  BY MadeCards DEF Encode, Typed
<1>2. CASE UNCHANGED <<wire, buffered, broken, acked, attempted>>
  <2>1. Len(acked) \in Nat /\ Len(attempted) \in Nat /\ Len(acked) + Len(attempted) <= encodes
    BY ListType DEF Typed, TypeOK
  <2>2. Len(acked') + Len(attempted') <= encodes' /\ encodes' \in Nat
    BY <1>0, <1>2, <2>1
  <2>3. closed' => buffered' = << >>
    BY <1>0, <1>2 DEF Typed, TypeOK
  <2> QED BY <1>0, <1>1, <1>2, <2>2, <2>3, WritingTyped DEF Typed
<1>3. CASE /\ ~closed /\ ~MissingUID(draft) /\ ~broken
           /\ LET lines == buffered \o EncodeCard(draft)
              IN  \/ /\ Spill(lines) /\ encResult' = "nil"
                     /\ acked' = Append(acked, draft)
                     /\ UNCHANGED <<broken, attempted>>
                  \/ /\ WriterFails(lines) /\ encResult' = "error"
                     /\ attempted' = <<draft>>
                     /\ UNCHANGED acked
  <2> DEFINE lines == buffered \o EncodeCard(draft)
  <2>1. AllLists(lines)
    BY EncodedIsLines, CardsAreCards, AllConcat DEF Typed
  <2>2. /\ Len(acked) \in Nat /\ attempted = << >> /\ Len(attempted) = 0 /\ Len(acked) <= encodes
    <3>1. attempted = << >> /\ Len(attempted) = 0
      BY <1>3, EmptyList DEF Typed
    <3> QED BY <3>1, ListType DEF Typed, TypeOK
  <2> HIDE DEF lines
  <2>3. CASE Spill(lines) /\ acked' = Append(acked, draft) /\ UNCHANGED <<broken, attempted>>
    <3>1. AllLists(wire') /\ AllLists(buffered')
      BY <2>1, <2>3, SpillLines DEF Typed
    <3>2. IsList(acked') /\ Len(acked') = Len(acked) + 1
      BY <2>3, ListAppend DEF Typed
    <3>3. Len(acked') + Len(attempted') <= encodes' /\ encodes' \in Nat
      BY <1>0, <2>2, <2>3, <3>2
    <3>4. ~closed' /\ attempted' = << >> /\ IsList(attempted')
      BY <1>0, <1>3, <2>2, <2>3, EmptyList
    <3> QED BY <1>0, <1>1, <3>1, <3>2, <3>3, <3>4, WritingTyped
  <2>4. CASE WriterFails(lines) /\ attempted' = <<draft>> /\ UNCHANGED acked
    <3>1. AllLists(wire') /\ buffered' = buffered /\ broken'
      BY <2>1, <2>4, FailLines DEF Typed, WriterFails
    <3>2. IsList(attempted') /\ Len(attempted') = 1
      BY <2>4, SingleList
    <3>3. Len(acked') + Len(attempted') <= encodes' /\ encodes' \in Nat
      BY <1>0, <2>2, <2>4, <3>2
    <3>4. ~closed' /\ IsList(acked') /\ AllLists(buffered')
      BY <1>0, <1>3, <2>4, <3>1 DEF Typed
    <3> QED BY <1>0, <1>1, <3>1, <3>2, <3>3, <3>4, WritingTyped
  <2> QED BY <1>3, <2>3, <2>4 DEF lines
<1> QED BY <1>2, <1>3 DEF Encode

LEMMA CloseTyped == ASSUME Typed, Close PROVE Typed'
<1>0. pc = "write" /\ UNCHANGED <<draft, edits, acked, attempted, encodes, pc, readVars>>
  BY DEF Close
<1>1. /\ draft' \in Cards /\ IsList(acked') /\ IsList(attempted') /\ encodes' \in Nat
      /\ Len(acked') + Len(attempted') <= encodes'
  BY <1>0 DEF Typed, TypeOK
<1>2. CASE UNCHANGED <<wire, buffered, broken, closed>>
  BY <1>0, <1>1, <1>2, WritingTyped DEF Typed, TypeOK
<1>3. CASE CloseFlush(buffered) /\ closed' = TRUE /\ UNCHANGED broken
  <2>1. wire' = wire \o buffered /\ buffered' = << >>
    BY <1>3 DEF CloseFlush, Flush
  <2>2. AllLists(wire') /\ AllLists(buffered')
    BY <2>1, AllConcat, AllEmpty DEF Typed
  <2> QED BY <1>0, <1>1, <1>3, <2>1, <2>2, WritingTyped DEF Typed
<1>4. CASE WriterFails(buffered) /\ UNCHANGED closed
  <2>1. AllLists(wire') /\ buffered' = buffered /\ broken'
    BY <1>4, FailLines DEF Typed, WriterFails
  <2> QED BY <1>0, <1>1, <1>4, <2>1, WritingTyped DEF Typed, TypeOK
<1> QED BY <1>2, <1>3, <1>4 DEF Close

LEMMA OpenTyped == ASSUME Typed, OpenFile PROVE Typed'
<1>1. /\ pc = "write" /\ pc' = "idle" /\ buffered' = << >> /\ draft' = EmptyCard
      /\ UNCHANGED <<edits, broken, closed, acked, attempted, encodes, wire, readVars>>
  BY DEF OpenFile
<1> QED BY <1>1, EmptyCardIsCard, AllEmpty, WritingTyped DEF Typed, TypeOK

\* The reader's steps change nothing of the writer's, and the file only when it fails.
LEMMA ReadingTyped ==
    ASSUME Typed, UNCHANGED encVars, AllLists(wire'), IsList(yielded'), pc # "write",
           pc' \in {"idle", "outside", "inside"}, pos' \in 0 .. Len(wire'), readErrors' \in Nat,
           done' \in BOOLEAN, failed' \in BOOLEAN,
           done' => pc' = "idle" /\ pos' = Len(wire'), pc' = "idle" /\ result' = "EOF" => done'
    PROVE  Typed'
<1>1. TypeOK'
  <2>1. closed' => buffered' = << >>
    BY DEF Typed, TypeOK, encVars
  <2>2. Len(acked') + Len(attempted') <= encodes'
    BY DEF Typed, TypeOK, encVars
  <2>3. pc' \in {"write", "idle", "outside", "inside"} /\ pc' # "write"
    OBVIOUS
  <2> QED BY <2>1, <2>2, <2>3 DEF TypeOK
<1>2. AllLists(buffered') /\ draft' \in Cards /\ IsList(acked') /\ IsList(attempted') /\ encodes' \in Nat
      /\ (attempted' # << >> => broken')
  BY DEF Typed, encVars
<1>3. AtEOF' = (pos' = Len(wire'))
  BY DEF AtEOF
<1> QED BY <1>1, <1>2, <1>3 DEF Typed

LEMMA CallTyped == ASSUME Typed, CallNext PROVE Typed'
<1>1. /\ pc = "idle" /\ UNCHANGED <<encVars, wire, pos, done, yielded, failed, readErrors>>
      /\ IF done THEN pc' = "idle" /\ result' = "EOF" ELSE pc' = "outside" /\ UNCHANGED result
  BY DEF CallNext
<1>2. /\ AllLists(wire') /\ IsList(yielded') /\ pos' \in 0 .. Len(wire') /\ readErrors' \in Nat
      /\ done' \in BOOLEAN /\ failed' \in BOOLEAN /\ (done' => pos' = Len(wire'))
  BY <1>1 DEF Typed, TypeOK, AtEOF
<1> QED BY <1>1, <1>2, ReadingTyped

LEMMA Consumed ==
    ASSUME Typed, Consume, UNCHANGED wire
    PROVE  /\ pos' \in 0 .. Len(wire') /\ pos \in 0 .. Len(wire) /\ Len(wire) \in Nat
           /\ AtEOF => pos' = pos
           /\ ~AtEOF => /\ pos' = pos + 1 /\ pos + 1 \in 1 .. Len(wire)
                        /\ IsList(NextLine)
<1>1. pos \in 0 .. Len(wire) /\ Len(wire) \in Nat
  BY ListType DEF Typed, TypeOK, AllLists
<1>2. ~AtEOF => pos + 1 \in 1 .. Len(wire) /\ pos' = pos + 1
  BY <1>1 DEF AtEOF, Consume
<1>3. AtEOF => pos' = pos
  BY DEF Consume
<1> QED BY <1>1, <1>2, <1>3 DEF Typed, AllLists, NextLine

\* What one call of ReadInside does: it fails, goes on inside the card, or has a card. The
\* batch parser does the same with the line without its group.
Fails == /\ pc' = "idle" /\ failed' = TRUE /\ result' \notin {"card", "EOF"}
         /\ UNCHANGED yielded
GoesOn == pc' = "inside" /\ UNCHANGED <<failed, yielded>>
Yields == /\ pc' = "idle" /\ result' = "card" /\ UNCHANGED <<failed, cur>>
          /\ yielded' = Append(yielded, cur)

LEMMA PropertyRead ==
    ASSUME pc = "inside", IsOther(NextLine), ~Rejects(NextLine),
           ReadProperty(ParseContentLine(NextLine)), NEW cs
    PROVE  LET st == ParseStep(Opened(cs, cur, version), Ungrouped(NextLine))
           IN  (Fails /\ st.error # "nil") \/ (GoesOn /\ st = Opened(cs, cur', version'))
<1> DEFINE l == NextLine
<1>0. IsOther(l) /\ ~Rejects(l) /\ ReadProperty(ParseContentLine(l))
  OBVIOUS
<1> HIDE DEF l
<1> DEFINE p == ParseContentLine(l)
           name == ToUpper(BareName(p.name))
           st == ParseStep(Opened(cs, cur, version), Ungrouped(l))
<1>1. /\ name = <<"VERSION">> /\ version # << >> => st.error # "nil"
      /\ name = <<"VERSION">> /\ version = << >> => st = Opened(cs, cur, p.value)
      /\ name = <<"UID">> => st = Opened(cs, [cur EXCEPT !.uid = p.value], version)
      /\ name = <<"KIND">> => st = Opened(cs, [cur EXCEPT !.kind = ToLower(p.value)], version)
      /\ name \notin Reserved => st = Opened(cs, [cur EXCEPT !.props = Append(@, p)], version)
  <2>1. PropertyStep(cs, cur, version, l)
    BY <1>0, StepProperty
  <2> QED BY <2>1 DEF PropertyStep
<1>2. <<"VERSION">> # <<"UID">> /\ <<"VERSION">> # <<"KIND">> /\ <<"UID">> # <<"KIND">>
  OBVIOUS
<1> HIDE DEF p, name, st
<1>3. \/ name = <<"VERSION">> /\ version # << >> /\ ReturnError("ErrMalformed")
      \/ name = <<"VERSION">> /\ version = << >> /\ version' = p.value /\ Continue /\ UNCHANGED cur
      \/ name = <<"UID">> /\ cur' = [cur EXCEPT !.uid = p.value] /\ Continue /\ UNCHANGED version
      \/ name = <<"KIND">> /\ cur' = [cur EXCEPT !.kind = ToLower(p.value)] /\ Continue /\ UNCHANGED version
      \/ name \notin Reserved /\ cur' = [cur EXCEPT !.props = Append(@, p)] /\ Continue /\ UNCHANGED version
  <2> DEFINE up == ToUpper(PropBareName(p.name))
  <2>1. up = name
    BY DEF PropBareName, name
  <2>2. ReadProperty(p)
    BY <1>0 DEF p
  <2>3. name \in Reserved \/ name \notin {<<"VERSION">>, <<"UID">>, <<"KIND">>}
    BY DEF Reserved
  <2> HIDE DEF up
  <2>4. CASE name = <<"VERSION">>
    BY <1>2, <2>1, <2>2, <2>4 DEF ReadProperty, up
  <2>5. CASE name = <<"UID">>
    BY <1>2, <2>1, <2>2, <2>5 DEF ReadProperty, up
  <2>6. CASE name = <<"KIND">>
    BY <1>2, <2>1, <2>2, <2>6 DEF ReadProperty, up
  <2>7. CASE name \notin {<<"VERSION">>, <<"UID">>, <<"KIND">>}
    BY <2>1, <2>2, <2>7 DEF ReadProperty, up, Reserved
  <2> QED BY <2>4, <2>5, <2>6, <2>7
<1>4. ReturnError("ErrMalformed") => Fails
  BY DEF ReturnError, Return, Fails
<1>5. Continue => GoesOn
  BY DEF Continue, GoesOn
<1>6. (Fails /\ st.error # "nil") \/ (GoesOn /\ st = Opened(cs, cur', version'))
  BY <1>1, <1>3, <1>4, <1>5
<1> QED BY <1>6 DEF st, l

LEMMA InsideStep ==
    ASSUME Typed, ReadInside, ~AtEOF, NEW cs
    PROVE  LET st == ParseStep(Opened(cs, cur, version), Ungrouped(NextLine))
           IN  \/ Fails /\ st.error # "nil"
               \/ GoesOn /\ st = Opened(cs, cur', version')
               \/ Yields /\ st = Closed(Append(cs, cur))
<1> DEFINE l == NextLine
           st == ParseStep(Opened(cs, cur, version), Ungrouped(l))
<1>0. IsList(l)
  BY Consumed DEF ReadInside
<1>1. pc = "inside"
  BY DEF ReadInside
<1>4. \A e : ReturnError(e) /\ e \notin {"card", "EOF"} => Fails
  BY DEF ReturnError, Return, Fails
<1>5. Continue => GoesOn
  BY <1>1 DEF Continue, GoesOn
<1>6. CASE l = << >>
  <2>1. ~EqualFold(<< >>, BeginCard) /\ ~EqualFold(<< >>, EndCard)
    BY EmptyList, CardLine
  <2>2. Continue /\ UNCHANGED <<cur, version>>
    BY <1>6, <2>1 DEF ReadInside
  <2>3. st = Opened(cs, cur, version)
    BY <1>6, StepBlank
  <2> QED BY <1>5, <2>2, <2>3
<1>7. CASE l # << >> /\ EqualFold(l, EndCard)
  <2>1. ~EqualFold(l, BeginCard)
    BY <1>7, NotBoth
  <2>2. ReadEnd
    BY <1>7, <2>1 DEF ReadInside
  <2>3. /\ version # SupportedVersion => st.error # "nil"
        /\ version = SupportedVersion => st = Closed(Append(cs, cur))
    BY <1>0, <1>7, StepEnd
  <2>4. SupportedVersion # << >>
    BY DEF SupportedVersion
  <2>5. CASE version = << >>
    <3>1. ReturnError("ErrMalformed")
      BY <2>2, <2>5 DEF ReadEnd
    <3> QED BY <1>4, <2>3, <2>4, <2>5, <3>1
  <2>6. CASE version \notin {<< >>, SupportedVersion}
    <3>1. ReturnError("ErrUnsupportedVersion")
      BY <2>2, <2>6 DEF ReadEnd
    <3> QED BY <1>4, <2>3, <2>6, <3>1
  <2>7. CASE version = SupportedVersion
    <3>1. Return("card") /\ yielded' = Append(yielded, cur) /\ UNCHANGED failed
      BY <2>2, <2>4, <2>7 DEF ReadEnd
    <3>2. Yields
      BY <3>1 DEF Return, Yields
    <3> QED BY <2>3, <2>7, <3>2
  <2> QED BY <2>5, <2>6, <2>7
<1>8. CASE l # << >> /\ EqualFold(l, BeginCard)
  <2>1. ~EqualFold(l, EndCard)
    BY <1>8, NotBoth
  <2>2. ReturnError("ErrMalformed")
    BY <1>8, <2>1 DEF ReadInside, NestedBegin
  <2>3. st.error # "nil"
    BY <1>0, <1>8, StepBegin
  <2> QED BY <1>4, <2>2, <2>3
<1>9. CASE IsOther(l)
  <2>1. IF Rejects(l) THEN ReturnError("ErrMalformed") ELSE ReadProperty(ParseContentLine(l))
    BY <1>9 DEF ReadInside, IsOther
  <2>2. CASE Rejects(l)
    <3>1. st.error # "nil"
      BY <1>9, <2>2, StepRejected
    <3> QED BY <1>4, <2>1, <2>2, <3>1
  <2>3. CASE ~Rejects(l)
    BY <1>1, <1>9, <2>1, <2>3, PropertyRead
  <2> QED BY <2>2, <2>3
<1> QED BY <1>0, <1>6, <1>7, <1>8, <1>9 DEF IsOther

LEMMA InsideAtEnd == ASSUME ReadInside, AtEOF PROVE Fails /\ UNCHANGED <<cur, version>>
BY DEF ReadInside, InsideAtEOF, ReturnError, Return, Fails

\* And of ReadOutside.
LEMMA OutsideStep ==
    ASSUME Typed, ReadOutside, ~AtEOF, NEW cs
    PROVE  LET st == ParseStep(Closed(cs), Ungrouped(NextLine))
           IN  \/ Fails /\ st.error # "nil"
               \/ pc' = "outside" /\ UNCHANGED <<failed, yielded, cur, version>> /\ st = Closed(cs)
               \/ /\ pc' = "inside" /\ UNCHANGED <<failed, yielded, cur, version>>
                  /\ EqualFold(NextLine, BeginCard) /\ st = Opened(cs, EmptyCard, << >>)
<1> DEFINE l == NextLine
           st == ParseStep(Closed(cs), Ungrouped(l))
<1>0. IsList(l)
  BY Consumed DEF ReadOutside
<1>1. pc = "outside"
  BY DEF ReadOutside
<1>2. CASE l = << >>
  <2>1. ~EqualFold(<< >>, BeginCard)
    BY EmptyList, CardLine
  <2>2. Continue /\ UNCHANGED <<cur, version>>
    BY <1>2, <2>1 DEF ReadOutside
  <2>3. st = Closed(cs)
    BY <1>2, StepBlank
  <2> QED BY <1>1, <2>2, <2>3 DEF Continue
<1>3. CASE l # << >> /\ EqualFold(l, BeginCard)
  <2>1. pc' = "inside" /\ UNCHANGED <<cur, version, result, yielded, failed>>
    BY <1>3 DEF ReadOutside
  <2>2. st = Opened(cs, EmptyCard, << >>)
    BY <1>0, <1>3, StepBegin
  <2> QED BY <1>3, <2>1, <2>2
<1>4. CASE l # << >> /\ ~EqualFold(l, BeginCard)
  <2>1. ReturnError("ErrMalformed")
    BY <1>4 DEF ReadOutside, NotBegin
  <2>2. Fails
    BY <2>1 DEF ReturnError, Return, Fails
  <2>3. st.error # "nil"
    <3>1. CASE EqualFold(l, EndCard)
      BY <1>0, <3>1, StepEnd
    <3>2. CASE ~EqualFold(l, EndCard)
      BY <1>0, <1>4, <3>2, StepOutside DEF IsOther
    <3> QED BY <3>1, <3>2
  <2> QED BY <2>2, <2>3
<1> QED BY <1>2, <1>3, <1>4

LEMMA OutsideAtEnd ==
    ASSUME ReadOutside, AtEOF
    PROVE  pc' = "idle" /\ result' = "EOF" /\ done' = TRUE /\ UNCHANGED <<yielded, failed>>
BY DEF ReadOutside, Return

-----------------------------------------------------------------------------
(* Pull parser and batch parser, line by line.                              *)

LEMMA UngroupedLines ==
    ASSUME NEW w, AllLists(w)
    PROVE  /\ IsList(UngroupedAll(w)) /\ Len(UngroupedAll(w)) = Len(w) /\ Len(w) \in Nat
           /\ \A i \in 1 .. Len(w) : UngroupedAll(w)[i] = Ungrouped(w[i])
<1>1. Len(w) \in Nat /\ DOMAIN w = 1 .. Len(w)
  BY ListType DEF AllLists
<1>2. UngroupedAll(w) = [k \in 1 .. Len(w) |-> Ungrouped(w[k])]
  BY <1>1 DEF UngroupedAll
<1> DEFINE f == [k \in 1 .. Len(w) |-> Ungrouped(w[k])]
<1>3. f = [k \in 1 .. Len(w) |-> f[k]] /\ \A i \in 1 .. Len(w) : f[i] = Ungrouped(w[i])
  OBVIOUS
<1> HIDE DEF f
<1>4. IsList(f) /\ Len(f) = Len(w)
  BY ONLY <1>1, <1>3, TableIsList
<1> QED BY <1>1, <1>2, <1>3, <1>4 DEF f

\* The first n lines without their groups.
Taken(w, n) == SubSeq(UngroupedAll(w), 1, n)

LEMMA TakenNext ==
    ASSUME NEW w, AllLists(w), NEW n \in 0 .. Len(w), NEW st
    PROVE  /\ IsList(Taken(w, n)) /\ Taken(w, Len(w)) = UngroupedAll(w)
           /\ n < Len(w) => Run(st, Taken(w, n + 1)) = ParseStep(Run(st, Taken(w, n)), Ungrouped(w[n + 1]))
<1> DEFINE u == UngroupedAll(w)
<1>1. IsList(u) /\ Len(u) = Len(w) /\ Len(w) \in Nat /\ \A i \in 1 .. Len(w) : u[i] = Ungrouped(w[i])
  BY UngroupedLines
<1> HIDE DEF u
<1>2. n \in 0 .. Len(u)
  BY <1>1
<1>3. /\ IsList(SubSeq(u, 1, n)) /\ SubSeq(u, 1, Len(u)) = u
      /\ n < Len(u) => SubSeq(u, 1, n + 1) = Append(SubSeq(u, 1, n), u[n + 1])
  BY <1>1, <1>2, ListPrefix
<1>4. ASSUME n < Len(w)
      PROVE  Run(st, SubSeq(u, 1, n + 1)) = ParseStep(Run(st, SubSeq(u, 1, n)), Ungrouped(w[n + 1]))
  <2>1. n + 1 \in 1 .. Len(w)
    BY <1>1, <1>4
  <2>2. u[n + 1] = Ungrouped(w[n + 1])
    BY <1>1, <2>1
  <2>3. SubSeq(u, 1, n + 1) = Append(SubSeq(u, 1, n), Ungrouped(w[n + 1]))
    BY <1>1, <1>3, <1>4, <2>2
  <2>4. Run(st, Append(SubSeq(u, 1, n), Ungrouped(w[n + 1])))
          = ParseStep(Run(st, SubSeq(u, 1, n)), Ungrouped(w[n + 1]))
    BY <1>3, RunAppend
  <2> QED BY <2>3, <2>4
<1> QED BY <1>1, <1>3, <1>4 DEF Taken, u

LEMMA TakenRest ==
    ASSUME NEW w, AllLists(w), NEW n \in 0 .. Len(w), Run(ParseStart, Taken(w, n)).error # "nil"
    PROVE  Run(ParseStart, UngroupedAll(w)).error # "nil"
<1> DEFINE u == UngroupedAll(w)
           a == SubSeq(u, 1, n)
           b == SubSeq(u, n + 1, Len(u))
<1>1. IsList(u) /\ Len(u) = Len(w)
  BY UngroupedLines
<1> HIDE DEF u
<1>2. IsList(a) /\ IsList(b) /\ u = a \o b
  BY <1>1, ListSplits
<1> HIDE DEF a, b
<1>3. Run(ParseStart, a \o b) = Run(Run(ParseStart, a), b)
  BY <1>2, RunConcat
<1>4. Run(ParseStart, a).error # "nil"
  BY DEF Taken, u, a
<1>5. Run(Run(ParseStart, a), b) = Run(ParseStart, a)
  BY <1>2, <1>4, RunOnError
<1> QED BY <1>2, <1>3, <1>4, <1>5 DEF u

LEMMA ParseCases ==
    ASSUME NEW w
    PROVE  /\ Run(ParseStart, w).error # "nil" => Parse(w).error # "nil" /\ Parse(w).cards = << >>
           /\ \A cs, c, v : Run(ParseStart, w) = Opened(cs, c, v) => Parse(w).error # "nil" /\ Parse(w).cards = << >>
           /\ \A cs : Run(ParseStart, w) = Closed(cs) => Parse(w) = [cards |-> cs, error |-> "nil"]
<1> DEFINE end == Run(ParseStart, w)
<1>1. Parse(w) = CASE end.error # "nil" -> [cards |-> << >>, error |-> end.error]
                   [] end.error = "nil" /\ end.at = "inside" -> [cards |-> << >>, error |-> "ErrUnclosedBlock"]
                   [] OTHER -> [cards |-> end.cards, error |-> "nil"]
  BY DEF Parse, ParseResult, Run
<1> HIDE DEF end
<1>2. end.error # "nil" => Parse(w).error # "nil" /\ Parse(w).cards = << >>
  <2> SUFFICES ASSUME end.error # "nil" PROVE Parse(w).error # "nil" /\ Parse(w).cards = << >>
    OBVIOUS
  <2>1. Parse(w) = [cards |-> << >>, error |-> end.error]
    BY <1>1
  <2> QED BY <2>1
<1>3. ASSUME NEW cs, NEW c, NEW v, end = Opened(cs, c, v)
      PROVE  Parse(w).error # "nil" /\ Parse(w).cards = << >>
  <2>1. end.error = "nil" /\ end.at = "inside"
    BY <1>3, StateFields
  <2>2. Parse(w) = [cards |-> << >>, error |-> "ErrUnclosedBlock"]
    BY <1>1, <2>1
  <2> QED BY <2>2
<1>4. ASSUME NEW cs, end = Closed(cs)
      PROVE  Parse(w) = [cards |-> cs, error |-> "nil"]
  <2>1. end.error = "nil" /\ end.at = "outside" /\ end.cards = cs
    BY <1>4, StateFields
  <2> QED BY <1>1, <2>1
<1> QED BY <1>2, <1>3, <1>4 DEF end

\* With no read error the two are where each other is, or have both failed.
Agree ==
    readErrors = 0 =>
        LET run == Run(ParseStart, Taken(wire, pos))
        IN  /\ ~failed /\ pc # "inside" => run = Closed(yielded)
            /\ ~failed /\ pc = "inside" => run = Opened(yielded, cur, version)
            /\ failed => Parse(UngroupedAll(wire)).error # "nil"

\* And the card being read is made of the lines from its BEGIN on.
InBlock ==
    /\ pc = "outside" => cur = EmptyCard /\ version = << >>
    /\ pc = "inside" =>
         \E from \in 1 .. pos :
            /\ EqualFold(wire[from], BeginCard)
            /\ Run(ParseStart, UngroupedAll(SubSeq(wire, from, pos))) = Opened(<< >>, cur, version)
    /\ pc = "idle" /\ result = "card" =>
         \E from \in 1 .. pos :
            /\ EqualFold(wire[from], BeginCard)
            /\ Run(ParseStart, UngroupedAll(SubSeq(wire, from, pos))) = Closed(<<Last(yielded)>>)

LEMMA NothingTaken == ASSUME NEW w, AllLists(w) PROVE Run(ParseStart, Taken(w, 0)) = Closed(<< >>)
<1> DEFINE u == UngroupedAll(w)
<1>1. IsList(u) /\ Len(u) \in Nat
  BY UngroupedLines
<1> HIDE DEF u
<1>2. IsList(SubSeq(u, 1, 0)) /\ Len(SubSeq(u, 1, 0)) = 0
  BY <1>1, ListPrefix
<1>3. SubSeq(u, 1, 0) = << >>
  BY <1>2, EmptyList, ListEqual
<1>4. Run(ParseStart, << >>) = Closed(<< >>)
  BY RunEmpty, ClosedIs
<1> QED BY <1>3, <1>4 DEF Taken, u

LEMMA AgreeStarts == Init => Agree /\ InBlock
<1> SUFFICES ASSUME Init PROVE Agree /\ InBlock
  OBVIOUS
<1>1. AllLists(wire)
  BY TypedStarts DEF Typed
<1>2. Run(ParseStart, Taken(wire, pos)) = Closed(yielded)
  <2>1. pos = 0 /\ yielded = << >>
    BY DEF Init
  <2> QED BY <1>1, <2>1, NothingTaken
<1>3. pc \in {"write", "idle"} /\ failed = FALSE /\ result = "none"
  BY DEF Init
<1> QED BY <1>2, <1>3 DEF Agree, InBlock

LEMMA WriteAgrees == ASSUME Typed, Typed', pc = "write", Write PROVE Agree' /\ InBlock'
<1>1. UNCHANGED readVars /\ pc' \in {"write", "idle"}
  BY DEF Write, Edit, Encode, Close, OpenFile
<1>2. pos = 0 /\ yielded = << >> /\ failed = FALSE /\ result = "none"
  BY DEF Typed, TypeOK
<1>3. pos' = 0 /\ yielded' = << >> /\ failed' = FALSE /\ result' = "none"
  BY <1>1, <1>2 DEF readVars
<1>4. AllLists(wire')
  BY DEF Typed
<1>5. Run(ParseStart, Taken(wire', pos')) = Closed(yielded')
  BY <1>3, <1>4, NothingTaken
<1> QED BY <1>1, <1>3, <1>5 DEF Agree, InBlock

\* A list of lines that grows by one.
LEMMA UngroupedAppend ==
    ASSUME NEW w, AllLists(w), NEW l, IsList(l)
    PROVE  UngroupedAll(Append(w, l)) = Append(UngroupedAll(w), Ungrouped(l))
<1> DEFINE a == UngroupedAll(Append(w, l))
           b == Append(UngroupedAll(w), Ungrouped(l))
           n == Len(w)
<1>1. n \in Nat /\ Len(Append(w, l)) = n + 1 /\ Append(w, l)[n + 1] = l
      /\ \A i \in 1 .. n : Append(w, l)[i] = w[i]
  BY ListAppend, ListType DEF AllLists
<1>2. IsList(a) /\ Len(a) = n + 1 /\ \A i \in 1 .. n + 1 : a[i] = Ungrouped(Append(w, l)[i])
  BY <1>1, AllAppend, UngroupedLines
<1>3. IsList(b) /\ Len(b) = n + 1 /\ b[n + 1] = Ungrouped(l) /\ \A i \in 1 .. n : b[i] = Ungrouped(w[i])
  <2> DEFINE u == UngroupedAll(w)
  <2>1. IsList(u) /\ Len(u) = n /\ \A i \in 1 .. n : u[i] = Ungrouped(w[i])
    BY UngroupedLines
  <2> HIDE DEF u, n
  <2>2. IsList(Append(u, Ungrouped(l))) /\ Len(Append(u, Ungrouped(l))) = Len(u) + 1
        /\ \A i \in 1 .. Len(u) : Append(u, Ungrouped(l))[i] = u[i]
        /\ Append(u, Ungrouped(l))[Len(u) + 1] = Ungrouped(l)
    BY <2>1, ListAppend
  <2> QED BY <2>1, <2>2 DEF u
<1> HIDE DEF a, b, n
<1>4. ASSUME NEW i \in 1 .. n + 1 PROVE a[i] = b[i]
  <2>1. CASE i = n + 1
    BY <1>1, <1>2, <1>3, <2>1
  <2>2. CASE i # n + 1
    <3>1. i \in 1 .. n
      BY <1>1, <2>2
    <3> QED BY <1>1, <1>2, <1>3, <3>1
  <2> QED BY <2>1, <2>2
<1>5. a = b
  BY <1>2, <1>3, <1>4, ListEqual
<1> QED BY <1>5 DEF a, b

LEMMA NoneUngrouped == UngroupedAll(<< >>) = << >>
<1>1. IsList(UngroupedAll(<< >>)) /\ Len(UngroupedAll(<< >>)) = 0
  BY AllEmpty, UngroupedLines, EmptyList
<1> QED BY <1>1, EmptyList, ListEqual

\* A run of lines of a file, and the line after it.
LEMMA BlockNext ==
    ASSUME NEW w, AllLists(w), NEW n \in Nat, n + 1 \in 1 .. Len(w), NEW from \in 1 .. n + 1, NEW st
    PROVE  /\ Run(st, UngroupedAll(SubSeq(w, from, n + 1)))
                = ParseStep(Run(st, UngroupedAll(SubSeq(w, from, n))), Ungrouped(w[n + 1]))
           /\ from = n + 1 => Run(st, UngroupedAll(SubSeq(w, from, n))) = st
<1> DEFINE a == SubSeq(w, from, n)
<1>1. Len(w) \in Nat /\ from \in Nat \ {0} /\ n < Len(w) /\ n <= Len(w) /\ from <= n + 1
  BY ListType DEF AllLists
<1>2. /\ IsList(a) /\ Len(a) = n - from + 1 /\ \A i \in 1 .. n - from + 1 : a[i] = w[from + i - 1]
      /\ SubSeq(w, from, n + 1) = Append(a, w[n + 1])
  BY <1>1, ListPart DEF AllLists
<1> HIDE DEF a
<1>3. AllLists(a)
  <2>1. ASSUME NEW i \in 1 .. Len(a) PROVE IsList(a[i])
    <3>1. i \in 1 .. n - from + 1 /\ from + i - 1 \in 1 .. Len(w)
      BY <1>1, <1>2
    <3> QED BY <1>2, <3>1 DEF AllLists
  <2> QED BY <1>2, <2>1 DEF AllLists
<1>4. UngroupedAll(Append(a, w[n + 1])) = Append(UngroupedAll(a), Ungrouped(w[n + 1]))
  BY <1>3, UngroupedAppend DEF AllLists
<1>5. Run(st, Append(UngroupedAll(a), Ungrouped(w[n + 1])))
        = ParseStep(Run(st, UngroupedAll(a)), Ungrouped(w[n + 1]))
  BY <1>3, UngroupedLines, RunAppend
<1>6. ASSUME from = n + 1 PROVE Run(st, UngroupedAll(a)) = st
  <2>1. Len(a) = 0
    BY <1>1, <1>2, <1>6
  <2>2. a = << >>
    BY <1>2, <2>1, EmptyList, ListEqual
  <2> QED BY <2>2, NoneUngrouped, RunEmpty
<1> QED BY <1>2, <1>4, <1>5, <1>6 DEF a

LEMMA OutsideTyped == ASSUME Typed, ReadOutside PROVE Typed'
<1>1. /\ pc = "outside" /\ Consume /\ UNCHANGED <<encVars, wire, readErrors>> /\ done' = AtEOF
  BY DEF ReadOutside
<1>2. /\ AllLists(wire') /\ pos' \in 0 .. Len(wire') /\ readErrors' \in Nat /\ IsList(yielded)
      /\ failed \in BOOLEAN /\ ~done
  BY <1>1, Consumed DEF Typed, TypeOK
<1>3. done' \in BOOLEAN
  BY <1>1 DEF AtEOF
<1>4. CASE AtEOF
  <2>1. pc' = "idle" /\ result' = "EOF" /\ done' = TRUE /\ UNCHANGED <<yielded, failed>>
    BY <1>4, OutsideAtEnd
  <2>2. pos' = Len(wire')
    BY <1>1, <1>4, Consumed DEF AtEOF
  <2> QED BY <1>1, <1>2, <2>1, <2>2, ReadingTyped
<1>5. CASE ~AtEOF
  <2>1. \/ Fails
        \/ pc' = "outside" /\ UNCHANGED <<failed, yielded>>
        \/ pc' = "inside" /\ UNCHANGED <<failed, yielded>>
    BY <1>5, OutsideStep
  <2>2. done' = FALSE
    BY <1>1, <1>5 DEF AtEOF
  <2>3. /\ pc' \in {"idle", "outside", "inside"} /\ IsList(yielded') /\ failed' \in BOOLEAN
        /\ ~(pc' = "idle" /\ result' = "EOF")
    BY <1>2, <2>1 DEF Fails
  <2> QED BY <1>1, <1>2, <2>2, <2>3, ReadingTyped
<1> QED BY <1>4, <1>5

LEMMA InsideTyped == ASSUME Typed, ReadInside PROVE Typed'
<1>1. pc = "inside" /\ Consume /\ UNCHANGED <<encVars, wire, done, readErrors>>
  BY DEF ReadInside
<1>2. /\ AllLists(wire') /\ pos' \in 0 .. Len(wire') /\ readErrors' \in Nat /\ IsList(yielded)
      /\ failed \in BOOLEAN /\ ~done /\ done \in BOOLEAN
  BY <1>1, Consumed DEF Typed, TypeOK
<1>3. Fails \/ GoesOn \/ Yields
  BY InsideStep, InsideAtEnd
<1>4. done' = FALSE
  BY <1>1, <1>2
<1>5. pc' \in {"idle", "inside"} /\ ~(pc' = "idle" /\ result' = "EOF") /\ failed' \in BOOLEAN
  BY <1>2, <1>3 DEF Fails, GoesOn, Yields
<1>6. IsList(yielded')
  BY <1>2, <1>3, ListAppend DEF Fails, GoesOn, Yields
<1> QED BY <1>1, <1>2, <1>4, <1>5, <1>6, ReadingTyped

\* A line that is lost makes a file one line shorter, a line that is cut makes it no shorter.
LEMMA DamagedLength ==
    ASSUME NEW w, AllLists(w), NEW k \in 1 .. Len(w), NEW l
    PROVE  Len(RemoveAt(w, k)) = Len(w) - 1 /\ Len(ReplaceAt(w, k, l)) = Len(w)
<1>1. Len(w) \in Nat /\ k \in Nat /\ k - 1 \in 0 .. Len(w) /\ k \in 0 .. Len(w)
  BY ListType DEF AllLists
<1> DEFINE a == SubSeq(w, 1, k - 1)
           b == SubSeq(w, k + 1, Len(w))
<1>2. IsList(a) /\ Len(a) = k - 1 /\ IsList(b) /\ Len(b) = Len(w) - k
  BY <1>1, ListSplits DEF AllLists
<1>3. RemoveAt(w, k) = a \o b
  BY DEF RemoveAt
<1>4. ReplaceAt(w, k, l) = [w EXCEPT ![k] = l]
  BY DEF ReplaceAt
<1> HIDE DEF a, b
<1>5. Len(a \o b) = Len(a) + Len(b)
  BY <1>2, ListConcat
<1>6. Len([w EXCEPT ![k] = l]) = Len(w)
  <2>1. PICK S : w \in Seq(S)
    BY DEF AllLists, IsList
  <2>2. w \in Seq(S \cup {l})
    BY <2>1
  <2> QED BY <2>2
<1> QED BY <1>1, <1>2, <1>3, <1>4, <1>5, <1>6

LEMMA FailTyped == ASSUME Typed, ReadFails PROVE Typed'
<1>1. /\ pc \in {"outside", "inside"} /\ readErrors' = readErrors + 1
      /\ ReturnError("read error") /\ UNCHANGED <<encVars, pos, done>>
      /\ wire' \in {wire} \cup UNION {Damaged(k) : k \in ({pos + 2} \cup (IF pos = 0 THEN {1} ELSE {}))
                                                         \cap DOMAIN wire}
  BY DEF ReadFails
<1>2. /\ readErrors' \in Nat /\ IsList(yielded) /\ pc # "write" /\ ~done /\ done \in BOOLEAN
      /\ AllLists(wire) /\ Len(wire) \in Nat /\ DOMAIN wire = 1 .. Len(wire) /\ pos \in 0 .. Len(wire)
  <2>1. AllLists(wire) /\ IsList(yielded) /\ readErrors \in Nat /\ pos \in 0 .. Len(wire) /\ ~done
    BY <1>1 DEF Typed, TypeOK
  <2>2. done \in BOOLEAN
    BY DEF Typed, TypeOK
  <2>3. Len(wire) \in Nat /\ DOMAIN wire = 1 .. Len(wire)
    BY <2>1, ListType DEF AllLists
  <2>4. readErrors' \in Nat
    <3>1. readErrors' = readErrors + 1
      BY <1>1
    <3> QED BY ONLY <2>1, <3>1
  <2> QED BY <1>1, <2>1, <2>2, <2>3, <2>4
<1>3. AllLists(wire') /\ pos' \in 0 .. Len(wire')
  <2>1. CASE wire' = wire
    BY <1>1, <1>2, <2>1
  <2>2. CASE \E k \in ({pos + 2} \cup (IF pos = 0 THEN {1} ELSE {})) \cap DOMAIN wire : wire' \in Damaged(k)
    <3>1. PICK k \in ({pos + 2} \cup (IF pos = 0 THEN {1} ELSE {})) \cap DOMAIN wire : wire' \in Damaged(k)
      BY <2>2
    <3>2. k \in 1 .. Len(wire) /\ pos <= Len(wire) - 1
      BY <1>2, <3>1
    <3>3. AllLists(wire')
      BY <1>2, <3>1, DamagedLines
    <3>4. Len(wire') \in {Len(wire), Len(wire) - 1}
      <4>1. wire' = RemoveAt(wire, k) \/ wire' = ReplaceAt(wire, k, Tail(wire[k]))
        BY <3>1 DEF Damaged
      <4>2. \A l : Len(RemoveAt(wire, k)) = Len(wire) - 1 /\ Len(ReplaceAt(wire, k, l)) = Len(wire)
        BY <1>2, <3>2, DamagedLength
      <4> QED BY <4>1, <4>2
    <3>5. pos' = pos
      BY <1>1
    <3>6. pos \in 0 .. Len(wire')
      <4> DEFINE L == Len(wire)
                 M == Len(wire')
      <4>1. L \in Nat /\ pos \in 0 .. L /\ pos <= L - 1 /\ M \in {L, L - 1}
        BY <1>2, <3>2, <3>4
      <4> HIDE DEF L, M
      <4>2. pos \in 0 .. M
        BY ONLY <4>1
      <4> QED BY <4>2 DEF M
    <3> QED BY <3>3, <3>5, <3>6
  <2> QED BY <1>1, <2>1, <2>2
<1>4. pc' = "idle" /\ result' = "read error" /\ failed' = TRUE /\ yielded' = yielded /\ done' = FALSE
  BY <1>1, <1>2 DEF ReturnError, Return
<1> QED BY <1>1, <1>2, <1>3, <1>4, ReadingTyped

LEMMA StepTyped == ASSUME Typed, [Next]_vars PROVE Typed'
<1>1. CASE Next
  BY <1>1, EditTyped, EncodeTyped, CloseTyped, OpenTyped, CallTyped, OutsideTyped, InsideTyped, FailTyped
     DEF Next, Write, Read
<1>2. CASE UNCHANGED vars
  BY <1>2 DEF Typed, TypeOK, AtEOF, vars, encVars, readVars
<1> QED BY <1>1, <1>2

\* The two loops after a line that the pull parser has read.
LEMMA CallAgrees == ASSUME Typed, Agree, InBlock, CallNext PROVE Agree' /\ InBlock'
<1>1. /\ pc = "idle" /\ UNCHANGED <<wire, pos, yielded, failed, readErrors>>
      /\ cur' = EmptyCard /\ version' = << >>
      /\ (pc' = "idle" /\ result' = "EOF") \/ pc' = "outside"
  BY DEF CallNext
<1>2. Agree'
  BY <1>1 DEF Agree
<1>3. InBlock'
  BY <1>1 DEF InBlock
<1> QED BY <1>2, <1>3

LEMMA OutsideAgrees == ASSUME Typed, Agree, InBlock, ReadOutside PROVE Agree'
<1>1. pc = "outside" /\ Consume /\ UNCHANGED <<wire, readErrors>>
  BY DEF ReadOutside
<1>2. AllLists(wire) /\ pos \in 0 .. Len(wire) /\ Len(wire) \in Nat
  BY <1>1, Consumed DEF Typed
<1> DEFINE run == Run(ParseStart, Taken(wire, pos))
<1> SUFFICES ASSUME readErrors = 0
             PROVE  LET next == Run(ParseStart, Taken(wire, pos'))
                    IN  /\ ~failed' /\ pc' # "inside" => next = Closed(yielded')
                        /\ ~failed' /\ pc' = "inside" => next = Opened(yielded', cur', version')
                        /\ failed' => Parse(UngroupedAll(wire)).error # "nil"
  BY <1>1 DEF Agree
<1>3. /\ ~failed => run = Closed(yielded)
      /\ failed => Parse(UngroupedAll(wire)).error # "nil"
  BY <1>1 DEF Agree
<1>4. CASE AtEOF
  <2>1. pc' = "idle" /\ UNCHANGED <<yielded, failed>> /\ pos' = pos
    BY <1>1, <1>4, OutsideAtEnd, Consumed
  <2> QED BY <1>3, <2>1
<1>5. CASE ~AtEOF
  <2> DEFINE st == ParseStep(Closed(yielded), Ungrouped(NextLine))
             next == Run(ParseStart, Taken(wire, pos + 1))
  <2>1. pos' = pos + 1 /\ pos + 1 \in 1 .. Len(wire) /\ pos < Len(wire) /\ pos + 1 \in 0 .. Len(wire)
    <3>1. pos' = pos + 1 /\ pos + 1 \in 1 .. Len(wire)
      BY <1>1, <1>5, Consumed
    <3> QED BY <1>2, <3>1
  <2>2. next = ParseStep(run, Ungrouped(NextLine))
    BY <1>2, <2>1, TakenNext DEF NextLine
  <2>3. ~failed => next = st
    BY <1>3, <2>2
  <2>4. next.error # "nil" => Parse(UngroupedAll(wire)).error # "nil"
    BY <1>2, <2>1, TakenRest, ParseCases
  <2>5. \/ Fails /\ st.error # "nil"
        \/ pc' = "outside" /\ UNCHANGED <<failed, yielded, cur, version>> /\ st = Closed(yielded)
        \/ /\ pc' = "inside" /\ UNCHANGED <<failed, yielded, cur, version>>
           /\ EqualFold(NextLine, BeginCard) /\ st = Opened(yielded, EmptyCard, << >>)
    BY <1>5, OutsideStep
  <2>6. cur = EmptyCard /\ version = << >>
    BY <1>1 DEF InBlock
  <2> HIDE DEF st, next
  <2>7. CASE failed
    <3>1. failed'
      BY <2>5, <2>7 DEF Fails
    <3> QED BY <1>3, <2>1, <2>7, <3>1 DEF next
  <2>8. CASE ~failed /\ Fails /\ st.error # "nil"
    BY <2>1, <2>3, <2>4, <2>8 DEF Fails, next
  <2>9. CASE ~failed /\ ~(Fails /\ st.error # "nil")
    BY <2>1, <2>3, <2>5, <2>6, <2>9 DEF next
  <2> QED BY <2>7, <2>8, <2>9
<1> QED BY <1>4, <1>5

LEMMA InsideAgrees == ASSUME Typed, Agree, ReadInside PROVE Agree'
<1>1. pc = "inside" /\ Consume /\ UNCHANGED <<wire, readErrors>>
  BY DEF ReadInside
<1>2. AllLists(wire) /\ pos \in 0 .. Len(wire) /\ Len(wire) \in Nat
  BY <1>1, Consumed DEF Typed
<1> DEFINE run == Run(ParseStart, Taken(wire, pos))
<1> SUFFICES ASSUME readErrors = 0
             PROVE  LET next == Run(ParseStart, Taken(wire, pos'))
                    IN  /\ ~failed' /\ pc' # "inside" => next = Closed(yielded')
                        /\ ~failed' /\ pc' = "inside" => next = Opened(yielded', cur', version')
                        /\ failed' => Parse(UngroupedAll(wire)).error # "nil"
  BY <1>1 DEF Agree
<1>3. /\ ~failed => run = Opened(yielded, cur, version)
      /\ failed => Parse(UngroupedAll(wire)).error # "nil"
  BY <1>1 DEF Agree
<1>4. CASE AtEOF
  <2>1. Fails
    BY <1>4, InsideAtEnd
  <2>2. run = Opened(yielded, cur, version) => Parse(UngroupedAll(wire)).error # "nil"
    <3>1. Taken(wire, pos) = UngroupedAll(wire)
      BY <1>2, <1>4, TakenNext DEF AtEOF
    <3> QED BY <3>1, ParseCases
  <2> QED BY <1>3, <2>1, <2>2 DEF Fails
<1>5. CASE ~AtEOF
  <2> DEFINE st == ParseStep(Opened(yielded, cur, version), Ungrouped(NextLine))
             next == Run(ParseStart, Taken(wire, pos + 1))
  <2>1. pos' = pos + 1 /\ pos + 1 \in 1 .. Len(wire) /\ pos < Len(wire) /\ pos + 1 \in 0 .. Len(wire)
    <3>1. pos' = pos + 1 /\ pos + 1 \in 1 .. Len(wire)
      BY <1>1, <1>5, Consumed
    <3> QED BY <1>2, <3>1
  <2>2. next = ParseStep(run, Ungrouped(NextLine))
    BY <1>2, <2>1, TakenNext DEF NextLine
  <2>3. ~failed => next = st
    BY <1>3, <2>2
  <2>4. next.error # "nil" => Parse(UngroupedAll(wire)).error # "nil"
    BY <1>2, <2>1, TakenRest, ParseCases
  <2>5. \/ Fails /\ st.error # "nil"
        \/ GoesOn /\ st = Opened(yielded, cur', version')
        \/ Yields /\ st = Closed(Append(yielded, cur))
    BY <1>5, InsideStep
  <2> HIDE DEF st, next
  <2>6. CASE failed
    <3>1. failed'
      BY <2>5, <2>6 DEF Fails, GoesOn, Yields
    <3> QED BY <1>3, <2>1, <2>6, <3>1 DEF next
  <2>7. CASE ~failed /\ Fails /\ st.error # "nil"
    BY <2>1, <2>3, <2>4, <2>7 DEF Fails, next
  <2>8. CASE ~failed /\ GoesOn /\ st = Opened(yielded, cur', version')
    BY <2>1, <2>3, <2>8 DEF GoesOn, next
  <2>9. CASE ~failed /\ Yields /\ st = Closed(Append(yielded, cur))
    BY <2>1, <2>3, <2>9 DEF Yields, next
  <2> QED BY <2>5, <2>6, <2>7, <2>8, <2>9
<1> QED BY <1>4, <1>5

LEMMA OutsideBlock == ASSUME Typed, InBlock, ReadOutside PROVE InBlock'
<1>1. pc = "outside" /\ Consume /\ UNCHANGED wire
  BY DEF ReadOutside
<1>2. cur = EmptyCard /\ version = << >>
  BY <1>1 DEF InBlock
<1>3. CASE AtEOF
  <2>1. pc' = "idle" /\ result' = "EOF"
    BY <1>3, OutsideAtEnd
  <2> QED BY <2>1 DEF InBlock
<1>4. CASE ~AtEOF
  <2>1. /\ AllLists(wire) /\ pos \in Nat /\ pos' = pos + 1 /\ pos + 1 \in 1 .. Len(wire)
        /\ pos + 1 \in 1 .. pos + 1
    <3>1. AllLists(wire) /\ pos' = pos + 1 /\ pos + 1 \in 1 .. Len(wire) /\ pos \in 0 .. Len(wire)
      BY <1>1, <1>4, Consumed DEF Typed
    <3> QED BY <3>1
  <2> DEFINE st == ParseStep(Closed(<< >>), Ungrouped(NextLine))
  <2>2. \/ Fails
        \/ pc' = "outside" /\ UNCHANGED <<cur, version>>
        \/ /\ pc' = "inside" /\ UNCHANGED <<cur, version>>
           /\ EqualFold(NextLine, BeginCard) /\ st = Opened(<< >>, EmptyCard, << >>)
    BY <1>4, OutsideStep
  <2>3. CASE Fails
    BY <2>3 DEF Fails, InBlock
  <2>4. CASE pc' = "outside" /\ UNCHANGED <<cur, version>>
    BY <1>2, <2>4 DEF InBlock
  <2>5. CASE /\ pc' = "inside" /\ UNCHANGED <<cur, version>>
             /\ EqualFold(NextLine, BeginCard) /\ st = Opened(<< >>, EmptyCard, << >>)
    <3>1. Run(ParseStart, UngroupedAll(SubSeq(wire, pos + 1, pos + 1)))
            = ParseStep(ParseStart, Ungrouped(wire[pos + 1]))
      <4> DEFINE n == pos
      <4>1. n \in Nat /\ n + 1 \in 1 .. Len(wire) /\ n + 1 \in 1 .. n + 1
        BY <2>1
      <4> HIDE DEF n
      <4>2. Run(ParseStart, UngroupedAll(SubSeq(wire, n + 1, n + 1)))
              = ParseStep(Run(ParseStart, UngroupedAll(SubSeq(wire, n + 1, n))), Ungrouped(wire[n + 1]))
        BY <2>1, <4>1, BlockNext
      <4>3. Run(ParseStart, UngroupedAll(SubSeq(wire, n + 1, n))) = ParseStart
        BY <2>1, <4>1, BlockNext
      <4> QED BY <4>2, <4>3 DEF n
    <3>2. Run(ParseStart, UngroupedAll(SubSeq(wire, pos + 1, pos + 1))) = Opened(<< >>, cur', version')
      BY <1>2, <2>5, <3>1, ClosedIs DEF NextLine
    <3>3. EqualFold(wire[pos + 1], BeginCard)
      BY <2>5 DEF NextLine
    <3> QED BY <1>1, <2>1, <2>5, <3>2, <3>3 DEF InBlock
  <2> QED BY <2>2, <2>3, <2>4, <2>5
<1> QED BY <1>3, <1>4

LEMMA InsideBlock == ASSUME Typed, InBlock, ReadInside PROVE InBlock'
<1>1. pc = "inside" /\ Consume /\ UNCHANGED wire
  BY DEF ReadInside
<1>2. PICK from \in 1 .. pos :
            /\ EqualFold(wire[from], BeginCard)
            /\ Run(ParseStart, UngroupedAll(SubSeq(wire, from, pos))) = Opened(<< >>, cur, version)
  BY <1>1 DEF InBlock
<1>3. CASE AtEOF
  <2>1. Fails
    BY <1>3, InsideAtEnd
  <2> QED BY <2>1 DEF Fails, InBlock
<1>4. CASE ~AtEOF
  <2>1. /\ AllLists(wire) /\ pos \in Nat /\ pos' = pos + 1 /\ pos + 1 \in 1 .. Len(wire)
        /\ from \in 1 .. pos + 1
    <3>1. AllLists(wire) /\ pos' = pos + 1 /\ pos + 1 \in 1 .. Len(wire) /\ pos \in 0 .. Len(wire)
      BY <1>1, <1>4, Consumed DEF Typed
    <3> QED BY <3>1
  <2> DEFINE st == ParseStep(Opened(<< >>, cur, version), Ungrouped(NextLine))
             next == Run(ParseStart, UngroupedAll(SubSeq(wire, from, pos + 1)))
  <2>2. next = st
    <3>1. next = ParseStep(Run(ParseStart, UngroupedAll(SubSeq(wire, from, pos))), Ungrouped(wire[pos + 1]))
      BY <2>1, BlockNext
    <3> QED BY <1>2, <3>1 DEF NextLine
  <2>3. \/ Fails /\ st.error # "nil"
        \/ GoesOn /\ st = Opened(<< >>, cur', version')
        \/ Yields /\ st = Closed(Append(<< >>, cur))
    BY <1>4, InsideStep
  <2> HIDE DEF st
  <2>4. CASE Fails
    BY <2>4 DEF Fails, InBlock
  <2>5. CASE GoesOn /\ st = Opened(<< >>, cur', version')
    <3>1. next = Opened(<< >>, cur', version')
      BY <2>2, <2>5
    <3>2. pc' = "inside"
      BY <2>5 DEF GoesOn
    <3> QED BY <1>1, <1>2, <2>1, <3>1, <3>2 DEF InBlock
  <2>6. CASE Yields /\ st = Closed(Append(<< >>, cur))
    <3>1. Last(yielded') = cur
      BY <2>6, FrontAndLast DEF Yields, Typed
    <3>2. Append(<< >>, cur) = <<cur>>
      OBVIOUS
    <3>3. next = Closed(<<Last(yielded')>>)
      BY <2>2, <2>6, <3>1, <3>2
    <3>4. pc' = "idle"
      BY <2>6 DEF Yields
    <3> QED BY <1>1, <1>2, <2>1, <3>3, <3>4 DEF InBlock
  <2> QED BY <2>3, <2>4, <2>5, <2>6
<1> QED BY <1>3, <1>4

LEMMA FailAgrees == ASSUME Typed, ReadFails PROVE Agree' /\ InBlock'
<1>1. readErrors' # 0
  <2>1. readErrors \in Nat
    BY DEF Typed
  <2>2. readErrors' = readErrors + 1
    BY DEF ReadFails
  <2> QED BY ONLY <2>1, <2>2
<1>2. pc' = "idle" /\ result' = "read error"
  BY DEF ReadFails, ReturnError, Return
<1> QED BY <1>1, <1>2 DEF Agree, InBlock

LEMMA StepAgrees == ASSUME Typed, Agree, InBlock, [Next]_vars PROVE Agree' /\ InBlock'
<1>1. CASE Write
  <2>1. pc = "write"
    BY <1>1 DEF Write, Edit, Encode, Close, OpenFile
  <2>2. Typed'
    BY <1>1, StepTyped DEF Next
  <2> QED BY <1>1, <2>1, <2>2, WriteAgrees
<1>2. CASE Read
  BY <1>2, CallAgrees, OutsideAgrees, OutsideBlock, InsideAgrees, InsideBlock DEF Read
<1>3. CASE ReadFails
  BY <1>3, FailAgrees
<1>4. CASE UNCHANGED vars
  BY <1>4 DEF Agree, InBlock, vars, readVars
<1> QED BY <1>1, <1>2, <1>3, <1>4 DEF Next

LEMMA Invariant == Spec => [](Typed /\ Agree /\ InBlock)
<1>1. Init => Typed /\ Agree /\ InBlock
  BY TypedStarts, AgreeStarts
<1>2. (Typed /\ Agree /\ InBlock) /\ [Next]_vars => (Typed /\ Agree /\ InBlock)'
  BY StepTyped, StepAgrees
<1> QED BY <1>1, <1>2, PTL DEF Spec

-----------------------------------------------------------------------------
(* Escaping and back.                                                       *)

UnescapeState(u, after, out) == [unknown |-> u, after |-> after, out |-> out]

LEMMA UnescapeAtText ==
    ASSUME NEW u, NEW out, NEW c, c # BS
    PROVE  UnescapeStep(UnescapeState(u, "text", out), c) = UnescapeState(u, "text", Append(out, c))
<1>1. BS # "text"
  BY DEF BS
<1> QED BY <1>1 DEF UnescapeStep, UnescapeState

LEMMA UnescapeAtBackslash ==
    ASSUME NEW u, NEW out
    PROVE  UnescapeStep(UnescapeState(u, "text", out), BS) = UnescapeState(u, BS, out)
<1>1. BS # "text"
  BY DEF BS
<1> QED BY <1>1 DEF UnescapeStep, UnescapeState

LEMMA UnescapeAfter ==
    ASSUME NEW u, NEW out, NEW c
    PROVE  UnescapeStep(UnescapeState(u, BS, out), c) = UnescapeState(u, "text", out \o Unescape(c, u))
BY DEF UnescapeStep, UnescapeState

LEMMA UnescapePairs ==
    ASSUME NEW u
    PROVE  /\ \A c \in {BS, Comma, Semi} : Unescape(c, u) = <<c>>
           /\ Unescape("n", u) = <<LF>>
<1>1. "n" \notin {BS, Comma, Semi}
  BY Zenon DEF BS, Comma, Semi
<1>2. "N" \notin {BS, Comma, Semi}
  BY Zenon DEF BS, Comma, Semi
<1>3. ASSUME NEW c \in {BS, Comma, Semi} PROVE Unescape(c, u) = <<c>>
  <2>1. c \notin {"n", "N"}
    BY <1>1, <1>2
  <2> QED BY <2>1 DEF Unescape
<1>4. Unescape("n", u) = <<LF>>
  BY <1>1 DEF Unescape
<1> QED BY <1>3, <1>4

LEMMA EscapeCases ==
    ASSUME NEW c
    PROVE  \/ c \in {BS, Comma, Semi} /\ Escape(c) = <<BS, c>>
           \/ c = LF /\ Escape(c) = <<BS, "n">>
           \/ c # BS /\ Escape(c) = <<c>>
<1>1. LF \notin {BS, Comma, Semi}
  BY Zenon DEF BS, Comma, Semi, LF
<1>2. CASE c \in {BS, Comma, Semi}
  BY <1>1, <1>2 DEF Escape
<1>3. CASE c = LF
  BY <1>1, <1>3 DEF Escape
<1>4. CASE c \notin {BS, Comma, Semi} /\ c # LF
  BY <1>4 DEF Escape
<1> QED BY <1>2, <1>3, <1>4

\* A table with an entry for each element of a list, and one over a list that is one longer.
IsTable(f, s) == f = [k \in DOMAIN s |-> f[k]]

LEMMA TableAppend ==
    ASSUME NEW s, IsList(s), NEW e, NEW f, NEW g,
           IsTable(f, Append(s, e)), IsTable(g, s),
           \A k \in 1 .. Len(s) : f[k] = g[k]
    PROVE  IsList(g) /\ Len(g) = Len(s) /\ f = Append(g, f[Len(s) + 1])
<1> DEFINE n == Len(s)
           a == Append(s, e)
           b == Append(g, f[n + 1])
<1>1. n \in Nat /\ n + 1 \in Nat /\ DOMAIN s = 1 .. n /\ DOMAIN a = 1 .. n + 1
  <2>1. IsList(a) /\ Len(a) = n + 1
    BY ListAppend
  <2> QED BY <2>1, ListType
<1>2. f = [k \in 1 .. n + 1 |-> f[k]] /\ g = [k \in 1 .. n |-> g[k]]
  BY <1>1 DEF IsTable
<1> HIDE DEF n, a
<1>3. IsList(f) /\ Len(f) = n + 1 /\ IsList(g) /\ Len(g) = n
  BY ONLY <1>1, <1>2, TableIsList
<1>4. IsList(b) /\ Len(b) = n + 1 /\ b[n + 1] = f[n + 1] /\ \A i \in 1 .. n : b[i] = g[i]
  BY <1>3, ListAppend
<1>5. \A i \in 1 .. n : f[i] = g[i]
  BY DEF n
<1> HIDE DEF b
<1>6. ASSUME NEW i \in 1 .. n + 1 PROVE f[i] = b[i]
  <2>1. i \in 1 .. n \/ i = n + 1
    BY <1>1
  <2> QED BY <1>4, <1>5, <2>1
<1>7. f = b
  BY ONLY <1>3, <1>4, <1>6, ListEqual
<1> QED BY <1>3, <1>7 DEF b, n

LEMMA EscapeAppend ==
    ASSUME NEW s, IsList(s), NEW e
    PROVE  EscapeText(Append(s, e)) = EscapeText(s) \o Escape(e)
<1> DEFINE f == [k \in DOMAIN Append(s, e) |-> Escape(Append(s, e)[k])]
           g == [k \in DOMAIN s |-> Escape(s[k])]
<1>1. Len(s) \in Nat /\ DOMAIN s = 1 .. Len(s) /\ DOMAIN Append(s, e) = 1 .. Len(s) + 1
      /\ Append(s, e)[Len(s) + 1] = e /\ \A i \in 1 .. Len(s) : Append(s, e)[i] = s[i]
  BY ListAppend, ListType
<1>2. IsTable(f, Append(s, e)) /\ IsTable(g, s)
  BY DEF IsTable
<1>3. f[Len(s) + 1] = Escape(e) /\ \A i \in 1 .. Len(s) : f[i] = g[i]
  BY <1>1
<1> HIDE DEF f, g
<1>4. IsList(g) /\ f = Append(g, Escape(e))
  <2>1. \A k \in 1 .. Len(s) : f[k] = g[k]
    BY <1>3
  <2>2. IsList(g) /\ f = Append(g, f[Len(s) + 1])
    BY ONLY IsList(s), <1>2, <2>1, TableAppend
  <2> QED BY <1>3, <2>2
<1>5. FlattenSeq(Append(g, Escape(e))) = FlattenSeq(g) \o Escape(e)
  BY <1>4, EscapeIsList, FlattenAppend
<1> QED BY <1>4, <1>5 DEF EscapeText, Escaped, f, g

\* A character that was escaped is one character again.
LEMMA UnescapeOne ==
    ASSUME NEW u, NEW out, IsList(out), NEW c
    PROVE  UnescapeRun(UnescapeState(u, "text", out), Escape(c)) = UnescapeState(u, "text", Append(out, c))
<1> DEFINE st == UnescapeState(u, "text", out)
<1>1. ASSUME NEW x PROVE UnescapeRun(st, <<BS, x>>) = UnescapeState(u, "text", out \o Unescape(x, u))
  <2>1. <<BS, x>> = Append(<<BS>>, x) /\ <<BS>> = Append(<< >>, BS)
    OBVIOUS
  <2>2. UnescapeRun(st, Append(<< >>, BS)) = UnescapeStep(UnescapeRun(st, << >>), BS)
    BY EmptyList, UnescapeRunAppend
  <2>3. UnescapeRun(st, << >>) = st
    BY UnescapeRunEmpty
  <2>4. UnescapeRun(st, <<BS>>) = UnescapeState(u, BS, out)
    BY <2>1, <2>2, <2>3, UnescapeAtBackslash
  <2>5. UnescapeRun(st, Append(<<BS>>, x)) = UnescapeStep(UnescapeRun(st, <<BS>>), x)
    BY SingleList, UnescapeRunAppend
  <2> QED BY <2>1, <2>4, <2>5, UnescapeAfter
<1>2. Append(out, c) = out \o <<c>>
  BY AppendIs
<1>3. CASE c \in {BS, Comma, Semi} /\ Escape(c) = <<BS, c>>
  BY <1>1, <1>2, <1>3, UnescapePairs
<1>4. CASE c = LF /\ Escape(c) = <<BS, "n">>
  BY <1>1, <1>2, <1>4, UnescapePairs
<1>5. CASE c # BS /\ Escape(c) = <<c>>
  <2>1. <<c>> = Append(<< >>, c)
    OBVIOUS
  <2>2. UnescapeRun(st, Append(<< >>, c)) = UnescapeStep(UnescapeRun(st, << >>), c)
    BY EmptyList, UnescapeRunAppend
  <2>3. UnescapeRun(st, << >>) = st
    BY UnescapeRunEmpty
  <2> QED BY <1>5, <2>1, <2>2, <2>3, UnescapeAtText
<1> QED BY <1>3, <1>4, <1>5, EscapeCases

LEMMA UnescapedIs ==
    ASSUME NEW u, NEW s, NEW t, UnescapeRun(UnescapeState(u, "text", << >>), s) = UnescapeState(u, "text", t)
    PROVE  Unescaped(s, u) = t
<1>1. UnescapeStart(u) = UnescapeState(u, "text", << >>)
  BY DEF UnescapeStart, UnescapeState
<1>2. UnescapeRun(UnescapeStart(u), s) = UnescapeState(u, "text", t)
  BY <1>1
<1>3. UnescapeState(u, "text", t).after = "text" /\ UnescapeState(u, "text", t).out = t /\ BS # "text"
  BY DEF UnescapeState, BS
<1> DEFINE end == FoldLeft(UnescapeStep, UnescapeStart(u), s)
<1>4. end = UnescapeState(u, "text", t)
  BY <1>2 DEF UnescapeRun
<1>5. Unescaped(s, u) = IF end.after = BS THEN Append(end.out, BS) ELSE end.out
  BY DEF Unescaped
<1> HIDE DEF end
<1> QED BY <1>3, <1>4, <1>5

\* What was escaped reads back.
LEMMA EscapesUndone ==
    ASSUME NEW u, NEW s, IsList(s)
    PROVE  Unescaped(EscapeText(s), u) = s
<1>1. PICK S : s \in Seq(S)
  BY DEF IsList
<1> DEFINE Good(r) == UnescapeRun(UnescapeState(u, "text", << >>), EscapeText(r)) = UnescapeState(u, "text", r)
           T == {r \in Seq(S) : Good(r)}
<1>2. EscapeText(<< >>) = << >>
  <2>1. [k \in DOMAIN << >> |-> Escape(<< >>[k])] = << >>
    OBVIOUS
  <2> QED BY <2>1, FlattenEmpty DEF EscapeText, Escaped
<1>3. << >> \in T
  BY <1>2, UnescapeRunEmpty
<1>4. ASSUME NEW r \in T, NEW e \in S PROVE Append(r, e) \in T
  <2>1. r \in Seq(S) /\ IsList(r) /\ Append(r, e) \in Seq(S) /\ Good(r)
    BY DEF IsList
  <2>2. EscapeText(Append(r, e)) = EscapeText(r) \o Escape(e)
    BY <2>1, EscapeAppend
  <2>3. UnescapeRun(UnescapeState(u, "text", << >>), EscapeText(r) \o Escape(e))
          = UnescapeRun(UnescapeRun(UnescapeState(u, "text", << >>), EscapeText(r)), Escape(e))
    BY <2>1, EscapedIsList, EscapeIsList, UnescapeRunConcat
  <2>4. UnescapeRun(UnescapeState(u, "text", r), Escape(e)) = UnescapeState(u, "text", Append(r, e))
    BY <2>1, UnescapeOne
  <2>5. Good(Append(r, e))
    BY <2>1, <2>2, <2>3, <2>4
  <2> QED BY <2>1, <2>5
<1>5. T \in SUBSET Seq(S)
  OBVIOUS
<1> HIDE DEF T
<1>6. \A r \in Seq(S) : r \in T
  BY <1>3, <1>4, <1>5, SeqInduct
<1>7. s \in T
  BY <1>1, <1>6
<1> QED BY <1>7, UnescapedIs DEF T

LEMMA UnescapeInverts ==
    ASSUME NEW s, IsList(s)
    PROVE  UnescapeText(EscapeText(s)) = s
BY EscapesUndone DEF UnescapeText

-----------------------------------------------------------------------------
(* Names, parameters and heads that read back.                              *)

\* None of these characters is in t.
Free(t, chars) == \A i \in 1 .. Len(t) : t[i] \notin chars

LEMMA HasIs ==
    ASSUME NEW t, IsList(t), NEW chars
    PROVE  ~Has(t, chars) <=> Free(t, chars)
<1>1. DOMAIN t = 1 .. Len(t)
  BY ListType
<1> QED BY <1>1 DEF Has, Free

LEMMA UpperSeparator ==
    ASSUME NEW a, NEW x \in {":", Semi, DQ, "=", "."}
    PROVE  UpperAtom(a) = x <=> a = x
<1>1. UpperAtom("=") = "=" /\ UpperAtom(":") = ":" /\ UpperAtom(".") = "."
  BY DEF UpperAtom, Cases
<1>2. UpperAtom(Semi) = Semi /\ UpperAtom(DQ) = DQ
  BY SeparatorCases
<1>3. x \notin {"UID", "VERSION", "KIND", "FN", "ORG", "END", "VCARD", "TYPE", "N"}
  BY SeparatorCases
<1>4. UpperAtom(a) = a \/ UpperAtom(a) \in {"UID", "VERSION", "KIND", "FN", "ORG", "END", "VCARD", "TYPE", "N"}
  BY AtomCases
<1> QED BY <1>1, <1>2, <1>3, <1>4

LEMMA UpperFree ==
    ASSUME NEW t, IsList(t), NEW chars \in SUBSET {":", Semi, DQ, "=", "."}, Free(t, chars)
    PROVE  Free(ToUpper(t), chars)
<1> SUFFICES ASSUME NEW i \in 1 .. Len(ToUpper(t)), ToUpper(t)[i] \in chars PROVE FALSE
  BY DEF Free
<1>1. i \in 1 .. Len(t) /\ ToUpper(t)[i] = UpperAtom(t[i])
  BY UpperOfList
<1>2. t[i] = ToUpper(t)[i]
  BY <1>1, UpperSeparator
<1> QED BY <1>1, <1>2 DEF Free

LEMMA FreeWhole ==
    ASSUME NEW t, IsList(t), NEW c, NEW chars, Free(t, chars), c \in chars, DQ \in chars
    PROVE  Whole(t, c)
<1>1. \A i \in 1 .. Len(t) : t[i] \notin {c, DQ}
  BY DEF Free
<1> QED BY <1>1, WholePlain

\* Quotes around a value go away again.
LEMMA UnwrapQuoted ==
    ASSUME NEW v, IsList(v)
    PROVE  Unwrapped(<<DQ>> \o v \o <<DQ>>) = v
<1> DEFINE d == <<DQ>>
           w == d \o v
           x == w \o d
           y == SubSeq(x, 2, Len(x) - 1)
<1>1. IsList(d) /\ Len(d) = 1 /\ d[1] = DQ
  BY SingleList
<1> HIDE DEF d
<1>2. IsList(w) /\ Len(w) = 1 + Len(v) /\ w[1] = DQ /\ \A i \in 1 .. Len(v) : w[1 + i] = v[i]
  <2>1. Len(d) = 1 /\ 1 \in 1 .. Len(d)
    BY <1>1
  <2>2. IsList(w) /\ Len(w) = Len(d) + Len(v) /\ (\A i \in 1 .. Len(d) : w[i] = d[i])
        /\ \A i \in 1 .. Len(v) : w[Len(d) + i] = v[i]
    <3>1. IsList(d)
      BY <1>1
    <3> QED BY ONLY IsList(v), <3>1, ListConcat
  <2> QED BY <1>1, <2>1, <2>2
<1> HIDE DEF w
<1>3. /\ IsList(x) /\ Len(x) = 2 + Len(v) /\ x[1] = DQ /\ x[2 + Len(v)] = DQ
      /\ \A i \in 1 .. Len(v) : x[1 + i] = v[i]
  <2>1. Len(v) \in Nat /\ 1 \in 1 .. Len(d) /\ 1 \in 1 .. Len(w)
    BY <1>1, <1>2, ListType
  <2>2. IsList(x) /\ Len(x) = Len(w) + Len(d) /\ (\A i \in 1 .. Len(w) : x[i] = w[i])
        /\ \A i \in 1 .. Len(d) : x[Len(w) + i] = d[i]
    <3>1. IsList(d) /\ IsList(w)
      BY <1>1, <1>2
    <3> QED BY ONLY <3>1, ListConcat
  <2>3. \A i \in 1 .. Len(v) : 1 + i \in 1 .. Len(w)
    BY <1>2, <2>1
  <2>4. x[Len(w) + 1] = DQ /\ Len(w) + 1 = 2 + Len(v)
    BY <1>1, <1>2, <2>1, <2>2
  <2> QED BY <1>1, <1>2, <2>1, <2>2, <2>3, <2>4
<1> HIDE DEF x
<1>4. IsList(y) /\ Len(y) = Len(v) /\ \A i \in 1 .. Len(v) : y[i] = x[2 + i - 1]
  <2> DEFINE n == Len(v) + 1
  <2>1. Len(v) \in Nat /\ n \in Nat /\ n <= Len(x) /\ 2 <= n + 1 /\ n - 2 + 1 = Len(v) /\ Len(x) - 1 = n
        /\ 2 \in Nat \ {0}
    BY <1>3, ListType
  <2> HIDE DEF n
  <2>2. IsList(SubSeq(x, 2, n)) /\ Len(SubSeq(x, 2, n)) = n - 2 + 1
        /\ \A i \in 1 .. n - 2 + 1 : SubSeq(x, 2, n)[i] = x[2 + i - 1]
    BY <1>3, <2>1, ListPart
  <2> QED BY <2>1, <2>2
<1>5. \A i \in 1 .. Len(v) : y[i] = v[i]
  <2>1. \A i \in 1 .. Len(v) : 2 + i - 1 = 1 + i
    BY ListType
  <2> QED BY <1>3, <1>4, <2>1
<1>6. Unwrapped(x) = y
  <2>1. Len(x) >= 2 /\ Last(x) = DQ
    BY <1>3, ListType DEF Last
  <2> QED BY <1>3, <2>1 DEF Unwrapped
<1> HIDE DEF y
<1>7. y = v
  BY ONLY IsList(v), <1>4, <1>5, ListEqual
<1> QED BY <1>6, <1>7 DEF x, w, d

\* A parameter value reads back, in quotes or without.
LEMMA FormatValueIs ==
    ASSUME NEW v, IsList(v), Free(v, {DQ})
    PROVE  /\ Whole(FormatParamValue(v), ":") /\ Whole(FormatParamValue(v), Semi)
           /\ Unwrapped(FormatParamValue(v)) = v
<1>1. \A i \in 1 .. Len(v) : v[i] # DQ
  BY DEF Free
<1>2. CASE Has(v, {Comma, Semi, ":"})
  <2>1. FormatParamValue(v) = <<DQ>> \o v \o <<DQ>>
    BY <1>2 DEF FormatParamValue
  <2> QED BY <1>1, <2>1, Separators, WholeQuoted, UnwrapQuoted
<1>3. CASE ~Has(v, {Comma, Semi, ":"})
  <2>1. FormatParamValue(v) = v
    BY <1>3 DEF FormatParamValue
  <2>2. Free(v, {Comma, Semi, ":"})
    BY <1>3, HasIs
  <2>3. (\A i \in 1 .. Len(v) : v[i] \notin {":", DQ}) /\ \A i \in 1 .. Len(v) : v[i] \notin {Semi, DQ}
    BY <1>1, <2>2 DEF Free
  <2>4. Unwrapped(v) = v
    <3>1. Len(v) \in Nat
      BY ListType
    <3>2. Len(v) >= 2 => v[1] # DQ
      BY <1>1, <3>1
    <3> QED BY <3>2 DEF Unwrapped
  <2> QED BY <2>1, <2>3, <2>4, WholePlain
<1> QED BY <1>2, <1>3

\* A parameter without the semicolon before it.
ParamBody(q) == ToUpper(q.name) \o <<"=">> \o FormatParamValue(q.value)

ReadsBack(q) ==
    LET b == ParamBody(q)
        eq == FirstUnquoted(b, "=")
    IN  /\ IsList(b) /\ b # << >> /\ ParamText(q) = <<Semi>> \o b
        /\ Whole(b, ":") /\ Whole(b, Semi)
        /\ eq \notin {0, 1} /\ Param(b, eq) = [name |-> ToUpper(q.name), value |-> q.value]
        /\ FirstEquals(b) = eq

\* Before the first equals sign there is none.
LEMMA FirstEqualsIs ==
    ASSUME NEW u, IsList(u), Free(u, {"="}), NEW f, IsList(f)
    PROVE  FirstEquals(Append(u, "=") \o f) = Len(u) + 1
<1> DEFINE a == Append(u, "=")
           b == a \o f
           n == Len(u) + 1
           at == {k \in DOMAIN b : b[k] = "="}
<1>1. IsList(a) /\ Len(a) = n /\ a[n] = "=" /\ (\A i \in 1 .. Len(u) : a[i] = u[i]) /\ n \in Nat \ {0}
  BY ListAppend, ListType
<1> HIDE DEF a
<1>2. IsList(b) /\ Len(b) = Len(a) + Len(f) /\ Len(f) \in Nat /\ \A i \in 1 .. Len(a) : b[i] = a[i]
  BY <1>1, ListConcat, ListType
<1> HIDE DEF b
<1>3. DOMAIN b = 1 .. Len(b)
  BY <1>2, ListType
<1>4. n \in at
  BY <1>1, <1>2, <1>3
<1>5. \A k \in at : n <= k
  <2> SUFFICES ASSUME NEW k \in at, ~(n <= k) PROVE FALSE
    OBVIOUS
  <2>1. k \in 1 .. Len(u)
    BY <1>1, <1>2, <1>3
  <2>2. b[k] = u[k] /\ b[k] = "="
    BY <1>1, <1>2, <2>1
  <2> QED BY <2>1, <2>2 DEF Free
<1>6. at \subseteq Nat
  BY <1>2, <1>3
<1> HIDE DEF at, n
<1>7. Min(at) = n
  <2>1. Min(at) \in at /\ \A y \in at : Min(at) <= y
    BY <1>4, <1>6, MinIs
  <2>2. Min(at) \in Nat /\ n \in Nat /\ Min(at) <= n /\ n <= Min(at)
    BY <1>4, <1>5, <1>6, <2>1
  <2> QED BY ONLY <2>2
<1>8. FirstEquals(b) = n
  <2>1. FirstEquals(b) = IF at = {} THEN 0 ELSE Min(at)
    BY DEF FirstEquals, at
  <2> QED BY <1>4, <1>7, <2>1
<1> QED BY <1>8 DEF n, b, a

LEMMA ParamReadsBack ==
    ASSUME NEW q, IsParam(q), WritableParam(q)
    PROVE  ReadsBack(q)
<1> DEFINE u == ToUpper(q.name)
           f == FormatParamValue(q.value)
           b == ParamBody(q)
           e == <<"=">>
<1>1. /\ IsList(u) /\ IsList(f) /\ IsList(e) /\ u # << >> /\ Len(u) \in Nat /\ Len(u) # 0
      /\ Free(u, {":", Semi, DQ, "="}) /\ Free(q.value, {DQ})
  <2>1. IsList(q.name) /\ IsList(q.value)
    BY DEF IsParam
  <2>2. q.name # << >> /\ Free(q.name, {":", Semi, DQ, LF, CR}) /\ Free(q.name, {"="}) /\ Free(q.value, {DQ, LF, CR})
    BY <2>1, HasIs DEF WritableParam, Plain
  <2>3. Free(q.name, {":", Semi, DQ, "="}) /\ Free(q.value, {DQ})
    BY <2>2 DEF Free
  <2>4. Len(q.name) # 0
    BY <2>1, <2>2, EmptyList, ListEqual
  <2>5. IsList(u) /\ Len(u) = Len(q.name) /\ Len(u) \in Nat
    BY <2>1, UpperOfList, ListType
  <2>6. Free(u, {":", Semi, DQ, "="})
    BY <2>1, <2>3, UpperFree
  <2>7. u # << >>
    BY <2>4, <2>5, EmptyList
  <2> QED BY <2>1, <2>3, <2>4, <2>5, <2>6, <2>7, FormatValueIsList, SingleList
<1>2. Whole(u, ":") /\ Whole(u, Semi) /\ Whole(u, "=")
  BY <1>1, FreeWhole
<1>3. Whole(e, ":") /\ Whole(e, Semi)
  BY Separators, WholeSingle
<1>4. Whole(f, ":") /\ Whole(f, Semi) /\ Unwrapped(f) = q.value
  <2>1. IsList(q.value)
    BY DEF IsParam
  <2> QED BY <1>1, <2>1, FormatValueIs
<1>5. b = Append(u, "=") \o f /\ b = (u \o e) \o f
  <2>1. Append(u, "=") = u \o e
    BY <1>1, AppendIs
  <2>2. b = (u \o e) \o f
    BY DEF ParamBody
  <2> QED BY <2>1, <2>2
<1>6. ParamText(q) = <<Semi>> \o b
  <2> DEFINE s == <<Semi>>
  <2>1. IsList(s)
    BY SingleList
  <2>2. ParamText(q) = ((s \o u) \o e) \o f
    BY DEF ParamText
  <2> HIDE DEF s, u, e, f, b
  <2>3. (s \o u) \o e = s \o (u \o e) /\ IsList(u \o e)
    BY <1>1, <2>1, ConcatAssoc, ListConcat
  <2>4. (s \o (u \o e)) \o f = s \o ((u \o e) \o f)
    BY <1>1, <2>1, <2>3, ConcatAssoc
  <2>5. ParamText(q) = s \o b
    BY <1>5, <2>2, <2>3, <2>4
  <2> QED BY <2>5 DEF s
<1> HIDE DEF u, f, b, e
<1>7. IsList(b) /\ Whole(b, ":") /\ Whole(b, Semi)
  <2>1. IsList(u \o e) /\ Whole(u \o e, ":") /\ Whole(u \o e, Semi)
    BY <1>1, <1>2, <1>3, ListConcat, WholeConcat
  <2>2. IsList((u \o e) \o f) /\ Whole((u \o e) \o f, ":") /\ Whole((u \o e) \o f, Semi)
    BY <1>1, <1>4, <2>1, ListConcat, WholeConcat
  <2> QED BY <1>5, <2>2
<1>8. FirstUnquoted(b, "=") = Len(u) + 1
  <2>1. IsList(u) /\ IsList(f) /\ Whole(u, "=") /\ b = Append(u, "=") \o f
    BY <1>1, <1>2, <1>5
  <2> QED BY ONLY <2>1, SplitAt
<1>9. Len(u) + 1 \notin {0, 1}
  BY <1>1
<1>10. SubSeq(b, 1, Len(u) + 1 - 1) = u /\ SubSeq(b, Len(u) + 1 + 1, Len(b)) = f
  <2>1. IsList(e \o f) /\ b = u \o (e \o f)
    <3>1. IsList(u) /\ IsList(e) /\ IsList(f)
      BY <1>1
    <3>2. IsList(e \o f) /\ (u \o e) \o f = u \o (e \o f)
      BY ONLY <3>1, ListConcat, ConcatAssoc
    <3> QED BY <1>5, <3>2
  <2>2. SubSeq(b, 1, Len(u)) = u
    BY <1>1, <2>1, ConcatParts
  <2>3. IsList(Append(u, "=")) /\ Len(Append(u, "=")) = Len(u) + 1
    BY <1>1, ListAppend
  <2>4. SubSeq(b, Len(u) + 1 + 1, Len(b)) = f
    <3> DEFINE a == Append(u, "=")
    <3>1. SubSeq(a \o f, Len(a) + 1, Len(a \o f)) = f
      BY <1>1, <2>3, ConcatParts
    <3> QED BY <1>5, <2>3, <3>1
  <2>5. Len(u) + 1 - 1 = Len(u)
    BY <1>1
  <2> QED BY <2>2, <2>4, <2>5
<1>11. Param(b, Len(u) + 1) = [name |-> u, value |-> q.value]
  <2> DEFINE eq == Len(u) + 1
  <2>1. SubSeq(b, 1, eq - 1) = u /\ Unwrapped(SubSeq(b, eq + 1, Len(b))) = q.value
    <3>1. SubSeq(b, 1, eq - 1) = u /\ SubSeq(b, eq + 1, Len(b)) = f
      BY ONLY <1>10 DEF eq
    <3> QED BY ONLY <1>4, <3>1
  <2>2. Param(b, eq) = [name |-> SubSeq(b, 1, eq - 1), value |-> Unwrapped(SubSeq(b, eq + 1, Len(b)))]
    BY DEF Param
  <2> HIDE DEF eq
  <2>3. Param(b, eq) = [name |-> u, value |-> q.value]
    BY <2>1, <2>2
  <2> QED BY <2>3 DEF eq
<1>12. b # << >>
  <2>1. IsList(Append(u, "=")) /\ Append(u, "=") # << >> /\ Len(Append(u, "=")) = Len(u) + 1
    BY <1>1, ListAppend
  <2>2. Len(Append(u, "=") \o f) = Len(Append(u, "=")) + Len(f) /\ Len(f) \in Nat
    BY <1>1, <2>1, ListConcat, ListType
  <2>3. Len(b) # 0
    BY <1>1, <1>5, <2>1, <2>2
  <2> QED BY <2>3, EmptyList
<1>13. FirstEquals(b) = Len(u) + 1
  <2>1. Free(u, {"="})
    BY <1>1 DEF Free
  <2>2. FirstEquals(Append(u, "=") \o f) = Len(u) + 1
    BY <1>1, <2>1, FirstEqualsIs
  <2> QED BY <1>5, <2>2
<1> QED BY <1>6, <1>7, <1>8, <1>9, <1>11, <1>12, <1>13 DEF ReadsBack, u, b

-----------------------------------------------------------------------------
(* The head of a property line.                                             *)

ParamBodies(params) == [k \in DOMAIN params |-> ParamBody(params[k])]

LEMMA ParamTextsAppend ==
    ASSUME NEW ps, IsList(ps), NEW q, IsParam(q)
    PROVE  ParamTexts(Append(ps, q)) = ParamTexts(ps) \o ParamText(q)
<1> DEFINE f == [k \in DOMAIN Append(ps, q) |-> ParamText(Append(ps, q)[k])]
           g == [k \in DOMAIN ps |-> ParamText(ps[k])]
<1>1. Len(ps) \in Nat /\ DOMAIN ps = 1 .. Len(ps) /\ DOMAIN Append(ps, q) = 1 .. Len(ps) + 1
      /\ Append(ps, q)[Len(ps) + 1] = q /\ \A i \in 1 .. Len(ps) : Append(ps, q)[i] = ps[i]
  BY ListAppend, ListType
<1>2. IsTable(f, Append(ps, q)) /\ IsTable(g, ps)
  BY DEF IsTable
<1>3. f[Len(ps) + 1] = ParamText(q) /\ \A i \in 1 .. Len(ps) : f[i] = g[i]
  BY <1>1
<1> HIDE DEF f, g
<1>4. IsList(g) /\ f = Append(g, ParamText(q))
  <2>1. \A i \in 1 .. Len(ps) : f[i] = g[i]
    BY <1>3
  <2>2. IsList(g) /\ f = Append(g, f[Len(ps) + 1])
    BY ONLY IsList(ps), <1>2, <2>1, TableAppend
  <2> QED BY <1>3, <2>2
<1>5. FlattenSeq(Append(g, ParamText(q))) = FlattenSeq(g) \o ParamText(q)
  BY <1>4, ParamTextIsList, FlattenAppend
<1> QED BY <1>4, <1>5 DEF ParamTexts, f, g

LEMMA ParamBodiesAppend ==
    ASSUME NEW ps, IsList(ps), NEW q
    PROVE  IsList(ParamBodies(ps)) /\ ParamBodies(Append(ps, q)) = Append(ParamBodies(ps), ParamBody(q))
<1> DEFINE f == [k \in DOMAIN Append(ps, q) |-> ParamBody(Append(ps, q)[k])]
           g == [k \in DOMAIN ps |-> ParamBody(ps[k])]
<1>1. Len(ps) \in Nat /\ DOMAIN ps = 1 .. Len(ps) /\ DOMAIN Append(ps, q) = 1 .. Len(ps) + 1
      /\ Append(ps, q)[Len(ps) + 1] = q /\ \A i \in 1 .. Len(ps) : Append(ps, q)[i] = ps[i]
  BY ListAppend, ListType
<1>2. IsTable(f, Append(ps, q)) /\ IsTable(g, ps)
  BY DEF IsTable
<1>3. f[Len(ps) + 1] = ParamBody(q) /\ \A i \in 1 .. Len(ps) : f[i] = g[i]
  BY <1>1
<1> HIDE DEF f, g
<1>4. IsList(g) /\ f = Append(g, ParamBody(q))
  <2>1. \A i \in 1 .. Len(ps) : f[i] = g[i]
    BY <1>3
  <2>2. IsList(g) /\ f = Append(g, f[Len(ps) + 1])
    BY ONLY IsList(ps), <1>2, <2>1, TableAppend
  <2> QED BY <1>3, <2>2
<1> QED BY <1>4 DEF ParamBodies, f, g

LEMMA ConcatPair ==
    ASSUME NEW s, NEW t, NEW u, NEW v, IsList(s), IsList(t), IsList(u), IsList(v)
    PROVE  s \o (t \o (u \o v)) = (s \o t) \o (u \o v)
<1>1. IsList(u \o v)
  BY ListConcat
<1> QED BY ONLY IsList(s), IsList(t), <1>1, ConcatAssoc

\* The loop that splits a head at semicolons, after a name and some parameters.
HeadSplits(n, ps) ==
    LET y == n \o ParamTexts(ps)
    IN  /\ IsList(y) /\ Whole(y, ":")
        /\ \E o, s : /\ IsList(o) /\ IsList(s) /\ Append(o, s) = <<n>> \o ParamBodies(ps)
                     /\ SplitRun(SplitStart(Semi), y) = SplitState(Semi, 0, o, s)

LEMMA HeadStarts ==
    ASSUME NEW n, IsList(n), Whole(n, ":"), Whole(n, Semi)
    PROVE  HeadSplits(n, << >>)
<1> DEFINE e == << >>
<1>1. ParamTexts(<< >>) = << >> /\ ParamBodies(<< >>) = << >>
  <2>1. [k \in DOMAIN << >> |-> ParamText(<< >>[k])] = << >> /\ [k \in DOMAIN << >> |-> ParamBody(<< >>[k])] = << >>
    OBVIOUS
  <2> QED BY <2>1, FlattenEmpty DEF ParamTexts, ParamBodies
<1>2. n \o << >> = n
  BY ListConcat, EmptyList
<1>3. <<n>> \o << >> = <<n>> /\ Append(<< >>, n) = <<n>>
  BY SingleList, ListConcat, EmptyList
<1>4. SplitRun(SplitStart(Semi), n) = SplitState(Semi, 0, << >>, n)
  BY DEF Whole
<1>5. \E o, s : /\ IsList(o) /\ IsList(s) /\ Append(o, s) = <<n>> \o << >>
                /\ SplitRun(SplitStart(Semi), n) = SplitState(Semi, 0, o, s)
  BY <1>3, <1>4, EmptyList
<1> QED BY <1>1, <1>2, <1>5 DEF HeadSplits

LEMMA HeadGrows ==
    ASSUME NEW n, IsList(n), NEW ps, IsList(ps), \A k \in 1 .. Len(ps) : IsParam(ps[k]),
           NEW q, IsParam(q), ReadsBack(q), HeadSplits(n, ps)
    PROVE  HeadSplits(n, Append(ps, q))
<1> DEFINE d == ParamTexts(ps)
           y == n \o d
           b == ParamBody(q)
           c == <<Semi>>
<1>1. IsList(d) /\ IsList(y) /\ Whole(y, ":")
  BY ParamTextsIsList DEF HeadSplits
<1>2. IsList(b) /\ Whole(b, ":") /\ Whole(b, Semi) /\ ParamText(q) = c \o b
  BY DEF ReadsBack
<1>3. PICK o, s : /\ IsList(o) /\ IsList(s) /\ Append(o, s) = <<n>> \o ParamBodies(ps)
                  /\ SplitRun(SplitStart(Semi), y) = SplitState(Semi, 0, o, s)
  BY DEF HeadSplits
<1>4. IsList(c) /\ Whole(c, ":")
  BY SingleList, Separators, WholeSingle
<1>5. ParamTexts(Append(ps, q)) = d \o (c \o b)
  BY <1>2, ParamTextsAppend
<1>6. n \o (d \o (c \o b)) = Append(y, Semi) \o b /\ Append(y, Semi) = y \o c /\ IsList(y \o c)
  <2> HIDE DEF d, b, c
  <2> HIDE DEF y
  <2>1. n \o (d \o (c \o b)) = (n \o d) \o (c \o b)
    <3>1. IsList(n) /\ IsList(d) /\ IsList(b) /\ IsList(c)
      BY <1>1, <1>2, <1>4
    <3>2. IsList(d)
      BY ONLY <3>1
    <3>6. IsList(n)
      BY ONLY <3>1
    <3>3. ASSUME NEW e, NEW f, IsList(e), IsList(f) PROVE n \o (f \o e) = (n \o f) \o e
      BY ONLY <3>3, <3>6, ConcatAssoc
    <3>4. IsList(c \o b)
      BY ONLY <3>1, ListConcat
    <3>5. n \o (d \o (c \o b)) = (n \o d) \o (c \o b)
      BY ONLY <3>2, <3>3, <3>4
    <3> QED BY ONLY <3>5
  <2>2. IsList(y \o c) /\ y \o (c \o b) = (y \o c) \o b
    <3>1. IsList(y) /\ IsList(b) /\ IsList(c)
      BY <1>1, <1>2, <1>4
    <3>2. IsList(y \o c)
      BY ONLY <3>1, ListConcat
    <3>3. y \o (c \o b) = (y \o c) \o b
      BY ONLY <3>1, ConcatAssoc
    <3> QED BY <3>2, <3>3
  <2>3. Append(y, Semi) = y \o c
    BY <1>1, AppendIs DEF c
  <2> QED BY <2>1, <2>2, <2>3 DEF y
<1> HIDE DEF y, b, c, d
<1> DEFINE z == Append(y, Semi) \o b
<1>7. IsList(z) /\ Whole(z, ":")
  <2>1. IsList(y \o c) /\ Whole(y \o c, ":")
    BY <1>1, <1>4, <1>6, WholeConcat
  <2>2. IsList((y \o c) \o b) /\ Whole((y \o c) \o b, ":")
    BY <1>2, <2>1, ListConcat, WholeConcat
  <2> QED BY <1>6, <2>2
<1>8. SplitRun(SplitStart(Semi), z) = SplitState(Semi, 0, Append(o, s), b)
  <2>1. IsList(y) /\ IsList(o) /\ IsList(s) /\ IsList(b) /\ Whole(b, Semi)
        /\ SplitRun(SplitStart(Semi), y) = SplitState(Semi, 0, o, s)
    BY <1>1, <1>2, <1>3
  <2> QED BY ONLY <2>1, SplitLast
<1>9. Append(Append(o, s), b) = <<n>> \o ParamBodies(Append(ps, q))
  <2> DEFINE m == <<n>>
             bs == ParamBodies(ps)
  <2>1. IsList(m) /\ IsList(bs) /\ ParamBodies(Append(ps, q)) = Append(bs, b)
    BY SingleList, ParamBodiesAppend DEF b
  <2>2. Append(o, s) = m \o bs
    BY <1>3
  <2> HIDE DEF m, bs
  <2>3. m \o Append(bs, b) = Append(m \o bs, b)
    BY <2>1, ConcatAppend
  <2> QED BY <2>1, <2>2, <2>3 DEF m
<1>10. IsList(Append(o, s))
  BY <1>3, ListAppend
<1>11. \E u, v : /\ IsList(u) /\ IsList(v) /\ Append(u, v) = <<n>> \o ParamBodies(Append(ps, q))
                 /\ SplitRun(SplitStart(Semi), z) = SplitState(Semi, 0, u, v)
  BY <1>2, <1>8, <1>9, <1>10 DEF b
<1>12. n \o ParamTexts(Append(ps, q)) = z
  BY <1>5, <1>6
<1> QED BY <1>7, <1>11, <1>12 DEF HeadSplits

LEMMA HeadIs ==
    ASSUME NEW n, IsList(n), Whole(n, ":"), Whole(n, Semi),
           NEW ps, IsList(ps), \A k \in 1 .. Len(ps) : IsParam(ps[k]) /\ ReadsBack(ps[k])
    PROVE  LET h == n \o ParamTexts(ps)
           IN  IsList(h) /\ Whole(h, ":") /\ SplitUnquoted(h, Semi) = <<n>> \o ParamBodies(ps)
<1> DEFINE S == {ps[k] : k \in 1 .. Len(ps)}
           T == {r \in Seq(S) : HeadSplits(n, r)}
<1>1. ps \in Seq(S)
  <2>1. PICK R : ps \in Seq(R)
    BY DEF IsList
  <2> QED BY <2>1
<1>2. \A q \in S : IsParam(q) /\ ReadsBack(q)
  OBVIOUS
<1> HIDE DEF S
<1>3. << >> \in T
  BY HeadStarts
<1>4. ASSUME NEW r \in T, NEW e \in S PROVE Append(r, e) \in T
  <2>1. r \in Seq(S) /\ HeadSplits(n, r) /\ Append(r, e) \in Seq(S)
    OBVIOUS
  <2>2. IsList(r) /\ \A k \in 1 .. Len(r) : IsParam(r[k])
    BY <1>2, <2>1 DEF IsList
  <2>3. HeadSplits(n, Append(r, e))
    BY <1>2, <2>1, <2>2, HeadGrows
  <2> QED BY <2>1, <2>3
<1>5. T \in SUBSET Seq(S)
  OBVIOUS
<1> HIDE DEF T
<1>6. \A r \in Seq(S) : r \in T
  BY <1>3, <1>4, <1>5, SeqInduct
<1>7. HeadSplits(n, ps)
  BY <1>1, <1>6 DEF T
<1> DEFINE h == n \o ParamTexts(ps)
<1>8. IsList(h) /\ Whole(h, ":")
  BY <1>7 DEF HeadSplits
<1>9. PICK o, s : /\ Append(o, s) = <<n>> \o ParamBodies(ps)
                  /\ SplitRun(SplitStart(Semi), h) = SplitState(Semi, 0, o, s)
  BY <1>7 DEF HeadSplits
<1> HIDE DEF h
<1>10. SplitUnquoted(h, Semi) = Append(o, s)
  <2>1. SplitRun(SplitStart(Semi), h) = SplitState(Semi, 0, o, s)
    BY <1>9
  <2> QED BY ONLY <2>1, SplitIs
<1> QED BY <1>8, <1>9, <1>10 DEF h

-----------------------------------------------------------------------------
(* Property lines that read back.                                           *)

LEMMA UpperTwice == ASSUME NEW a PROVE UpperAtom(UpperAtom(a)) = UpperAtom(a)
<1> DEFINE U == {"UID", "VERSION", "KIND", "FN", "ORG", "END", "VCARD", "TYPE", "N"}
<1>1. UpperAtom(a) = a \/ UpperAtom(a) \in U
  BY AtomCases
<1>2. \A u \in U : UpperAtom(u) = u
  BY DEF UpperAtom, Cases
<1> QED BY <1>1, <1>2

LEMMA FreeConcat ==
    ASSUME NEW s, NEW t, IsList(s), IsList(t), NEW chars
    PROVE  Free(s \o t, chars) <=> Free(s, chars) /\ Free(t, chars)
<1> DEFINE u == s \o t
<1>1. /\ IsList(u) /\ Len(u) = Len(s) + Len(t) /\ Len(s) \in Nat /\ Len(t) \in Nat
      /\ \A i \in 1 .. Len(s) : u[i] = s[i]
      /\ \A i \in 1 .. Len(t) : u[Len(s) + i] = t[i]
  BY ListConcat, ListType
<1> HIDE DEF u
<1>2. ASSUME Free(u, chars) PROVE Free(s, chars) /\ Free(t, chars)
  <2>1. \A i \in 1 .. Len(s) : s[i] \notin chars
    BY <1>1, <1>2 DEF Free
  <2>2. \A i \in 1 .. Len(t) : t[i] \notin chars
    <3>1. \A i \in 1 .. Len(t) : Len(s) + i \in 1 .. Len(u)
      BY <1>1
    <3> QED BY <1>1, <1>2, <3>1 DEF Free
  <2> QED BY <2>1, <2>2 DEF Free
<1>3. ASSUME Free(s, chars), Free(t, chars) PROVE Free(u, chars)
  <2> SUFFICES ASSUME NEW i \in 1 .. Len(u), u[i] \in chars PROVE FALSE
    BY DEF Free
  <2>1. CASE i \in 1 .. Len(s)
    BY <1>1, <1>3, <2>1 DEF Free
  <2>2. CASE i \notin 1 .. Len(s)
    <3>1. PICK j \in 1 .. Len(t) : i = Len(s) + j
      <4>1. i - Len(s) \in 1 .. Len(t) /\ i = Len(s) + (i - Len(s))
        BY <1>1, <2>2
      <4> QED BY <4>1
    <3> QED BY <1>1, <1>3, <3>1 DEF Free
  <2> QED BY <2>1, <2>2
<1> QED BY <1>2, <1>3 DEF u

\* The name that is written is the one that was given, but for case.
LEMMA NameReads ==
    ASSUME NEW n, IsList(n), Plain(n), GroupEnd(n) # 1
    PROVE  /\ IsList(NameText(n)) /\ NameText(n) # << >> /\ Len(NameText(n)) = Len(n)
           /\ Free(NameText(n), {":", Semi, DQ})
           /\ NameText(n) = SubSeq(n, 1, GroupEnd(n)) \o ToUpper(BareName(n))
           /\ ToUpper(NameText(n)) = ToUpper(n)
<1> DEFINE g == SubSeq(n, 1, GroupEnd(n))
           r == BareName(n)
           u == ToUpper(r)
           x == g \o u
<1>1. /\ IsList(g) /\ IsList(r) /\ n = g \o r /\ GroupEnd(n) \in Nat
      /\ Len(g) = GroupEnd(n)
  <2>1. GroupEnd(n) \in Nat
    BY GroupEndIs, ListType
  <2>2. IsList(g) /\ Len(g) = GroupEnd(n) /\ IsList(r) /\ n = g \o r
    BY NameSplits
  <2> QED BY <2>1, <2>2
<1>2. IsList(u) /\ Len(u) = Len(r) /\ \A i \in 1 .. Len(r) : u[i] = UpperAtom(r[i])
  BY <1>1, UpperOfList
<1> DEFINE SEP == {":", Semi, DQ}
<1>3. Free(n, SEP) /\ n # << >>
  <2>1. Free(n, {":", Semi, DQ, LF, CR}) /\ n # << >>
    BY HasIs DEF Plain
  <2> QED BY <2>1 DEF Free
<1>4. NameText(n) = x
  <2>1. CASE GroupEnd(n) > 1
    BY <2>1 DEF NameText
  <2>2. CASE ~(GroupEnd(n) > 1)
    <3>1. Len(g) = 0
      BY <1>1, <2>2
    <3> HIDE DEF g
    <3>2. g = << >>
      BY <1>1, <3>1, EmptyList, ListEqual
    <3> QED BY <2>2, <3>2 DEF NameText
  <2> QED BY <2>1, <2>2
<1> HIDE DEF g, r
<1>5. Free(g, SEP) /\ Free(r, SEP)
  <2> HIDE DEF SEP
  <2>1. IsList(g) /\ IsList(r) /\ Free(g \o r, SEP)
    BY <1>1, <1>3
  <2> QED BY ONLY <2>1, FreeConcat
<1>6. Free(u, SEP)
  BY <1>1, <1>5, UpperFree
<1> HIDE DEF u, SEP
<1>7. /\ IsList(x) /\ Len(x) = Len(g) + Len(u) /\ Free(x, SEP)
      /\ \A i \in 1 .. Len(g) : x[i] = g[i]
      /\ \A i \in 1 .. Len(u) : x[Len(g) + i] = u[i]
  <2>1. IsList(g) /\ IsList(u)
    BY <1>1, <1>2
  <2> QED BY <1>5, <1>6, <2>1, ListConcat, FreeConcat
<1>8. /\ Len(n) = Len(g) + Len(r)
      /\ \A i \in 1 .. Len(g) : n[i] = g[i]
      /\ \A i \in 1 .. Len(r) : n[Len(g) + i] = r[i]
  <2>1. IsList(g) /\ IsList(r)
    BY <1>1
  <2> DEFINE m == g \o r
  <2>2. /\ Len(m) = Len(g) + Len(r)
        /\ \A i \in 1 .. Len(g) : m[i] = g[i]
        /\ \A i \in 1 .. Len(r) : m[Len(g) + i] = r[i]
    BY <2>1, ListConcat
  <2> HIDE DEF m
  <2>3. n = m
    BY <1>1 DEF m
  <2> QED BY <2>2, <2>3
<1> HIDE DEF x
<1>9. Len(x) = Len(n) /\ Len(n) \in Nat /\ Len(g) \in Nat /\ Len(r) \in Nat
  BY <1>1, <1>2, <1>7, <1>8, ListType
<1>10. \A i \in 1 .. Len(n) : UpperAtom(x[i]) = UpperAtom(n[i])
  <2> SUFFICES ASSUME NEW i \in 1 .. Len(n) PROVE UpperAtom(x[i]) = UpperAtom(n[i])
    OBVIOUS
  <2>1. CASE i \in 1 .. Len(g)
    BY <1>7, <1>8, <2>1
  <2>2. CASE i \notin 1 .. Len(g)
    <3>1. PICK j \in 1 .. Len(r) : i = Len(g) + j
      <4>1. i - Len(g) \in 1 .. Len(r) /\ i = Len(g) + (i - Len(g))
        BY <1>8, <1>9, <2>2
      <4> QED BY <4>1
    <3>2. x[i] = u[j] /\ n[i] = r[j] /\ u[j] = UpperAtom(r[j])
      BY <1>2, <1>7, <1>8, <3>1
    <3> QED BY <3>2, UpperTwice
  <2> QED BY <2>1, <2>2
<1>11. ToUpper(x) = ToUpper(n)
  <2>1. /\ IsList(ToUpper(x)) /\ Len(ToUpper(x)) = Len(x) /\ \A i \in 1 .. Len(x) : ToUpper(x)[i] = UpperAtom(x[i])
        /\ IsList(ToUpper(n)) /\ Len(ToUpper(n)) = Len(n) /\ \A i \in 1 .. Len(n) : ToUpper(n)[i] = UpperAtom(n[i])
    BY <1>7, UpperOfList
  <2> DEFINE X == ToUpper(x)
             N == ToUpper(n)
  <2>2. \A i \in 1 .. Len(X) : X[i] = N[i]
    BY <1>9, <1>10, <2>1
  <2>3. IsList(X) /\ IsList(N) /\ Len(X) = Len(N)
    BY <1>9, <2>1
  <2> HIDE DEF X, N
  <2>4. X = N
    BY ONLY <2>2, <2>3, ListEqual
  <2> QED BY <2>4 DEF X, N
<1>12. x # << >>
  <2>1. Len(n) # 0
    BY <1>3, EmptyList, ListEqual
  <2> QED BY <1>9, <2>1, EmptyList
<1> QED BY <1>4, <1>7, <1>9, <1>11, <1>12 DEF SEP, x, g, u, r

\* Whatever comes after it, a property name that is neither is no delimiter of a card.
LEMMA NotDelimiter ==
    ASSUME NEW t, IsList(t), t # << >>, Free(t, {":", Semi, DQ}), NEW w, IsList(w),
           NEW d \in {"BEGIN", "END"}, ToUpper(t) # <<d>>
    PROVE  ~EqualFold(t \o w, <<d, ":", "VCARD">>)
<1> DEFINE l == t \o w
           e == <<d, ":", "VCARD">>
<1> SUFFICES ASSUME EqualFold(l, e) PROVE FALSE
  OBVIOUS
<1>1. IsList(l) /\ Len(l) = Len(t) + Len(w) /\ \A i \in 1 .. Len(t) : l[i] = t[i]
  BY ListConcat
<1>2. IsList(e) /\ Len(e) = 3 /\ e[1] = d /\ e[2] = ":"
  BY Triple
<1> HIDE DEF l, e
<1>3. ToUpper(l) = ToUpper(e)
  BY DEF EqualFold
<1>4. Len(l) = 3 /\ UpperAtom(l[1]) = UpperAtom(d) /\ UpperAtom(l[2]) = UpperAtom(":")
  <2>1. Len(ToUpper(l)) = Len(l) /\ Len(ToUpper(e)) = 3
    BY <1>1, <1>2, UpperOfList
  <2>2. /\ \A i \in 1 .. Len(l) : ToUpper(l)[i] = UpperAtom(l[i])
        /\ \A i \in 1 .. 3 : ToUpper(e)[i] = UpperAtom(e[i])
    BY <1>1, <1>2, UpperOfList
  <2> QED BY <1>2, <1>3, <2>1, <2>2
<1>5. UpperAtom(l[1]) = d /\ l[2] = ":"
  BY <1>4, AtomCases, UpperSeparator
<1>6. Len(t) \in Nat /\ Len(t) # 0
  BY ListType, EmptyList, ListEqual
<1>7. Len(t) = 1
  <2>1. \A i \in 1 .. Len(t) : t[i] # ":"
    BY DEF Free
  <2>2. SUFFICES ASSUME Len(t) # 1 PROVE FALSE
    OBVIOUS
  <2>3. 2 \in 1 .. Len(t)
    BY ONLY <1>6, <2>2
  <2>4. t[2] = l[2]
    BY <1>1, <2>3
  <2> QED BY <1>5, <2>1, <2>3, <2>4
<1>8. ToUpper(t) = <<d>>
  <2>1. IsList(ToUpper(t)) /\ Len(ToUpper(t)) = 1 /\ ToUpper(t)[1] = d
    BY <1>1, <1>5, <1>7, UpperOfList
  <2> DEFINE X == ToUpper(t)
             N == <<d>>
  <2>2. IsList(N) /\ Len(N) = 1 /\ N[1] = d
    BY SingleList
  <2> HIDE DEF X, N
  <2>3. \A i \in 1 .. Len(X) : X[i] = N[i]
    BY <2>1, <2>2 DEF X
  <2>4. IsList(X) /\ IsList(N) /\ Len(X) = Len(N)
    BY <2>1, <2>2 DEF X
  <2>5. X = N
    BY ONLY <2>3, <2>4, ListEqual
  <2> QED BY <2>5 DEF X, N
<1> QED BY <1>8

\* The segments of a line after its name are its parameters.
LEMMA BodiesAre ==
    ASSUME NEW ps, IsList(ps), \A k \in 1 .. Len(ps) : ReadsBack(ps[k]),
           NEW line, NEW n, Segments(line) = <<n>> \o ParamBodies(ps)
    PROVE  /\ Segments(line)[1] = n /\ ParamSegments(line) = ParamBodies(ps)
           /\ Tail(Segments(line)) = ParamBodies(ps)
<1> DEFINE bs == ParamBodies(ps)
<1>1. IsList(bs) /\ Len(bs) = Len(ps) /\ \A k \in 1 .. Len(ps) : bs[k] # << >>
  <2>1. DOMAIN ps = 1 .. Len(ps) /\ Len(ps) \in Nat
    BY ListType
  <2>2. bs = [k \in 1 .. Len(ps) |-> bs[k]]
    BY <2>1 DEF ParamBodies
  <2>3. \A k \in 1 .. Len(ps) : bs[k] = ParamBody(ps[k])
    BY <2>1 DEF ParamBodies
  <2> HIDE DEF bs
  <2>4. IsList(bs) /\ Len(bs) = Len(ps)
    BY ONLY <2>1, <2>2, TableIsList
  <2>5. \A k \in 1 .. Len(ps) : ParamBody(ps[k]) # << >>
    BY DEF ReadsBack
  <2> QED BY <2>3, <2>4, <2>5
<1> HIDE DEF bs
<1>2. Segments(line)[1] = n /\ Tail(Segments(line)) = bs
  <2> DEFINE m == <<n>> \o bs
  <2>1. m[1] = n /\ Tail(m) = bs
    BY <1>1, TailIs
  <2> HIDE DEF m
  <2>2. Segments(line) = m
    BY DEF bs, m
  <2> QED BY <2>1, <2>2
<1>3. ~(bs # << >> /\ Last(bs) = << >>)
  <2> SUFFICES ASSUME bs # << >>, Last(bs) = << >> PROVE FALSE
    OBVIOUS
  <2>1. Len(bs) \in Nat /\ Len(bs) # 0
    BY <1>1, ListType, EmptyList, ListEqual
  <2>2. Len(bs) \in 1 .. Len(ps)
    BY <1>1, <2>1
  <2> QED BY <1>1, <2>2 DEF Last
<1>4. ParamSegments(line) = bs
  BY <1>2, <1>3 DEF ParamSegments
<1> QED BY <1>2, <1>4 DEF bs

\* What comes after the name begins a parameter or the value.
LEMMA AfterName ==
    ASSUME NEW p, IsProp(p)
    PROVE  \E w, e : /\ IsList(w) /\ IsList(NameText(p.name))
                     /\ FormatProperty(p) = NameText(p.name) \o Append(w, e)
<1> DEFINE n == NameText(p.name)
           d == <<":">>
           t == ParamTexts(p.params)
           v == EscapeText(p.value)
           h == HeadText(p)
           u == d \o v
           w == t \o u
<1>1. IsList(n) /\ IsList(d) /\ IsList(t) /\ IsList(v) /\ IsList(h) /\ Len(d) = 1
  <2>1. IsList(p.name) /\ IsList(p.params) /\ \A k \in 1 .. Len(p.params) : IsParam(p.params[k])
    BY DEF IsProp
  <2>2. IsList(h) /\ IsList(v)
    BY FormatPropertyIs
  <2> QED BY <2>1, <2>2, NameTextIsList, ParamTextsIsList, SingleList
<1>2. h = n \o t /\ Append(h, ":") = h \o d /\ FormatProperty(p) = Append(h, ":") \o v
  BY <1>1, AppendIs, FormatPropertyIs DEF HeadText
<1> HIDE DEF n, d, t, v, h
<1>3. IsList(u) /\ IsList(w) /\ Len(w) # 0
  <2>0. IsList(d) /\ IsList(v)
    BY <1>1
  <2>1. IsList(u) /\ Len(u) = 1 + Len(v) /\ Len(v) \in Nat
    <3>1. IsList(d \o v) /\ Len(d \o v) = Len(d) + Len(v)
      BY ONLY <2>0, ListConcat
    <3> QED BY <1>1, <2>0, <3>1, ListType
  <2> HIDE DEF u
  <2>2. IsList(w) /\ Len(w) = Len(t) + Len(u) /\ Len(t) \in Nat
    BY <1>1, <2>1, ListConcat, ListType
  <2> HIDE DEF w
  <2> QED BY <2>1, <2>2
<1>4. FormatProperty(p) = n \o w
  <2>0. IsList(n) /\ IsList(t) /\ IsList(u) /\ IsList(h) /\ IsList(d) /\ IsList(v)
    BY <1>1, <1>3
  <2>1. (h \o d) \o v = h \o u
    BY ONLY <2>0, ConcatAssoc
  <2> HIDE DEF u
  <2>2. ASSUME NEW a, NEW b, NEW c, IsList(a), IsList(b), IsList(c)
        PROVE  (a \o b) \o c = a \o (b \o c)
    BY ConcatAssoc
  <2>3. (n \o t) \o u = n \o (t \o u)
    <3>1. IsList(n) /\ IsList(t) /\ IsList(u)
      BY <2>0
    <3> HIDE DEF w
    <3> QED BY <2>2, <3>1
  <2> QED BY <1>2, <2>1, <2>3
<1> HIDE DEF w
<1>5. \E r, e : IsList(r) /\ w = Append(r, e)
  BY <1>3, ListCases, EmptyList
<1> QED BY <1>1, <1>4, <1>5 DEF n

\* A property that can be written reads back.
PropertyReads(p) ==
    LET line == FormatProperty(p)
    IN  IsOther(line) /\ ~Rejects(line) /\ ParseContentLine(line) = OnWire(p)

LEMMA PropertyReadsBack ==
    ASSUME NEW p, IsProp(p), WritableProp(p)
    PROVE  PropertyReads(p)
<1> DEFINE n == NameText(p.name)
           ps == p.params
           bs == ParamBodies(ps)
           h == HeadText(p)
           v == EscapeText(p.value)
           line == FormatProperty(p)
<1>1. /\ IsList(p.name) /\ IsList(p.value) /\ IsList(ps) /\ DOMAIN ps = 1 .. Len(ps)
      /\ \A k \in 1 .. Len(ps) : IsParam(ps[k]) /\ WritableParam(ps[k])
  <2>1. IsList(p.name) /\ IsList(p.value) /\ IsList(ps) /\ \A k \in 1 .. Len(ps) : IsParam(ps[k])
    BY DEF IsProp
  <2>2. DOMAIN ps = 1 .. Len(ps)
    BY <2>1, ListType
  <2>3. \A k \in DOMAIN ps : WritableParam(ps[k])
    BY DEF WritableProp
  <2> QED BY <2>1, <2>2, <2>3
<1>2. /\ Plain(p.name) /\ GroupEnd(p.name) # 1
      /\ ToUpper(p.name) \notin {<<"BEGIN">>, <<"END">>}
  BY DEF WritableProp
<1>3. /\ IsList(n) /\ n # << >> /\ Free(n, {":", Semi, DQ})
      /\ n = SubSeq(p.name, 1, GroupEnd(p.name)) \o ToUpper(BareName(p.name))
      /\ ToUpper(n) = ToUpper(p.name)
  BY <1>1, <1>2, NameReads
<1>4. \A k \in 1 .. Len(ps) : IsParam(ps[k]) /\ ReadsBack(ps[k])
  BY <1>1, ParamReadsBack
<1>5. Whole(n, ":") /\ Whole(n, Semi)
  BY <1>3, FreeWhole
<1>6. IsList(ParamTexts(ps))
  BY <1>1, ParamTextsIsList
<1>7. IsList(v) /\ IsList(line) /\ line = Append(h, ":") \o v
  BY FormatPropertyIs
<1>8. IsList(h) /\ Whole(h, ":") /\ SplitUnquoted(h, Semi) = <<n>> \o bs
  <2>1. h = n \o ParamTexts(ps)
    BY DEF HeadText
  <2> DEFINE g == n \o ParamTexts(ps)
  <2> HIDE DEF n, ps
  <2>2. IsList(n) /\ IsList(ps)
    BY <1>1, <1>3
  <2>3. IsList(g) /\ Whole(g, ":") /\ SplitUnquoted(g, Semi) = <<n>> \o bs
    BY ONLY <2>2, <1>4, <1>5, HeadIs
  <2> QED BY <2>1, <2>3
<1> HIDE DEF n, h, v, line
<1>9. /\ FirstUnquoted(line, ":") # 0 /\ Value5545(line) = v
      /\ Segments(line) = <<n>> \o bs
  <2>1. /\ FirstUnquoted(line, ":") = Len(h) + 1 /\ Len(h) \in Nat /\ Value5545(line) = v
        /\ Segments(line) = SplitUnquoted(h, Semi)
    BY <1>7, <1>8, LineAt
  <2> QED BY <1>8, <2>1
<1>10. Segments(line)[1] = n /\ ParamSegments(line) = bs
  <2> HIDE DEF ps
  <2> QED BY <1>1, <1>4, <1>9, BodiesAre
<1>11. DOMAIN bs = DOMAIN ps /\ \A k \in DOMAIN ps : bs[k] = ParamBody(ps[k])
  BY DEF ParamBodies
<1> HIDE DEF bs
<1>12. \A k \in DOMAIN ps : /\ FirstUnquoted(bs[k], "=") \notin {0, 1}
                            /\ Param(bs[k], FirstUnquoted(bs[k], "="))
                                 = [name |-> ToUpper(ps[k].name), value |-> ps[k].value]
  BY <1>1, <1>4, <1>11 DEF ReadsBack
<1>13. ~Rejects(line)
  BY <1>3, <1>9, <1>10, <1>11, <1>12 DEF Rejects
<1>14. UnescapeText(v) = p.value
  BY <1>1, UnescapeInverts DEF v
<1>15. ParseContentLine(line) = OnWire(p)
  <2> DEFINE P == [k \in DOMAIN bs |-> Param(bs[k], FirstUnquoted(bs[k], "="))]
             Q == [k \in DOMAIN p.params |-> [name |-> ToUpper(p.params[k].name), value |-> p.params[k].value]]
  <2>1. P = Q
    BY <1>11, <1>12
  <2>2. ParseContentLine(line) = [name |-> n, params |-> P, value |-> UnescapeText(v)]
    BY <1>9, <1>10 DEF ParseContentLine
  <2>3. OnWire(p) = [name |-> n, params |-> Q, value |-> p.value]
    BY <1>3 DEF OnWire
  <2> QED BY <1>14, <2>1, <2>2, <2>3
<1>16. IsOther(line)
  <2>1. PICK r, e : IsList(r) /\ line = n \o Append(r, e)
    BY AfterName DEF line, n
  <2> DEFINE w == Append(r, e)
  <2>0. IsList(w) /\ line = n \o w
    BY <2>1, ListAppend
  <2>2. ToUpper(n) # <<"BEGIN">> /\ ToUpper(n) # <<"END">>
    BY <1>2, <1>3
  <2> HIDE DEF w
  <2>3. ~EqualFold(n \o w, <<"BEGIN", ":", "VCARD">>)
    BY <1>3, <2>0, <2>2, NotDelimiter
  <2>4. ~EqualFold(n \o w, <<"END", ":", "VCARD">>)
    BY <1>3, <2>0, <2>2, NotDelimiter
  <2>5. line # << >>
    <3>1. FirstUnquoted(<< >>, ":") = 0
      BY WholeEmpty, SplitWhole
    <3> QED BY <1>9, <3>1
  <2> QED BY <1>7, <2>0, <2>3, <2>4, <2>5 DEF IsOther, BeginCard, EndCard
<1> QED BY <1>13, <1>15, <1>16 DEF PropertyReads, line

-----------------------------------------------------------------------------
(* The lines before the properties.                                         *)

\* A text without a backslash has nothing to unescape.
LEMMA PlainUnescape ==
    ASSUME NEW s, IsList(s), \A i \in 1 .. Len(s) : s[i] # BS
    PROVE  UnescapeText(s) = s
<1> DEFINE S == {s[i] : i \in 1 .. Len(s)}
           Good(r) == UnescapeRun(UnescapeState(<<BS>>, "text", << >>), r) = UnescapeState(<<BS>>, "text", r)
           T == {r \in Seq(S) : Good(r)}
<1>1. s \in Seq(S) /\ \A e \in S : e # BS
  <2>1. PICK R : s \in Seq(R)
    BY DEF IsList
  <2> QED BY <2>1
<1> HIDE DEF S
<1>2. << >> \in T
  BY UnescapeRunEmpty
<1>3. ASSUME NEW r \in T, NEW e \in S PROVE Append(r, e) \in T
  <2>1. r \in Seq(S) /\ Good(r) /\ Append(r, e) \in Seq(S) /\ IsList(r) /\ e # BS
    BY <1>1 DEF IsList
  <2>2. UnescapeRun(UnescapeState(<<BS>>, "text", << >>), Append(r, e))
          = UnescapeStep(UnescapeRun(UnescapeState(<<BS>>, "text", << >>), r), e)
    BY <2>1, UnescapeRunAppend
  <2>3. UnescapeStep(UnescapeState(<<BS>>, "text", r), e) = UnescapeState(<<BS>>, "text", Append(r, e))
    BY <2>1, UnescapeAtText
  <2>4. Good(Append(r, e))
    BY <2>1, <2>2, <2>3
  <2> HIDE DEF Good
  <2> QED BY <2>1, <2>4
<1>4. T \in SUBSET Seq(S)
  OBVIOUS
<1> HIDE DEF T
<1>5. s \in T
  BY <1>1, <1>2, <1>3, <1>4, SeqInduct
<1> QED BY <1>5, UnescapedIs DEF T, UnescapeText

LEMMA LowerCases ==
    ASSUME NEW a
    PROVE  LowerAtom(LowerAtom(a)) = LowerAtom(a) /\ (a # BS => LowerAtom(a) # BS)
<1> DEFINE K == {"uid", "version", "kind", "fn", "org", "end", "vcard", "type", "n"}
<1>1. DOMAIN Cases = K
  BY DEF Cases
<1>2. \A l \in K, k \in K : Cases[k] # l
  BY DEF Cases
<1>3. \A l \in K : LowerAtom(l) = l
  BY <1>1, <1>2 DEF LowerAtom
<1>4. LowerAtom(a) = a \/ LowerAtom(a) \in K
  BY <1>1 DEF LowerAtom
<1>5. \A l \in K : l # BS
  BY Zenon DEF BS
<1> QED BY <1>3, <1>4, <1>5

\* A kind reads back in lower case.
LEMMA KindReads ==
    ASSUME NEW kind, IsList(kind), ~Has(kind, {BS, LF, CR})
    PROVE  ToLower(UnescapeText(ToLower(kind))) = ToLower(kind)
<1> DEFINE L == ToLower(kind)
           M == ToLower(L)
<1>1. IsList(L) /\ Len(L) = Len(kind) /\ \A i \in 1 .. Len(kind) : L[i] = LowerAtom(kind[i])
  BY LowerIsList
<1>2. IsList(M) /\ Len(M) = Len(L) /\ \A i \in 1 .. Len(L) : M[i] = LowerAtom(L[i])
  BY <1>1, LowerIsList
<1>3. \A i \in 1 .. Len(kind) : kind[i] # BS
  <2>1. Free(kind, {BS, LF, CR})
    BY HasIs
  <2> QED BY <2>1 DEF Free
<1> HIDE DEF L, M
<1>4. UnescapeText(L) = L
  <2>1. \A i \in 1 .. Len(L) : L[i] # BS
    BY <1>1, <1>3, LowerCases
  <2> QED BY <1>1, <2>1, PlainUnescape
<1>5. M = L
  <2>1. \A i \in 1 .. Len(M) : M[i] = L[i]
    BY <1>1, <1>2, LowerCases
  <2>2. IsList(M) /\ IsList(L) /\ Len(M) = Len(L)
    BY <1>1, <1>2
  <2> QED BY ONLY <2>1, <2>2, ListEqual
<1> QED BY <1>4, <1>5 DEF M, L

\* A line of UID, KIND or VERSION, as it is written.
HeaderLine(a, v) == <<a, ":">> \o v

LEMMA PairIs == ASSUME NEW a, NEW b PROVE Append(<<a>>, b) = <<a, b>>
<1>1. <<a>> \in Seq({a, b}) /\ <<a, b>> \in Seq({a, b})
  OBVIOUS
<1>2. Append(<<a>>, b) \in Seq({a, b}) /\ Len(Append(<<a>>, b)) = 2 /\ Append(<<a>>, b)[1] = a /\ Append(<<a>>, b)[2] = b
  BY <1>1
<1>3. Len(<<a, b>>) = 2 /\ <<a, b>>[1] = a /\ <<a, b>>[2] = b
  OBVIOUS
<1> DEFINE s == Append(<<a>>, b)
           t == <<a, b>>
<1>4. IsList(s) /\ IsList(t) /\ Len(s) = Len(t)
  BY <1>1, <1>2, <1>3 DEF IsList
<1>5. \A i \in 1 .. Len(s) : s[i] = t[i]
  BY <1>2, <1>3
<1> HIDE DEF s, t
<1>6. s = t
  BY ONLY <1>4, <1>5, ListEqual
<1> QED BY <1>6 DEF s, t

LEMMA NoGroup ==
    ASSUME NEW a, a # "."
    PROVE  GroupEnd(<<a>>) = 0 /\ BareName(<<a>>) = <<a>>
<1> DEFINE s == <<a>>
<1>1. IsList(s) /\ Len(s) = 1 /\ s[1] = a
  BY SingleList
<1> HIDE DEF s
<1>2. GroupEnd(s) = 0
  <2>1. GroupEnd(s) \in 0 .. 1 /\ (GroupEnd(s) # 0 => s[GroupEnd(s)] = ".")
    BY <1>1, GroupEndIs
  <2> QED BY <1>1, <2>1
<1>3. BareName(s) = s
  BY <1>1, <1>2, NameSplits
<1> QED BY <1>2, <1>3 DEF s

LEMMA HeaderLineReads ==
    ASSUME NEW a \in {"UID", "KIND", "VERSION"}, NEW v, IsList(v)
    PROVE  LET line == HeaderLine(a, v)
           IN  /\ IsOther(line) /\ ~Rejects(line) /\ Ungrouped(line) = line
               /\ ParseContentLine(line).name = <<a>>
               /\ ParseContentLine(line).value = UnescapeText(v)
<1> DEFINE h == <<a>>
           c == <<":">>
           line == HeaderLine(a, v)
<1>1. IsReservedAtom(a) /\ UpperAtom(a) = a
  BY AtomCases DEF IsReservedAtom
<1>2. a \notin {":", Semi, "=", DQ, "."} /\ UpperAtom(a) \notin {"BEGIN", "END"}
  BY <1>1, ReservedAtom
<1>3. IsList(h) /\ h # << >> /\ Len(h) = 1 /\ h[1] = a /\ Whole(h, ":") /\ SplitUnquoted(h, Semi) = <<h>>
  <2>1. a \notin {":", Semi, DQ}
    BY <1>2
  <2> QED BY <2>1, SingleWhole, SingleList
<1>4. line = Append(h, ":") \o v
  <2>1. Append(h, ":") = <<a, ":">>
    BY PairIs
  <2> QED BY <2>1 DEF HeaderLine
<1>5. GroupEnd(h) = 0 /\ BareName(h) = h
  BY <1>2, NoGroup
<1>6. IsList(line) /\ Len(line) = 2 + Len(v) /\ line[1] = a
  <2> DEFINE g == <<a, ":">>
  <2>1. IsList(g) /\ Len(g) = 2 /\ g[1] = a
    BY EmptyList, PairList
  <2> HIDE DEF g
  <2>2. IsList(g \o v) /\ Len(g \o v) = Len(g) + Len(v) /\ \A i \in 1 .. Len(g) : (g \o v)[i] = g[i]
    BY <2>1, ListConcat
  <2>3. IsList(g \o v) /\ Len(g \o v) = 2 + Len(v) /\ (g \o v)[1] = a
    BY <2>1, <2>2
  <2> QED BY <2>3 DEF HeaderLine, g
<1> HIDE DEF h, line
<1>7. FirstUnquoted(line, ":") # 0 /\ Value5545(line) = v /\ Segments(line) = <<h>>
  <2>1. /\ FirstUnquoted(line, ":") = Len(h) + 1 /\ Value5545(line) = v
        /\ Segments(line) = SplitUnquoted(h, Semi)
    BY <1>3, <1>4, LineAt
  <2> QED BY <1>3, <2>1
<1>8. Segments(line)[1] = h /\ ParamSegments(line) = << >>
  <2>1. <<h>>[1] = h /\ Tail(<<h>>) = << >>
    OBVIOUS
  <2> QED BY <1>7, <2>1 DEF ParamSegments
<1>9. ~Rejects(line)
  BY <1>3, <1>7, <1>8 DEF Rejects
<1>10. ParseContentLine(line).name = h /\ ParseContentLine(line).value = UnescapeText(v)
  BY <1>7, <1>8 DEF ParseContentLine
<1>11. Ungrouped(line) = line
  <2>1. SubSeq(line, 1, Len(line)) = line
    BY <1>6, ListPrefix, ListType
  <2>2. GroupEnd(Segments(line)[1]) + 1 = 1
    BY <1>5, <1>8
  <2> QED BY <2>1, <2>2 DEF Ungrouped
<1>12. IsOther(line)
  <2>1. line # << >>
    BY <1>6, ListType, EmptyList
  <2>2. ~EqualFold(line, BeginCard) /\ ~EqualFold(line, EndCard)
    BY <1>2, <1>6, CardLine
  <2> QED BY <1>6, <2>1, <2>2 DEF IsOther
<1> QED BY <1>9, <1>10, <1>11, <1>12 DEF line, h

WithUID(c, u)  == [c EXCEPT !.uid = u]
WithKind(c, k) == [c EXCEPT !.kind = k]

LEMMA HeaderStep ==
    ASSUME NEW v, IsList(v), NEW cs, NEW c, NEW w
    PROVE  /\ ParseStep(Opened(cs, c, << >>), HeaderLine("VERSION", v)) = Opened(cs, c, UnescapeText(v))
           /\ ParseStep(Opened(cs, c, w), HeaderLine("UID", v))
                = Opened(cs, WithUID(c, UnescapeText(v)), w)
           /\ ParseStep(Opened(cs, c, w), HeaderLine("KIND", v))
                = Opened(cs, WithKind(c, ToLower(UnescapeText(v))), w)
<1>1. ASSUME NEW a \in {"UID", "KIND", "VERSION"}, NEW u
      PROVE  LET line == HeaderLine(a, v)
             IN  /\ Ungrouped(line) = line /\ PropertyStep(cs, c, u, line)
                 /\ ToUpper(BareName(ParseContentLine(line).name)) = <<a>>
                 /\ ParseContentLine(line).value = UnescapeText(v)
  <2> DEFINE line == HeaderLine(a, v)
  <2>1. /\ IsOther(line) /\ ~Rejects(line) /\ Ungrouped(line) = line
        /\ ParseContentLine(line).name = <<a>> /\ ParseContentLine(line).value = UnescapeText(v)
    BY HeaderLineReads
  <2>2. PropertyStep(cs, c, u, line)
    BY <2>1, StepProperty
  <2>3. a # "." /\ UpperAtom(a) = a
    BY AtomCases
  <2>4. BareName(<<a>>) = <<a>> /\ ToUpper(<<a>>) = <<a>>
    BY <2>3, NoGroup, UpperOfSingle
  <2> QED BY <2>1, <2>2, <2>4
<1>2. ParseStep(Opened(cs, c, << >>), HeaderLine("VERSION", v)) = Opened(cs, c, UnescapeText(v))
  BY <1>1 DEF PropertyStep
<1>3. ParseStep(Opened(cs, c, w), HeaderLine("UID", v)) = Opened(cs, WithUID(c, UnescapeText(v)), w)
  BY <1>1 DEF PropertyStep, WithUID
<1>4. ParseStep(Opened(cs, c, w), HeaderLine("KIND", v))
        = Opened(cs, WithKind(c, ToLower(UnescapeText(v))), w)
  BY <1>1 DEF PropertyStep, WithKind
<1> QED BY <1>2, <1>3, <1>4

\* Lines without groups bring the batch parser from one state to another.
Reads(st, lines, to) ==
    AllLists(lines) /\ Run(st, lines) = to /\ Run(st, UngroupedAll(lines)) = to

LEMMA ReadsNothing == ASSUME NEW st PROVE Reads(st, << >>, st)
BY AllEmpty, NoneUngrouped, RunEmpty DEF Reads

LEMMA ReadsAppend ==
    ASSUME NEW st, NEW lines, NEW mid, Reads(st, lines, mid),
           NEW l, IsList(l), Ungrouped(l) = l, NEW to, ParseStep(mid, l) = to
    PROVE  Reads(st, Append(lines, l), to)
<1>1. AllLists(lines) /\ IsList(lines) /\ Run(st, lines) = mid /\ Run(st, UngroupedAll(lines)) = mid
  BY DEF Reads, AllLists
<1>2. AllLists(Append(lines, l))
  BY <1>1, AllAppend
<1>3. Run(st, Append(lines, l)) = to
  BY <1>1, RunAppend
<1>4. Run(st, UngroupedAll(Append(lines, l))) = to
  <2> DEFINE u == UngroupedAll(lines)
  <2>1. IsList(u)
    BY <1>1, UngroupedLines
  <2>2. UngroupedAll(Append(lines, l)) = Append(u, l)
    BY <1>1, UngroupedAppend
  <2> HIDE DEF u
  <2>3. Run(st, Append(u, l)) = ParseStep(Run(st, u), l)
    BY <2>1, RunAppend
  <2> QED BY <1>1, <2>2, <2>3 DEF u
<1> QED BY <1>2, <1>3, <1>4 DEF Reads

LEMMA TripleIs ==
    ASSUME NEW a, NEW b, NEW c
    PROVE  <<a, b, c>> = Append(Append(Append(<< >>, a), b), c)
<1> DEFINE s == Append(Append(<<a>>, b), c)
           t == <<a, b, c>>
<1>1. <<a>> = Append(<< >>, a)
  OBVIOUS
<1>2. IsList(t) /\ Len(t) = 3 /\ t[1] = a /\ t[2] = b /\ t[3] = c
  BY Triple
<1>3. IsList(s) /\ Len(s) = 3 /\ s[1] = a /\ s[2] = b /\ s[3] = c
  <2> DEFINE r == <<a>>
             u == Append(r, b)
  <2>1. IsList(r) /\ Len(r) = 1 /\ r[1] = a
    BY SingleList
  <2> HIDE DEF r
  <2>2. IsList(u) /\ Len(u) = Len(r) + 1 /\ u[Len(r) + 1] = b /\ \A i \in 1 .. Len(r) : u[i] = r[i]
    BY <2>1, ListAppend
  <2>3. IsList(u) /\ Len(u) = 2 /\ u[1] = a /\ u[2] = b
    BY <2>1, <2>2
  <2> HIDE DEF u
  <2>4. /\ IsList(Append(u, c)) /\ Len(Append(u, c)) = Len(u) + 1 /\ Append(u, c)[Len(u) + 1] = c
        /\ \A i \in 1 .. Len(u) : Append(u, c)[i] = u[i]
    <3>1. IsList(u)
      BY <2>3
    <3> QED BY ONLY <3>1, ListAppend
  <2>5. /\ IsList(Append(u, c)) /\ Len(Append(u, c)) = 3 /\ Append(u, c)[3] = c
        /\ Append(u, c)[1] = a /\ Append(u, c)[2] = b
    BY <2>3, <2>4
  <2> QED BY <2>5 DEF u, r
<1> HIDE DEF s, t
<1>4. \A i \in 1 .. Len(s) : s[i] = t[i]
  BY <1>2, <1>3
<1>5. IsList(s) /\ IsList(t) /\ Len(s) = Len(t)
  BY <1>2, <1>3
<1>6. s = t
  BY ONLY <1>4, <1>5, ListEqual
<1> QED BY <1>1, <1>6 DEF s, t

\* What is left of a card, without its properties.
WireHead(card) == [uid |-> card.uid, kind |-> ToLower(card.kind), props |-> << >>]

LEMMA HeaderReads ==
    ASSUME NEW card, IsCard(card), ~Has(card.kind, {BS, LF, CR}), NEW cs
    PROVE  Reads(Closed(cs), HeaderLines(card), Opened(cs, WireHead(card), SupportedVersion))
<1> DEFINE lv == HeaderLine("VERSION", SupportedVersion)
           lu == HeaderLine("UID", EscapeText(card.uid))
           lk == HeaderLine("KIND", ToLower(card.kind))
           c1 == [uid |-> card.uid, kind |-> << >>, props |-> << >>]
           V  == SupportedVersion
           w1 == Append(<< >>, BeginCard)
           w2 == Append(w1, lv)
           w3 == Append(w2, lu)
           w4 == Append(w3, lk)
<1>1. IsList(card.uid) /\ IsList(card.kind) /\ IsList(EscapeText(card.uid)) /\ IsList(ToLower(card.kind)) /\ IsList(V)
  BY EscapedIsList, LowerIsList, DelimitersAreLines DEF IsCard
<1>2. /\ IsList(lv) /\ Ungrouped(lv) = lv /\ IsList(lu) /\ Ungrouped(lu) = lu
      /\ IsList(lk) /\ Ungrouped(lk) = lk
  BY <1>1, HeaderLineReads DEF IsOther
<1>3. UnescapeText(V) = V /\ UnescapeText(EscapeText(card.uid)) = card.uid
      /\ ToLower(UnescapeText(ToLower(card.kind))) = ToLower(card.kind)
  <2>1. \A i \in 1 .. Len(V) : V[i] # BS
    <3>1. "4.0" # BS
      BY Zenon DEF BS
    <3>2. Len(V) = 1 /\ V[1] = "4.0"
      BY DEF SupportedVersion
    <3> QED BY <3>1, <3>2
  <2> QED BY <1>1, <2>1, PlainUnescape, UnescapeInverts, KindReads
<1>4. Reads(Closed(cs), w1, Opened(cs, EmptyCard, << >>))
  <2>1. IsList(BeginCard) /\ EqualFold(BeginCard, BeginCard) /\ Ungrouped(BeginCard) = BeginCard
    BY DelimitersAreLines, CardLine DEF EqualFold
  <2>2. ParseStep(Closed(cs), BeginCard) = Opened(cs, EmptyCard, << >>)
    BY <2>1, StepBegin
  <2> QED BY <2>1, <2>2, ReadsNothing, ReadsAppend
<1> HIDE DEF w1, lv, lu, lk
<1>5. Reads(Closed(cs), w2, Opened(cs, EmptyCard, V))
  <2>1. ParseStep(Opened(cs, EmptyCard, << >>), lv) = Opened(cs, EmptyCard, V)
    <3>1. IsList(V)
      BY <1>1
    <3>2. ParseStep(Opened(cs, EmptyCard, << >>), lv) = Opened(cs, EmptyCard, UnescapeText(V))
      BY ONLY <3>1, HeaderStep DEF lv
    <3> QED BY <1>3, <3>2
  <2> QED BY <1>2, <1>4, <2>1, ReadsAppend
<1> HIDE DEF w2
<1>6. Reads(Closed(cs), w3, Opened(cs, c1, V))
  <2>1. ParseStep(Opened(cs, EmptyCard, V), lu) = Opened(cs, WithUID(EmptyCard, card.uid), V)
    <3> DEFINE e == EscapeText(card.uid)
    <3>1. UnescapeText(e) = card.uid
      BY <1>3
    <3>0. IsList(e)
      BY <1>1
    <3> HIDE DEF e
    <3>2. ParseStep(Opened(cs, EmptyCard, V), HeaderLine("UID", e))
            = Opened(cs, WithUID(EmptyCard, UnescapeText(e)), V)
      BY ONLY <3>0, HeaderStep
    <3> QED BY <3>1, <3>2 DEF lu, e
  <2>2. WithUID(EmptyCard, card.uid) = c1
    BY DEF EmptyCard, WithUID
  <2> HIDE DEF c1
  <2> QED BY <1>2, <1>5, <2>1, <2>2, ReadsAppend
<1> HIDE DEF w3
<1>7. Reads(Closed(cs), w4, Opened(cs, WireHead(card), V))
  <2>1. ParseStep(Opened(cs, c1, V), lk) = Opened(cs, WithKind(c1, ToLower(card.kind)), V)
    <3> DEFINE e == ToLower(card.kind)
    <3>1. ToLower(UnescapeText(e)) = e
      BY <1>3
    <3>0. IsList(e)
      BY <1>1
    <3> HIDE DEF e, c1
    <3>2. ParseStep(Opened(cs, c1, V), HeaderLine("KIND", e))
            = Opened(cs, WithKind(c1, ToLower(UnescapeText(e))), V)
      BY ONLY <3>0, HeaderStep
    <3> QED BY <3>1, <3>2 DEF lk, e
  <2>2. WithKind(c1, ToLower(card.kind)) = WireHead(card)
    BY DEF WireHead, WithKind
  <2> HIDE DEF c1
  <2> QED BY <1>2, <1>6, <2>1, <2>2, ReadsAppend
<1>8. IsList(w3)
  BY <1>6 DEF Reads, AllLists
<1>9. HeaderLines(card) = w3 \o (IF card.kind = << >> THEN << >> ELSE <<lk>>)
  <2>1. <<BeginCard, lv, lu>> = w3
    BY TripleIs DEF w1, w2, w3
  <2>2. lk = KindLine(card.kind) /\ lv = <<"VERSION", ":">> \o V /\ lu = <<"UID", ":">> \o EscapeText(card.uid)
    BY DEF lk, lv, lu, KindLine, HeaderLine
  <2> QED BY <2>1, <2>2 DEF HeaderLines
<1>10. CASE card.kind = << >>
  <2>1. HeaderLines(card) = w3
    <3>1. w3 \o << >> = w3
      BY <1>8, ListConcat, EmptyList
    <3> QED BY <1>9, <1>10, <3>1
  <2>2. c1 = WireHead(card)
    <3>1. ToLower(<< >>) = << >>
      <4>1. Len(ToLower(<< >>)) = 0 /\ IsList(ToLower(<< >>))
        BY EmptyList, LowerIsList
      <4> QED BY <4>1, EmptyList, ListEqual
    <3> QED BY <1>10, <3>1 DEF WireHead
  <2> QED BY <1>6, <2>1, <2>2
<1>11. CASE card.kind # << >>
  <2>1. HeaderLines(card) = w4
    <3>1. w3 \o <<lk>> = w4
      BY <1>8, AppendIs
    <3> QED BY <1>9, <1>11, <3>1
  <2> QED BY <1>7, <2>1
<1> QED BY <1>10, <1>11

-----------------------------------------------------------------------------
(* The properties of a card.                                                *)

\* The name that is written has the bare name of the one that was given.
LEMMA BareReads ==
    ASSUME NEW n, IsList(n), Plain(n), GroupEnd(n) # 1
    PROVE  ToUpper(BareName(NameText(n))) = ToUpper(BareName(n))
<1> DEFINE x == NameText(n)
           g == SubSeq(n, 1, GroupEnd(n))
           u == ToUpper(BareName(n))
<1>1. IsList(x) /\ Len(x) = Len(n) /\ x = g \o u /\ ToUpper(x) = ToUpper(n)
  BY NameReads
<1>2. IsList(g) /\ Len(g) = GroupEnd(n) /\ IsList(BareName(n))
  BY NameSplits
<1>3. IsList(u) /\ ToUpper(u) = u
  <2> DEFINE r == BareName(n)
             w == ToUpper(r)
             y == ToUpper(w)
  <2>1. IsList(r)
    BY <1>2
  <2> HIDE DEF r
  <2>2. IsList(w) /\ Len(w) = Len(r) /\ \A i \in 1 .. Len(r) : w[i] = UpperAtom(r[i])
    BY <2>1, UpperOfList
  <2> HIDE DEF w
  <2>3. IsList(y) /\ Len(y) = Len(w) /\ \A i \in 1 .. Len(w) : y[i] = UpperAtom(w[i])
    BY <2>2, UpperOfList
  <2> HIDE DEF y
  <2>4. \A i \in 1 .. Len(y) : y[i] = w[i]
    BY <2>2, <2>3, UpperTwice
  <2>5. IsList(y) /\ IsList(w) /\ Len(y) = Len(w)
    BY <2>2, <2>3
  <2>6. y = w
    BY ONLY <2>4, <2>5, ListEqual
  <2> QED BY <2>2, <2>6 DEF y, w, r
<1> HIDE DEF x, g, u
<1>4. \A i \in 1 .. Len(n) : x[i] = "." <=> n[i] = "."
  <2> SUFFICES ASSUME NEW i \in 1 .. Len(n) PROVE x[i] = "." <=> n[i] = "."
    OBVIOUS
  <2>1. ToUpper(x)[i] = UpperAtom(x[i]) /\ ToUpper(n)[i] = UpperAtom(n[i])
    BY <1>1, UpperOfList
  <2> QED BY <1>1, <2>1, UpperSeparator
<1>5. GroupEnd(x) = GroupEnd(n)
  <2>1. /\ GroupEnd(n) \in 0 .. Len(n) /\ (GroupEnd(n) # 0 => n[GroupEnd(n)] = ".")
        /\ \A i \in 1 .. Len(n) : n[i] = "." => GroupEnd(n) # 0 /\ GroupEnd(n) <= i
    BY GroupEndIs
  <2>2. /\ GroupEnd(x) \in 0 .. Len(n) /\ (GroupEnd(x) # 0 => x[GroupEnd(x)] = ".")
        /\ \A i \in 1 .. Len(n) : x[i] = "." => GroupEnd(x) # 0 /\ GroupEnd(x) <= i
    <3>1. IsList(x)
      BY <1>1
    <3>2. /\ GroupEnd(x) \in 0 .. Len(x) /\ (GroupEnd(x) # 0 => x[GroupEnd(x)] = ".")
          /\ \A i \in 1 .. Len(x) : x[i] = "." => GroupEnd(x) # 0 /\ GroupEnd(x) <= i
      BY ONLY <3>1, GroupEndIs
    <3> QED BY <1>1, <3>2
  <2>3. Len(n) \in Nat
    BY ListType
  <2> DEFINE a == GroupEnd(x)
             b == GroupEnd(n)
             m == Len(n)
  <2> HIDE DEF a, b, m
  <2>4. /\ a \in 0 .. m /\ b \in 0 .. m /\ m \in Nat
        /\ (a # 0 => b # 0 /\ b <= a) /\ (b # 0 => a # 0 /\ a <= b)
    BY <1>4, <2>1, <2>2, <2>3 DEF a, b, m
  <2>5. a = b
    BY ONLY <2>4
  <2> QED BY <2>5 DEF a, b
<1>6. BareName(x) = u
  <2>1. SubSeq(g \o u, Len(g) + 1, Len(g \o u)) = u
    BY <1>2, <1>3, ConcatParts DEF g
  <2>2. Len(g) = GroupEnd(x)
    BY <1>2, <1>5 DEF g
  <2> QED BY <1>1, <2>1, <2>2 DEF BareName
<1> QED BY <1>3, <1>6 DEF x, u

\* A property that can be written has none of the names that a card has for itself.
LEMMA WritableName ==
    ASSUME NEW p, IsProp(p), WritableProp(p)
    PROVE  /\ OnWire(p).name = NameText(p.name) /\ ToUpper(NameText(p.name)) \notin Reserved
           /\ ToUpper(BareName(NameText(p.name))) # <<"VERSION">>
<1> DEFINE n == p.name
<1>1. /\ IsList(n) /\ Plain(n) /\ GroupEnd(n) # 1
      /\ ToUpper(n) \notin {<<"UID">>, <<"KIND">>} /\ ToUpper(BareName(n)) # <<"VERSION">>
  BY DEF IsProp, WritableProp
<1>2. OnWire(p).name = SubSeq(n, 1, GroupEnd(n)) \o ToUpper(BareName(n))
  BY DEF OnWire
<1> HIDE DEF n
<1>3. NameText(n) = SubSeq(n, 1, GroupEnd(n)) \o ToUpper(BareName(n)) /\ ToUpper(NameText(n)) = ToUpper(n)
  BY <1>1, NameReads
<1>4. ToUpper(n) # <<"VERSION">>
  <2> SUFFICES ASSUME ToUpper(n) = <<"VERSION">> PROVE FALSE
    OBVIOUS
  <2>1. PICK a : n = <<a>> /\ IsReservedAtom(a)
    BY <1>1, ReservedIs DEF Reserved
  <2>2. a # "."
    BY <2>1, ReservedAtom
  <2>3. BareName(<<a>>) = <<a>>
    BY <2>2, NoGroup
  <2> QED BY <1>1, <2>1, <2>3
<1>5. ToUpper(BareName(NameText(n))) = ToUpper(BareName(n))
  BY <1>1, BareReads
<1> QED BY <1>1, <1>2, <1>3, <1>4, <1>5 DEF Reserved, n

WithProp(c, p) == [c EXCEPT !.props = Append(@, p)]

\* What the batch parser makes of a property line.
LEMMA BatchProperty ==
    ASSUME NEW p, IsProp(p), WritableProp(p), NEW cs, NEW c, NEW v
    PROVE  /\ ParseStep(Opened(cs, c, v), FormatProperty(p)) = Opened(cs, WithProp(c, OnWire(p)), v)
           /\ \E d : ParseStep(Opened(cs, c, v), Ungrouped(FormatProperty(p))) = Opened(cs, d, v)
<1> DEFINE l == FormatProperty(p)
           q == OnWire(p)
           st == Opened(cs, c, v)
           name == ToUpper(BareName(q.name))
<1>1. IsOther(l) /\ ~Rejects(l) /\ ParseContentLine(l) = q
  BY PropertyReadsBack DEF PropertyReads
<1>2. ToUpper(q.name) \notin Reserved /\ name # <<"VERSION">>
  BY WritableName
<1> HIDE DEF l, q
<1>3. ParseStep(st, l) = ParseProperty(st, q)
  BY <1>1, StateFields DEF IsOther, ParseStep
<1>4. /\ ~EqualFold(q.name, <<"VERSION">>) /\ ~EqualFold(q.name, <<"UID">>)
      /\ ~EqualFold(q.name, <<"KIND">>)
  <2>1. ToUpper(<<"VERSION">>) = <<"VERSION">> /\ ToUpper(<<"UID">>) = <<"UID">> /\ ToUpper(<<"KIND">>) = <<"KIND">>
    BY UpperOfSingle, AtomCases
  <2> QED BY <1>2, <2>1 DEF Reserved, EqualFold
<1>5. ParseProperty(st, q) = Opened(cs, WithProp(c, q), v)
  <2>1. ParseProperty(st, q) = [st EXCEPT !.cur.props = Append(@, q)]
    BY <1>4 DEF ParseProperty
  <2> QED BY <2>1 DEF Opened, WithProp
<1>6. \E d : ParseStep(st, Ungrouped(l)) = Opened(cs, d, v)
  <2>1. PropertyStep(cs, c, v, l)
    BY <1>1, StepProperty
  <2> DEFINE t == ParseStep(st, Ungrouped(l))
  <2>2. /\ name = <<"UID">> => \E d : t = Opened(cs, d, v)
        /\ name = <<"KIND">> => \E d : t = Opened(cs, d, v)
        /\ name \notin Reserved => \E d : t = Opened(cs, d, v)
    BY <1>1, <2>1 DEF PropertyStep
  <2> HIDE DEF t, name
  <2> QED BY <1>2, <2>2 DEF Reserved, t
<1> QED BY <1>3, <1>5, <1>6 DEF l, q

Formatted(ps) == [k \in DOMAIN ps |-> FormatProperty(ps[k])]
Wired(ps)     == [k \in DOMAIN ps |-> OnWire(ps[k])]

LEMMA FormattedAppend ==
    ASSUME NEW ps, IsList(ps), NEW p
    PROVE  Formatted(Append(ps, p)) = Append(Formatted(ps), FormatProperty(p))
<1> DEFINE f == Formatted(Append(ps, p))
           g == Formatted(ps)
<1>1. Len(ps) \in Nat /\ DOMAIN ps = 1 .. Len(ps) /\ DOMAIN Append(ps, p) = 1 .. Len(ps) + 1
      /\ Append(ps, p)[Len(ps) + 1] = p /\ \A i \in 1 .. Len(ps) : Append(ps, p)[i] = ps[i]
  BY ListAppend, ListType
<1>2. IsTable(f, Append(ps, p)) /\ IsTable(g, ps)
  BY DEF IsTable, Formatted
<1>3. f[Len(ps) + 1] = FormatProperty(p) /\ \A i \in 1 .. Len(ps) : f[i] = g[i]
  BY <1>1 DEF Formatted
<1> HIDE DEF f, g
<1>4. \A i \in 1 .. Len(ps) : f[i] = g[i]
  BY <1>3
<1>5. f = Append(g, f[Len(ps) + 1])
  BY ONLY IsList(ps), <1>2, <1>4, TableAppend
<1> QED BY <1>3, <1>5 DEF f, g

LEMMA WiredAppend ==
    ASSUME NEW ps, IsList(ps), NEW p
    PROVE  Wired(Append(ps, p)) = Append(Wired(ps), OnWire(p))
<1> DEFINE f == Wired(Append(ps, p))
           g == Wired(ps)
<1>1. Len(ps) \in Nat /\ DOMAIN ps = 1 .. Len(ps) /\ DOMAIN Append(ps, p) = 1 .. Len(ps) + 1
      /\ Append(ps, p)[Len(ps) + 1] = p /\ \A i \in 1 .. Len(ps) : Append(ps, p)[i] = ps[i]
  BY ListAppend, ListType
<1>2. IsTable(f, Append(ps, p)) /\ IsTable(g, ps)
  BY DEF IsTable, Wired
<1>3. f[Len(ps) + 1] = OnWire(p) /\ \A i \in 1 .. Len(ps) : f[i] = g[i]
  BY <1>1 DEF Wired
<1> HIDE DEF f, g
<1>4. \A i \in 1 .. Len(ps) : f[i] = g[i]
  BY <1>3
<1>5. f = Append(g, f[Len(ps) + 1])
  BY ONLY IsList(ps), <1>2, <1>4, TableAppend
<1> QED BY <1>3, <1>5 DEF f, g

\* The batch parser is inside a card of such properties, with the groups or without.
PropsRead(cs, c, v, ps) ==
    LET st == Opened(cs, CardWith(c, << >>), v)
        lines == Formatted(ps)
    IN  /\ AllLists(lines)
        /\ Run(st, lines) = Opened(cs, CardWith(c, Wired(ps)), v)
        /\ \E d : Run(st, UngroupedAll(lines)) = Opened(cs, d, v)

LEMMA PropsReadNone == ASSUME NEW cs, NEW c, NEW v PROVE PropsRead(cs, c, v, << >>)
<1>1. Formatted(<< >>) = << >> /\ Wired(<< >>) = << >>
  <2>1. [k \in DOMAIN << >> |-> FormatProperty(<< >>[k])] = << >> /\ [k \in DOMAIN << >> |-> OnWire(<< >>[k])] = << >>
    OBVIOUS
  <2> QED BY <2>1 DEF Formatted, Wired
<1> QED BY <1>1, AllEmpty, NoneUngrouped, RunEmpty DEF PropsRead

LEMMA PropsReadNext ==
    ASSUME NEW cs, NEW c, NEW v, NEW ps, IsList(ps), PropsRead(cs, c, v, ps),
           NEW p, IsProp(p), WritableProp(p)
    PROVE  PropsRead(cs, c, v, Append(ps, p))
<1> DEFINE st == Opened(cs, CardWith(c, << >>), v)
           ls == Formatted(ps)
           l == FormatProperty(p)
           w == Wired(ps)
<1>1. AllLists(ls) /\ IsList(ls) /\ IsList(l)
  BY FormatPropertyIs DEF PropsRead, AllLists
<1>2. Run(st, ls) = Opened(cs, CardWith(c, w), v)
  BY DEF PropsRead
<1>3. PICK d : Run(st, UngroupedAll(ls)) = Opened(cs, d, v)
  BY DEF PropsRead
<1>4. Formatted(Append(ps, p)) = Append(ls, l) /\ Wired(Append(ps, p)) = Append(w, OnWire(p))
  BY FormattedAppend, WiredAppend
<1> HIDE DEF st, ls, w
<1>5. AllLists(Append(ls, l))
  BY <1>1, AllAppend
<1>6. Run(st, Append(ls, l)) = Opened(cs, CardWith(c, Append(w, OnWire(p))), v)
  <2>1. Run(st, Append(ls, l)) = ParseStep(Run(st, ls), l)
    BY <1>1, RunAppend
  <2>2. ParseStep(Opened(cs, CardWith(c, w), v), l) = Opened(cs, WithProp(CardWith(c, w), OnWire(p)), v)
    BY BatchProperty
  <2>3. WithProp(CardWith(c, w), OnWire(p)) = CardWith(c, Append(w, OnWire(p)))
    BY DEF WithProp, CardWith
  <2> QED BY <1>2, <2>1, <2>2, <2>3
<1>7. \E e : Run(st, UngroupedAll(Append(ls, l))) = Opened(cs, e, v)
  <2> DEFINE u == UngroupedAll(ls)
  <2>1. IsList(u)
    BY <1>1, UngroupedLines
  <2>2. UngroupedAll(Append(ls, l)) = Append(u, Ungrouped(l))
    BY <1>1, UngroupedAppend
  <2> HIDE DEF u
  <2>3. Run(st, Append(u, Ungrouped(l))) = ParseStep(Run(st, u), Ungrouped(l))
    BY <2>1, RunAppend
  <2>4. PICK e : ParseStep(Opened(cs, d, v), Ungrouped(l)) = Opened(cs, e, v)
    <3>1. \E e : ParseStep(Opened(cs, d, v), Ungrouped(FormatProperty(p))) = Opened(cs, e, v)
      BY ONLY IsProp(p), WritableProp(p), BatchProperty
    <3> QED BY <3>1
  <2>5. Run(st, u) = Opened(cs, d, v)
    BY <1>3 DEF u
  <2>6. Run(st, UngroupedAll(Append(ls, l))) = Opened(cs, e, v)
    BY <2>2, <2>3, <2>4, <2>5
  <2> QED BY <2>6
<1> QED BY <1>4, <1>5, <1>6, <1>7 DEF PropsRead, st

LEMMA PropsAreRead ==
    ASSUME NEW cs, NEW c, NEW v, NEW ps, IsList(ps),
           \A k \in 1 .. Len(ps) : IsProp(ps[k]) /\ WritableProp(ps[k])
    PROVE  PropsRead(cs, c, v, ps)
<1> DEFINE S == {ps[k] : k \in 1 .. Len(ps)}
           T == {r \in Seq(S) : PropsRead(cs, c, v, r)}
<1>1. ps \in Seq(S)
  <2>1. PICK R : ps \in Seq(R)
    BY DEF IsList
  <2> QED BY <2>1
<1>2. \A p \in S : IsProp(p) /\ WritableProp(p)
  OBVIOUS
<1> HIDE DEF S
<1>3. << >> \in T
  BY PropsReadNone
<1>4. ASSUME NEW r \in T, NEW e \in S PROVE Append(r, e) \in T
  <2>1. r \in Seq(S) /\ PropsRead(cs, c, v, r) /\ Append(r, e) \in Seq(S) /\ IsList(r)
    BY DEF IsList
  <2>2. PropsRead(cs, c, v, Append(r, e))
    BY <1>2, <2>1, PropsReadNext
  <2> QED BY <2>1, <2>2
<1>5. T \in SUBSET Seq(S)
  OBVIOUS
<1> HIDE DEF T
<1>6. ps \in T
  BY <1>1, <1>3, <1>4, <1>5, SeqInduct
<1> QED BY <1>6 DEF T

LEMMA UngroupedConcat ==
    ASSUME NEW s, AllLists(s), NEW t, AllLists(t)
    PROVE  /\ AllLists(s \o t) /\ UngroupedAll(s \o t) = UngroupedAll(s) \o UngroupedAll(t)
           /\ IsList(UngroupedAll(s)) /\ IsList(UngroupedAll(t))
<1> DEFINE a == UngroupedAll(s \o t)
           us == UngroupedAll(s)
           ut == UngroupedAll(t)
           b == us \o ut
           st == s \o t
<1>1. IsList(s) /\ IsList(t)
  BY DEF AllLists
<1>2. /\ IsList(st) /\ Len(st) = Len(s) + Len(t) /\ Len(s) \in Nat /\ Len(t) \in Nat
      /\ \A i \in 1 .. Len(s) : st[i] = s[i]
      /\ \A i \in 1 .. Len(t) : st[Len(s) + i] = t[i]
  BY <1>1, ListConcat, ListType
<1>3. AllLists(st)
  BY <1>1, AllConcat
<1>4. /\ IsList(us) /\ Len(us) = Len(s) /\ \A i \in 1 .. Len(s) : us[i] = Ungrouped(s[i])
      /\ IsList(ut) /\ Len(ut) = Len(t) /\ \A i \in 1 .. Len(t) : ut[i] = Ungrouped(t[i])
  BY UngroupedLines
<1> HIDE DEF st
<1>5. IsList(a) /\ Len(a) = Len(st) /\ \A i \in 1 .. Len(st) : a[i] = Ungrouped(st[i])
  BY <1>3, UngroupedLines DEF st
<1> HIDE DEF a, us, ut
<1>6. /\ IsList(b) /\ Len(b) = Len(us) + Len(ut)
      /\ \A i \in 1 .. Len(us) : b[i] = us[i]
      /\ \A i \in 1 .. Len(ut) : b[Len(us) + i] = ut[i]
  <2>1. IsList(us) /\ IsList(ut)
    BY <1>4
  <2> QED BY ONLY <2>1, ListConcat DEF b
<1> HIDE DEF b
<1>7. ASSUME NEW i \in 1 .. Len(a) PROVE a[i] = b[i]
  <2>0. i \in 1 .. Len(s) + Len(t)
    BY <1>2, <1>5
  <2>1. CASE i \in 1 .. Len(s)
    BY <1>2, <1>4, <1>5, <1>6, <2>1
  <2>2. CASE i \notin 1 .. Len(s)
    <3>1. PICK j \in 1 .. Len(t) : i = Len(s) + j
      <4>1. i - Len(s) \in 1 .. Len(t) /\ i = Len(s) + (i - Len(s))
        BY <1>2, <2>0, <2>2
      <4> QED BY <4>1
    <3>2. a[i] = Ungrouped(st[i]) /\ st[i] = t[j]
      BY <1>2, <1>5, <3>1
    <3>3. b[i] = ut[j] /\ ut[j] = Ungrouped(t[j])
      BY <1>4, <1>6, <3>1
    <3> QED BY <3>2, <3>3
  <2> QED BY <2>1, <2>2
<1>8. IsList(a) /\ IsList(b) /\ Len(a) = Len(b)
  BY <1>2, <1>4, <1>5, <1>6
<1>9. a = b
  BY ONLY <1>7, <1>8, ListEqual
<1> QED BY <1>3, <1>4, <1>9 DEF a, b, us, ut, st

-----------------------------------------------------------------------------
(* Cards, one after the other.                                              *)

\* The lines of a card make it a card again, and nothing else.
LEMMA CardReads ==
    ASSUME NEW card, IsCard(card), WritableCard(card), NEW cs
    PROVE  /\ Run(Closed(cs), EncodeCard(card)) = Closed(Append(cs, OnWireCard(card)))
           /\ \E d : Run(Closed(cs), UngroupedAll(EncodeCard(card))) = Closed(Append(cs, d))
<1> DEFINE hs == HeaderLines(card)
           ls == Formatted(card.props)
           w  == hs \o ls
           c  == WireHead(card)
           V  == SupportedVersion
           st == Closed(cs)
<1>1. /\ AllLists(hs) /\ Run(st, hs) = Opened(cs, c, V)
      /\ Run(st, UngroupedAll(hs)) = Opened(cs, c, V)
  <2>1. ~Has(card.kind, {BS, LF, CR})
    BY DEF WritableCard
  <2> QED BY <2>1, HeaderReads DEF Reads
<1>2. IsList(card.props) /\ \A k \in 1 .. Len(card.props) : IsProp(card.props[k]) /\ WritableProp(card.props[k])
  <2>1. IsList(card.props) /\ \A k \in 1 .. Len(card.props) : IsProp(card.props[k])
    BY DEF IsCard
  <2>2. DOMAIN card.props = 1 .. Len(card.props)
    BY <2>1, ListType
  <2> QED BY <2>1, <2>2 DEF WritableCard
<1>3. PropsRead(cs, c, V, card.props)
  BY <1>2, PropsAreRead
<1>4. CardWith(c, << >>) = c /\ CardWith(c, Wired(card.props)) = OnWireCard(card)
  BY DEF CardWith, WireHead, OnWireCard, Wired
<1>5. /\ AllLists(ls) /\ Run(Opened(cs, c, V), ls) = Opened(cs, OnWireCard(card), V)
      /\ \E d : Run(Opened(cs, c, V), UngroupedAll(ls)) = Opened(cs, d, V)
  <2> HIDE DEF c, ls
  <2>1. /\ AllLists(ls) /\ Run(Opened(cs, CardWith(c, << >>), V), ls) = Opened(cs, CardWith(c, Wired(card.props)), V)
        /\ \E d : Run(Opened(cs, CardWith(c, << >>), V), UngroupedAll(ls)) = Opened(cs, d, V)
    BY <1>3 DEF PropsRead, ls
  <2> QED BY <1>4, <2>1
<1>6. EncodeCard(card) = Append(w, EndCard)
  BY EncodedIsLines DEF PropLines, Formatted
<1>7. IsList(EndCard) /\ EqualFold(EndCard, EndCard) /\ Ungrouped(EndCard) = EndCard
  BY DelimitersAreLines, CardLine DEF EqualFold
<1>8. \A d : ParseStep(Opened(cs, d, V), EndCard) = Closed(Append(cs, d))
  BY <1>7, StepEnd
<1> HIDE DEF hs, ls, c, st
<1>9. AllLists(w) /\ IsList(w) /\ IsList(hs) /\ IsList(ls)
  BY <1>1, <1>5, AllConcat DEF AllLists
<1>10. Run(st, Append(w, EndCard)) = Closed(Append(cs, OnWireCard(card)))
  <2>1. Run(st, w) = Run(Run(st, hs), ls)
    BY <1>9, RunConcat
  <2>2. Run(st, w) = Opened(cs, OnWireCard(card), V)
    BY <1>1, <1>5, <2>1
  <2> HIDE DEF w
  <2>3. Run(st, Append(w, EndCard)) = ParseStep(Run(st, w), EndCard)
    BY <1>9, RunAppend
  <2> QED BY <1>8, <2>2, <2>3
<1>11. \E d : Run(st, UngroupedAll(Append(w, EndCard))) = Closed(Append(cs, d))
  <2> DEFINE uh == UngroupedAll(hs)
             ul == UngroupedAll(ls)
             u == UngroupedAll(w)
  <2>1. u = uh \o ul /\ IsList(uh) /\ IsList(ul) /\ IsList(u)
    BY <1>1, <1>5, <1>9, UngroupedConcat, UngroupedLines
  <2>2. PICK d : Run(Opened(cs, c, V), ul) = Opened(cs, d, V)
    BY <1>5
  <2>3. UngroupedAll(Append(w, EndCard)) = Append(u, EndCard)
    BY <1>7, <1>9, UngroupedAppend
  <2>4. Run(st, uh) = Opened(cs, c, V)
    BY <1>1
  <2> HIDE DEF uh, ul, u, w
  <2>5. Run(st, uh \o ul) = Run(Run(st, uh), ul)
    BY <2>1, RunConcat
  <2>6. Run(st, u) = Opened(cs, d, V)
    BY <2>1, <2>2, <2>4, <2>5
  <2>7. Run(st, Append(u, EndCard)) = ParseStep(Run(st, u), EndCard)
    BY <2>1, RunAppend
  <2> QED BY <1>8, <2>3, <2>6, <2>7
<1> QED BY <1>6, <1>10, <1>11 DEF st

LEMMA CardsNone == EncodedCards(<< >>) = << >>
<1>1. [k \in DOMAIN << >> |-> EncodeCard(<< >>[k])] = << >>
  OBVIOUS
<1> QED BY <1>1, FlattenEmpty DEF EncodedCards

LEMMA CardsAppend ==
    ASSUME NEW cards, IsList(cards), NEW c, IsCard(c)
    PROVE  EncodedCards(Append(cards, c)) = EncodedCards(cards) \o EncodeCard(c)
<1> DEFINE a == Append(cards, c)
           f == [k \in DOMAIN a |-> EncodeCard(a[k])]
           g == [k \in DOMAIN cards |-> EncodeCard(cards[k])]
           n == Len(cards)
<1>1. n \in Nat /\ DOMAIN cards = 1 .. n /\ DOMAIN a = 1 .. n + 1
      /\ a[n + 1] = c /\ \A i \in 1 .. n : a[i] = cards[i]
  BY ListAppend, ListType
<1>2. IsTable(f, a) /\ IsTable(g, cards)
  BY DEF IsTable
<1>3. f[n + 1] = EncodeCard(c) /\ \A i \in 1 .. n : f[i] = g[i]
  BY <1>1
<1> HIDE DEF f, g
<1>4. IsList(g) /\ f = Append(g, f[n + 1])
  <2>1. \A i \in 1 .. n : f[i] = g[i]
    BY <1>3
  <2> QED BY ONLY IsList(cards), <1>2, <2>1, TableAppend
<1>5. f = Append(g, EncodeCard(c))
  BY <1>3, <1>4
<1>6. IsList(EncodeCard(c))
  BY EncodedIsLines DEF AllLists
<1>7. FlattenSeq(Append(g, EncodeCard(c))) = FlattenSeq(g) \o EncodeCard(c)
  BY ONLY <1>4, <1>6, FlattenAppend
<1>8. EncodedCards(a) = FlattenSeq(f) /\ EncodedCards(cards) = FlattenSeq(g)
  BY DEF EncodedCards, f, g
<1> QED BY <1>5, <1>7, <1>8

\* The cards that are left of some cards.
WiredCards(cards) == [k \in DOMAIN cards |-> OnWireCard(cards[k])]

LEMMA WiredCardsAppend ==
    ASSUME NEW cards, IsList(cards), NEW c
    PROVE  WiredCards(Append(cards, c)) = Append(WiredCards(cards), OnWireCard(c))
<1> DEFINE f == WiredCards(Append(cards, c))
           g == WiredCards(cards)
<1>1. Len(cards) \in Nat /\ DOMAIN cards = 1 .. Len(cards) /\ DOMAIN Append(cards, c) = 1 .. Len(cards) + 1
      /\ Append(cards, c)[Len(cards) + 1] = c /\ \A i \in 1 .. Len(cards) : Append(cards, c)[i] = cards[i]
  BY ListAppend, ListType
<1>2. IsTable(f, Append(cards, c)) /\ IsTable(g, cards)
  BY DEF IsTable, WiredCards
<1>3. f[Len(cards) + 1] = OnWireCard(c) /\ \A i \in 1 .. Len(cards) : f[i] = g[i]
  BY <1>1 DEF WiredCards
<1> HIDE DEF f, g
<1>4. \A i \in 1 .. Len(cards) : f[i] = g[i]
  BY <1>3
<1>5. f = Append(g, f[Len(cards) + 1])
  BY ONLY IsList(cards), <1>2, <1>4, TableAppend
<1> QED BY <1>3, <1>5 DEF f, g

\* The lines of some cards make those cards again, and nothing else.
CardsRead(cards) ==
    LET lines == EncodedCards(cards)
    IN  /\ AllLists(lines)
        /\ Run(ParseStart, lines) = Closed(WiredCards(cards))
        /\ \E ds : Run(ParseStart, UngroupedAll(lines)) = Closed(ds)

LEMMA CardsReadNone == CardsRead(<< >>)
<1>1. WiredCards(<< >>) = << >>
  <2>1. [k \in DOMAIN << >> |-> OnWireCard(<< >>[k])] = << >>
    OBVIOUS
  <2> QED BY <2>1 DEF WiredCards
<1>2. ParseStart = Closed(<< >>)
  BY ClosedIs
<1> QED BY <1>1, <1>2, CardsNone, AllEmpty, NoneUngrouped, RunEmpty DEF CardsRead

LEMMA CardsReadNext ==
    ASSUME NEW cards, IsList(cards), CardsRead(cards), NEW c, IsCard(c), WritableCard(c)
    PROVE  CardsRead(Append(cards, c))
<1> DEFINE s == EncodedCards(cards)
           t == EncodeCard(c)
           w == WiredCards(cards)
<1>1. AllLists(s) /\ AllLists(t) /\ IsList(s) /\ IsList(t)
  BY EncodedIsLines DEF CardsRead, AllLists
<1>2. Run(ParseStart, s) = Closed(w)
  BY DEF CardsRead
<1>3. PICK ds : Run(ParseStart, UngroupedAll(s)) = Closed(ds)
  BY DEF CardsRead
<1>4. Run(Closed(w), t) = Closed(Append(w, OnWireCard(c)))
  BY CardReads
<1>5. PICK d : Run(Closed(ds), UngroupedAll(t)) = Closed(Append(ds, d))
  <2>1. \E d : Run(Closed(ds), UngroupedAll(EncodeCard(c))) = Closed(Append(ds, d))
    BY ONLY IsCard(c), WritableCard(c), CardReads
  <2> QED BY <2>1
<1>6. EncodedCards(Append(cards, c)) = s \o t /\ WiredCards(Append(cards, c)) = Append(w, OnWireCard(c))
  BY CardsAppend, WiredCardsAppend
<1> HIDE DEF s, t, w
<1>7. Run(ParseStart, s \o t) = Closed(Append(w, OnWireCard(c)))
  <2>1. Run(ParseStart, s \o t) = Run(Run(ParseStart, s), t)
    BY <1>1, RunConcat
  <2> QED BY <1>2, <1>4, <2>1
<1>8. AllLists(s \o t) /\ Run(ParseStart, UngroupedAll(s \o t)) = Closed(Append(ds, d))
  <2> DEFINE us == UngroupedAll(s)
             ut == UngroupedAll(t)
  <2>1. AllLists(s \o t) /\ UngroupedAll(s \o t) = us \o ut /\ IsList(us) /\ IsList(ut)
    BY <1>1, UngroupedConcat
  <2>2. Run(ParseStart, us) = Closed(ds) /\ Run(Closed(ds), ut) = Closed(Append(ds, d))
    BY <1>3, <1>5
  <2> HIDE DEF us, ut
  <2>3. Run(ParseStart, us \o ut) = Run(Run(ParseStart, us), ut)
    BY <2>1, RunConcat
  <2> QED BY <2>1, <2>2, <2>3
<1> QED BY <1>6, <1>7, <1>8 DEF CardsRead

LEMMA CardsAreRead ==
    ASSUME NEW cards, IsList(cards),
           \A k \in 1 .. Len(cards) : IsCard(cards[k]) /\ WritableCard(cards[k])
    PROVE  CardsRead(cards)
<1> DEFINE S == {cards[k] : k \in 1 .. Len(cards)}
           T == {r \in Seq(S) : CardsRead(r)}
<1>1. cards \in Seq(S)
  <2>1. PICK R : cards \in Seq(R)
    BY DEF IsList
  <2> QED BY <2>1
<1>2. \A c \in S : IsCard(c) /\ WritableCard(c)
  OBVIOUS
<1> HIDE DEF S
<1>3. << >> \in T
  BY CardsReadNone
<1>4. ASSUME NEW r \in T, NEW e \in S PROVE Append(r, e) \in T
  <2>1. r \in Seq(S) /\ CardsRead(r) /\ Append(r, e) \in Seq(S) /\ IsList(r)
    BY DEF IsList
  <2>2. CardsRead(Append(r, e))
    BY <1>2, <2>1, CardsReadNext
  <2> QED BY <2>1, <2>2
<1>5. T \in SUBSET Seq(S)
  OBVIOUS
<1> HIDE DEF T
<1>6. cards \in T
  BY <1>1, <1>3, <1>4, <1>5, SeqInduct
<1> QED BY <1>6 DEF T

-----------------------------------------------------------------------------
(* Files that were cut off.                                                 *)

\* The batch parser has made the cards ds; and it has failed, or has the cards cs and
\* perhaps more.
HasCards(st, ds) == st = Closed(ds) \/ \E c, v : st = Opened(ds, c, v)
Grown(cs, st) == \/ st.error # "nil"
                 \/ \E ds : IsList(ds) /\ Extends(ds, cs) /\ HasCards(st, ds)

LEMMA ExtendsAppend ==
    ASSUME NEW ds, IsList(ds), NEW cs, IsList(cs), Extends(ds, cs), NEW c
    PROVE  IsList(Append(ds, c)) /\ Extends(Append(ds, c), cs)
<1> DEFINE a == Append(ds, c)
<1>1. IsList(a) /\ Len(a) = Len(ds) + 1 /\ \A i \in 1 .. Len(ds) : a[i] = ds[i]
  BY ListAppend
<1>2. Len(ds) \in Nat /\ Len(cs) \in Nat /\ Len(cs) <= Len(ds) /\ \A i \in 1 .. Len(cs) : ds[i] = cs[i]
  BY ListType DEF Extends
<1> HIDE DEF a
<1>3. \A i \in 1 .. Len(cs) : a[i] = cs[i]
  BY <1>1, <1>2
<1>4. Len(cs) <= Len(a)
  BY <1>1, <1>2
<1> QED BY <1>1, <1>3, <1>4 DEF Extends, a

\* Only an END makes a card.
LEMMA StepCards ==
    ASSUME NEW ds, NEW st, HasCards(st, ds), NEW l, IsList(l)
    PROVE  LET u == ParseStep(st, Ungrouped(l))
           IN  \/ u.error # "nil"
               \/ HasCards(u, ds)
               \/ EqualFold(l, EndCard) /\ \E c : u = Closed(Append(ds, c))
<1>1. ASSUME st = Closed(ds)
      PROVE  LET u == ParseStep(st, Ungrouped(l)) IN u.error # "nil" \/ HasCards(u, ds)
  <2> DEFINE u == ParseStep(Closed(ds), Ungrouped(l))
  <2>1. \/ u.error # "nil" \/ u = Closed(ds) \/ u = Opened(ds, EmptyCard, << >>)
    <3>1. CASE l = << >>
      BY <3>1, StepBlank
    <3>2. CASE EqualFold(l, BeginCard)
      BY <3>2, StepBegin
    <3>3. CASE EqualFold(l, EndCard)
      BY <3>3, StepEnd
    <3>4. CASE l # << >> /\ ~EqualFold(l, BeginCard) /\ ~EqualFold(l, EndCard)
      BY <3>4, StepOutside DEF IsOther
    <3> QED BY <3>1, <3>2, <3>3, <3>4
  <2> HIDE DEF u
  <2>2. u.error # "nil" \/ HasCards(u, ds)
    BY <2>1 DEF HasCards
  <2> QED BY <1>1, <2>2 DEF u
<1>2. ASSUME NEW c, NEW v, st = Opened(ds, c, v)
      PROVE  LET u == ParseStep(st, Ungrouped(l))
             IN  \/ u.error # "nil"
                 \/ HasCards(u, ds)
                 \/ EqualFold(l, EndCard) /\ u = Closed(Append(ds, c))
  <2> DEFINE u == ParseStep(Opened(ds, c, v), Ungrouped(l))
  <2>1. \/ u.error # "nil"
        \/ EqualFold(l, EndCard) /\ u = Closed(Append(ds, c))
        \/ \E d, w : u = Opened(ds, d, w)
    <3>1. CASE l = << >>
      BY <3>1, StepBlank
    <3>2. CASE EqualFold(l, BeginCard)
      BY <3>2, StepBegin
    <3>3. CASE EqualFold(l, EndCard)
      BY <3>3, StepEnd
    <3>4. CASE IsOther(l) /\ Rejects(l)
      BY <3>4, StepRejected
    <3>5. CASE IsOther(l) /\ ~Rejects(l)
      <4>1. PropertyStep(ds, c, v, l)
        BY <3>5, StepProperty
      <4> DEFINE name == ToUpper(BareName(ParseContentLine(l).name))
                 val == ParseContentLine(l).value
                 p == ParseContentLine(l)
      <4>2. /\ name = <<"VERSION">> /\ v # << >> => u.error # "nil"
            /\ name = <<"VERSION">> /\ v = << >> => u = Opened(ds, c, val)
            /\ name = <<"UID">> => u = Opened(ds, WithUID(c, val), v)
            /\ name = <<"KIND">> => u = Opened(ds, WithKind(c, ToLower(val)), v)
            /\ name \notin Reserved => u = Opened(ds, WithProp(c, p), v)
        BY <4>1 DEF PropertyStep, WithUID, WithKind, WithProp
      <4>3. name \in Reserved => name = <<"VERSION">> \/ name = <<"UID">> \/ name = <<"KIND">>
        BY DEF Reserved
      <4> HIDE DEF name, val, p, u
      <4> QED BY <4>2, <4>3
    <3> QED BY <3>1, <3>2, <3>3, <3>4, <3>5 DEF IsOther
  <2> HIDE DEF u
  <2>2. u.error # "nil" \/ HasCards(u, ds) \/ (EqualFold(l, EndCard) /\ u = Closed(Append(ds, c)))
    BY <2>1 DEF HasCards
  <2> QED BY <1>2, <2>2 DEF u
<1> QED BY <1>1, <1>2 DEF HasCards

LEMMA StepGrown ==
    ASSUME NEW cs, IsList(cs), NEW st, Grown(cs, st), NEW l, IsList(l)
    PROVE  Grown(cs, ParseStep(st, Ungrouped(l)))
<1>1. CASE st.error # "nil"
  BY <1>1, StepOnError DEF Grown
<1>2. ASSUME NEW ds, IsList(ds), Extends(ds, cs), HasCards(st, ds)
      PROVE  Grown(cs, ParseStep(st, Ungrouped(l)))
  <2> DEFINE u == ParseStep(st, Ungrouped(l))
  <2>1. u.error # "nil" \/ HasCards(u, ds) \/ \E c : u = Closed(Append(ds, c))
    BY <1>2, StepCards
  <2> HIDE DEF u
  <2>2. ASSUME NEW c, u = Closed(Append(ds, c)) PROVE Grown(cs, u)
    BY <1>2, <2>2, ExtendsAppend DEF Grown, HasCards
  <2>3. HasCards(u, ds) => Grown(cs, u)
    BY <1>2 DEF Grown
  <2>4. Grown(cs, u)
    BY <2>1, <2>2, <2>3 DEF Grown
  <2> QED BY <2>4 DEF u
<1> QED BY <1>1, <1>2 DEF Grown

LEMMA RunGrown ==
    ASSUME NEW cs, IsList(cs), NEW st, Grown(cs, st), NEW t, AllLists(t)
    PROVE  Grown(cs, Run(st, UngroupedAll(t)))
<1> DEFINE S == {t[k] : k \in 1 .. Len(t)}
           T == {r \in Seq(S) : Grown(cs, Run(st, UngroupedAll(r)))}
<1>1. t \in Seq(S)
  <2>1. PICK R : t \in Seq(R)
    BY DEF AllLists, IsList
  <2> QED BY <2>1
<1>2. \A l \in S : IsList(l)
  BY DEF AllLists
<1> HIDE DEF S
<1>3. << >> \in T
  BY NoneUngrouped, RunEmpty
<1>4. ASSUME NEW r \in T, NEW e \in S PROVE Append(r, e) \in T
  <2>1. r \in Seq(S) /\ Grown(cs, Run(st, UngroupedAll(r))) /\ Append(r, e) \in Seq(S)
    OBVIOUS
  <2>2. AllLists(r) /\ IsList(e)
    BY <1>2, <2>1 DEF AllLists, IsList
  <2> DEFINE u == UngroupedAll(r)
  <2>3. IsList(u) /\ UngroupedAll(Append(r, e)) = Append(u, Ungrouped(e))
    BY <2>2, UngroupedLines, UngroupedAppend
  <2>4. Grown(cs, Run(st, u))
    BY <2>1
  <2> HIDE DEF u
  <2>5. Run(st, Append(u, Ungrouped(e))) = ParseStep(Run(st, u), Ungrouped(e))
    BY <2>3, RunAppend
  <2>6. Grown(cs, ParseStep(Run(st, u), Ungrouped(e)))
    BY <2>2, <2>4, StepGrown
  <2>7. Grown(cs, Run(st, UngroupedAll(Append(r, e))))
    BY <2>3, <2>5, <2>6
  <2> QED BY <2>1, <2>7
<1>5. T \in SUBSET Seq(S)
  OBVIOUS
<1> HIDE DEF T
<1>6. t \in T
  BY <1>1, <1>3, <1>4, <1>5, SeqInduct
<1> QED BY <1>6 DEF T

LEMMA ExtendsItself == ASSUME NEW cs, IsList(cs) PROVE Extends(cs, cs)
BY ListType DEF Extends

LEMMA TakenIs ==
    ASSUME NEW w, AllLists(w), NEW n \in 0 .. Len(w)
    PROVE  /\ Taken(w, n) = UngroupedAll(SubSeq(w, 1, n))
           /\ UngroupedAll(w) = UngroupedAll(SubSeq(w, 1, n)) \o UngroupedAll(SubSeq(w, n + 1, Len(w)))
<1> DEFINE a == SubSeq(w, 1, n)
           b == SubSeq(w, n + 1, Len(w))
           ua == UngroupedAll(a)
           ub == UngroupedAll(b)
<1>1. AllLists(a) /\ AllLists(b) /\ w = a \o b /\ Len(a) = n
  BY AllParts, ListSplits DEF AllLists
<1> HIDE DEF a, b
<1>2. UngroupedAll(a \o b) = ua \o ub /\ IsList(ua) /\ IsList(ub) /\ Len(ua) = Len(a)
  BY <1>1, UngroupedConcat, UngroupedLines
<1> HIDE DEF ua, ub
<1>3. SubSeq(ua \o ub, 1, Len(ua)) = ua
  <2>1. IsList(ua) /\ IsList(ub)
    BY <1>2
  <2> QED BY ONLY <2>1, ConcatParts
<1> QED BY <1>1, <1>2, <1>3 DEF Taken, ua, ub, a, b

\* Which they are is in the state.
LEMMA HasTheCards ==
    ASSUME NEW st, NEW cs, NEW ds, HasCards(st, cs), HasCards(st, ds)
    PROVE  cs = ds
BY StateFields DEF HasCards

\* The cards of the beginning of a file are the first cards of the file.
LEMMA PrefixCards ==
    ASSUME NEW w, AllLists(w), NEW n \in 0 .. Len(w), NEW ds, Run(ParseStart, UngroupedAll(w)) = Closed(ds)
    PROVE  /\ IsList(ds) /\ Run(ParseStart, Taken(w, n)).error = "nil"
           /\ \E cs : IsList(cs) /\ HasCards(Run(ParseStart, Taken(w, n)), cs)
           /\ \A cs : IsList(cs) /\ HasCards(Run(ParseStart, Taken(w, n)), cs) => Extends(ds, cs)
<1> DEFINE a == UngroupedAll(SubSeq(w, 1, n))
           r == SubSeq(w, n + 1, Len(w))
           b == UngroupedAll(r)
<1>1. Taken(w, n) = a /\ UngroupedAll(w) = a \o b
  BY TakenIs
<1>2. IsList(a) /\ IsList(b) /\ AllLists(r)
  BY AllParts, UngroupedLines
<1>3. Run(ParseStart, a \o b) = Run(Run(ParseStart, a), b)
  <2> HIDE DEF a, b
  <2> QED BY <1>2, RunConcat
<1>4. Run(ParseStart, a).error = "nil"
  <2> SUFFICES ASSUME Run(ParseStart, a).error # "nil" PROVE FALSE
    OBVIOUS
  <2>1. Run(ParseStart, UngroupedAll(w)).error # "nil"
    BY <1>1, TakenRest
  <2> QED BY <2>1, StateFields
<1>5. ASSUME NEW cs, IsList(cs), Grown(cs, Run(ParseStart, a))
      PROVE  IsList(ds) /\ Extends(ds, cs)
  <2>1. Grown(cs, Run(Run(ParseStart, a), b))
    BY <1>2, <1>5, RunGrown
  <2>2. Grown(cs, Closed(ds))
    BY <1>1, <1>3, <2>1
  <2>3. PICK es : IsList(es) /\ Extends(es, cs) /\ HasCards(Closed(ds), es)
    BY <2>2, StateFields DEF Grown
  <2>4. ds = es
    BY <2>3, HasTheCards DEF HasCards
  <2> QED BY <2>3, <2>4
<1>6. ASSUME NEW cs, IsList(cs), HasCards(Run(ParseStart, a), cs)
      PROVE  Grown(cs, Run(ParseStart, a))
  BY <1>6, ExtendsItself DEF Grown
<1>7. Grown(<< >>, Run(ParseStart, a))
  <2>1. Grown(<< >>, ParseStart)
    BY ClosedIs, EmptyList, ExtendsItself DEF Grown, HasCards
  <2>2. AllLists(SubSeq(w, 1, n))
    BY AllParts
  <2> QED BY <2>1, <2>2, EmptyList, RunGrown
<1>8. IsList(ds)
  BY <1>5, <1>7, EmptyList
<1>9. \E cs : IsList(cs) /\ HasCards(Run(ParseStart, a), cs)
  BY <1>4, <1>7 DEF Grown
<1> HIDE DEF a, b
<1> QED BY <1>1, <1>4, <1>5, <1>6, <1>8, <1>9

\* A line of a card with its last character cut off does not end a card.
TornSafe(l) == IsList(l) /\ (Len(l) > 1 => IsList(Front(l)) /\ ~EqualFold(Front(l), EndCard))
AllSafe(w)  == IsList(w) /\ \A i \in 1 .. Len(w) : TornSafe(w[i])

LEMMA SafeConcat == ASSUME NEW v, NEW w, AllSafe(v), AllSafe(w) PROVE AllSafe(v \o w)
<1> DEFINE x == v \o w
<1>1. /\ IsList(x) /\ Len(x) = Len(v) + Len(w) /\ Len(v) \in Nat /\ Len(w) \in Nat
      /\ \A i \in 1 .. Len(v) : x[i] = v[i]
      /\ \A i \in 1 .. Len(w) : x[Len(v) + i] = w[i]
  BY ListConcat, ListType DEF AllSafe
<1> HIDE DEF x
<1>2. ASSUME NEW i \in 1 .. Len(x) PROVE TornSafe(x[i])
  <2>1. CASE i \in 1 .. Len(v)
    BY <1>1, <2>1 DEF AllSafe
  <2>2. CASE i \notin 1 .. Len(v)
    <3>1. i - Len(v) \in 1 .. Len(w) /\ Len(v) + (i - Len(v)) = i
      BY <1>1, <2>2
    <3>2. x[i] = w[i - Len(v)]
      BY <1>1, <3>1
    <3> QED BY <3>1, <3>2 DEF AllSafe
  <2> QED BY <2>1, <2>2
<1>3. AllSafe(x)
  BY <1>1, <1>2 DEF AllSafe
<1> QED BY <1>3 DEF x

LEMMA SafeSingle == ASSUME NEW l, TornSafe(l) PROVE AllSafe(<<l>>)
BY SingleList DEF AllSafe

LEMMA SafeNone == AllSafe(<< >>)
BY EmptyList DEF AllSafe

LEMMA SafeAppend == ASSUME NEW w, AllSafe(w), NEW l, TornSafe(l) PROVE AllSafe(Append(w, l))
<1>1. Append(w, l) = w \o <<l>>
  BY AppendIs DEF AllSafe
<1> QED BY <1>1, SafeSingle, SafeConcat

\* What is no END in front is none when it is longer.
LEMMA TornIs ==
    ASSUME NEW r, IsList(r), NEW e, ~EqualFold(r, EndCard)
    PROVE  TornSafe(Append(r, e))
<1>1. IsList(Append(r, e)) /\ Front(Append(r, e)) = r
  BY ListAppend, FrontAndLast
<1> QED BY <1>1 DEF TornSafe

LEMMA EndLength ==
    ASSUME NEW l, IsList(l), EqualFold(l, EndCard)
    PROVE  Len(l) = 3 /\ UpperAtom(l[1]) = "END"
<1>1. IsList(EndCard) /\ Len(EndCard) = 3
  BY Triple DEF EndCard
<1>2. Len(ToUpper(l)) = Len(l) /\ Len(ToUpper(EndCard)) = 3
  BY <1>1, UpperOfList
<1>3. UpperAtom(l[1]) = "END"
  BY CardLine
<1> QED BY <1>2, <1>3 DEF EqualFold

LEMMA DelimiterTorn == ASSUME NEW a, NEW b, NEW c PROVE TornSafe(<<a, b, c>>)
<1> DEFINE r == Append(<<a>>, b)
<1>1. <<a, b, c>> = Append(r, c)
  <2>1. Append(<< >>, a) = <<a>>
    OBVIOUS
  <2> QED BY <2>1, TripleIs
<1>2. IsList(r) /\ Len(r) = 2
  <2> DEFINE s == <<a>>
  <2>1. IsList(s) /\ Len(s) = 1
    BY SingleList
  <2> HIDE DEF s
  <2>3. IsList(Append(s, b)) /\ Len(Append(s, b)) = Len(s) + 1
    <3>1. IsList(s)
      BY <2>1
    <3> QED BY ONLY <3>1, ListAppend
  <2>2. IsList(Append(s, b)) /\ Len(Append(s, b)) = 2
    BY <2>1, <2>3
  <2> QED BY <2>2 DEF s
<1> HIDE DEF r
<1>3. ~EqualFold(r, EndCard)
  BY <1>2, EndLength
<1> QED BY <1>1, <1>2, <1>3, TornIs

LEMMA HeaderTorn ==
    ASSUME NEW a \in {"UID", "KIND", "VERSION"}, NEW v, IsList(v)
    PROVE  TornSafe(HeaderLine(a, v))
<1> DEFINE d == <<a>>
           u == <<":">> \o v
<1>1. IsList(d) /\ Len(d) = 1 /\ d[1] = a
  BY SingleList
<1>2. HeaderLine(a, v) = d \o u /\ IsList(u) /\ Len(u) # 0
  <2> DEFINE c == <<":">>
  <2>1. IsList(c) /\ Len(c) = 1
    BY SingleList
  <2>2. <<a, ":">> = d \o c
    <3>1. Append(d, ":") = <<a, ":">>
      BY PairIs
    <3>2. Append(d, ":") = d \o c
      BY <1>1, AppendIs
    <3> QED BY <3>1, <3>2
  <2>3. HeaderLine(a, v) = (d \o c) \o v
    BY <2>2 DEF HeaderLine
  <2> HIDE DEF c, d
  <2>4. (d \o c) \o v = d \o (c \o v)
    BY <1>1, <2>1, ConcatAssoc
  <2>7. IsList(c \o v) /\ Len(c \o v) = Len(c) + Len(v)
    <3>1. IsList(c)
      BY <2>1
    <3> QED BY ONLY <3>1, IsList(v), ListConcat
  <2>5. IsList(c \o v) /\ Len(c \o v) = 1 + Len(v) /\ Len(v) \in Nat
    BY <2>1, <2>7, ListType
  <2>6. IsList(c \o v) /\ Len(c \o v) # 0
    BY <2>5
  <2> QED BY <2>3, <2>4, <2>6 DEF c
<1> HIDE DEF u
<1>3. PICK r, e : IsList(r) /\ u = Append(r, e)
  BY <1>2, ListCases, EmptyList
<1>4. HeaderLine(a, v) = Append(d \o r, e)
  <2> HIDE DEF d
  <2>1. d \o Append(r, e) = Append(d \o r, e)
    BY <1>1, <1>3, ConcatAppend
  <2> QED BY <1>2, <1>3, <2>1
<1>5. IsList(d \o r) /\ (d \o r)[1] = a
  <2> HIDE DEF d
  <2>1. IsList(d \o r) /\ \A i \in 1 .. Len(d) : (d \o r)[i] = d[i]
    BY <1>1, <1>3, ListConcat
  <2> QED BY <1>1, <2>1
<1> DEFINE x == d \o r
<1> HIDE DEF x
<1>6. ~EqualFold(x, EndCard)
  <2>1. UpperAtom(a) # "END"
    BY AtomCases
  <2> QED BY <1>5, <2>1, EndLength DEF x
<1>7. IsList(x) /\ HeaderLine(a, v) = Append(x, e)
  BY <1>4, <1>5 DEF x
<1> QED BY <1>6, <1>7, TornIs

LEMMA PropertyTorn ==
    ASSUME NEW p, IsProp(p), WritableProp(p)
    PROVE  TornSafe(FormatProperty(p))
<1> DEFINE n == NameText(p.name)
<1>1. PICK r, e : IsList(r) /\ IsList(n) /\ FormatProperty(p) = n \o Append(r, e)
  BY AfterName
<1>2. /\ n # << >> /\ Free(n, {":", Semi, DQ}) /\ ToUpper(n) # <<"END">>
  <2>1. /\ IsList(p.name) /\ Plain(p.name) /\ GroupEnd(p.name) # 1 /\ ToUpper(p.name) # <<"END">>
    BY DEF IsProp, WritableProp
  <2> QED BY <2>1, NameReads
<1> HIDE DEF n
<1>3. ~EqualFold(n \o r, EndCard)
  <2>1. ~EqualFold(n \o r, <<"END", ":", "VCARD">>)
    BY <1>1, <1>2, NotDelimiter
  <2> QED BY <2>1 DEF EndCard
<1> DEFINE x == n \o r
<1>4. IsList(x) /\ FormatProperty(p) = Append(x, e)
  BY <1>1, ConcatAppend, ListConcat
<1> HIDE DEF x
<1> QED BY <1>3, <1>4, TornIs DEF x

LEMMA HeaderSafe ==
    ASSUME NEW card, IsCard(card)
    PROVE  AllSafe(HeaderLines(card))
<1> DEFINE lv == HeaderLine("VERSION", SupportedVersion)
           lu == HeaderLine("UID", EscapeText(card.uid))
           lk == HeaderLine("KIND", ToLower(card.kind))
           w1 == Append(<< >>, BeginCard)
           w2 == Append(w1, lv)
           w3 == Append(w2, lu)
<1>1. IsList(EscapeText(card.uid)) /\ IsList(ToLower(card.kind)) /\ IsList(SupportedVersion)
  BY EscapedIsList, LowerIsList, DelimitersAreLines DEF IsCard
<1>2. TornSafe(lv) /\ TornSafe(lu) /\ TornSafe(lk)
  BY <1>1, HeaderTorn
<1>3. TornSafe(BeginCard)
  BY DelimiterTorn DEF BeginCard
<1>4. HeaderLines(card) = w3 \o (IF card.kind = << >> THEN << >> ELSE <<lk>>)
  <2>1. <<BeginCard, lv, lu>> = w3
    BY TripleIs
  <2>2. lk = KindLine(card.kind) /\ lv = <<"VERSION", ":">> \o SupportedVersion
        /\ lu = <<"UID", ":">> \o EscapeText(card.uid)
    BY DEF KindLine, HeaderLine
  <2> HIDE DEF lk, lv, lu, w3
  <2> QED BY <2>1, <2>2 DEF HeaderLines
<1> HIDE DEF lv, lu, lk
<1>5. AllSafe(w1)
  BY <1>3, SafeNone, SafeAppend
<1> HIDE DEF w1
<1>6. AllSafe(w2)
  BY <1>2, <1>5, SafeAppend
<1> HIDE DEF w2
<1>7. AllSafe(w3)
  BY <1>2, <1>6, SafeAppend
<1> HIDE DEF w3
<1>8. AllSafe(IF card.kind = << >> THEN << >> ELSE <<lk>>)
  BY <1>2, SafeNone, SafeSingle
<1> QED BY <1>4, <1>7, <1>8, SafeConcat

LEMMA CardSafe ==
    ASSUME NEW card, IsCard(card), WritableCard(card)
    PROVE  AllSafe(EncodeCard(card))
<1> DEFINE hs == HeaderLines(card)
           ls == Formatted(card.props)
           w  == hs \o ls
<1>1. AllSafe(hs)
  BY HeaderSafe
<1>2. /\ IsList(card.props) /\ DOMAIN card.props = 1 .. Len(card.props)
      /\ \A k \in 1 .. Len(card.props) : IsProp(card.props[k]) /\ WritableProp(card.props[k])
  <2>1. IsList(card.props) /\ \A k \in 1 .. Len(card.props) : IsProp(card.props[k])
    BY DEF IsCard
  <2>2. DOMAIN card.props = 1 .. Len(card.props)
    BY <2>1, ListType
  <2> QED BY <2>1, <2>2 DEF WritableCard
<1>3. IsList(ls) /\ Len(ls) = Len(card.props)
  <2>1. IsTable(ls, card.props)
    BY DEF IsTable, Formatted
  <2>2. ls = [k \in 1 .. Len(card.props) |-> ls[k]] /\ Len(card.props) \in Nat
    BY <1>2, <2>1, ListType DEF IsTable
  <2> HIDE DEF ls
  <2> QED BY ONLY <2>2, TableIsList
<1>4. AllSafe(ls)
  <2>1. ASSUME NEW i \in 1 .. Len(ls) PROVE TornSafe(ls[i])
    <3>1. ls[i] = FormatProperty(card.props[i]) /\ i \in 1 .. Len(card.props)
      BY <1>2, <1>3 DEF Formatted
    <3> HIDE DEF ls
    <3> QED BY <1>2, <3>1, PropertyTorn
  <2> HIDE DEF ls
  <2> QED BY <1>3, <2>1 DEF AllSafe
<1>5. EncodeCard(card) = Append(w, EndCard)
  BY EncodedIsLines DEF PropLines, Formatted
<1>6. TornSafe(EndCard)
  BY DelimiterTorn DEF EndCard
<1> HIDE DEF hs, ls
<1>7. AllSafe(w)
  BY <1>1, <1>4, SafeConcat
<1> HIDE DEF w
<1> QED BY <1>5, <1>6, <1>7, SafeAppend

\* A file of such cards, cut off inside a line, ends no card there.
LEMMA CardsSafe ==
    ASSUME NEW cards, IsList(cards),
           \A k \in 1 .. Len(cards) : IsCard(cards[k]) /\ WritableCard(cards[k])
    PROVE  AllSafe(EncodedCards(cards))
<1> DEFINE S == {cards[k] : k \in 1 .. Len(cards)}
           T == {r \in Seq(S) : AllSafe(EncodedCards(r))}
<1>1. cards \in Seq(S)
  <2>1. PICK R : cards \in Seq(R)
    BY DEF IsList
  <2> QED BY <2>1
<1>2. \A c \in S : IsCard(c) /\ WritableCard(c)
  OBVIOUS
<1> HIDE DEF S
<1>3. << >> \in T
  BY CardsNone, SafeNone
<1>4. ASSUME NEW r \in T, NEW e \in S PROVE Append(r, e) \in T
  <2>1. r \in Seq(S) /\ AllSafe(EncodedCards(r)) /\ Append(r, e) \in Seq(S) /\ IsList(r)
    BY DEF IsList
  <2>2. AllSafe(EncodeCard(e))
    BY <1>2, CardSafe
  <2>3. EncodedCards(Append(r, e)) = EncodedCards(r) \o EncodeCard(e)
    BY <1>2, <2>1, CardsAppend
  <2>4. AllSafe(EncodedCards(Append(r, e)))
    BY <2>1, <2>2, <2>3, SafeConcat
  <2> QED BY <2>1, <2>4
<1>5. T \in SUBSET Seq(S)
  OBVIOUS
<1> HIDE DEF T
<1>6. cards \in T
  BY <1>1, <1>3, <1>4, <1>5, SeqInduct
<1> QED BY <1>6 DEF T

LEMMA PartOfConcat ==
    ASSUME NEW s, NEW t, IsList(s), IsList(t), NEW n \in 0 .. Len(s)
    PROVE  SubSeq(s \o t, 1, n) = SubSeq(s, 1, n)
<1> DEFINE w == s \o t
<1>1. /\ IsList(w) /\ Len(w) = Len(s) + Len(t) /\ Len(s) \in Nat /\ Len(t) \in Nat
      /\ \A i \in 1 .. Len(s) : w[i] = s[i]
  BY ListConcat, ListType
<1> HIDE DEF w
<1>2. n \in 0 .. Len(w) /\ \A i \in 1 .. n : w[i] = s[i]
  BY <1>1
<1>3. IsList(SubSeq(w, 1, n)) /\ Len(SubSeq(w, 1, n)) = n /\ \A i \in 1 .. n : SubSeq(w, 1, n)[i] = w[i]
  BY <1>1, <1>2, ListPrefix
<1>4. IsList(SubSeq(s, 1, n)) /\ Len(SubSeq(s, 1, n)) = n /\ \A i \in 1 .. n : SubSeq(s, 1, n)[i] = s[i]
  BY ListPrefix
<1> DEFINE p == SubSeq(w, 1, n)
           q == SubSeq(s, 1, n)
<1>5. IsList(p) /\ IsList(q) /\ Len(p) = n /\ Len(q) = n /\ \A i \in 1 .. n : p[i] = q[i]
  BY <1>2, <1>3, <1>4
<1> HIDE DEF p, q
<1>6. p = q
  BY <1>5, ListEqual
<1> QED BY <1>6 DEF p, q, w

\* Lines that are followed by others are taken all the same.
LEMMA TakenOfConcat ==
    ASSUME NEW a, AllLists(a), NEW b, AllLists(b), NEW n \in 0 .. Len(a)
    PROVE  Taken(a \o b, n) = Taken(a, n)
<1> DEFINE ua == UngroupedAll(a)
           ub == UngroupedAll(b)
<1>1. UngroupedAll(a \o b) = ua \o ub /\ IsList(ua) /\ IsList(ub) /\ Len(ua) = Len(a)
  BY UngroupedConcat, UngroupedLines
<1> HIDE DEF ua, ub
<1>2. IsList(ua) /\ IsList(ub) /\ n \in 0 .. Len(ua)
  BY <1>1
<1>3. SubSeq(ua \o ub, 1, n) = SubSeq(ua, 1, n)
  BY ONLY <1>2, PartOfConcat
<1> QED BY <1>1, <1>3 DEF Taken, ua

\* What a failing writer leaves of the lines E: some of them, and perhaps one more
\* without its last character.
CutFile(w, E) ==
    \E a, b : /\ AllLists(a) /\ AllLists(b) /\ E = a \o b
              /\ w = a \/ (Len(b) # 0 /\ Len(b[1]) > 1 /\ w = Append(a, Front(b[1])))

\* Of such a file both parsers can make the first cards of the whole one, and no other.
LEMMA CutReads ==
    ASSUME NEW E, AllSafe(E), NEW ds, Run(ParseStart, UngroupedAll(E)) = Closed(ds),
           NEW w, CutFile(w, E), NEW n \in 0 .. Len(w)
    PROVE  /\ n < Len(w) => Run(ParseStart, Taken(w, n)).error = "nil"
           /\ \A cs : IsList(cs) /\ HasCards(Run(ParseStart, Taken(w, n)), cs) => Extends(ds, cs)
<1>1. PICK a, b : /\ AllLists(a) /\ AllLists(b) /\ E = a \o b
                  /\ w = a \/ (Len(b) # 0 /\ Len(b[1]) > 1 /\ w = Append(a, Front(b[1])))
  BY DEF CutFile
<1>2. AllLists(E) /\ Len(a) \in Nat /\ Len(b) \in Nat /\ Len(E) = Len(a) + Len(b)
  BY <1>1, AllConcat, ListConcat, ListType DEF AllLists
<1>3. ASSUME NEW m \in 0 .. Len(a)
      PROVE  /\ Run(ParseStart, Taken(a, m)).error = "nil"
             /\ \E cs : IsList(cs) /\ HasCards(Run(ParseStart, Taken(a, m)), cs)
             /\ \A cs : IsList(cs) /\ HasCards(Run(ParseStart, Taken(a, m)), cs) => Extends(ds, cs)
  <2>1. Taken(E, m) = Taken(a, m)
    BY <1>1, TakenOfConcat
  <2>2. m \in 0 .. Len(E)
    BY <1>2
  <2> QED BY <1>2, <2>1, <2>2, PrefixCards
<1>4. CASE w = a
  BY <1>3, <1>4
<1>5. CASE Len(b) # 0 /\ Len(b[1]) > 1 /\ w = Append(a, Front(b[1]))
  <2> DEFINE f == Front(b[1])
  <2>1. IsList(f) /\ ~EqualFold(f, EndCard)
    <3>1. E[Len(a) + 1] = b[1] /\ Len(a) + 1 \in 1 .. Len(E)
      <4>1. 1 \in 1 .. Len(b) /\ Len(a) + 1 \in 1 .. Len(E)
        BY <1>2, <1>5
      <4>2. \A i \in 1 .. Len(b) : (a \o b)[Len(a) + i] = b[i]
        BY <1>1, ListConcat DEF AllLists
      <4> QED BY <1>1, <4>1, <4>2
    <3>2. TornSafe(b[1])
      BY <3>1 DEF AllSafe
    <3> QED BY <1>5, <3>2 DEF TornSafe
  <2>2. w = Append(a, f)
    BY <1>5
  <2> HIDE DEF f
  <2>3. AllLists(w) /\ Len(w) = Len(a) + 1 /\ w[Len(a) + 1] = f
    <3>1. IsList(a)
      BY <1>1 DEF AllLists
    <3> QED BY <1>1, <2>1, <2>2, <3>1, AllAppend, ListAppend
  <2>4. CASE n \in 0 .. Len(a)
    <3>1. Taken(w, n) = Taken(a, n)
      <4>1. AllLists(<<f>>) /\ w = a \o <<f>>
        BY <1>1, <2>1, <2>2, AllSingle, AppendIs DEF AllLists
      <4> QED BY <1>1, <2>4, <4>1, TakenOfConcat
    <3> QED BY <1>3, <2>4, <3>1
  <2>5. CASE n = Len(a) + 1
    <3> DEFINE m == Len(a)
               st == Run(ParseStart, Taken(w, m))
    <3>1. m \in 0 .. Len(a) /\ m < Len(w) /\ m \in 0 .. Len(w)
      BY <1>2, <2>3
    <3>2. Taken(w, m) = Taken(a, m)
      <4>1. AllLists(<<f>>) /\ w = a \o <<f>>
        BY <1>1, <2>1, <2>2, AllSingle, AppendIs DEF AllLists
      <4> QED BY <1>1, <3>1, <4>1, TakenOfConcat
    <3>3. Run(ParseStart, Taken(w, n)) = ParseStep(st, Ungrouped(f))
      BY <2>3, <2>5, <3>1, TakenNext
    <3>4. PICK cs : IsList(cs) /\ HasCards(st, cs) /\ Extends(ds, cs)
      BY <1>3, <3>1, <3>2
    <3> HIDE DEF st, m
    <3>5. \/ ParseStep(st, Ungrouped(f)).error # "nil"
          \/ HasCards(ParseStep(st, Ungrouped(f)), cs)
      BY <2>1, <3>4, StepCards
    <3> DEFINE u == ParseStep(st, Ungrouped(f))
    <3> HIDE DEF u
    <3>6. ASSUME NEW es, IsList(es), HasCards(u, es) PROVE Extends(ds, es)
      <4>1. u.error = "nil"
        BY <3>6, StateFields DEF HasCards
      <4>2. HasCards(u, cs)
        BY <3>5, <4>1 DEF u
      <4>3. es = cs
        BY <3>6, <4>2, HasTheCards
      <4> QED BY <3>4, <4>3
    <3> QED BY <2>3, <2>5, <3>3, <3>6 DEF u
  <2>6. n \in 0 .. Len(a) \/ n = Len(a) + 1
    BY <1>2, <2>3
  <2> QED BY <2>4, <2>5, <2>6
<1> QED BY <1>1, <1>4, <1>5

\* Files that grow.
LEMMA CutWhole == ASSUME NEW E, AllLists(E) PROVE CutFile(E, E)
<1>1. E = E \o << >> /\ AllLists(<< >>)
  BY AllEmpty, ListConcat, EmptyList DEF AllLists
<1> QED BY <1>1 DEF CutFile

LEMMA CutAfter ==
    ASSUME NEW v, AllLists(v), NEW w, NEW E, CutFile(w, E)
    PROVE  CutFile(v \o w, v \o E)
<1>1. PICK a, b : /\ AllLists(a) /\ AllLists(b) /\ E = a \o b
                  /\ w = a \/ (Len(b) # 0 /\ Len(b[1]) > 1 /\ w = Append(a, Front(b[1])))
  BY DEF CutFile
<1> DEFINE x == v \o a
<1>2. IsList(v) /\ IsList(a) /\ IsList(b)
  BY <1>1 DEF AllLists
<1>3. AllLists(x) /\ v \o E = x \o b
  BY <1>1, <1>2, AllConcat, ConcatAssoc
<1>4. v \o w = x \/ (Len(b) # 0 /\ Len(b[1]) > 1 /\ v \o w = Append(x, Front(b[1])))
  <2>1. \A e : v \o Append(a, e) = Append(x, e)
    BY <1>2, ConcatAppend
  <2> HIDE DEF x
  <2> DEFINE g == Front(b[1])
  <2>2. v \o Append(a, g) = Append(x, g)
    BY <2>1
  <2> HIDE DEF g
  <2>3. ASSUME w = Append(a, g) PROVE v \o w = Append(x, g)
    BY <2>2, <2>3
  <2>4. w = a => v \o w = x
    BY DEF x
  <2> QED BY <1>1, <2>3, <2>4 DEF g
<1> HIDE DEF x
<1> QED BY <1>1, <1>3, <1>4 DEF CutFile

-----------------------------------------------------------------------------
(* What a careful client has written.                                      *)

\* The cards of a client that is careful can all be written.
FineCards(cards) == IsList(cards) /\ \A k \in 1 .. Len(cards) : IsCard(cards[k]) /\ WritableCard(cards[k])

Careful ==
    /\ pc = "write" => WritableCard(draft)
    /\ FineCards(acked) /\ FineCards(attempted)

LEMMA FineAppend ==
    ASSUME NEW cs, FineCards(cs), NEW c, IsCard(c), WritableCard(c)
    PROVE  FineCards(Append(cs, c))
<1> DEFINE a == Append(cs, c)
<1>1. IsList(a) /\ Len(a) = Len(cs) + 1 /\ a[Len(cs) + 1] = c /\ \A i \in 1 .. Len(cs) : a[i] = cs[i]
  BY ListAppend DEF FineCards
<1>2. Len(cs) \in Nat
  BY ListType DEF FineCards
<1> HIDE DEF a
<1>3. ASSUME NEW k \in 1 .. Len(a) PROVE IsCard(a[k]) /\ WritableCard(a[k])
  <2>1. CASE k = Len(cs) + 1
    BY <1>1, <2>1
  <2>2. CASE k # Len(cs) + 1
    <3>1. k \in 1 .. Len(cs)
      BY <1>1, <1>2, <2>2
    <3> QED BY <1>1, <3>1 DEF FineCards
  <2> QED BY <2>1, <2>2
<1> QED BY <1>1, <1>3 DEF FineCards, a

LEMMA FineNone == FineCards(<< >>)
BY EmptyList DEF FineCards

LEMMA EditFine ==
    ASSUME NEW c \in Cards, WritableCard(c), NEW p \in Props, WritableProp(p),
           NEW d \in {SetProp(c, p), AddProp(c, p), RemoveProp(c, p.name)}
    PROVE  WritableCard(d)
<1> DEFINE T == {q \in Props : WritableProp(q)}
<1>1. c.props \in Seq(T)
  <2>1. c.props \in Seq(Props)
    BY DEF Cards
  <2>2. \A k \in DOMAIN c.props : WritableProp(c.props[k])
    BY DEF WritableCard
  <2> QED BY <2>1, <2>2
<1>2. p \in T
  OBVIOUS
<1>3. PICK s \in Seq(T) : d = CardWith(c, s)
  <2> HIDE DEF T
  <2> QED BY <1>1, <1>2, EditGives
<1>4. d.uid = c.uid /\ d.kind = c.kind /\ d.props = s
  BY <1>3 DEF Cards, CardWith
<1>5. \A k \in DOMAIN s : WritableProp(s[k])
  OBVIOUS
<1> QED BY <1>4, <1>5 DEF WritableCard

LEMMA CarefulStarts == ASSUME ClientIsCareful PROVE Init => Careful
<1> SUFFICES ASSUME Init PROVE Careful
  OBVIOUS
<1>1. WritableCard(draft)
  <2>1. (CHOOSE u \in UIDs : u # << >>) \in UIDs /\ (CHOOSE k \in Kinds : TRUE) \in Kinds
    BY VCardAssumption
  <2> QED BY <2>1 DEF Init, ClientIsCareful
<1> QED BY <1>1, FineNone DEF Init, Careful

\* Who reads does not write again.
LEMMA ReadStays == ASSUME Typed, Read \/ ReadFails PROVE pc' # "write"
<1>1. CASE CallNext
  BY <1>1 DEF CallNext
<1>2. CASE ReadOutside
  <2>1. CASE AtEOF
    BY <1>2, <2>1, OutsideAtEnd
  <2>2. CASE ~AtEOF
    BY <1>2, <2>2, OutsideStep DEF Fails
  <2> QED BY <2>1, <2>2
<1>3. CASE ReadInside
  <2>1. CASE AtEOF
    BY <1>3, <2>1, InsideAtEnd DEF Fails
  <2>2. CASE ~AtEOF
    BY <1>3, <2>2, InsideStep DEF Fails, GoesOn, Yields
  <2> QED BY <2>1, <2>2
<1>4. CASE ReadFails
  BY <1>4 DEF ReadFails, ReturnError, Return
<1> QED BY <1>1, <1>2, <1>3, <1>4 DEF Read

LEMMA StepCareful ==
    ASSUME ClientIsCareful, Typed, Careful, [Next]_vars
    PROVE  Careful'
<1>1. CASE Edit
  <2>1. PICK p \in NewProps : draft' \in {SetProp(draft, p), AddProp(draft, p), RemoveProp(draft, p.name)}
    BY <1>1 DEF Edit
  <2>2. p \in Props /\ WritableProp(p) /\ draft \in Cards /\ WritableCard(draft)
    BY <1>1, VCardAssumption DEF ClientIsCareful, Typed, Careful, Edit
  <2>3. WritableCard(draft')
    BY <2>1, <2>2, EditFine
  <2> QED BY <1>1, <2>3 DEF Edit, Careful
<1>2. CASE Encode
  <2>1. WritableCard(draft) /\ IsCard(draft)
    BY <1>2, CardsAreCards DEF Encode, Careful, Typed
  <2>2. WritableCard(draft')
    BY <1>2, <2>1 DEF Encode, ClientIsCareful
  <2>3. acked' \in {acked, Append(acked, draft)} /\ attempted' \in {attempted, Append(<< >>, draft)}
    <3>1. Append(<< >>, draft) = <<draft>>
      OBVIOUS
    <3> QED BY <1>2, <3>1 DEF Encode
  <2>4. FineCards(acked') /\ FineCards(attempted')
    BY <2>1, <2>3, FineAppend, FineNone DEF Careful
  <2> QED BY <2>2, <2>4 DEF Careful
<1>3. CASE Close
  BY <1>3 DEF Close, Careful
<1>4. CASE OpenFile
  BY <1>4 DEF OpenFile, Careful
<1>5. CASE Read \/ ReadFails
  <2>1. pc # "write" /\ UNCHANGED encVars
    BY <1>5 DEF Read, CallNext, ReadOutside, ReadInside, ReadFails
  <2>2. pc' # "write"
    BY <1>5, ReadStays
  <2> QED BY <2>1, <2>2 DEF encVars, Careful
<1>6. CASE UNCHANGED vars
  BY <1>6 DEF vars, encVars, Careful
<1> QED BY <1>1, <1>2, <1>3, <1>4, <1>5, <1>6 DEF Next, Write

Encoded == EncodedCards(acked \o attempted)

\* What is in the file, and in the buffer: every card whose Encode returned nil and no
\* other; or, when the writer has failed, the beginning of that and of the card it failed on.
FileWritten ==
    /\ closed => ~broken
    /\ broken => encodes # 0
    /\ encodes # 0 => readErrors = 0 /\ (pc = "write" \/ closed \/ broken)
    /\ readErrors = 0 /\ (pc = "write" \/ closed) /\ ~broken => wire \o buffered = EncodedCards(acked)
    /\ broken => CutFile(wire, Encoded)

LEMMA SpillWrites ==
    ASSUME AllLists(wire), NEW lines, AllLists(lines), Spill(lines)
    PROVE  wire' \o buffered' = wire \o lines
<1>1. PICK k \in 0 .. Len(lines) : /\ wire' = wire \o SubSeq(lines, 1, k)
                                   /\ buffered' = SubSeq(lines, k + 1, Len(lines))
  BY DEF Spill
<1> DEFINE a == SubSeq(lines, 1, k)
           b == SubSeq(lines, k + 1, Len(lines))
<1>2. IsList(a) /\ IsList(b) /\ lines = a \o b /\ IsList(wire)
  BY ListSplits DEF AllLists
<1>3. wire' = wire \o a /\ buffered' = b
  BY <1>1
<1> HIDE DEF a, b
<1>4. (wire \o a) \o b = wire \o (a \o b)
  BY <1>2, ConcatAssoc
<1> QED BY <1>2, <1>3, <1>4

LEMMA FailWrites ==
    ASSUME AllLists(wire), NEW lines, AllLists(lines), WriterFails(lines)
    PROVE  CutFile(wire', wire \o lines)
<1>1. PICK k \in 0 .. Len(lines) :
            \/ wire' = wire \o SubSeq(lines, 1, k)
            \/ k < Len(lines) /\ Len(lines[k + 1]) > 1
               /\ wire' = Append(wire \o SubSeq(lines, 1, k), Front(lines[k + 1]))
  BY DEF WriterFails
<1> DEFINE a == SubSeq(lines, 1, k)
           b == SubSeq(lines, k + 1, Len(lines))
           x == wire \o a
<1>2. /\ IsList(a) /\ IsList(b) /\ lines = a \o b /\ IsList(wire) /\ Len(b) = Len(lines) - k
      /\ \A i \in 1 .. Len(lines) - k : b[i] = lines[k + i]
  BY ListSplits DEF AllLists
<1>3. AllLists(a) /\ AllLists(b) /\ AllLists(x)
  BY AllParts, AllConcat
<1>4. Len(lines) \in Nat
  BY ListType DEF AllLists
<1>5. ASSUME k < Len(lines) PROVE Len(b) # 0 /\ b[1] = lines[k + 1]
  <2>1. 1 \in 1 .. Len(lines) - k
    BY <1>4, <1>5
  <2> HIDE DEF b
  <2> QED BY <1>2, <1>4, <1>5, <2>1
<1>6. wire' = x \/ (k < Len(lines) /\ Len(lines[k + 1]) > 1 /\ wire' = Append(x, Front(lines[k + 1])))
  BY <1>1
<1> HIDE DEF a, b
<1>7. wire \o lines = x \o b
  BY <1>2, ConcatAssoc
<1> HIDE DEF x
<1>8. wire' = x \/ (Len(b) # 0 /\ Len(b[1]) > 1 /\ wire' = Append(x, Front(b[1])))
  BY <1>5, <1>6
<1> QED BY <1>3, <1>7, <1>8 DEF CutFile

LEMMA EncodeWritten == ASSUME Typed, FileWritten, Encode PROVE FileWritten'
<1>0. /\ pc = "write" /\ pc' = "write" /\ closed' = closed /\ readErrors' = readErrors /\ readErrors = 0
      /\ encodes' = encodes + 1 /\ encodes \in Nat /\ encodes' # 0
  <2>1. pc = "write" /\ UNCHANGED <<closed, pc, readVars>> /\ encodes' = encodes + 1 /\ encodes \in Nat
    BY DEF Encode, Typed
  <2> QED BY <2>1 DEF Typed, readVars
<1>2. CASE UNCHANGED <<wire, buffered, broken, acked, attempted>>
  BY <1>0, <1>2 DEF FileWritten, Encoded
<1>3. CASE /\ ~closed /\ ~MissingUID(draft) /\ ~broken
           /\ LET lines == buffered \o EncodeCard(draft)
              IN  \/ /\ Spill(lines) /\ encResult' = "nil"
                     /\ acked' = Append(acked, draft)
                     /\ UNCHANGED <<broken, attempted>>
                  \/ /\ WriterFails(lines) /\ encResult' = "error"
                     /\ attempted' = <<draft>>
                     /\ UNCHANGED acked
  <2> DEFINE card == EncodeCard(draft)
             lines == buffered \o card
             cards == Append(acked, draft)
  <2>0. IsCard(draft) /\ IsList(acked) /\ attempted = << >>
    BY <1>3, CardsAreCards DEF Typed
  <2>1. AllLists(card) /\ AllLists(lines) /\ AllLists(wire) /\ AllLists(buffered)
    BY <2>0, EncodedIsLines, AllConcat DEF Typed
  <2>2. wire \o buffered = EncodedCards(acked)
    BY <1>0, <1>3 DEF FileWritten
  <2>3. EncodedCards(cards) = EncodedCards(acked) \o card
    BY <2>0, CardsAppend
  <2>4. (Spill(lines) /\ acked' = cards /\ UNCHANGED <<broken, attempted>>)
        \/ (WriterFails(lines) /\ attempted' = <<draft>> /\ UNCHANGED acked)
    BY <1>3
  <2> HIDE DEF card
  <2>5. wire \o lines = EncodedCards(cards)
    <3>1. IsList(wire) /\ IsList(buffered) /\ IsList(card)
      BY <2>1 DEF AllLists
    <3>2. (wire \o buffered) \o card = wire \o (buffered \o card)
      BY ONLY <3>1, ConcatAssoc
    <3> HIDE DEF cards
    <3> QED BY <2>2, <2>3, <3>2
  <2> HIDE DEF lines
  <2>6. CASE Spill(lines) /\ acked' = cards /\ UNCHANGED <<broken, attempted>>
    <3>1. wire' \o buffered' = EncodedCards(acked')
      BY <2>1, <2>5, <2>6, SpillWrites
    <3>2. ~broken' /\ ~closed'
      BY <1>0, <1>3, <2>6
    <3> QED BY <1>0, <3>1, <3>2 DEF FileWritten
  <2>7. CASE WriterFails(lines) /\ attempted' = <<draft>> /\ UNCHANGED acked
    <3>1. CutFile(wire', EncodedCards(cards)) /\ broken'
      BY <2>1, <2>5, <2>7, FailWrites DEF WriterFails
    <3>2. acked' \o attempted' = cards
      BY <2>0, <2>7, AppendIs
    <3>3. CutFile(wire', Encoded')
      BY <3>1, <3>2 DEF Encoded
    <3>4. ~closed'
      BY <1>0, <1>3
    <3> QED BY <1>0, <3>1, <3>3, <3>4 DEF FileWritten
  <2> QED BY <2>4, <2>6, <2>7
<1> QED BY <1>2, <1>3 DEF Encode

LEMMA CloseWritten == ASSUME Typed, FileWritten, Close PROVE FileWritten'
<1>0. /\ pc = "write" /\ pc' = "write" /\ readErrors' = readErrors /\ readErrors = 0
      /\ UNCHANGED <<acked, attempted, encodes>>
  <2>1. pc = "write" /\ UNCHANGED <<acked, attempted, encodes, pc, readVars>>
    BY DEF Close
  <2> QED BY <2>1 DEF Typed, readVars
<1>1. AllLists(wire) /\ AllLists(buffered) /\ IsList(acked) /\ IsList(wire) /\ IsList(buffered)
  BY DEF Typed, AllLists
<1>2. CASE UNCHANGED <<wire, buffered, broken, closed>>
  BY <1>0, <1>2 DEF FileWritten, Encoded
<1>3. CASE ~closed /\ ~broken /\ CloseFlush(buffered) /\ closed' = TRUE /\ UNCHANGED broken
  <2>1. wire \o buffered = EncodedCards(acked)
    BY <1>0, <1>3 DEF FileWritten
  <2>2. wire' = wire \o buffered /\ buffered' = << >>
    BY <1>3 DEF CloseFlush, Flush
  <2>3. wire' \o buffered' = wire \o buffered
    <3> DEFINE w == wire \o buffered
    <3>1. IsList(w)
      BY <1>1, ListConcat
    <3>2. w \o << >> = w
      <4> HIDE DEF w
      <4> QED BY <3>1, ListConcat, EmptyList
    <3> QED BY <2>2, <3>2
  <2> QED BY <1>0, <1>3, <2>1, <2>3 DEF FileWritten
<1>4. CASE ~closed /\ ~broken /\ buffered # << >> /\ WriterFails(buffered) /\ UNCHANGED closed
  <2>1. wire \o buffered = EncodedCards(acked)
    BY <1>0, <1>4 DEF FileWritten
  <2>2. CutFile(wire', EncodedCards(acked)) /\ broken'
    BY <1>1, <1>4, <2>1, FailWrites DEF WriterFails
  <2>3. attempted = << >> /\ acked \o << >> = acked
    BY <1>1, <1>4, ListConcat, EmptyList DEF Typed
  <2>4. CutFile(wire', Encoded')
    BY <1>0, <2>2, <2>3 DEF Encoded
  <2>5. encodes # 0
    <3> SUFFICES ASSUME encodes = 0 PROVE FALSE
      OBVIOUS
    <3>1. acked = << >>
      <4>1. Len(acked) \in Nat /\ Len(attempted) \in Nat /\ Len(acked) + Len(attempted) <= 0
        BY ListType DEF Typed, TypeOK
      <4>2. Len(acked) = 0
        BY <4>1
      <4> QED BY <1>1, <4>2, EmptyList, ListEqual
    <3>2. Len(wire \o buffered) = 0
      BY <2>1, <3>1, CardsNone, EmptyList
    <3>3. Len(wire \o buffered) = Len(wire) + Len(buffered) /\ Len(wire) \in Nat /\ Len(buffered) \in Nat
      BY <1>1, ListConcat, ListType
    <3>4. Len(buffered) = 0
      BY <3>2, <3>3
    <3>5. buffered = << >>
      BY <1>1, <3>4, EmptyList, ListEqual
    <3> QED BY <1>4, <3>5
  <2> QED BY <1>0, <1>4, <2>2, <2>4, <2>5 DEF FileWritten
<1> QED BY <1>2, <1>3, <1>4 DEF Close

LEMMA FileStarts == Init => FileWritten
<1> SUFFICES ASSUME Init PROVE FileWritten
  OBVIOUS
<1>1. closed = FALSE /\ broken = FALSE /\ encodes = 0 /\ acked = << >> /\ buffered = << >>
  BY DEF Init
<1>2. ASSUME pc = "write" PROVE wire \o buffered = EncodedCards(acked)
  <2>1. wire = << >>
    BY <1>2 DEF Init
  <2> QED BY <1>1, <2>1, CardsNone, ListConcat, EmptyList
<1> QED BY <1>1, <1>2 DEF FileWritten

LEMMA StepWritten == ASSUME Typed, FileWritten, [Next]_vars PROVE FileWritten'
<1>1. CASE Edit
  BY <1>1 DEF Edit, FileWritten, Encoded, readVars
<1>2. CASE OpenFile
  <2>1. /\ pc = "write" /\ (closed \/ broken) /\ pc' = "idle" /\ buffered' = << >>
        /\ UNCHANGED <<broken, closed, acked, attempted, encodes, wire, readErrors>>
    BY <1>2 DEF OpenFile, readVars
  <2>2. closed => buffered = << >>
    BY DEF Typed, TypeOK
  <2> QED BY <2>1, <2>2 DEF FileWritten, Encoded
<1>3. CASE Read
  <2>1. pc # "write" /\ pc' # "write" /\ UNCHANGED <<encVars, wire, readErrors>>
    <3>1. pc # "write" /\ UNCHANGED <<encVars, wire, readErrors>>
      BY <1>3 DEF Read, CallNext, ReadOutside, ReadInside
    <3>2. pc' # "write"
      BY <1>3, <3>1, ReadStays
    <3> QED BY <3>1, <3>2
  <2> QED BY <2>1 DEF encVars, FileWritten, Encoded
<1>4. CASE ReadFails
  <2>1. encodes = 0 /\ readErrors' = readErrors + 1 /\ readErrors \in Nat /\ UNCHANGED encVars
    BY <1>4 DEF ReadFails, Typed
  <2>2. readErrors' # 0
    BY <2>1
  <2> QED BY <2>1, <2>2 DEF encVars, FileWritten
<1>5. CASE UNCHANGED vars
  BY <1>5 DEF vars, encVars, readVars, FileWritten, Encoded
<1> QED BY <1>1, <1>2, <1>3, <1>4, <1>5, EncodeWritten, CloseWritten DEF Next, Write

\* What is read of a file that the client has written: the first of its cards, and an
\* error at the end of the file at the earliest.
ReadsOn ==
    encodes # 0 /\ pc # "write" =>
       /\ IsPrefix(yielded, Parse(UngroupedAll(Encoded)).cards)
       /\ failed => AtEOF /\ pc # "inside"

LEMMA FineConcat ==
    ASSUME NEW s, FineCards(s), NEW t, FineCards(t)
    PROVE  FineCards(s \o t)
<1> DEFINE x == s \o t
<1>1. /\ IsList(x) /\ Len(x) = Len(s) + Len(t) /\ Len(s) \in Nat /\ Len(t) \in Nat
      /\ \A i \in 1 .. Len(s) : x[i] = s[i]
      /\ \A i \in 1 .. Len(t) : x[Len(s) + i] = t[i]
  BY ListConcat, ListType DEF FineCards
<1> HIDE DEF x
<1>2. ASSUME NEW i \in 1 .. Len(x) PROVE IsCard(x[i]) /\ WritableCard(x[i])
  <2>1. CASE i \in 1 .. Len(s)
    BY <1>1, <2>1 DEF FineCards
  <2>2. CASE i \notin 1 .. Len(s)
    <3>1. i - Len(s) \in 1 .. Len(t) /\ Len(s) + (i - Len(s)) = i
      BY <1>1, <2>2
    <3>2. x[i] = t[i - Len(s)]
      BY <1>1, <3>1
    <3> QED BY <3>1, <3>2 DEF FineCards
  <2> QED BY <2>1, <2>2
<1>3. FineCards(x)
  BY <1>1, <1>2 DEF FineCards
<1> QED BY <1>3 DEF x

\* The cards that are made of the whole of what the client encoded.
LEMMA EncodedReads ==
    ASSUME NEW cards, FineCards(cards)
    PROVE  LET E == EncodedCards(cards)
           IN  /\ AllLists(E) /\ AllSafe(E)
               /\ Run(ParseStart, UngroupedAll(E)) = Closed(Parse(UngroupedAll(E)).cards)
               /\ IsList(Parse(UngroupedAll(E)).cards)
<1> DEFINE E == EncodedCards(cards)
<1>1. CardsRead(cards) /\ AllSafe(E)
  BY CardsAreRead, CardsSafe DEF FineCards
<1>2. AllLists(E)
  BY <1>1 DEF CardsRead
<1>3. PICK ds : Run(ParseStart, UngroupedAll(E)) = Closed(ds)
  BY <1>1 DEF CardsRead
<1> HIDE DEF E
<1>4. IsList(ds)
  <2>1. 0 \in 0 .. Len(E)
    BY <1>2, ListType DEF AllLists
  <2> QED BY <1>2, <1>3, <2>1, PrefixCards
<1>5. Parse(UngroupedAll(E)).cards = ds
  <2>1. Parse(UngroupedAll(E)) = [cards |-> ds, error |-> "nil"]
    BY <1>3, ParseCases
  <2> QED BY <2>1
<1> QED BY <1>1, <1>2, <1>3, <1>4, <1>5 DEF E

\* A reader that is where the batch parser is has made the first of those cards.
LEMMA ReadSoFar ==
    ASSUME NEW cards, FineCards(cards), NEW w, CutFile(w, EncodedCards(cards)), NEW n \in 0 .. Len(w),
           NEW ys, IsList(ys), HasCards(Run(ParseStart, Taken(w, n)), ys)
    PROVE  IsPrefix(ys, Parse(UngroupedAll(EncodedCards(cards))).cards)
<1> DEFINE E == EncodedCards(cards)
           ds == Parse(UngroupedAll(E)).cards
<1>1. AllSafe(E) /\ Run(ParseStart, UngroupedAll(E)) = Closed(ds) /\ IsList(ds)
  BY EncodedReads
<1>2. CutFile(w, E)
  OBVIOUS
<1> HIDE DEF E, ds
<1>3. Extends(ds, ys)
  BY <1>1, <1>2, CutReads
<1>4. IsPrefix(ys, ds)
  BY <1>1, <1>3, ExtendsIsPrefix
<1> QED BY <1>4 DEF E, ds

\* The file that is read is one the writer may leave.
LEMMA FileIsCut ==
    ASSUME Typed, Careful, FileWritten, encodes # 0, closed \/ broken
    PROVE  CutFile(wire, Encoded) /\ FineCards(acked \o attempted) /\ readErrors = 0
<1>1. FineCards(acked \o attempted)
  BY FineConcat DEF Careful
<1>2. readErrors = 0
  BY DEF FileWritten
<1>3. CASE broken
  BY <1>1, <1>2, <1>3 DEF FileWritten
<1>4. CASE closed /\ ~broken
  <2>1. buffered = << >> /\ attempted = << >>
    BY <1>4 DEF Typed, TypeOK
  <2>2. wire \o buffered = EncodedCards(acked) /\ IsList(wire) /\ IsList(acked)
    BY <1>2, <1>4 DEF FileWritten, Typed, AllLists
  <2>3. wire \o << >> = wire /\ acked \o << >> = acked
    BY <2>2, ListConcat, EmptyList
  <2>4. wire = Encoded
    BY <2>1, <2>2, <2>3 DEF Encoded
  <2>5. CutFile(wire, wire)
    BY CutWhole DEF Typed
  <2> QED BY <1>1, <1>2, <2>4, <2>5
<1> QED BY <1>3, <1>4

\* The line a reader fails on is the last one of the file.
LEMMA FailsAtEnd ==
    ASSUME Typed, Agree, Careful, FileWritten, encodes # 0, closed \/ broken, ~failed, ~AtEOF,
           ReadOutside \/ ReadInside, failed'
    PROVE  pos' = Len(wire) /\ UNCHANGED <<wire, yielded>> /\ pc' = "idle"
<1>1. CutFile(wire, Encoded) /\ FineCards(acked \o attempted) /\ readErrors = 0
  BY FileIsCut
<1>2. Consume /\ UNCHANGED wire
  BY DEF ReadOutside, ReadInside
<1>3. pos' = pos + 1 /\ pos + 1 \in 1 .. Len(wire) /\ pos \in 0 .. Len(wire) /\ Len(wire) \in Nat
  BY <1>2, Consumed
<1>4. pos < Len(wire)
  BY <1>3
<1>5. Fails /\ Run(ParseStart, Taken(wire, pos + 1)).error # "nil"
  <2> DEFINE st == Run(ParseStart, Taken(wire, pos))
  <2>1. Run(ParseStart, Taken(wire, pos + 1)) = ParseStep(st, Ungrouped(NextLine))
    BY <1>3, <1>4, TakenNext DEF Typed, NextLine
  <2>2. CASE ReadOutside
    <3>1. pc # "inside"
      BY <2>2 DEF ReadOutside
    <3>2. st = Closed(yielded)
      BY <1>1, <3>1 DEF Agree
    <3>3. Fails /\ ParseStep(Closed(yielded), Ungrouped(NextLine)).error # "nil"
      BY <2>2, OutsideStep
    <3> QED BY <2>1, <3>2, <3>3
  <2>3. CASE ReadInside
    <3>1. pc = "inside"
      BY <2>3 DEF ReadInside
    <3>2. st = Opened(yielded, cur, version)
      BY <1>1, <3>1 DEF Agree
    <3>3. Fails /\ ParseStep(Opened(yielded, cur, version), Ungrouped(NextLine)).error # "nil"
      BY <2>3, InsideStep DEF GoesOn, Yields
    <3> QED BY <2>1, <3>2, <3>3
  <2> QED BY <2>2, <2>3
<1>6. ~(pos + 1 < Len(wire))
  <2> DEFINE E == EncodedCards(acked \o attempted)
  <2>1. AllSafe(E) /\ Run(ParseStart, UngroupedAll(E)) = Closed(Parse(UngroupedAll(E)).cards)
    BY <1>1, EncodedReads
  <2>2. CutFile(wire, E) /\ pos + 1 \in 0 .. Len(wire)
    BY <1>1, <1>3 DEF Encoded
  <2> HIDE DEF E
  <2>3. pos + 1 < Len(wire) => Run(ParseStart, Taken(wire, pos + 1)).error = "nil"
    BY <2>1, <2>2, CutReads
  <2> QED BY <1>5, <2>3
<1> QED BY <1>2, <1>3, <1>5, <1>6 DEF Fails

LEMMA ReadsStart == Init => ReadsOn
BY DEF Init, ReadsOn

\* Without an error so far the reader is where the batch parser is.
LEMMA StillReads ==
    ASSUME Typed', Agree', Careful', encodes' # 0, ~failed', pc' # "write",
           CutFile(wire', Encoded'), readErrors' = 0
    PROVE  ReadsOn'
<1>1. pos' \in 0 .. Len(wire') /\ IsList(yielded')
  BY DEF Typed, TypeOK
<1>2. HasCards(Run(ParseStart, Taken(wire', pos')), yielded')
  BY DEF Agree, HasCards
<1>3. FineCards(acked' \o attempted')
  BY FineConcat DEF Careful
<1>4. IsPrefix(yielded', Parse(UngroupedAll(EncodedCards(acked' \o attempted'))).cards)
  BY <1>1, <1>2, <1>3, ReadSoFar DEF Encoded
<1> QED BY <1>4 DEF ReadsOn, Encoded

LEMMA StepReads ==
    ASSUME Typed, Agree, Careful, FileWritten, ReadsOn, [Next]_vars,
           Typed', Agree', Careful', FileWritten'
    PROVE  ReadsOn'
<1> SUFFICES ASSUME encodes' # 0, pc' # "write" PROVE ReadsOn'
  BY DEF ReadsOn
<1>1. CASE UNCHANGED vars
  BY <1>1 DEF vars, encVars, readVars, ReadsOn, Encoded, AtEOF
<1>2. CASE Edit \/ Encode \/ Close
  BY <1>2 DEF Edit, Encode, Close
<1>3. CASE OpenFile
  <2>1. /\ ~failed' /\ encodes # 0 /\ (closed \/ broken) /\ UNCHANGED <<wire, acked, attempted, readErrors>>
    BY <1>3 DEF OpenFile, readVars, Typed
  <2>2. CutFile(wire', Encoded') /\ readErrors' = 0
    BY <2>1, FileIsCut DEF Encoded
  <2> QED BY <2>1, <2>2, StillReads
<1>4. CASE ReadFails
  BY <1>4 DEF ReadFails, encVars
<1>5. CASE Read
  <2>1. pc # "write" /\ UNCHANGED <<encVars, wire, readErrors>>
    BY <1>5 DEF Read, CallNext, ReadOutside, ReadInside
  <2>2. encodes # 0 /\ Encoded' = Encoded /\ (closed \/ broken)
    BY <2>1 DEF encVars, Encoded, FileWritten
  <2>3. CutFile(wire, Encoded) /\ readErrors = 0
    BY <2>2, FileIsCut
  <2>4. CASE ~failed'
    <3>1. CutFile(wire', Encoded') /\ readErrors' = 0
      BY <2>1, <2>2, <2>3
    <3> QED BY <2>4, <3>1, StillReads
  <2>5. IsPrefix(yielded, Parse(UngroupedAll(Encoded)).cards) /\ (failed => AtEOF /\ pc # "inside")
    BY <2>1, <2>2 DEF ReadsOn
  <2>6. UNCHANGED yielded /\ pos' = Len(wire) /\ pc' # "inside" => ReadsOn'
    <3>1. ASSUME UNCHANGED yielded, pos' = Len(wire), pc' # "inside" PROVE ReadsOn'
      <4>1. AtEOF'
        BY <2>1, <3>1 DEF AtEOF
      <4>2. IsPrefix(yielded', Parse(UngroupedAll(Encoded')).cards)
        BY <2>2, <2>5, <3>1
      <4> QED BY <3>1, <4>1, <4>2 DEF ReadsOn
    <3> QED BY <3>1
  <2>7. CASE failed' /\ CallNext
    <3>1. failed /\ UNCHANGED <<yielded, pos>> /\ pc' # "inside"
      BY <2>7 DEF CallNext
    <3> QED BY <2>5, <2>6, <3>1 DEF AtEOF
  <2>8. CASE failed' /\ AtEOF /\ ReadOutside
    <3>1. UNCHANGED yielded /\ pc' # "inside"
      BY <2>8, OutsideAtEnd
    <3>2. pos' = Len(wire)
      BY <2>8 DEF ReadOutside, Consume, AtEOF
    <3> QED BY <2>6, <3>1, <3>2
  <2>9. CASE failed' /\ AtEOF /\ ReadInside
    <3>1. UNCHANGED yielded /\ pc' # "inside"
      BY <2>9, InsideAtEnd DEF Fails
    <3>2. pos' = Len(wire)
      BY <2>9 DEF ReadInside, Consume, AtEOF
    <3> QED BY <2>6, <3>1, <3>2
  <2>10. CASE failed' /\ ~AtEOF /\ (ReadOutside \/ ReadInside)
    <3>1. ~failed
      BY <2>5, <2>10
    <3>2. pos' = Len(wire) /\ UNCHANGED yielded /\ pc' = "idle"
      BY <2>2, <2>10, <3>1, FailsAtEnd
    <3> QED BY <2>6, <3>2
  <2> QED BY <1>5, <2>4, <2>7, <2>8, <2>9, <2>10 DEF Read
<1> QED BY <1>1, <1>2, <1>3, <1>4, <1>5 DEF Next, Write

LEMMA WrittenInvariant ==
    ASSUME ClientIsCareful
    PROVE  Spec => [](Typed /\ Careful /\ FileWritten /\ ReadsOn)
<1>1. Init => Careful /\ FileWritten /\ ReadsOn
  BY CarefulStarts, FileStarts, ReadsStart
<1>2. ASSUME Typed, Agree, Typed', Agree', Careful, FileWritten, ReadsOn, [Next]_vars
      PROVE  Careful' /\ FileWritten' /\ ReadsOn'
  <2>1. Careful'
    BY <1>2, StepCareful
  <2>2. FileWritten'
    BY <1>2, StepWritten
  <2> QED BY <1>2, <2>1, <2>2, StepReads
<1> QED BY <1>1, <1>2, Invariant, PTL DEF Spec

-----------------------------------------------------------------------------
(* The iCalendar line of a property, read back.                             *)

\* A text without c loses nothing when the c in it go.
LEMMA WithoutNone ==
    ASSUME NEW s, IsList(s), NEW c, Free(s, {c})
    PROVE  Without(s, c) = s
<1> DEFINE S == {s[i] : i \in 1 .. Len(s)}
           T == {r \in Seq(S) : Without(r, c) = r}
<1>1. s \in Seq(S) /\ \A e \in S : e # c
  <2>1. PICK R : s \in Seq(R)
    BY DEF IsList
  <2> QED BY <2>1 DEF Free
<1> HIDE DEF S
<1>2. << >> \in T
  <2>1. [k \in DOMAIN << >> |-> IF << >>[k] = c THEN << >> ELSE <<<< >>[k]>>] = << >>
    OBVIOUS
  <2>2. Without(<< >>, c) = << >>
    BY <2>1, FlattenEmpty DEF Without
  <2> QED BY <2>2
<1>3. ASSUME NEW r \in T, NEW e \in S PROVE Append(r, e) \in T
  <2> DEFINE f == [k \in DOMAIN Append(r, e) |-> IF Append(r, e)[k] = c THEN << >> ELSE <<Append(r, e)[k]>>]
             g == [k \in DOMAIN r |-> IF r[k] = c THEN << >> ELSE <<r[k]>>]
             x == <<e>>
  <2>1. r \in Seq(S) /\ Append(r, e) \in Seq(S) /\ IsList(r) /\ Without(r, c) = r
    BY DEF IsList
  <2>2. Len(r) \in Nat /\ DOMAIN r = 1 .. Len(r) /\ DOMAIN Append(r, e) = 1 .. Len(r) + 1
        /\ Append(r, e)[Len(r) + 1] = e /\ \A i \in 1 .. Len(r) : Append(r, e)[i] = r[i]
    BY <2>1, ListAppend, ListType
  <2>3. IsTable(f, Append(r, e)) /\ IsTable(g, r)
    BY DEF IsTable
  <2>4. f[Len(r) + 1] = x /\ \A i \in 1 .. Len(r) : f[i] = g[i]
    BY <1>1, <2>2
  <2>5. FlattenSeq(f) = Without(Append(r, e), c) /\ FlattenSeq(g) = r
    BY <2>1 DEF Without
  <2>6. Append(r, e) = r \o x /\ IsList(x)
    BY <2>1, AppendIs, SingleList
  <2> HIDE DEF f, g, x
  <2>7. IsList(g) /\ f = Append(g, x)
    <3>1. \A i \in 1 .. Len(r) : f[i] = g[i]
      BY <2>4
    <3>2. IsList(g) /\ f = Append(g, f[Len(r) + 1])
      BY ONLY <2>1, <2>3, <3>1, TableAppend
    <3> QED BY <2>4, <3>2
  <2>8. FlattenSeq(Append(g, x)) = FlattenSeq(g) \o x
    BY <2>6, <2>7, FlattenAppend
  <2>9. Without(Append(r, e), c) = Append(r, e)
    BY <2>5, <2>6, <2>7, <2>8
  <2> QED BY <2>1, <2>9
<1>4. T \in SUBSET Seq(S)
  OBVIOUS
<1> HIDE DEF T
<1>5. s \in T
  BY <1>1, <1>2, <1>3, <1>4, SeqInduct
<1> QED BY <1>5 DEF T

\* The parameters are written as in a vCard.
LEMMA SameParams ==
    ASSUME NEW ps, IsList(ps), \A k \in 1 .. Len(ps) : IsParam(ps[k]) /\ WritableParam(ps[k])
    PROVE  /\ FormatParams(ps, EncodeParamValue) = ParamTexts(ps)
           /\ \A k \in 1 .. Len(ps) : Without(ps[k].value, DQ) = ps[k].value
<1>1. \A k \in 1 .. Len(ps) : Without(ps[k].value, DQ) = ps[k].value
  <2> SUFFICES ASSUME NEW k \in 1 .. Len(ps) PROVE Without(ps[k].value, DQ) = ps[k].value
    OBVIOUS
  <2>1. IsList(ps[k].value) /\ ~Has(ps[k].value, {DQ, LF, CR})
    BY DEF IsParam, WritableParam
  <2>2. Free(ps[k].value, {DQ})
    BY <2>1, HasIs DEF Free
  <2> QED BY <2>1, <2>2, WithoutNone
<1>2. DOMAIN ps = 1 .. Len(ps)
  BY ListType
<1>3. \A k \in DOMAIN ps : EncodeParamValue(ps[k].value) = FormatParamValue(ps[k].value)
  BY <1>1, <1>2 DEF EncodeParamValue
<1> DEFINE f == [k \in DOMAIN ps |-> <<Semi>> \o ToUpper(ps[k].name) \o <<"=">> \o EncodeParamValue(ps[k].value)]
           g == [k \in DOMAIN ps |-> ParamText(ps[k])]
<1>4. \A k \in DOMAIN ps : f[k] = g[k]
  BY <1>3 DEF ParamText
<1>5. f = g
  BY <1>4
<1>6. FormatParams(ps, EncodeParamValue) = FlattenSeq(f)
  BY DEF FormatParams
<1>7. ParamTexts(ps) = FlattenSeq(g)
  BY DEF ParamTexts
<1> HIDE DEF f, g
<1> QED BY <1>1, <1>5, <1>6, <1>7

\* Upper case once is upper case.
LEMMA UpperOnce ==
    ASSUME NEW s, IsList(s)
    PROVE  ToUpper(ToUpper(s)) = ToUpper(s)
<1> DEFINE U == ToUpper(s)
           W == ToUpper(U)
<1>1. IsList(U) /\ Len(U) = Len(s) /\ \A i \in 1 .. Len(s) : U[i] = UpperAtom(s[i])
  BY UpperOfList
<1> HIDE DEF U
<1>2. IsList(W) /\ Len(W) = Len(U) /\ \A i \in 1 .. Len(U) : W[i] = UpperAtom(U[i])
  BY <1>1, UpperOfList
<1> HIDE DEF W
<1>3. \A i \in 1 .. Len(W) : W[i] = U[i]
  BY <1>1, <1>2, UpperTwice
<1>4. W = U
  BY ONLY <1>1, <1>2, <1>3, ListEqual
<1> QED BY <1>4 DEF W, U

\* A property is a TEXT property whatever the case of its name.
LEMMA TextOfUpper ==
    ASSUME NEW n, IsList(n)
    PROVE  TextProperty(ToUpper(n)) <=> TextProperty(n)
<1>1. Len(ToUpper(n)) = Len(n) /\ \A i \in 1 .. Len(n) : ToUpper(n)[i] = UpperAtom(n[i])
  BY UpperOfList
<1>2. Len(n) = 1 => UpperAtom(ToUpper(n)[1]) = UpperAtom(n[1])
  <2> SUFFICES ASSUME Len(n) = 1 PROVE UpperAtom(ToUpper(n)[1]) = UpperAtom(n[1])
    OBVIOUS
  <2>1. ToUpper(n)[1] = UpperAtom(n[1])
    BY <1>1
  <2> QED BY <2>1, UpperTwice
<1> QED BY <1>1, <1>2 DEF TextProperty

\* What is written of the value of a property, and read back.
ValueText5545(p) == IF TextProperty(p.name) THEN EscapeText5545(p.value) ELSE p.value

LEMMA ValueReads ==
    ASSUME NEW p, IsProp(p), WritableProp(p)
    PROVE  /\ IsList(ValueText5545(p))
           /\ (IF TextProperty(ToUpper(p.name)) THEN UnescapeText5545(ValueText5545(p))
               ELSE ValueText5545(p)) = p.value
<1>1. IsList(p.name) /\ IsList(p.value) /\ ~Has(p.value, {CR})
  BY DEF IsProp, WritableProp
<1>2. Without(p.value, CR) = p.value
  BY <1>1, HasIs, WithoutNone
<1>3. EscapeText5545(p.value) = EscapeText(p.value)
  BY <1>2 DEF EscapeText5545, EscapeText
<1>4. UnescapeText5545(EscapeText(p.value)) = p.value /\ IsList(EscapeText(p.value))
  BY <1>1, EscapesUndone, EscapedIsList DEF UnescapeText5545
<1>5. TextProperty(ToUpper(p.name)) <=> TextProperty(p.name)
  BY <1>1, TextOfUpper
<1>6. CASE TextProperty(p.name)
  <2>1. ValueText5545(p) = EscapeText(p.value)
    BY <1>3, <1>6 DEF ValueText5545
  <2> QED BY <1>4, <1>5, <1>6, <2>1
<1>7. CASE ~TextProperty(p.name)
  <2>1. ValueText5545(p) = p.value
    BY <1>7 DEF ValueText5545
  <2> QED BY <1>1, <1>5, <1>7, <2>1
<1> QED BY <1>6, <1>7

\* A property that can be written in a vCard reads back from an iCalendar line, too.
LineReads(p) ==
    LET back == ParseContentLine5545(EncodeContentLine(p))
    IN  /\ ~Rejects5545(EncodeContentLine(p))
        /\ back.value = p.value /\ EqualFold(back.name, p.name)
        /\ \A j \in DOMAIN p.params : back.params[j].value = Without(p.params[j].value, DQ)

LEMMA LineReadsBack ==
    ASSUME NEW p, IsProp(p), WritableProp(p)
    PROVE  LineReads(p)
<1> DEFINE n == ToUpper(p.name)
           ps == p.params
           bs == ParamBodies(ps)
           d == <<":">>
           h == n \o ParamTexts(ps)
           v == ValueText5545(p)
           line == EncodeContentLine(p)
<1>1. /\ IsList(p.name) /\ IsList(p.value) /\ IsList(ps) /\ DOMAIN ps = 1 .. Len(ps)
      /\ \A k \in 1 .. Len(ps) : IsParam(ps[k]) /\ WritableParam(ps[k])
  <2>1. IsList(p.name) /\ IsList(p.value) /\ IsList(ps) /\ \A k \in 1 .. Len(ps) : IsParam(ps[k])
    BY DEF IsProp
  <2>2. DOMAIN ps = 1 .. Len(ps)
    BY <2>1, ListType
  <2>3. \A k \in DOMAIN ps : WritableParam(ps[k])
    BY DEF WritableProp
  <2> QED BY <2>1, <2>2, <2>3
<1>2. IsList(n) /\ n # << >> /\ Free(n, {":", Semi, DQ}) /\ ToUpper(n) = ToUpper(p.name)
  <2>1. Free(p.name, {":", Semi, DQ, LF, CR}) /\ p.name # << >>
    BY <1>1, HasIs DEF WritableProp, Plain
  <2>2. Free(p.name, {":", Semi, DQ})
    BY <2>1 DEF Free
  <2>3. Len(p.name) # 0
    BY <1>1, <2>1, EmptyList, ListEqual
  <2>4. IsList(n) /\ Len(n) = Len(p.name)
    BY <1>1, UpperOfList
  <2>5. Free(n, {":", Semi, DQ})
    BY <1>1, <2>2, UpperFree
  <2> QED BY <1>1, <2>3, <2>4, <2>5, EmptyList, UpperOnce
<1>3. \A k \in 1 .. Len(ps) : IsParam(ps[k]) /\ ReadsBack(ps[k])
  BY <1>1, ParamReadsBack
<1>4. Whole(n, ":") /\ Whole(n, Semi)
  BY <1>2, FreeWhole
<1>5. IsList(h) /\ Whole(h, ":") /\ SplitUnquoted(h, Semi) = <<n>> \o bs
  <2>1. IsList(n) /\ IsList(ps)
    BY <1>1, <1>2
  <2> HIDE DEF n, ps
  <2>2. IsList(h) /\ Whole(h, ":") /\ SplitUnquoted(h, Semi) = <<n>> \o bs
    BY ONLY <2>1, <1>3, <1>4, HeadIs
  <2> QED BY <2>2
<1>6. IsList(v) /\ (IF TextProperty(n) THEN UnescapeText5545(v) ELSE v) = p.value
  BY ValueReads
<1>7. line = Append(h, ":") \o v
  <2>1. FormatParams(ps, EncodeParamValue) = ParamTexts(ps)
    BY <1>1, SameParams
  <2>2. line = (h \o d) \o v
    BY <2>1 DEF EncodeContentLine, ValueText5545
  <2>3. Append(h, ":") = h \o d
    BY <1>5, AppendIs
  <2> QED BY <2>2, <2>3
<1> HIDE DEF n, h, v, line
<1>8. /\ FirstUnquoted(line, ":") # 0 /\ Value5545(line) = v
      /\ Segments(line) = <<n>> \o bs
  <2>1. /\ FirstUnquoted(line, ":") = Len(h) + 1 /\ Len(h) \in Nat /\ Value5545(line) = v
        /\ Segments(line) = SplitUnquoted(h, Semi)
    BY <1>5, <1>6, <1>7, LineAt
  <2> QED BY <1>5, <2>1
<1>9. Segments(line)[1] = n /\ Tail(Segments(line)) = bs
  <2> HIDE DEF ps
  <2> QED BY <1>1, <1>3, <1>8, BodiesAre
<1>10. DOMAIN bs = DOMAIN ps /\ \A k \in DOMAIN ps : bs[k] = ParamBody(ps[k])
  BY DEF ParamBodies
<1> HIDE DEF bs
<1>11. \A k \in DOMAIN ps : /\ FirstEquals(bs[k]) \notin {0, 1}
                            /\ Param(bs[k], FirstEquals(bs[k]))
                                 = [name |-> ToUpper(ps[k].name), value |-> ps[k].value]
  BY <1>1, <1>3, <1>10 DEF ReadsBack
<1>12. ~Rejects5545(line)
  BY <1>2, <1>8, <1>9, <1>10, <1>11 DEF Rejects5545
<1> DEFINE P == [k \in DOMAIN bs |-> Param(bs[k], FirstEquals(bs[k]))]
           w == IF TextProperty(n) THEN UnescapeText5545(v) ELSE v
           back == ParseContentLine5545(line)
<1>13. back = [name |-> n, params |-> P, value |-> w]
  BY <1>8, <1>9 DEF ParseContentLine5545
<1>14. \A k \in DOMAIN ps : P[k].value = Without(ps[k].value, DQ)
  <2>1. \A k \in DOMAIN ps : P[k] = [name |-> ToUpper(ps[k].name), value |-> ps[k].value]
    <3>1. \A k \in DOMAIN bs : P[k] = Param(bs[k], FirstEquals(bs[k]))
      OBVIOUS
    <3> HIDE DEF P, ps
    <3> QED BY <1>10, <1>11, <3>1
  <2> HIDE DEF P, ps
  <2>2. ASSUME NEW k \in DOMAIN ps PROVE P[k].value = ps[k].value
    <3>1. \A a, b : [name |-> a, value |-> b].value = b
      OBVIOUS
    <3>2. P[k] = [name |-> ToUpper(ps[k].name), value |-> ps[k].value]
      BY <2>1
    <3> QED BY ONLY <3>1, <3>2
  <2> QED BY <1>1, <2>2, SameParams
<1> HIDE DEF P, w, back
<1>15. back.name = n /\ back.params = P /\ back.value = w
  BY <1>13
<1>16. w = p.value
  BY <1>6 DEF w
<1>17. EqualFold(back.name, p.name)
  BY <1>2, <1>15 DEF EqualFold
<1> QED BY <1>12, <1>14, <1>15, <1>16, <1>17 DEF LineReads, line, back

-----------------------------------------------------------------------------
(* Theorems.                                                                *)

\* Every variable keeps its type; the reader is never past the end of the file, and
\* there are never more cards written than calls of Encode.
THEOREM TypeCorrect == Spec => []TypeOK
<1>1. Typed => TypeOK
  BY DEF Typed
<1> QED BY <1>1, Invariant, PTL

\* The pull parser agrees with the batch parser on every file that is read without an
\* error of the reader: an error on the way is a file that batch rejects, and io.EOF
\* without one is a file that batch makes the same cards of (VCardParser.Next, Parse).
THEOREM PullAgreesWithBatch == Spec => []StreamAgrees
<1>1. Typed /\ Agree => StreamAgrees
  <2> SUFFICES ASSUME Typed, Agree PROVE StreamAgrees
    OBVIOUS
  <2>1. TypeOK
    BY DEF Typed
  <2>2. ASSUME readErrors = 0, pc = "idle", result = "EOF", ~failed
        PROVE  Parse(UngroupedAll(wire)) = [cards |-> yielded, error |-> "nil"]
    <3>1. AllLists(wire) /\ pos = Len(wire) /\ pos \in 0 .. Len(wire)
      BY <2>2 DEF Typed, TypeOK, AtEOF
    <3>2. Taken(wire, pos) = UngroupedAll(wire)
      BY <3>1, TakenNext
    <3>3. Run(ParseStart, Taken(wire, pos)) = Closed(yielded)
      BY <2>2 DEF Agree
    <3> QED BY <3>2, <3>3, ParseCases
  <2>3. ASSUME readErrors = 0, failed
        PROVE  Parse(UngroupedAll(wire)).error # "nil"
    BY <2>3 DEF Agree
  <2> QED BY <2>1, <2>2, <2>3 DEF StreamAgrees
<1> QED BY <1>1, Invariant, PTL

\* Whatever errors came before, a card that Next returns is what the batch parser makes
\* of the lines from one BEGIN:VCARD up to where the reader is.
THEOREM CardsAreBlocks == Spec => []YieldedIsBlock
<1>1. InBlock => YieldedIsBlock
  <2> SUFFICES ASSUME InBlock, result = "card", pc = "idle"
               PROVE  \E from \in 1 .. pos :
                        /\ EqualFold(wire[from], BeginCard)
                        /\ Parse(UngroupedAll(SubSeq(wire, from, pos)))
                             = [cards |-> <<Last(yielded)>>, error |-> "nil"]
    BY DEF YieldedIsBlock
  <2>1. PICK from \in 1 .. pos :
            /\ EqualFold(wire[from], BeginCard)
            /\ Run(ParseStart, UngroupedAll(SubSeq(wire, from, pos))) = Closed(<<Last(yielded)>>)
    BY DEF InBlock
  <2>2. Parse(UngroupedAll(SubSeq(wire, from, pos))) = [cards |-> <<Last(yielded)>>, error |-> "nil"]
    BY <2>1, ParseCases
  <2> QED BY <2>1, <2>2
<1> QED BY <1>1, Invariant, PTL

\* For a client whose cards can be written: once Close has returned nil the batch
\* parser reads from the file exactly the cards whose Encode returned nil; and of a
\* file that a failing writer cut off anywhere, the pull parser makes the first cards
\* of what was encoded and none of the part that got there (VCardEncoder.Encode and
\* Close, VCardParser.Next, rfc6350 Parse).
THEOREM WrittenIsRead == ASSUME ClientIsCareful PROVE Spec => []ClosedIsComplete
<1>1. ASSUME Typed, Careful, FileWritten, ReadsOn PROVE ClosedIsComplete
  <2>1. ASSUME closed, readErrors = 0
        PROVE  Parse(wire) = [cards |-> [k \in DOMAIN acked |-> OnWireCard(acked[k])], error |-> "nil"]
    <3>1. buffered = << >> /\ ~broken /\ IsList(wire)
      BY <1>1, <2>1 DEF Typed, TypeOK, FileWritten, AllLists
    <3>2. wire \o buffered = EncodedCards(acked)
      BY <1>1, <2>1, <3>1 DEF FileWritten
    <3>3. wire \o << >> = wire
      BY <3>1, ListConcat, EmptyList
    <3>4. wire = EncodedCards(acked)
      BY <3>1, <3>2, <3>3
    <3>5. CardsRead(acked)
      BY <1>1, CardsAreRead DEF Careful, FineCards
    <3>6. Run(ParseStart, wire) = Closed(WiredCards(acked))
      BY <3>4, <3>5 DEF CardsRead
    <3>7. Parse(wire) = [cards |-> WiredCards(acked), error |-> "nil"]
      BY <3>6, ParseCases
    <3> QED BY <3>7 DEF WiredCards
  <2>2. ASSUME pc = "idle", acked \o attempted # << >>
        PROVE  IsPrefix(yielded, Parse(UngroupedAll(EncodedCards(acked \o attempted))).cards)
    <3>1. encodes # 0
      <4> SUFFICES ASSUME encodes = 0 PROVE FALSE
        OBVIOUS
      <4>1. IsList(acked) /\ IsList(attempted) /\ Len(acked) + Len(attempted) <= 0
        BY <1>1 DEF Typed, TypeOK
      <4>2. Len(acked) = 0 /\ Len(attempted) = 0
        BY <4>1, ListType
      <4>3. acked = << >> /\ attempted = << >>
        BY <4>1, <4>2, EmptyList, ListEqual
      <4>4. << >> \o << >> = << >>
        BY EmptyList, ListConcat
      <4> QED BY <2>2, <4>3, <4>4
    <3> QED BY <1>1, <2>2, <3>1 DEF ReadsOn, Encoded
  <2> QED BY <2>1, <2>2 DEF ClosedIsComplete
<1> QED BY <1>1, WrittenInvariant, PTL

\* The properties of a careful client's card that stay on one line read back from the
\* lines the iCalendar codec writes of them as well: the value as it was, the name but for
\* case, and the values of the parameters, in which a careful client puts no DQUOTE, the
\* one character these lines lose (rfc5545 encodeContentLine, ParseContentLine).
THEOREM LinesReadBack == ASSUME ClientIsCareful PROVE Spec => []LinesRoundTrip
<1>1. ASSUME Typed, Careful PROVE LinesRoundTrip
  <2> SUFFICES ASSUME pc = "write", NEW k \in DOMAIN draft.props PROVE LineReads(draft.props[k])
    BY DEF LinesRoundTrip, LineReads
  <2>1. IsProp(draft.props[k])
    <3>1. IsCard(draft)
      BY <1>1, CardsAreCards DEF Typed
    <3>2. DOMAIN draft.props = 1 .. Len(draft.props)
      BY <3>1, ListType DEF IsCard
    <3> QED BY <3>1, <3>2 DEF IsCard
  <2>2. WritableProp(draft.props[k])
    BY <1>1 DEF Careful, WritableCard
  <2> QED BY <2>1, <2>2, LineReadsBack
<1> QED BY <1>1, WrittenInvariant, PTL
=============================================================================
