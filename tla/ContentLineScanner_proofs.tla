------------------------ MODULE ContentLineScanner_proofs ------------------------
(***************************************************************************)
(* The scanner loses nothing of inputs of any length, wherever blank lines, *)
(* folds and read errors fall, and gives back every document that           *)
(* writeFolded folded, for any limit of octets per line.                    *)
(***************************************************************************)
EXTENDS ContentLineScanner, SequenceTheorems, TLAPS

Gluing  == INSTANCE FoldLaws WITH Op <- Glue
Keeping == INSTANCE FoldLaws WITH Op <- KeepContent

Line  == Seq(Octets)
Lines == Seq(Line)

-----------------------------------------------------------------------------
(* Lists of lines.                                                         *)

LEMMA LinesAreLists == ASSUME NEW s \in Lines PROVE Gluing!IsList(s) /\ Keeping!IsList(s)
BY DEF Gluing!IsList, Keeping!IsList, Lines

LEMMA EmptyLines == << >> \in Lines /\ << >> \in Line
BY DEF Lines, Line

LEMMA LinesAppend ==
    ASSUME NEW s \in Lines, NEW e \in Line
    PROVE  /\ Append(s, e) \in Lines /\ Append(s, e) # << >>
           /\ Front(Append(s, e)) = s /\ Last(Append(s, e)) = e
           /\ Append(s, e) = s \o <<e>>
<1>1. Append(s, e) \in Lines /\ Len(Append(s, e)) = Len(s) + 1 /\ Len(s) \in Nat
  BY DEF Lines
<1>2. Last(Append(s, e)) = e
  BY <1>1 DEF Last, Lines
<1>3. Front(Append(s, e)) = s
  <2>1. Front(Append(s, e)) = SubSeq(Append(s, e), 1, Len(s))
    BY <1>1 DEF Front
  <2>2. SubSeq(Append(s, e), 1, Len(s)) = s
    BY DEF Lines
  <2> QED BY <2>1, <2>2
<1>4. Append(s, e) = s \o <<e>>
  BY AppendIsConcat DEF Lines
<1> QED BY <1>1, <1>2, <1>3, <1>4

LEMMA LinesCases ==
    ASSUME NEW s \in Lines
    PROVE  s = << >> \/ \E r \in Lines, e \in Line : s = Append(r, e) /\ Len(s) = Len(r) + 1
<1>1. CASE s # << >>
  <2> DEFINE n == Len(s) - 1
  <2>1. n \in Nat /\ n < Len(s) /\ n <= Len(s) /\ 1 <= n + 1 /\ n + 1 = Len(s)
    BY <1>1 DEF Lines
  <2> HIDE DEF n
  <2>2. s[n + 1] \in Line
    BY <2>1 DEF Lines
  <2>3. /\ SubSeq(s, 1, n + 1) = Append(SubSeq(s, 1, n), s[n + 1]) /\ SubSeq(s, 1, Len(s)) = s
        /\ Len(SubSeq(s, 1, n)) = n - 1 + 1
    BY <2>1, LinesAreLists, Gluing!ListPart
  <2>4. SubSeq(s, 1, n) \in Lines
    BY <2>1 DEF Lines
  <2>5. Len(s) = Len(SubSeq(s, 1, n)) + 1
    BY <2>1, <2>3
  <2>6. s = Append(SubSeq(s, 1, n), s[n + 1])
    BY <2>1, <2>3, Zenon
  <2> QED BY <2>2, <2>4, <2>5, <2>6
<1> QED BY <1>1

LEMMA GluingIsFold == ASSUME NEW base, NEW s PROVE FoldLeft(Glue, base, s) = Gluing!Fold(base, s)
BY DEF Gluing!Fold, FoldLeft, Gluing!FoldLeft, MapThenFoldSet, Gluing!MapThenFoldSet, Max, Gluing!Max

LEMMA KeepingIsFold == ASSUME NEW base, NEW s PROVE FoldLeft(KeepContent, base, s) = Keeping!Fold(base, s)
BY DEF Keeping!Fold, FoldLeft, Keeping!FoldLeft, MapThenFoldSet, Keeping!MapThenFoldSet, Max, Keeping!Max

LEMMA GluingAppend ==
    ASSUME NEW base, NEW s, Gluing!IsList(s), NEW raw
    PROVE  Gluing!Fold(base, Append(s, raw)) = Glue(Gluing!Fold(base, s), raw)
BY Gluing!FoldAppend

\* A physical line more.
LEMMA JoinedAppend ==
    ASSUME NEW phys \in Lines, NEW raw \in Line
    PROVE  Joined(Append(phys, raw)) = Glue(Joined(phys), raw)
<1>1. Gluing!Fold(<< >>, Append(phys, raw)) = Glue(Gluing!Fold(<< >>, phys), raw)
  BY LinesAreLists, Gluing!FoldAppend
<1> QED BY <1>1, GluingIsFold DEF Joined

LEMMA NonEmptyAppend ==
    ASSUME NEW s \in Lines, NEW e \in Line
    PROVE  NonEmpty(Append(s, e)) = KeepContent(NonEmpty(s), e)
<1>1. Keeping!Fold(<< >>, Append(s, e)) = KeepContent(Keeping!Fold(<< >>, s), e)
  BY LinesAreLists, Keeping!FoldAppend
<1> QED BY <1>1, KeepingIsFold DEF NonEmpty

LEMMA NothingYet == Joined(<< >>) = << >> /\ NonEmpty(<< >>) = << >>
BY GluingIsFold, KeepingIsFold, Gluing!FoldEmpty, Keeping!FoldEmpty DEF Joined, NonEmpty

\* What a line does to the last of the lines before it.
LEMMA GlueCases ==
    ASSUME NEW s \in Lines, NEW e \in Line, NEW raw \in Line
    PROVE  /\ ~Continues(raw) => Glue(s, raw) = Append(s, raw)
           /\ Continues(raw) => /\ Tail(raw) \in Line
                                /\ Glue(<< >>, raw) = Append(<< >>, Tail(raw))
                                /\ Glue(Append(s, e), raw) = Append(s, e \o Tail(raw))
<1>1. CASE ~Continues(raw)
  BY <1>1 DEF Glue
<1>2. CASE Continues(raw)
  <2>1. Tail(raw) \in Line
    BY <1>2 DEF Continues, Line
  <2>2. Glue(<< >>, raw) = Append(<< >>, Tail(raw))
    BY <1>2 DEF Glue
  <2>3. Glue(Append(s, e), raw) = Append(s, e \o Tail(raw))
    BY <1>2, LinesAppend DEF Glue
  <2> QED BY <1>2, <2>1, <2>2, <2>3
<1> QED BY <1>1, <1>2
-----------------------------------------------------------------------------
(* Folding.                                                                *)

LEMMA MinOfTwo ==
    ASSUME NEW a \in Nat, NEW b \in Nat PROVE Min({a, b}) = IF a <= b THEN a ELSE b
<1>1. CASE a <= b
  <2>1. a \in {a, b} /\ (\A y \in {a, b} : a <= y) /\ (\A x \in {a, b} : (\A y \in {a, b} : x <= y) => x = a)
    BY <1>1
  <2> HIDE <1>1
  <2>2. Min({a, b}) = a
    BY <2>1 DEF Min
  <2> QED BY <1>1, <2>2
<1>2. CASE ~(a <= b)
  <2>1. b \in {a, b} /\ (\A y \in {a, b} : b <= y) /\ (\A x \in {a, b} : (\A y \in {a, b} : x <= y) => x = b)
    BY <1>2
  <2>2. Min({a, b}) = b
    BY <2>1 DEF Min
  <2> QED BY <1>2, <2>2
<1> QED BY <1>1, <1>2

\* The folds are in order and no further apart than a line is long; the last one is the
\* end of the line.
LEMMA FoldsAt ==
    ASSUME NEW len \in Nat
    PROVE  /\ Continuations(len) \in Nat
           /\ FoldAt(Continuations(len), len) = len
           /\ FoldAt(0, len) <= MaxOctets /\ (len > 0 => FoldAt(0, len) > 0)
           /\ \A k \in Nat : /\ FoldAt(k, len) \in 0 .. len
                             /\ FoldAt(k, len) <= FoldAt(k + 1, len)
                             /\ FoldAt(k + 1, len) <= FoldAt(k, len) + (MaxOctets - 1)
<1> DEFINE M == MaxOctets
           C == Continuations(len)
           End(k) == M + k * (M - 1)
<1>1. M \in Nat /\ M >= 2
  BY ScannerAssumption
<1>2. ASSUME NEW k \in Nat
      PROVE  End(k) \in Nat /\ End(k + 1) = End(k) + (M - 1)
  BY <1>1
<1>3. ASSUME NEW k \in Nat PROVE FoldAt(k, len) = IF len <= End(k) THEN len ELSE End(k)
  BY <1>2, MinOfTwo DEF FoldAt
<1>4. C \in Nat /\ len <= End(C)
  <2>1. CASE len <= M
    <3>1. C = 0
      BY <2>1 DEF Continuations
    <3> QED BY <1>1, <2>1, <3>1
  <2>2. CASE len > M
    <3> DEFINE a == len - M + M - 2
               b == M - 1
    <3>1. a \in Nat /\ b \in Nat /\ b >= 1 /\ C = a \div b /\ a = len - 2
      BY <1>1, <2>2 DEF Continuations
    <3>2. (a \div b) \in Nat /\ a < b * ((a \div b) + 1)
      <4> HIDE DEF a, b
      <4> QED BY <3>1
    <3>3. C \in Nat /\ len - 2 < (C + 1) * (M - 1)
      BY <3>1, <3>2
    <3>4. (C + 1) * (M - 1) = C * (M - 1) + (M - 1)
      BY <1>1, <3>3
    <3> HIDE DEF C, a, b
    <3> QED BY <1>1, <3>3, <3>4
  <2> QED BY <1>1, <2>1, <2>2
<1> HIDE DEF C
<1>5. FoldAt(C, len) = len
  BY <1>3, <1>4
<1>6. End(0) = M
  BY <1>1
<1> HIDE DEF End
<1>7. FoldAt(0, len) <= M /\ (len > 0 => FoldAt(0, len) > 0)
  BY <1>1, <1>3, <1>6
<1>8. ASSUME NEW k \in Nat
      PROVE  /\ FoldAt(k, len) \in 0 .. len
             /\ FoldAt(k, len) <= FoldAt(k + 1, len)
             /\ FoldAt(k + 1, len) <= FoldAt(k, len) + (M - 1)
  <2>1. k + 1 \in Nat
    OBVIOUS
  <2> QED BY <1>1, <1>2, <1>3, <2>1
<1> QED BY <1>4, <1>5, <1>7, <1>8 DEF C

LEMMA PartsJoin ==
    ASSUME NEW s \in Line, NEW a \in Nat, NEW b \in Nat, a <= b, b <= Len(s)
    PROVE  /\ SubSeq(s, a + 1, b) \in Line /\ Len(SubSeq(s, a + 1, b)) = b - a
           /\ SubSeq(s, 1, a) \o SubSeq(s, a + 1, b) = SubSeq(s, 1, b)
<1> DEFINE x == SubSeq(s, 1, a)
           y == SubSeq(s, a + 1, b)
           z == SubSeq(s, 1, b)
<1>1. Len(s) \in Nat
  BY DEF Line
<1>2. x \in Line /\ Len(x) = a /\ \A i \in 1 .. a : x[i] = s[i]
  BY <1>1 DEF Line
<1>3. y \in Line /\ Len(y) = b - a /\ \A i \in 1 .. b - a : y[i] = s[a + i]
  BY <1>1 DEF Line
<1>4. z \in Line /\ Len(z) = b /\ \A i \in 1 .. b : z[i] = s[i]
  BY <1>1 DEF Line
<1> HIDE DEF x, y, z
<1>5. /\ x \o y \in Line /\ Len(x \o y) = a + (b - a)
      /\ \A i \in 1 .. a + (b - a) : (x \o y)[i] = IF i <= a THEN x[i] ELSE y[i - a]
  BY <1>2, <1>3, ConcatProperties DEF Line
<1>6. Len(x \o y) = b /\ \A i \in 1 .. b : (x \o y)[i] = z[i]
  <2>1. a + (b - a) = b
    OBVIOUS
  <2>2. ASSUME NEW i \in 1 .. b PROVE (x \o y)[i] = z[i]
    <3>1. CASE i <= a
      BY <1>2, <1>4, <1>5, <2>1, <3>1
    <3>2. CASE ~(i <= a)
      <4>1. i - a \in 1 .. b - a /\ a + (i - a) = i
        BY <3>2
      <4>2. y[i - a] = s[i]
        BY <1>3, <4>1
      <4> QED BY <1>4, <1>5, <2>1, <3>2, <4>2
    <3> QED BY <3>1, <3>2
  <2> QED BY <1>5, <2>1, <2>2
<1>7. x \o y = z
  BY <1>4, <1>5, <1>6, SeqEqual DEF Line
<1> QED BY <1>3, <1>7 DEF x, y, z

\* The physical lines of a logical one.
LEMMA FoldLines ==
    ASSUME NEW line \in Line
    PROVE  LET len == Len(line)
           IN  /\ Fold(line) \in Lines /\ Len(Fold(line)) = Continuations(len) + 1
               /\ Fold(line)[1] = SubSeq(line, 1, FoldAt(0, len))
               /\ \A k \in 2 .. Continuations(len) + 1 :
                    Fold(line)[k] = <<WSP>> \o SubSeq(line, FoldAt(k - 2, len) + 1, FoldAt(k - 1, len))
               /\ \A k \in 1 .. Continuations(len) + 1 : Len(Fold(line)[k]) <= MaxOctets
<1> DEFINE len == Len(line)
           C == Continuations(len)
           f == Fold(line)
           Part(k) == IF k = 1 THEN SubSeq(line, 1, FoldAt(0, len))
                      ELSE <<WSP>> \o SubSeq(line, FoldAt(k - 2, len) + 1, FoldAt(k - 1, len))
<1>1. len \in Nat
  BY DEF Line
<1>2. C \in Nat /\ FoldAt(0, len) <= MaxOctets /\ FoldAt(0, len) \in 0 .. len
  BY <1>1, FoldsAt
<1>3. f = [k \in 1 .. C + 1 |-> Part(k)]
  BY DEF Fold
<1>4. ASSUME NEW k \in 1 .. C + 1 PROVE Part(k) \in Line /\ Len(Part(k)) <= MaxOctets
  <2>1. CASE k = 1
    <3>1. SubSeq(line, 0 + 1, FoldAt(0, len)) \in Line /\ Len(SubSeq(line, 0 + 1, FoldAt(0, len))) = FoldAt(0, len) - 0
      BY <1>1, <1>2, PartsJoin
    <3> QED BY <1>2, <2>1, <3>1
  <2>2. CASE k # 1
    <3> DEFINE a == FoldAt(k - 2, len)
               b == FoldAt(k - 1, len)
               part == SubSeq(line, a + 1, b)
    <3>1. k - 2 \in Nat /\ (k - 2) + 1 = k - 1
      BY <1>2, <2>2
    <3>2. a \in 0 .. len /\ a <= b /\ b <= a + (MaxOctets - 1) /\ b \in 0 .. len
      <4>1. k - 1 \in Nat
        BY <3>1
      <4> QED BY <1>1, <3>1, <4>1, FoldsAt
    <3>3. part \in Line /\ Len(part) = b - a
      <4> HIDE DEF a, b
      <4> QED BY <1>1, <3>2, PartsJoin
    <3>4. <<WSP>> \in Line /\ Len(<<WSP>>) = 1
      BY ScannerAssumption DEF Line
    <3>5. Part(k) = <<WSP>> \o part
      BY <2>2
    <3> HIDE DEF a, b, part, Part
    <3>6. <<WSP>> \o part \in Line /\ Len(<<WSP>> \o part) = 1 + Len(part)
      BY <3>3, <3>4, ConcatProperties DEF Line
    <3>7. 1 + Len(part) <= MaxOctets
      BY <1>1, <3>2, <3>3, ScannerAssumption
    <3> QED BY <3>5, <3>6, <3>7
  <2> QED BY <2>1, <2>2
<1>5. f \in Lines /\ Len(f) = C + 1
  <2> HIDE DEF Part, C
  <2> QED BY <1>2, <1>3, <1>4 DEF Lines
<1>6. f[1] = Part(1) /\ \A k \in 2 .. C + 1 : f[k] = Part(k)
  <2> HIDE DEF Part, C
  <2> QED BY <1>2, <1>3
<1>7. \A k \in 1 .. C + 1 : Len(f[k]) <= MaxOctets
  <2> HIDE DEF Part
  <2> QED BY <1>3, <1>4
<1>8. \A k \in 2 .. C + 1 : Part(k) = <<WSP>> \o SubSeq(line, FoldAt(k - 2, len) + 1, FoldAt(k - 1, len))
  <2> TAKE k \in 2 .. C + 1
  <2>1. k # 1
    BY <1>2
  <2> QED BY <2>1
<1> HIDE DEF f, C
<1> QED BY <1>5, <1>6, <1>7, <1>8 DEF f, C

\* What is on the wire up to the k-th fold of a line gives the line up to there.
LEMMA FoldJoins ==
    ASSUME NEW base \in Lines, NEW line \in Line, line # << >>, line[1] # WSP
    PROVE  FoldLeft(Glue, base, Fold(line)) = Append(base, line)
<1> DEFINE len == Len(line)
           C == Continuations(len)
           f == Fold(line)
           At(k) == FoldAt(k, len)
           S == {k \in Nat : k <= C =>
                    Gluing!Fold(base, SubSeq(f, 1, k + 1)) = Append(base, SubSeq(line, 1, At(k)))}
<1>1. len \in Nat /\ len > 0
  BY DEF Line
<1>2. /\ C \in Nat /\ At(C) = len /\ At(0) > 0
      /\ \A k \in Nat : At(k) \in 0 .. len /\ At(k) <= At(k + 1)
  BY <1>1, FoldsAt
<1>3. /\ f \in Lines /\ Len(f) = C + 1 /\ f[1] = SubSeq(line, 1, At(0))
      /\ \A k \in 2 .. C + 1 : f[k] = <<WSP>> \o SubSeq(line, At(k - 2) + 1, At(k - 1))
  BY FoldLines
<1> HIDE DEF f, C, At
<1>4. Gluing!IsList(f)
  BY <1>3, LinesAreLists
<1>5. ASSUME NEW n \in 1 .. C
      PROVE  /\ Gluing!IsList(SubSeq(f, 1, n))
             /\ SubSeq(f, 1, n + 1) = Append(SubSeq(f, 1, n), f[n + 1])
  <2>1. n \in Nat /\ n <= Len(f) /\ n < Len(f) /\ 1 <= n + 1 /\ 1 \in Nat \ {0}
    BY <1>2, <1>3
  <2> QED BY <1>4, <2>1, Gluing!ListPart
<1>6. 0 \in S
  <2>1. SubSeq(f, 1, 1) = Append(<< >>, f[1])
    <3>1. f \in Seq(Line) /\ 1 <= Len(f) /\ f[1] \in Line
      <4>1. f \in Seq(Line) /\ Len(f) = C + 1 /\ C \in Nat
        BY <1>2, <1>3 DEF Lines
      <4> HIDE <1>2, <1>3
      <4>2. 1 \in 1 .. Len(f)
        BY <4>1
      <4> QED BY <4>1, <4>2
    <3>2. SubSeq(f, 1, 1) \in Seq(Line) /\ Len(SubSeq(f, 1, 1)) = 1 /\ SubSeq(f, 1, 1)[1] = f[1]
      BY <3>1
    <3>3. Append(<< >>, f[1]) \in Seq(Line) /\ Len(Append(<< >>, f[1])) = 1 /\ Append(<< >>, f[1])[1] = f[1]
      BY <3>1
    <3>4. \A i \in 1 .. 1 : i = 1
      OBVIOUS
    <3> QED BY <3>2, <3>3, <3>4, SeqEqual
  <2>2. Gluing!Fold(base, Append(<< >>, f[1])) = Glue(base, f[1])
    <3>1. Gluing!IsList(<< >>)
      BY EmptyLines, LinesAreLists
    <3>2. Gluing!Fold(base, << >>) = base
      BY Gluing!FoldEmpty
    <3>3. Gluing!Fold(base, Append(<< >>, f[1])) = Glue(Gluing!Fold(base, << >>), f[1])
      BY <3>1, GluingAppend
    <3> QED BY <3>2, <3>3
  <2>3. f[1] \in Line /\ ~Continues(f[1])
    <3>1. At(0) \in 1 .. len
      BY <1>2
    <3>2. SubSeq(line, 1, At(0)) \in Line /\ SubSeq(line, 1, At(0))[1] = line[1]
      BY <1>1, <3>1 DEF Line
    <3> QED BY <1>3, <3>2 DEF Continues
  <2>4. Glue(base, f[1]) = Append(base, f[1])
    BY <2>3 DEF Glue
  <2>5. Gluing!Fold(base, SubSeq(f, 1, 0 + 1)) = Append(base, SubSeq(line, 1, At(0)))
    <3>1. 0 + 1 = 1
      OBVIOUS
    <3>2. SubSeq(f, 1, 0 + 1) = Append(<< >>, f[1]) /\ f[1] = SubSeq(line, 1, At(0))
      BY <1>3, <2>1, <3>1
    <3> QED BY <2>2, <2>4, <3>2
  <2> QED BY <2>5
<1>7. ASSUME NEW k \in S PROVE k + 1 \in S
  <2> SUFFICES ASSUME k + 1 <= C
               PROVE  Gluing!Fold(base, SubSeq(f, 1, (k + 1) + 1)) = Append(base, SubSeq(line, 1, At(k + 1)))
    OBVIOUS
  <2> DEFINE n == k + 1
             x == SubSeq(line, 1, At(k))
             y == SubSeq(line, At(k) + 1, At(k + 1))
  <2>1. k \in Nat /\ k <= C /\ n \in 1 .. C /\ n + 1 \in 2 .. C + 1 /\ (n + 1) - 2 = k /\ (n + 1) - 1 = k + 1
    BY <1>2
  <2>2. Gluing!Fold(base, SubSeq(f, 1, n)) = Append(base, x)
    BY <2>1
  <2>3. f[n + 1] = <<WSP>> \o y
    BY <1>3, <2>1
  <2>4. /\ x \in Line /\ y \in Line
        /\ x \o y = SubSeq(line, 1, At(k + 1))
    <3>1. k + 1 \in Nat
      BY <2>1
    <3>2. At(k) \in Nat /\ At(k + 1) \in Nat /\ At(k) <= At(k + 1) /\ At(k + 1) <= Len(line)
      BY <1>1, <1>2, <2>1, <3>1
    <3>3. x \in Line
      BY <1>1, <3>2 DEF Line
    <3> QED BY <3>2, <3>3, PartsJoin
  <2> HIDE DEF x, y, S
  <2>5. <<WSP>> \o y \in Line /\ Continues(<<WSP>> \o y) /\ Tail(<<WSP>> \o y) = y
    <3>1. <<WSP>> \in Seq(Octets) /\ Len(<<WSP>>) = 1 /\ <<WSP>>[1] = WSP
      BY ScannerAssumption
    <3> DEFINE z == <<WSP>> \o y
    <3>2. /\ z \in Seq(Octets) /\ Len(z) = 1 + Len(y)
          /\ \A i \in 1 .. 1 + Len(y) : z[i] = IF i <= 1 THEN WSP ELSE y[i - 1]
      BY <2>4, <3>1, ConcatProperties DEF Line
    <3> HIDE DEF z
    <3>3. Len(y) \in Nat /\ z # << >> /\ z[1] = WSP
      BY <2>4, <3>2 DEF Line
    <3>4. Tail(z) \in Seq(Octets) /\ Len(Tail(z)) = Len(y) /\ \A i \in 1 .. Len(y) : Tail(z)[i] = y[i]
      BY <3>2, <3>3
    <3>5. Tail(z) = y
      BY <2>4, <3>4, SeqEqual DEF Line
    <3> QED BY <3>2, <3>3, <3>5 DEF Line, Continues, z
  <2>6. Glue(Append(base, x), <<WSP>> \o y) = Append(base, x \o y)
    <3> DEFINE z == <<WSP>> \o y
    <3>1. z \in Line /\ Continues(z) /\ Tail(z) = y
      BY <2>5
    <3> HIDE DEF z
    <3>2. Glue(Append(base, x), z) = Append(base, x \o Tail(z))
      BY <2>4, <3>1, GlueCases
    <3> QED BY <3>1, <3>2 DEF z
  <2>7. Gluing!Fold(base, SubSeq(f, 1, n + 1)) = Glue(Gluing!Fold(base, SubSeq(f, 1, n)), f[n + 1])
    <3>1. Gluing!IsList(SubSeq(f, 1, n)) /\ SubSeq(f, 1, n + 1) = Append(SubSeq(f, 1, n), f[n + 1])
      BY <1>5, <2>1
    <3> HIDE DEF n
    <3>2. Gluing!Fold(base, Append(SubSeq(f, 1, n), f[n + 1])) = Glue(Gluing!Fold(base, SubSeq(f, 1, n)), f[n + 1])
      BY <3>1, GluingAppend
    <3> QED BY <3>1, <3>2
  <2> QED BY <2>2, <2>3, <2>4, <2>6, <2>7
<1>8. C \in S
  <2> HIDE DEF S
  <2>1. S \in SUBSET Nat
    BY DEF S
  <2> QED BY <1>2, <1>6, <1>7, <2>1, Gluing!NatInduct
<1>9. SubSeq(f, 1, C + 1) = f /\ SubSeq(line, 1, len) = line
  BY <1>1, <1>3 DEF Lines, Line
<1>10. Gluing!Fold(base, f) = Append(base, line)
  <2>1. C <= C
    BY <1>2
  <2> QED BY <1>2, <1>8, <1>9, <2>1
<1> QED BY <1>10, GluingIsFold DEF f

IsContent(line) == line # << >> /\ line[1] # WSP

\* A document more by one line.
LEMMA FoldAllAppend ==
    ASSUME NEW d \in Lines, NEW e \in Line
    PROVE  /\ FoldAll(d) \in Lines
           /\ FoldAll(Append(d, e)) = FoldAll(d) \o Fold(e)
           /\ FoldAll(<< >>) = << >>
<1> DEFINE F(u) == [k \in DOMAIN u |-> Fold(u[k])]
<1>1. ASSUME NEW u \in Lines
      PROVE  Gluing!IsList(F(u)) /\ Len(F(u)) = Len(u) /\ \A k \in 1 .. Len(u) : F(u)[k] \in Lines
  <2>1. DOMAIN u = 1 .. Len(u) /\ Len(u) \in Nat /\ \A k \in 1 .. Len(u) : u[k] \in Line
    BY DEF Lines
  <2>2. \A k \in 1 .. Len(u) : Fold(u[k]) \in Lines
    BY <2>1, FoldLines
  <2>3. F(u) \in Seq(Lines) /\ Len(F(u)) = Len(u)
    BY <2>1, <2>2
  <2> QED BY <2>1, <2>2, <2>3 DEF Gluing!IsList
<1>2. FoldAll(d) \in Lines
  <2> HIDE DEF F
  <2>1. FlattenSeq(F(d)) \in Lines
    BY <1>1, Gluing!FlattenType DEF Lines, FlattenSeq, Gluing!FlattenSeq
  <2> QED BY <2>1 DEF FoldAll, F
<1>3. F(Append(d, e)) = Append(F(d), Fold(e))
  <2> DEFINE u == Append(d, e)
             n == Len(d)
  <2>1. u \in Lines /\ Gluing!IsList(d) /\ n \in Nat
    BY LinesAppend, LinesAreLists DEF Lines
  <2>2. Len(u) = n + 1 /\ u[n + 1] = e /\ DOMAIN u = 1 .. n + 1 /\ \A k \in 1 .. n : u[k] = d[k]
    BY <2>1, Gluing!ListAppend, Gluing!ListType
  <2>3. DOMAIN d = 1 .. n
    BY <2>1, Gluing!ListType
  <2>4. /\ Gluing!IsList(Append(F(d), Fold(e))) /\ Len(Append(F(d), Fold(e))) = n + 1
        /\ Append(F(d), Fold(e))[n + 1] = Fold(e)
        /\ \A k \in 1 .. n : Append(F(d), Fold(e))[k] = F(d)[k]
    <3>1. Gluing!IsList(F(d)) /\ Len(F(d)) = n
      BY <1>1
    <3> HIDE DEF F, n
    <3> QED BY <3>1, Gluing!ListAppend
  <2>5. Gluing!IsList(F(u)) /\ Len(F(u)) = n + 1
    <3> HIDE DEF u, F
    <3> QED BY <1>1, <2>1, <2>2
  <2>6. ASSUME NEW k \in 1 .. n + 1 PROVE F(u)[k] = Append(F(d), Fold(e))[k]
    <3>1. F(u)[k] = Fold(u[k])
      BY <2>2
    <3>2. CASE k = n + 1
      <4> HIDE DEF F, u
      <4> QED BY <2>2, <2>4, <3>1, <3>2
    <3>3. CASE k # n + 1
      <4>1. k \in 1 .. n
        BY <2>1, <3>3
      <4>2. F(d)[k] = Fold(d[k])
        BY <2>3, <4>1
      <4> HIDE DEF F, u
      <4> QED BY <2>2, <2>4, <3>1, <4>1, <4>2
    <3> QED BY <3>2, <3>3
  <2> HIDE DEF F, u, n
  <2>7. F(u) = Append(F(d), Fold(e))
    BY <2>4, <2>5, <2>6, Gluing!ListEqual
  <2> QED BY <2>7 DEF u
<1>4. FoldAll(Append(d, e)) = FoldAll(d) \o Fold(e)
  <2>1. Fold(e) \in Lines
    BY FoldLines
  <2>2. Gluing!FlattenSeq(Append(F(d), Fold(e))) = Gluing!FlattenSeq(F(d)) \o Fold(e)
    <3> HIDE DEF F
    <3> QED BY <1>1, <2>1, LinesAreLists, Gluing!FlattenAppend
  <2>3. FoldAll(Append(d, e)) = FlattenSeq(F(Append(d, e))) /\ FoldAll(d) = FlattenSeq(F(d))
    BY DEF FoldAll
  <2>4. \A ss : FlattenSeq(ss) = Gluing!FlattenSeq(ss)
    BY DEF FlattenSeq, Gluing!FlattenSeq
  <2> HIDE DEF F
  <2> QED BY <1>3, <2>2, <2>3, <2>4
<1>5. FoldAll(<< >>) = << >>
  BY DEF FoldAll, FlattenSeq
<1> QED BY <1>2, <1>4, <1>5

LEMMA FoldAllLines == ASSUME NEW d \in Lines PROVE FoldAll(d) \in Lines
BY FoldAllAppend, EmptyLines

\* Unfolding gives back what was folded, for documents and lines of any length and for
\* any limit; and no physical line is longer than that.
THEOREM UnfoldInvertsFold ==
    ASSUME NEW d \in Lines, \A k \in DOMAIN d : IsContent(d[k])
    PROVE  /\ Unfold(FoldAll(d)) = d
           /\ \A k \in DOMAIN FoldAll(d) : Len(FoldAll(d)[k]) <= MaxOctets
<1> DEFINE Good(u) == u \in Lines /\ \A k \in DOMAIN u : IsContent(u[k])
           Fine(u) == /\ Joined(FoldAll(u)) = u /\ NonEmpty(u) = u
                      /\ \A k \in DOMAIN FoldAll(u) : Len(FoldAll(u)[k]) <= MaxOctets
           S == {n \in Nat : \A u : Good(u) /\ Len(u) = n => Fine(u)}
<1>1. 0 \in S
  <2> SUFFICES ASSUME NEW u, Good(u), Len(u) = 0 PROVE Fine(u)
    OBVIOUS
  <2>1. u = << >>
    BY DEF Lines
  <2>2. FoldAll(<< >>) = << >>
    BY FoldAllAppend, EmptyLines
  <2> QED BY <2>1, <2>2, NothingYet
<1>2. ASSUME NEW n \in S PROVE n + 1 \in S
  <2> SUFFICES ASSUME NEW u, Good(u), Len(u) = n + 1 PROVE Fine(u)
    OBVIOUS
  <2>1. PICK r \in Lines, e \in Line : u = Append(r, e) /\ Len(u) = Len(r) + 1
    <3>1. u # << >>
      OBVIOUS
    <3> QED BY <3>1, LinesCases
  <2>2. Len(r) \in Nat /\ Len(r) = n
    BY <2>1 DEF Lines
  <2>3. Good(r) /\ IsContent(e)
    <3>1. /\ DOMAIN u = 1 .. n + 1 /\ DOMAIN r = 1 .. n /\ u[n + 1] = e
          /\ \A k \in 1 .. n : u[k] = r[k]
      BY <2>1, <2>2, LinesAreLists, Gluing!ListAppend, Gluing!ListType
    <3>2. n + 1 \in 1 .. n + 1 /\ \A k \in 1 .. n : k \in 1 .. n + 1
      BY <2>2
    <3> QED BY <3>1, <3>2
  <2>4. Fine(r)
    BY <1>2, <2>2, <2>3
  <2>5. FoldAll(u) = FoldAll(r) \o Fold(e) /\ FoldAll(r) \in Lines /\ Fold(e) \in Lines
    BY <2>1, FoldAllAppend, FoldLines
  <2>6. Joined(FoldAll(u)) = u
    <3>1. Gluing!Fold(<< >>, FoldAll(r) \o Fold(e)) = Gluing!Fold(Gluing!Fold(<< >>, FoldAll(r)), Fold(e))
      BY <2>5, LinesAreLists, Gluing!FoldConcat
    <3>2. Joined(FoldAll(u)) = FoldLeft(Glue, Joined(FoldAll(r)), Fold(e))
      BY <2>5, <3>1, GluingIsFold DEF Joined
    <3>3. FoldLeft(Glue, r, Fold(e)) = Append(r, e)
      BY <2>3, FoldJoins DEF IsContent
    <3> QED BY <2>1, <2>4, <3>2, <3>3
  <2>7. NonEmpty(u) = u
    BY <2>1, <2>3, <2>4, NonEmptyAppend DEF KeepContent, IsContent
  <2>8. ASSUME NEW k \in DOMAIN FoldAll(u) PROVE Len(FoldAll(u)[k]) <= MaxOctets
    <3> DEFINE a == FoldAll(r)
               b == Fold(e)
    <3>1. \A j \in 1 .. Len(a) : Len(a[j]) <= MaxOctets
      BY <2>4, <2>5 DEF Lines
    <3>2. \A j \in 1 .. Len(b) : Len(b[j]) <= MaxOctets
      BY FoldLines
    <3>3. a \in Lines /\ b \in Lines /\ FoldAll(u) = a \o b
      BY <2>5
    <3> HIDE DEF a, b
    <3>4. /\ Len(a) \in Nat /\ Len(b) \in Nat
          /\ a \o b \in Lines /\ Len(a \o b) = Len(a) + Len(b)
          /\ \A j \in 1 .. Len(a) + Len(b) : (a \o b)[j] = IF j <= Len(a) THEN a[j] ELSE b[j - Len(a)]
      BY <3>3, ConcatProperties DEF Lines
    <3>5. k \in 1 .. Len(a) + Len(b)
      BY <2>8, <3>3, <3>4 DEF Lines
    <3>6. CASE k <= Len(a)
      BY <3>1, <3>3, <3>4, <3>5, <3>6
    <3>7. CASE ~(k <= Len(a))
      <4>1. k - Len(a) \in 1 .. Len(b)
        BY <3>4, <3>5, <3>7
      <4> QED BY <3>2, <3>3, <3>4, <3>5, <3>7, <4>1
    <3> QED BY <3>6, <3>7
  <2> QED BY <2>6, <2>7, <2>8
<1>3. Len(d) \in S
  <2> HIDE DEF S
  <2>1. S \in SUBSET Nat /\ Len(d) \in Nat
    BY DEF S, Lines
  <2> QED BY <1>1, <1>2, <2>1, Gluing!NatInduct
<1>4. Fine(d)
  BY <1>3
<1> QED BY <1>4 DEF Unfold

-----------------------------------------------------------------------------
(* The scanner.                                                            *)

\* The lines that the caller got and the one being assembled are the lines received,
\* joined.  Without a line in assembly the last one is blank, so that a continuation
\* starts a line of its own.
Assembled ==
    LET lines == Joined(received)
    IN  IF hasPend
        THEN \E before \in Lines : lines = Append(before, pending) /\ out = NonEmpty(before)
        ELSE /\ out = NonEmpty(lines)
             /\ \/ finished \/ lines = << >>
                \/ \E before \in Lines : lines = Append(before, << >>)

IInv ==
    /\ TypeOK
    /\ input \in Lines /\ received \in Lines /\ pending \in Line
    /\ off \in Nat
    /\ Joined(received) \in Lines /\ out \in Lines
    /\ finished => ~hasPend
    /\ Assembled

LEMMA Starts == Init => IInv
<1> SUFFICES ASSUME Init, input \in Lines PROVE IInv
  <2>1. ASSUME NEW d \in Written PROVE FoldAll(d) \in Lines
    BY FoldAllLines, ScannerAssumption DEF Lines, Line
  <2>2. Raw \subseteq Lines
    BY ScannerAssumption DEF Lines, Line
  <2> QED BY <2>1, <2>2 DEF Init
<1>1. /\ pos = 0 /\ off = 0 /\ pending = << >> /\ hasPend = FALSE /\ finished = FALSE
      /\ pc = "idle" /\ result = "none" /\ out = << >> /\ received = << >>
  BY DEF Init
<1>2. Len(input) \in Nat
  BY DEF Lines
<1>3. TypeOK
  <2>1. pos \in 0 .. Len(input) /\ pos = Len(received)
    BY <1>1, <1>2
  <2>2. pc \in {"idle", "scan"} /\ result \in {"none", "line", "EOF", "error"}
    BY <1>1
  <2> QED BY <1>1, <2>1, <2>2 DEF TypeOK
<1>4. Assembled
  BY <1>1, NothingYet DEF Assembled
<1> QED
  BY <1>1, <1>3, <1>4, NothingYet, EmptyLines DEF IInv

\* The rest of the line that readPhysical delivers.
Rest == SubSeq(input[pos + 1], off + 1, Len(input[pos + 1]))

LEMMA RestIsLine == ASSUME IInv, pos < Len(input) PROVE Rest \in Line /\ pos + 1 \in 1 .. Len(input)
<1>1. pos \in Nat /\ off \in Nat /\ Len(input) \in Nat /\ input \in Seq(Line)
  BY DEF IInv, TypeOK, Lines
<1>2. pos + 1 \in 1 .. Len(input) /\ input[pos + 1] \in Line
  BY <1>1
<1>3. Rest \in Line
  BY <1>1, <1>2 DEF Rest, Line
<1> QED BY <1>2, <1>3

\* What ScanLine does, in terms of the lines joined so far.
LEMMA LineKeeps == ASSUME IInv, ScanLine PROVE IInv'
<1> DEFINE raw == Rest
           lines == Joined(received)
<1>1. /\ CanRead /\ pos < Len(input) /\ received' = Append(received, raw)
      /\ pos' = pos + 1 /\ off' = 0 /\ input' = input /\ finished' = finished
  BY DEF ScanLine, Rest
<1>2. raw \in Line /\ pos + 1 \in 1 .. Len(input)
  BY <1>1, RestIsLine
<1>3. ~finished
  BY <1>1 DEF CanRead, IInv
<1>4. lines' = Glue(lines, raw) /\ received' \in Lines
  BY <1>1, <1>2, JoinedAppend, LinesAppend DEF IInv
<1>5. lines \in Lines /\ out \in Lines /\ pending \in Line /\ (~hasPend => pending = << >>)
  BY DEF IInv, TypeOK
<1>6. Continues(raw) <=> (raw # << >> /\ raw[1] = WSP)
  BY DEF Continues
<1>7. CASE Continues(raw)
  <2>1. /\ pending' = (IF hasPend THEN pending ELSE << >>) \o Tail(raw) /\ hasPend' = TRUE
        /\ pc' = pc /\ result' = result /\ out' = out
    BY <1>6, <1>7 DEF ScanLine, Rest, Continuation, Loop
  <2>2. \E before \in Lines : /\ lines' = Append(before, pending') /\ out = NonEmpty(before)
                              /\ pending' \in Line
    <3>1. Tail(raw) \in Line /\ << >> \o Tail(raw) = Tail(raw) /\ << >> \in Lines /\ << >> \in Line
      <4>1. Tail(raw) \in Line
        BY <1>2, <1>5, <1>7, GlueCases
      <4> QED BY <4>1, ConcatEmptySeq, EmptyLines DEF Line
    <3>2. CASE hasPend
      <4>1. PICK before \in Lines : lines = Append(before, pending) /\ out = NonEmpty(before)
        BY <3>2 DEF IInv, Assembled
      <4>2. lines' = Append(before, pending \o Tail(raw))
        <5>1. Glue(Append(before, pending), raw) = Append(before, pending \o Tail(raw))
          BY <1>2, <1>5, <1>7, GlueCases
        <5> QED BY <1>4, <4>1, <5>1
      <4>3. pending \o Tail(raw) \in Line
        BY <1>5, <3>1, ConcatProperties DEF Line
      <4> QED BY <2>1, <3>2, <4>1, <4>2, <4>3
    <3>3. CASE ~hasPend /\ lines = << >>
      <4>1. lines' = Append(<< >>, Tail(raw))
        BY <1>2, <1>4, <1>5, <1>7, <3>3, GlueCases
      <4>2. out = NonEmpty(<< >>)
        BY <3>3 DEF IInv, Assembled
      <4> QED BY <2>1, <3>1, <3>3, <4>1, <4>2
    <3>4. CASE ~hasPend /\ lines # << >>
      <4>1. PICK before \in Lines : lines = Append(before, << >>)
        BY <1>3, <3>4 DEF IInv, Assembled
      <4>2. lines' = Append(before, << >> \o Tail(raw))
        <5>1. Glue(Append(before, << >>), raw) = Append(before, << >> \o Tail(raw))
          BY <1>2, <1>7, <3>1, GlueCases
        <5> QED BY <1>4, <4>1, <5>1
      <4>3. out = NonEmpty(before)
        <5>1. out = NonEmpty(lines)
          BY <3>4 DEF IInv, Assembled
        <5> QED BY <3>1, <4>1, <5>1, NonEmptyAppend DEF KeepContent
      <4> QED BY <2>1, <3>1, <3>4, <4>2, <4>3
    <3> QED BY <3>2, <3>3, <3>4
  <2>3. PICK before \in Lines : lines' = Append(before, pending') /\ out = NonEmpty(before) /\ pending' \in Line
    BY <2>2
  <2>4. lines' \in Lines
    BY <2>3, LinesAppend
  <2>5. Assembled'
    BY <2>1, <2>3 DEF Assembled
  <2>6. TypeOK'
    <3>1. Len(received') = Len(received) + 1
      BY <1>1, <1>2 DEF IInv, Lines
    <3> QED BY <1>1, <1>2, <1>3, <2>1, <3>1 DEF IInv, TypeOK
  <2> QED
    BY <1>1, <1>3, <1>4, <1>5, <2>1, <2>3, <2>4, <2>5, <2>6 DEF IInv
<1>8. CASE ~Continues(raw)
  <2>1. /\ pending' = raw /\ hasPend' = (raw # << >>)
        /\ IF hasPend /\ pending # << >> THEN Deliver(pending) ELSE Loop
    BY <1>6, <1>8 DEF ScanLine, Rest, EndsFold, NewPending
  <2>2. lines' = Append(lines, raw)
    BY <1>2, <1>4, <1>5, <1>8, GlueCases
  <2>3. out' = NonEmpty(lines) /\ out' \in Lines
    <3>1. CASE hasPend
      <4>1. PICK before \in Lines : lines = Append(before, pending) /\ out = NonEmpty(before)
        BY <3>1 DEF IInv, Assembled
      <4>2. NonEmpty(lines) = KeepContent(out, pending)
        BY <1>5, <4>1, NonEmptyAppend
      <4>3. out' = KeepContent(out, pending)
        BY <2>1, <3>1 DEF KeepContent, Deliver, Loop
      <4>4. out' \in Lines
        BY <1>5, <4>3, LinesAppend DEF KeepContent
      <4> QED BY <4>2, <4>3, <4>4
    <3>2. CASE ~hasPend
      BY <1>5, <2>1, <3>2 DEF IInv, Assembled, Loop
    <3> QED BY <3>1, <3>2
  <2>4. lines' \in Lines
    BY <1>2, <1>5, <2>2, LinesAppend
  <2>5. Assembled'
    <3>1. CASE raw = << >>
      <4>1. hasPend' = FALSE
        BY <2>1, <3>1
      <4>2. NonEmpty(lines') = NonEmpty(lines)
        BY <1>2, <1>5, <2>2, <3>1, NonEmptyAppend DEF KeepContent
      <4> QED BY <1>5, <2>2, <2>3, <3>1, <4>1, <4>2 DEF Assembled
    <3>2. CASE raw # << >>
      BY <1>5, <2>1, <2>2, <2>3, <3>2 DEF Assembled
    <3> QED BY <3>1, <3>2
  <2>6. TypeOK'
    <3>1. Len(received') = Len(received) + 1
      BY <1>1, <1>2 DEF IInv, Lines
    <3>2. pc' \in {"idle", "scan"} /\ result' \in {"none", "line", "EOF", "error"}
      BY <2>1 DEF IInv, TypeOK, Deliver, Return, Loop
    <3>3. hasPend' \in BOOLEAN /\ (~hasPend' => pending' = << >>)
      BY <2>1
    <3>4. pos' \in 0 .. Len(input') /\ pos' = Len(received')
      BY <1>1, <1>2, <3>1 DEF IInv, TypeOK
    <3> QED BY <1>1, <1>3, <3>2, <3>3, <3>4 DEF IInv, TypeOK
  <2> QED
    BY <1>1, <1>2, <1>3, <1>4, <2>1, <2>3, <2>4, <2>5, <2>6 DEF IInv
<1> QED BY <1>7, <1>8

LEMMA EOFKeeps == ASSUME IInv, ScanEOF PROVE IInv'
<1>1. /\ CanRead /\ pos = Len(input) /\ finished' = TRUE /\ pending' = << >> /\ hasPend' = FALSE
      /\ IF hasPend /\ pending # << >> THEN Deliver(pending) ELSE Return("EOF") /\ out' = out
      /\ input' = input /\ pos' = pos /\ off' = off /\ received' = received
  BY DEF ScanEOF
<1>2. out' = NonEmpty(Joined(received)) /\ out' \in Lines
  <2>1. CASE hasPend
    <3>1. PICK before \in Lines : Joined(received) = Append(before, pending) /\ out = NonEmpty(before)
      BY <2>1 DEF IInv, Assembled
    <3>2. NonEmpty(Joined(received)) = KeepContent(out, pending)
      BY <3>1, NonEmptyAppend DEF IInv
    <3>3. out' = KeepContent(out, pending)
      BY <1>1, <2>1 DEF KeepContent, Deliver
    <3>4. out' \in Lines
      BY <3>3, LinesAppend DEF KeepContent, IInv
    <3> QED BY <3>2, <3>3, <3>4
  <2>2. CASE ~hasPend
    BY <1>1, <2>2 DEF IInv, Assembled
  <2> QED BY <2>1, <2>2
<1>3. Assembled'
  BY <1>1, <1>2 DEF Assembled
<1>4. TypeOK'
  BY <1>1 DEF IInv, TypeOK, Deliver, Return
<1> QED
  BY <1>1, <1>2, <1>3, <1>4, EmptyLines DEF IInv

LEMMA OthersKeep == ASSUME IInv, Call \/ ScanFinished \/ ScanFails \/ UNCHANGED vars PROVE IInv'
<1>1. /\ input' = input /\ pos' = pos /\ pending' = pending /\ hasPend' = hasPend
      /\ finished' = finished /\ out' = out /\ received' = received
  BY DEF Call, ScanFinished, ScanFails, vars
<1>2. Assembled'
  BY <1>1 DEF IInv, Assembled
<1>3. /\ off' \in Nat /\ (off' = 0 \/ pos < Len(input))
      /\ pc' \in {"idle", "scan"} /\ result' \in {"none", "line", "EOF", "error"}
  <2>1. CASE Call \/ ScanFinished \/ UNCHANGED vars
    BY <2>1 DEF IInv, TypeOK, Call, ScanFinished, Return, vars
  <2>2. CASE ScanFails
    <3>1. PICK lost \in 0 .. (IF pos < Len(input) THEN Len(input[pos + 1]) - off ELSE 0) : off' = off + lost
      BY <2>2 DEF ScanFails
    <3>2. off \in Nat /\ (off = 0 \/ pos < Len(input))
      BY DEF IInv, TypeOK
    <3>3. CASE pos < Len(input)
      <4>1. off' \in Nat
        BY <3>1, <3>2, <3>3
      <4> QED BY <2>2, <3>3, <4>1 DEF ScanFails, Return
    <3>4. CASE ~(pos < Len(input))
      <4>1. off' = 0
        BY <3>1, <3>2, <3>4
      <4> QED BY <2>2, <4>1 DEF ScanFails, Return
    <3> QED BY <3>3, <3>4
  <2> QED BY <2>1, <2>2
<1>4. TypeOK'
  BY <1>1, <1>3 DEF IInv, TypeOK
<1> QED
  BY <1>1, <1>2, <1>3, <1>4 DEF IInv

LEMMA Invariance == Spec => []IInv
<1>1. IInv /\ [Next]_vars => IInv'
  BY LineKeeps, EOFKeeps, OthersKeep DEF Next, Scan
<1> QED
  BY Starts, <1>1, PTL DEF Spec

\* Nothing is lost, split, merged or reordered: at every step the lines returned and the
\* one being assembled are the unfolding of what the reader delivered, for inputs of any
\* length, and across any number of read errors.
THEOREM NothingIsLost == Spec => []NothingLost
<1>1. ASSUME IInv PROVE NothingLost
  <2>1. CASE hasPend
    <3>1. PICK before \in Lines : Joined(received) = Append(before, pending) /\ out = NonEmpty(before)
      BY <1>1, <2>1 DEF IInv, Assembled
    <3>2. Unfold(received) = KeepContent(out, pending)
      BY <1>1, <3>1, NonEmptyAppend DEF IInv, Unfold
    <3>3. out \in Lines /\ pending \in Line
      BY <1>1 DEF IInv
    <3>4. Append(out, pending) = out \o <<pending>> /\ out \o << >> = out
      BY <3>3, LinesAppend, ConcatEmptySeq DEF Lines
    <3> QED BY <1>1, <2>1, <3>2, <3>4 DEF NothingLost, KeepContent, IInv
  <2>2. CASE ~hasPend
    <3>1. out = Unfold(received) /\ out \in Lines
      BY <1>1, <2>2 DEF IInv, Assembled, Unfold
    <3>2. out \o << >> = out
      BY <3>1, ConcatEmptySeq DEF Lines
    <3> QED BY <1>1, <2>2, <3>1, <3>2 DEF NothingLost, IInv
  <2> QED BY <2>1, <2>2
<1> QED
  BY <1>1, Invariance, PTL
-----------------------------------------------------------------------------
(* What an encoder folded.                                                 *)

\* Without a read error, the lines received are those read; the end is told with nothing
\* left in assembly.
Faithful ==
    /\ doc = << >> \/ \E d \in Written : doc = <<d>> /\ input = FoldAll(d)
    /\ failures \in Nat
    /\ failures = 0 => off = 0 /\ received = SubSeq(input, 1, pos)
    /\ result = "EOF" => finished /\ ~hasPend

LEMMA FaithfulStarts == Init => Faithful
<1> SUFFICES ASSUME Init PROVE Faithful
  OBVIOUS
<1>1. pos = 0 /\ off = 0 /\ failures = 0 /\ received = << >> /\ result = "none"
  BY DEF Init
<1>2. input \in Lines
  BY Starts DEF IInv
<1>3. SubSeq(input, 1, 0) = << >>
  BY <1>2, SubSeqEmpty DEF Lines
<1>4. doc = << >> \/ \E d \in Written : doc = <<d>> /\ input = FoldAll(d)
  BY DEF Init
<1> QED BY <1>1, <1>3, <1>4 DEF Faithful

LEMMA FaithfulStep == ASSUME IInv, Faithful, [Next]_vars PROVE Faithful'
<1>1. input' = input /\ doc' = doc
  BY DEF Next, Scan, Call, ScanFinished, ScanEOF, ScanLine, ScanFails, vars
<1>2. CASE Call \/ ScanFinished \/ UNCHANGED vars
  <2>1. /\ failures' = failures /\ off' = off /\ received' = received /\ pos' = pos
        /\ finished' = finished /\ hasPend' = hasPend
    BY <1>2 DEF Call, ScanFinished, vars
  <2>2. result' = "EOF" => finished /\ ~hasPend
    BY <1>2 DEF Call, ScanFinished, Return, vars, Faithful
  <2> QED BY <1>1, <2>1, <2>2 DEF Faithful
<1>3. CASE ScanEOF
  BY <1>1, <1>3 DEF ScanEOF, Faithful
<1>4. CASE ScanLine
  <2>1. /\ CanRead /\ pos < Len(input) /\ received' = Append(received, Rest)
        /\ pos' = pos + 1 /\ off' = 0 /\ failures' = failures /\ finished' = finished
    BY <1>4 DEF ScanLine, Rest
  <2>2. ~finished /\ result # "EOF"
    BY <2>1 DEF CanRead, IInv, Faithful
  <2>3. result' # "EOF"
    BY <1>4, <2>2 DEF ScanLine, Deliver, Return, Loop
  <2>4. ASSUME failures = 0 PROVE received' = SubSeq(input, 1, pos + 1)
    <3>1. off = 0 /\ received = SubSeq(input, 1, pos)
      BY <2>4 DEF Faithful
    <3>2. pos \in Nat /\ input \in Lines /\ pos + 1 \in 1 .. Len(input) /\ Len(input) \in Nat
      BY <2>1, RestIsLine DEF IInv, TypeOK, Lines
    <3>3. Rest = input[pos + 1]
      <4>1. input[pos + 1] \in Line
        BY <3>2 DEF Lines
      <4>2. SubSeq(input[pos + 1], 1, Len(input[pos + 1])) = input[pos + 1]
        BY <4>1 DEF Line
      <4> QED BY <3>1, <4>2 DEF Rest
    <3>4. SubSeq(input, 1, pos + 1) = Append(SubSeq(input, 1, pos), input[pos + 1])
      <4>1. pos <= Len(input) /\ 1 <= pos + 1 /\ 1 \in Nat \ {0}
        BY <2>1, <3>2
      <4> QED BY <2>1, <3>2, <4>1, LinesAreLists, Gluing!ListPart
    <3> QED BY <2>1, <3>1, <3>3, <3>4
  <2> QED BY <1>1, <2>1, <2>3, <2>4 DEF Faithful
<1>5. CASE ScanFails
  <2>1. failures' = failures + 1 /\ result' = "error"
    BY <1>5 DEF ScanFails, Return
  <2>2. failures' \in Nat /\ failures' # 0
    BY <2>1 DEF Faithful
  <2> QED BY <1>1, <2>1, <2>2 DEF Faithful
<1> QED BY <1>2, <1>3, <1>4, <1>5 DEF Next, Scan

\* Every document that an encoder folded keeps to the limit and is read back as it was:
\* with no read error the caller has, once it is told the end, the lines that were
\* written.
THEOREM FoldedIsReadBack == Spec => []RoundTrip
<1>1. Spec => []Faithful
  BY FaithfulStarts, FaithfulStep, Invariance, PTL DEF Spec
<1>2. ASSUME IInv, Faithful PROVE RoundTrip
  <2> SUFFICES ASSUME doc # << >>
               PROVE  LineLimit /\ (result = "EOF" /\ failures = 0 => out = doc[1])
    BY DEF RoundTrip
  <2>1. PICK d \in Written : doc = <<d>> /\ input = FoldAll(d)
    BY <1>2 DEF Faithful
  <2>2. d \in Lines /\ \A k \in DOMAIN d : IsContent(d[k])
    BY <2>1, ScannerAssumption DEF Lines, Line, IsContent
  <2>3. Unfold(input) = d /\ LineLimit
    BY <2>1, <2>2, UnfoldInvertsFold DEF LineLimit
  <2>4. ASSUME result = "EOF", failures = 0 PROVE out = d
    <3>1. finished /\ ~hasPend /\ received = SubSeq(input, 1, pos)
      BY <1>2, <2>4 DEF Faithful
    <3>2. pos = Len(input) /\ input \in Seq(Line)
      BY <1>2, <3>1 DEF IInv, TypeOK, Lines
    <3>3. received = input
      BY <3>1, <3>2
    <3>4. out = Unfold(received)
      BY <1>2, <3>1 DEF IInv, Assembled, Unfold
    <3> QED BY <2>3, <3>3, <3>4
  <2>5. doc[1] = d
    BY <2>1
  <2> QED BY <2>3, <2>4, <2>5
<1> QED
  BY <1>1, <1>2, Invariance, PTL

=============================================================================
