---------------------------- MODULE StreamPipe_proofs ----------------------------
(***************************************************************************)
(* The batch codec of ContentLines on documents of any length: one parse    *)
(* continues another, nothing that was parsed is taken back, and what       *)
(* Encode writes is read back as it was.                                    *)
(*                                                                         *)
(* Then the pull parser against the batch parser (Spec), for any nesting,   *)
(* any number of calls of Header and Next and of failures of the reader: a  *)
(* truncated stream never looks complete; what was yielded is what the      *)
(* batch parser has collected; no component is glued together from lines    *)
(* before and after an error.                                               *)
(*                                                                         *)
(* Last the pipe (PipeSpec): what a VCalendarEncoder leaves on the wire,    *)
(* and what a VCalendarParser at the other end makes of it, for any         *)
(* components, any number of calls and a writer that fails at any octet.    *)
(***************************************************************************)
EXTENDS StreamPipe, SequenceTheorems, TLAPS

Parsing == INSTANCE FoldLaws WITH Op <- ParseStep

\* The parse, from any state on.
Run(st, lines) == FoldLeft(ParseStep, st, lines)

\* A sequence, of whatever elements.
IsList(s) == \E S : s \in Seq(S)

\* t begins with s.
Extends(t, s) == Len(s) <= Len(t) /\ \A i \in 1 .. Len(s) : t[i] = s[i]

-----------------------------------------------------------------------------
(* Lists.                                                                  *)

LEMMA EmptyList == IsList(<< >>) /\ Len(<< >>) = 0
BY DEF IsList

LEMMA SingleList == ASSUME NEW e PROVE IsList(<<e>>) /\ Len(<<e>>) = 1
<1>1. <<e>> \in Seq({e})
  OBVIOUS
<1> QED BY <1>1 DEF IsList

LEMMA ListType == ASSUME NEW s, IsList(s) PROVE Len(s) \in Nat /\ DOMAIN s = 1 .. Len(s)
BY DEF IsList

LEMMA ListAppend ==
    ASSUME NEW s, IsList(s), NEW e
    PROVE  /\ IsList(Append(s, e)) /\ Len(Append(s, e)) = Len(s) + 1
           /\ \A i \in 1 .. Len(s) : Append(s, e)[i] = s[i]
           /\ Append(s, e)[Len(s) + 1] = e
           /\ Append(s, e) # << >>
BY Parsing!ListAppend DEF IsList, Parsing!IsList

LEMMA ListConcat ==
    ASSUME NEW s, NEW t, IsList(s), IsList(t)
    PROVE  /\ IsList(s \o t) /\ Len(s \o t) = Len(s) + Len(t)
           /\ \A i \in 1 .. Len(s) : (s \o t)[i] = s[i]
           /\ \A i \in 1 .. Len(t) : (s \o t)[Len(s) + i] = t[i]
           /\ s \o << >> = s /\ << >> \o s = s
BY Parsing!ListConcat DEF IsList, Parsing!IsList

LEMMA ConcatAppend ==
    ASSUME NEW s, NEW t, IsList(s), IsList(t), NEW e
    PROVE  s \o Append(t, e) = Append(s \o t, e)
BY Parsing!ConcatAppend DEF IsList, Parsing!IsList

LEMMA ListPart ==
    ASSUME NEW s, IsList(s), NEW m \in Nat \ {0}, NEW n \in Nat, n <= Len(s), m <= n + 1
    PROVE  /\ IsList(SubSeq(s, m, n)) /\ Len(SubSeq(s, m, n)) = n - m + 1
           /\ \A i \in 1 .. n - m + 1 : SubSeq(s, m, n)[i] = s[m + i - 1]
           /\ n < Len(s) => SubSeq(s, m, n + 1) = Append(SubSeq(s, m, n), s[n + 1])
           /\ SubSeq(s, 1, Len(s)) = s
BY Parsing!ListPart DEF IsList, Parsing!IsList

LEMMA ListEqual ==
    ASSUME NEW s, NEW t, IsList(s), IsList(t), Len(s) = Len(t),
           \A i \in 1 .. Len(s) : s[i] = t[i]
    PROVE  s = t
BY Parsing!ListEqual DEF IsList, Parsing!IsList

LEMMA ListCases ==
    ASSUME NEW s, IsList(s)
    PROVE  \/ s = << >>
           \/ \E r, e : IsList(r) /\ Len(r) + 1 = Len(s) /\ s = Append(r, e)
BY Parsing!ListCases DEF IsList, Parsing!IsList

LEMMA TableIsList ==
    ASSUME NEW n \in Nat, NEW f, f = [k \in 1 .. n |-> f[k]]
    PROVE  IsList(f) /\ Len(f) = n
<1> DEFINE T == {f[k] : k \in 1 .. n}
<1>1. f \in [1 .. n -> T]
  OBVIOUS
<1> HIDE DEF T
<1>2. f \in Seq(T) /\ Len(f) = n
  BY <1>1
<1> QED BY <1>2 DEF IsList

LEMMA FlattenIs == ASSUME NEW ss PROVE FlattenSeq(ss) = Parsing!FlattenSeq(ss)
BY DEF FlattenSeq, Parsing!FlattenSeq

LEMMA FlattenEmpty == FlattenSeq(<< >>) = << >>
BY FlattenIs, Parsing!FlattenEmpty

LEMMA FlattenAppend ==
    ASSUME NEW ss, IsList(ss), NEW s, IsList(s)
    PROVE  FlattenSeq(Append(ss, s)) = FlattenSeq(ss) \o s
BY FlattenIs, Parsing!FlattenAppend DEF IsList, Parsing!IsList

LEMMA FlattenType ==
    ASSUME NEW T, NEW ss, IsList(ss), \A i \in 1 .. Len(ss) : ss[i] \in Seq(T)
    PROVE  FlattenSeq(ss) \in Seq(T)
BY FlattenIs, Parsing!FlattenType DEF IsList, Parsing!IsList

LEMMA FrontAndLast ==
    ASSUME NEW s, IsList(s), NEW e
    PROVE  Front(Append(s, e)) = s /\ Last(Append(s, e)) = e
<1>1. PICK S : s \in Seq(S)
  BY DEF IsList
<1>2. s \in Seq(S \cup {e}) /\ e \in S \cup {e}
  BY <1>1
<1> QED BY <1>2 DEF Front, Last

LEMMA ExtendsIsPrefix ==
    ASSUME NEW s, NEW t, IsList(s), IsList(t)
    PROVE  IsPrefix(s, t) <=> Extends(t, s)
<1>1. Len(s) \in Nat /\ Len(t) \in Nat
  BY ListType
<1>2. SubSeq(s, 1, Len(s)) = s
  BY <1>1, ListPart
<1>3. ASSUME Len(s) <= Len(t)
      PROVE  SubSeq(t, 1, Len(s)) = s <=> \A i \in 1 .. Len(s) : t[i] = s[i]
  <2>1. /\ IsList(SubSeq(t, 1, Len(s))) /\ Len(SubSeq(t, 1, Len(s))) = Len(s)
        /\ \A i \in 1 .. Len(s) : SubSeq(t, 1, Len(s))[i] = t[i]
    <3>1. /\ IsList(SubSeq(t, 1, Len(s))) /\ Len(SubSeq(t, 1, Len(s))) = Len(s) - 1 + 1
          /\ \A i \in 1 .. Len(s) - 1 + 1 : SubSeq(t, 1, Len(s))[i] = t[1 + i - 1]
      BY <1>1, <1>3, ListPart
    <3> QED BY <1>1, <3>1
  <2> QED BY <2>1, ListEqual
<1> QED BY <1>2, <1>3 DEF IsPrefix, Extends

-----------------------------------------------------------------------------
(* One parse continues another.                                            *)

LEMMA RunIsFold == ASSUME NEW st, NEW s PROVE Run(st, s) = Parsing!Fold(st, s)
BY DEF Run, Parsing!Fold, FoldLeft, Parsing!FoldLeft, MapThenFoldSet, Parsing!MapThenFoldSet,
       Max, Parsing!Max

LEMMA RunEmpty == ASSUME NEW st PROVE Run(st, << >>) = st
BY RunIsFold, Parsing!FoldEmpty

LEMMA RunAppend ==
    ASSUME NEW st, NEW s, IsList(s), NEW l
    PROVE  Run(st, Append(s, l)) = ParseStep(Run(st, s), l)
BY RunIsFold, Parsing!FoldAppend DEF IsList, Parsing!IsList

LEMMA RunConcat ==
    ASSUME NEW st, NEW s, IsList(s), NEW t, IsList(t)
    PROVE  Run(st, s \o t) = Run(Run(st, s), t)
BY RunIsFold, Parsing!FoldConcat DEF IsList, Parsing!IsList

LEMMA RunLine == ASSUME NEW st, NEW l PROVE Run(st, <<l>>) = ParseStep(st, l)
<1>1. Append(<< >>, l) = <<l>>
  OBVIOUS
<1>2. Run(st, Append(<< >>, l)) = ParseStep(Run(st, << >>), l)
  BY EmptyList, RunAppend
<1> QED BY <1>1, <1>2, RunEmpty

LEMMA ParseRunIsRun == ASSUME NEW s PROVE ParseRun(s) = Run(ParseStart, s)
BY DEF ParseRun, Run

-----------------------------------------------------------------------------
(* What one line does inside a block.                                      *)

\* The parse is inside blocks, the last one innermost.
Open(blocks) == [phase |-> "block", stack |-> blocks]

Element(type, props, sub) == [type |-> type, props |-> props, sub |-> sub]

LEMMA AddPropElement ==
    ASSUME NEW t, NEW ps, NEW cs, NEW line
    PROVE  AddProp(Element(t, ps, cs), line) = Element(t, Append(ps, line), cs)
<1> DEFINE b == Element(t, ps, cs)
<1>1. b \in [type : {t}, props : {ps}, sub : {cs}] /\ b.props = ps
  BY DEF Element
<1> HIDE DEF b
<1>2. AddProp(b, line) = Element(t, Append(ps, line), cs)
  BY <1>1 DEF AddProp, Element
<1> QED BY <1>2 DEF b

LEMMA AddSubElement ==
    ASSUME NEW t, NEW ps, NEW cs, NEW c
    PROVE  AddSub(Element(t, ps, cs), c) = Element(t, ps, Append(cs, c))
<1> DEFINE b == Element(t, ps, cs)
<1>1. b \in [type : {t}, props : {ps}, sub : {cs}] /\ b.sub = cs
  BY DEF Element
<1> HIDE DEF b
<1>2. AddSub(b, c) = Element(t, ps, Append(cs, c))
  BY <1>1 DEF AddSub, Element
<1> QED BY <1>2 DEF b

LEMMA StepProp ==
    ASSUME NEW below, IsList(below), NEW b, NEW line \in PropLines
    PROVE  ParseStep(Open(Append(below, b)), line) = Open(Append(below, AddProp(b, line)))
<1>1. line[1] \in {"VERSION", "PRODID", "PROP"}
  BY DEF PropLines
<1>2. ParseStep(Open(Append(below, b)), line)
        = Open(Append(Front(Append(below, b)), AddProp(Last(Append(below, b)), line)))
  BY <1>1 DEF ParseStep, ParseBlockStep, Open
<1> QED BY <1>2, FrontAndLast

LEMMA StepBegin ==
    ASSUME NEW blocks, NEW t
    PROVE  ParseStep(Open(blocks), Begin(t)) = Open(Append(blocks, Block(t)))
BY DEF ParseStep, ParseBlockStep, Open, Begin

LEMMA StepEnd ==
    ASSUME NEW below, IsList(below), NEW a, NEW b
    PROVE  ParseStep(Open(Append(Append(below, a), b)), End(b.type))
             = Open(Append(below, AddSub(a, b)))
<1> DEFINE outer == Append(below, a)
           blocks == Append(outer, b)
<1>1. IsList(outer) /\ Len(below) \in Nat /\ Len(outer) = Len(below) + 1
  BY ListAppend, ListType
<1>2. Front(blocks) = outer /\ Last(blocks) = b /\ Front(outer) = below /\ Last(outer) = a
  BY <1>1, FrontAndLast
<1>3. Len(blocks) # 1
  <2>1. Len(blocks) = Len(outer) + 1
    BY <1>1, ListAppend
  <2> QED BY <1>1, <2>1
<1> HIDE DEF outer, blocks
<1>4. ParseStep(Open(blocks), End(b.type)) = Open(Append(below, AddSub(a, b)))
  BY <1>2, <1>3 DEF ParseStep, ParseBlockStep, Open, End
<1> QED BY <1>4 DEF outer, blocks

LEMMA StepEndRoot ==
    ASSUME NEW b
    PROVE  ParseStep(Open(<<b>>), End(b.type)) = [phase |-> "done", stack |-> <<b>>]
BY DEF ParseStep, ParseBlockStep, Open, End, Last

-----------------------------------------------------------------------------
(* What the lines of an encoded component do.                              *)

LEMMA RunProps ==
    ASSUME NEW below, IsList(below), NEW t, NEW ps \in Seq(PropLines)
    PROVE  Run(Open(Append(below, Block(t))), ps) = Open(Append(below, Element(t, ps, << >>)))
<1> DEFINE P(qs) == Run(Open(Append(below, Block(t))), qs) = Open(Append(below, Element(t, qs, << >>)))
           S == {n \in Nat : n <= Len(ps) => P(SubSeq(ps, 1, n))}
<1>0. IsList(ps) /\ Len(ps) \in Nat
  BY DEF IsList
<1>1. 0 \in S
  <2>1. SubSeq(ps, 1, 0) = << >>
    OBVIOUS
  <2>2. P(<< >>)
    BY RunEmpty DEF Block, Element
  <2> QED BY <2>1, <2>2
<1>2. ASSUME NEW n \in S PROVE n + 1 \in S
  <2> SUFFICES ASSUME n + 1 <= Len(ps) PROVE P(SubSeq(ps, 1, n + 1))
    OBVIOUS
  <2> DEFINE qs == SubSeq(ps, 1, n)
             line == ps[n + 1]
  <2>1. n \in Nat /\ n < Len(ps) /\ n <= Len(ps) /\ 1 <= n + 1 /\ n + 1 \in 1 .. Len(ps)
    BY <1>0
  <2>2. IsList(qs) /\ SubSeq(ps, 1, n + 1) = Append(qs, line)
    BY <1>0, <2>1, ListPart
  <2>3. line \in PropLines
    BY <2>1
  <2>4. P(qs)
    BY <2>1
  <2> HIDE DEF qs, line
  <2>5. Run(Open(Append(below, Block(t))), Append(qs, line))
          = Open(Append(below, AddProp(Element(t, qs, << >>), line)))
    BY <2>2, <2>3, <2>4, RunAppend, StepProp
  <2>6. AddProp(Element(t, qs, << >>), line) = Element(t, Append(qs, line), << >>)
    BY AddPropElement
  <2> QED BY <2>2, <2>5, <2>6
<1> HIDE DEF S
<1>3. S \in SUBSET Nat
  BY DEF S
<1>4. Len(ps) \in S
  BY <1>0, <1>1, <1>2, <1>3, Parsing!NatInduct
<1>5. P(SubSeq(ps, 1, Len(ps)))
  BY <1>0, <1>4 DEF S
<1>6. SubSeq(ps, 1, Len(ps)) = ps
  BY <1>0
<1> QED BY <1>5, <1>6

\* The lines of a list of subcomponents.
LeafLines(subs) == FlattenSeq([k \in DOMAIN subs |-> EncodeLeaf(subs[k])])

LEMMA EncodedLeaf ==
    ASSUME NEW leaf \in Leaves
    PROVE  /\ IsList(EncodeLeaf(leaf))
           /\ \A below, a : IsList(below) =>
                Run(Open(Append(below, a)), EncodeLeaf(leaf)) = Open(Append(below, AddSub(a, leaf)))
<1> DEFINE t == leaf.type
           ps == leaf.props
<1>1. ps \in Seq(PropLines) /\ leaf = Element(t, ps, << >>)
  BY DEF Leaves, Element
<1>2. IsList(<<Begin(t)>>) /\ IsList(ps) /\ IsList(<<End(t)>>)
  BY <1>1, SingleList DEF IsList
<1>3. IsList(<<Begin(t)>> \o ps)
  BY <1>2, ListConcat
<1> HIDE DEF t, ps
<1>4. EncodeLeaf(leaf) = (<<Begin(t)>> \o ps) \o <<End(t)>>
  BY DEF EncodeLeaf, t, ps
<1>5. ASSUME NEW below, NEW a, IsList(below)
      PROVE  Run(Open(Append(below, a)), EncodeLeaf(leaf)) = Open(Append(below, AddSub(a, leaf)))
  <2> DEFINE outer == Append(below, a)
  <2>1. IsList(outer)
    BY <1>5, ListAppend
  <2>2. Run(Open(outer), <<Begin(t)>>) = Open(Append(outer, Block(t)))
    BY RunLine, StepBegin
  <2>3. Run(Open(outer), <<Begin(t)>> \o ps) = Open(Append(outer, leaf))
    BY <1>1, <1>2, <2>1, <2>2, RunConcat, RunProps
  <2>4. Run(Open(outer), EncodeLeaf(leaf)) = ParseStep(Open(Append(outer, leaf)), End(t))
    BY <1>2, <1>3, <1>4, <2>3, RunConcat, RunLine
  <2> QED BY <1>5, <2>4, StepEnd DEF t
<1> QED BY <1>2, <1>3, <1>4, <1>5, ListConcat

\* A document in parts, and the states between them.
LEMMA RunFlattened ==
    ASSUME NEW parts, IsList(parts), \A k \in 1 .. Len(parts) : IsList(parts[k]),
           NEW states,
           \A k \in 1 .. Len(parts) : Run(states[k], parts[k]) = states[k + 1]
    PROVE  /\ IsList(FlattenSeq(parts))
           /\ Run(states[1], FlattenSeq(parts)) = states[Len(parts) + 1]
<1> DEFINE Upto(n) == SubSeq(parts, 1, n)
           P(n) == IsList(FlattenSeq(Upto(n))) /\ Run(states[1], FlattenSeq(Upto(n))) = states[n + 1]
           S == {n \in Nat : n <= Len(parts) => P(n)}
<1>0. Len(parts) \in Nat /\ Upto(Len(parts)) = parts
  <2>1. Len(parts) \in Nat
    BY ListType
  <2> QED BY <2>1, ListPart
<1>1. 0 \in S
  <2>1. Upto(0) = << >>
    BY DEF IsList
  <2>2. FlattenSeq(Upto(0)) = << >>
    BY <2>1, FlattenEmpty
  <2>3. IsList(FlattenSeq(Upto(0))) /\ Run(states[1], FlattenSeq(Upto(0))) = states[1]
    BY <2>2, EmptyList, RunEmpty
  <2>4. 0 + 1 = 1
    OBVIOUS
  <2> QED BY <2>3, <2>4
<1>2. ASSUME NEW n \in S PROVE n + 1 \in S
  <2> SUFFICES ASSUME n + 1 <= Len(parts) PROVE P(n + 1)
    OBVIOUS
  <2> DEFINE part == parts[n + 1]
             before == FlattenSeq(Upto(n))
  <2>1. n \in Nat /\ n < Len(parts) /\ n <= Len(parts) /\ 1 <= n + 1 /\ n + 1 \in 1 .. Len(parts)
    BY <1>0
  <2>2. IsList(Upto(n)) /\ Upto(n + 1) = Append(Upto(n), part)
    BY <2>1, ListPart
  <2>3. IsList(part) /\ IsList(before) /\ Run(states[1], before) = states[n + 1]
    BY <2>1
  <2>4. Run(states[n + 1], part) = states[(n + 1) + 1]
    BY <2>1
  <2>5. FlattenSeq(Upto(n + 1)) = before \o part
    <3> HIDE DEF part, Upto
    <3> QED BY <2>2, <2>3, FlattenAppend
  <2> HIDE DEF part, before
  <2>6. IsList(before \o part) /\ Run(states[1], before \o part) = states[(n + 1) + 1]
    BY <2>3, <2>4, RunConcat, ListConcat
  <2> HIDE DEF Upto
  <2> QED BY <2>5, <2>6
<1> HIDE DEF S
<1>3. S \in SUBSET Nat
  BY DEF S
<1>4. Len(parts) \in S
  BY <1>0, <1>1, <1>2, <1>3, Parsing!NatInduct
<1>5. P(Len(parts))
  <2> HIDE DEF P
  <2> QED BY <1>0, <1>4 DEF S
<1> QED BY <1>0, <1>5

\* The lines of one subcomponent after the other add them one after the other.
LEMMA AddedInOrder ==
    ASSUME NEW subs, IsList(subs), NEW parts, IsList(parts), Len(parts) = Len(subs),
           \A k \in 1 .. Len(subs) :
              /\ IsList(parts[k])
              /\ \A below, a : IsList(below) =>
                   Run(Open(Append(below, a)), parts[k]) = Open(Append(below, AddSub(a, subs[k]))),
           NEW below, IsList(below), NEW t, NEW ps
    PROVE  /\ IsList(FlattenSeq(parts))
           /\ Run(Open(Append(below, Element(t, ps, << >>))), FlattenSeq(parts))
                = Open(Append(below, Element(t, ps, subs)))
<1> DEFINE upto(k) == SubSeq(subs, 1, k - 1)
           states == [k \in 1 .. Len(subs) + 1 |->
                        Open(Append(below, Element(t, ps, upto(k))))]
<1>1. Len(subs) \in Nat
  BY ListType
<1>2. \A k \in 1 .. Len(subs) + 1 : states[k] = Open(Append(below, Element(t, ps, upto(k))))
  OBVIOUS
<1> HIDE DEF states
<1>3. ASSUME NEW k \in 1 .. Len(subs)
      PROVE  Run(states[k], parts[k]) = states[k + 1]
  <2> DEFINE c == subs[k]
             now == upto(k)
  <2>1. k - 1 \in Nat /\ k - 1 < Len(subs) /\ (k - 1) + 1 = k /\ k \in 1 .. Len(subs) + 1
        /\ k + 1 \in 1 .. Len(subs) + 1 /\ (k + 1) - 1 = k
    BY <1>1
  <2>2. upto(k + 1) = Append(now, c)
    BY <1>1, <2>1, ListPart
  <2>3. states[k] = Open(Append(below, Element(t, ps, now)))
        /\ states[k + 1] = Open(Append(below, Element(t, ps, Append(now, c))))
    BY <1>2, <2>1, <2>2
  <2> HIDE DEF now
  <2>4. AddSub(Element(t, ps, now), c) = Element(t, ps, Append(now, c))
    BY AddSubElement
  <2>5. Run(Open(Append(below, Element(t, ps, now))), parts[k])
          = Open(Append(below, AddSub(Element(t, ps, now), c)))
    OBVIOUS
  <2> QED BY <2>3, <2>4, <2>5
<1>4. /\ states[1] = Open(Append(below, Element(t, ps, << >>)))
      /\ states[Len(subs) + 1] = Open(Append(below, Element(t, ps, subs)))
  <2>1. upto(1) = << >> /\ upto(Len(subs) + 1) = subs
    <3>1. subs \o << >> = subs /\ SubSeq(subs, 1, Len(subs)) = subs
      BY <1>1, ListPart, ListConcat, EmptyList
    <3>2. SubSeq(subs, 1, 0) = << >> /\ 1 - 1 = 0 /\ Len(subs) + 1 - 1 = Len(subs)
      BY <1>1 DEF IsList
    <3> QED BY <3>1, <3>2
  <2>2. 1 \in 1 .. Len(subs) + 1 /\ Len(subs) + 1 \in 1 .. Len(subs) + 1
    BY <1>1
  <2> HIDE DEF upto
  <2> QED BY <1>2, <2>1, <2>2
<1>5. IsList(FlattenSeq(parts)) /\ Run(states[1], FlattenSeq(parts)) = states[Len(parts) + 1]
  BY <1>3, RunFlattened
<1> QED BY <1>4, <1>5

LEMMA EncodedLeaves ==
    ASSUME NEW subs \in Seq(Leaves), NEW below, IsList(below), NEW t, NEW ps
    PROVE  /\ IsList(LeafLines(subs))
           /\ Run(Open(Append(below, Element(t, ps, << >>))), LeafLines(subs))
                = Open(Append(below, Element(t, ps, subs)))
<1> DEFINE parts == [k \in DOMAIN subs |-> EncodeLeaf(subs[k])]
<1>1. IsList(subs) /\ Len(subs) \in Nat /\ DOMAIN subs = 1 .. Len(subs)
  BY DEF IsList
<1>2. parts = [k \in 1 .. Len(subs) |-> parts[k]] /\ \A k \in 1 .. Len(subs) : parts[k] = EncodeLeaf(subs[k])
  BY <1>1
<1> HIDE DEF parts
<1>3. IsList(parts) /\ Len(parts) = Len(subs)
  BY <1>1, <1>2, TableIsList
<1>4. \A k \in 1 .. Len(subs) : subs[k] \in Leaves
  OBVIOUS
<1>5. \A k \in 1 .. Len(subs) :
         /\ IsList(parts[k])
         /\ \A bs, a : IsList(bs) =>
              Run(Open(Append(bs, a)), parts[k]) = Open(Append(bs, AddSub(a, subs[k])))
  BY <1>2, <1>4, EncodedLeaf
<1>6. /\ IsList(FlattenSeq(parts))
      /\ Run(Open(Append(below, Element(t, ps, << >>))), FlattenSeq(parts))
           = Open(Append(below, Element(t, ps, subs)))
  BY <1>1, <1>3, <1>5, AddedInOrder
<1> QED BY <1>6 DEF LeafLines, parts

LEMMA EncodedComponent ==
    ASSUME NEW c \in Components
    PROVE  /\ IsList(EncodeComponent(c))
           /\ \A below, a : IsList(below) =>
                Run(Open(Append(below, a)), EncodeComponent(c)) = Open(Append(below, AddSub(a, c)))
<1> DEFINE t == c.type
           ps == c.props
           subs == c.sub
<1>1. ps \in Seq(PropLines) /\ subs \in Seq(Leaves) /\ c = Element(t, ps, subs)
  BY DEF Components, Element
<1>2. IsList(<<Begin(t)>>) /\ IsList(ps) /\ IsList(<<End(t)>>) /\ IsList(LeafLines(subs))
  BY <1>1, SingleList, EncodedLeaves, EmptyList DEF IsList
<1>3. IsList(<<Begin(t)>> \o ps) /\ IsList((<<Begin(t)>> \o ps) \o LeafLines(subs))
  BY <1>2, ListConcat
<1> HIDE DEF t, ps, subs
<1>4. EncodeComponent(c) = ((<<Begin(t)>> \o ps) \o LeafLines(subs)) \o <<End(t)>>
  BY DEF EncodeComponent, LeafLines, t, ps, subs
<1>5. ASSUME NEW below, NEW a, IsList(below)
      PROVE  Run(Open(Append(below, a)), EncodeComponent(c)) = Open(Append(below, AddSub(a, c)))
  <2> DEFINE outer == Append(below, a)
  <2>1. IsList(outer)
    BY <1>5, ListAppend
  <2> HIDE DEF outer
  <2>2. Run(Open(outer), <<Begin(t)>>) = Open(Append(outer, Block(t)))
    BY RunLine, StepBegin
  <2>3. Run(Open(outer), <<Begin(t)>> \o ps) = Open(Append(outer, Element(t, ps, << >>)))
    BY <1>1, <1>2, <2>1, <2>2, RunConcat, RunProps
  <2>4. Run(Open(outer), (<<Begin(t)>> \o ps) \o LeafLines(subs)) = Open(Append(outer, c))
    BY <1>1, <1>2, <1>3, <2>1, <2>3, RunConcat, EncodedLeaves
  <2>5. Run(Open(outer), EncodeComponent(c)) = ParseStep(Open(Append(outer, c)), End(t))
    BY <1>2, <1>3, <1>4, <2>4, RunConcat, RunLine
  <2> QED BY <1>5, <2>5, StepEnd DEF t, outer
<1> QED BY <1>2, <1>3, <1>4, <1>5, ListConcat

\* The lines of the components of a calendar.
BodyLines(comps) == FlattenSeq([k \in DOMAIN comps |-> EncodeComponent(comps[k])])

LEMMA EncodedComponents ==
    ASSUME NEW comps \in Seq(Components), NEW below, IsList(below), NEW t, NEW ps
    PROVE  /\ IsList(BodyLines(comps))
           /\ Run(Open(Append(below, Element(t, ps, << >>))), BodyLines(comps))
                = Open(Append(below, Element(t, ps, comps)))
<1> DEFINE parts == [k \in DOMAIN comps |-> EncodeComponent(comps[k])]
<1>1. IsList(comps) /\ Len(comps) \in Nat /\ DOMAIN comps = 1 .. Len(comps)
  BY DEF IsList
<1>2. parts = [k \in 1 .. Len(comps) |-> parts[k]] /\ \A k \in 1 .. Len(comps) : parts[k] = EncodeComponent(comps[k])
  BY <1>1
<1> HIDE DEF parts
<1>3. IsList(parts) /\ Len(parts) = Len(comps)
  BY <1>1, <1>2, TableIsList
<1>4. \A k \in 1 .. Len(comps) : comps[k] \in Components
  OBVIOUS
<1>5. \A k \in 1 .. Len(comps) :
         /\ IsList(parts[k])
         /\ \A bs, a : IsList(bs) =>
              Run(Open(Append(bs, a)), parts[k]) = Open(Append(bs, AddSub(a, comps[k])))
  BY <1>2, <1>4, EncodedComponent
<1>6. /\ IsList(FlattenSeq(parts))
      /\ Run(Open(Append(below, Element(t, ps, << >>))), FlattenSeq(parts))
           = Open(Append(below, Element(t, ps, comps)))
  BY <1>1, <1>3, <1>5, AddedInOrder
<1> QED BY <1>6 DEF BodyLines, parts

\* The lines that ParseContentLine accepts; the encoders write no others.
GoodLines == Lines \ {Bad}

LEMMA EncodedAreLines ==
    /\ \A leaf \in Leaves : EncodeLeaf(leaf) \in Seq(GoodLines)
    /\ \A c \in Components : EncodeComponent(c) \in Seq(GoodLines)
    /\ \A p \in Texts : HeaderLines(p) \in Seq(GoodLines)
    /\ <<End(Calendar)>> \in Seq(GoodLines)
<1>1. ASSUME NEW t \in Texts PROVE <<Begin(t)>> \in Seq(GoodLines) /\ <<End(t)>> \in Seq(GoodLines)
  <2>1. Begin(t) \in GoodLines /\ End(t) \in GoodLines
    BY DEF GoodLines, Lines, Begin, End, Bad
  <2> QED BY <2>1
<1>2. ASSUME NEW ps \in Seq(PropLines) PROVE ps \in Seq(GoodLines)
  <2>1. PropLines \subseteq GoodLines
    <3> SUFFICES ASSUME NEW l \in PropLines PROVE l \in GoodLines
      OBVIOUS
    <3>1. l[1] # "BAD" /\ Bad[1] = "BAD"
      BY DEF PropLines, Bad
    <3> QED BY <3>1 DEF GoodLines, Lines
  <2> QED BY <2>1
<1>3. ASSUME NEW leaf \in Leaves PROVE EncodeLeaf(leaf) \in Seq(GoodLines)
  <2>1. leaf.type \in Texts /\ leaf.props \in Seq(PropLines)
    BY DEF Leaves
  <2>2. <<Begin(leaf.type)>> \in Seq(GoodLines) /\ leaf.props \in Seq(GoodLines) /\ <<End(leaf.type)>> \in Seq(GoodLines)
    BY <1>1, <1>2, <2>1
  <2>3. EncodeLeaf(leaf) = <<Begin(leaf.type)>> \o leaf.props \o <<End(leaf.type)>>
    BY DEF EncodeLeaf
  <2> QED BY <2>2, <2>3
<1>4. ASSUME NEW c \in Components PROVE EncodeComponent(c) \in Seq(GoodLines)
  <2> DEFINE parts == [k \in DOMAIN c.sub |-> EncodeLeaf(c.sub[k])]
  <2>1. c.type \in Texts /\ c.props \in Seq(PropLines) /\ c.sub \in Seq(Leaves)
    BY DEF Components
  <2>2. <<Begin(c.type)>> \in Seq(GoodLines) /\ c.props \in Seq(GoodLines) /\ <<End(c.type)>> \in Seq(GoodLines)
    BY <1>1, <1>2, <2>1
  <2>3. FlattenSeq(parts) \in Seq(GoodLines)
    <3>1. DOMAIN c.sub = 1 .. Len(c.sub) /\ Len(c.sub) \in Nat
      BY <2>1
    <3>2. parts = [k \in 1 .. Len(c.sub) |-> parts[k]]
      BY <3>1
    <3>3. \A k \in 1 .. Len(c.sub) : parts[k] \in Seq(GoodLines)
      BY <1>3, <2>1, <3>1
    <3> HIDE DEF parts
    <3>4. IsList(parts) /\ Len(parts) = Len(c.sub)
      BY <3>1, <3>2, TableIsList
    <3> QED BY <3>3, <3>4, FlattenType
  <2> HIDE DEF parts
  <2>4. EncodeComponent(c) = <<Begin(c.type)>> \o c.props \o FlattenSeq(parts) \o <<End(c.type)>>
    BY DEF EncodeComponent, parts
  <2> QED BY <2>2, <2>3, <2>4
<1>5. ASSUME NEW p \in Texts PROVE HeaderLines(p) \in Seq(GoodLines)
  <2>1. /\ Begin(Calendar) \in GoodLines /\ Version(SupportedVersion) \in GoodLines
        /\ ProdID(p) \in GoodLines
    BY DEF GoodLines, Lines, PropLines, Texts, Bad, Begin, Version, ProdID
  <2> QED BY <2>1 DEF HeaderLines
<1>6. Calendar \in Texts
  BY DEF Texts
<1> QED BY <1>1, <1>3, <1>4, <1>5, <1>6

-----------------------------------------------------------------------------
(* Nothing that was parsed is taken back.                                  *)

IsBlock(b) == b = Element(b.type, b.props, b.sub) /\ IsList(b.props) /\ IsList(b.sub)

IsState(st) ==
    /\ st = [phase |-> st.phase, stack |-> st.stack]
    /\ st.phase \in {"first", "block", "done", "error"}
    /\ IsList(st.stack) /\ \A i \in 1 .. Len(st.stack) : IsBlock(st.stack[i])
    /\ st.phase = "first" => st.stack = << >>
    /\ st.phase \in {"block", "done"} => st.stack # << >>

\* What the calendar has of properties and components, it keeps.
Grown(u, st) ==
    st.stack # << >> => /\ u.stack # << >>
                        /\ Extends(u.stack[1].props, st.stack[1].props)
                        /\ Extends(u.stack[1].sub, st.stack[1].sub)

LEMMA ExtendsAppend ==
    ASSUME NEW s, IsList(s), NEW e
    PROVE  Extends(s, s) /\ Extends(Append(s, e), s)
<1>1. Len(s) \in Nat
  BY ListType
<1> QED BY <1>1, ListAppend DEF Extends

LEMMA ExtendsTransitive ==
    ASSUME NEW s, NEW t, NEW u, IsList(s), IsList(t), IsList(u), Extends(t, s), Extends(u, t)
    PROVE  Extends(u, s)
<1>1. Len(s) \in Nat /\ Len(t) \in Nat /\ Len(u) \in Nat
  BY ListType
<1> QED BY <1>1 DEF Extends

LEMMA FirstOfAppend ==
    ASSUME NEW s, IsList(s), NEW e
    PROVE  /\ s = << >> => Append(s, e)[1] = e
           /\ s # << >> => Append(s, e)[1] = s[1] /\ Len(s) >= 1
<1>1. Len(s) \in Nat /\ (s # << >> => Len(s) # 0)
  BY DEF IsList
<1>2. Append(<< >>, e)[1] = e
  OBVIOUS
<1> QED BY <1>1, <1>2, ListAppend

\* A block grows, the ones below it stay.
LEMMA TopGrows ==
    ASSUME NEW below, IsList(below), NEW b, NEW c,
           \A i \in 1 .. Len(below) : IsBlock(below[i]), IsBlock(b), IsBlock(c),
           Extends(c.props, b.props), Extends(c.sub, b.sub)
    PROVE  /\ IsState(Open(Append(below, c)))
           /\ Grown(Open(Append(below, c)), Open(Append(below, b)))
<1>1. /\ Open(Append(below, c)).stack = Append(below, c)
      /\ Open(Append(below, b)).stack = Append(below, b)
      /\ Open(Append(below, c)).phase = "block"
      /\ Open(Append(below, c)) = [phase |-> "block", stack |-> Append(below, c)]
  BY DEF Open
<1>2. Len(below) \in Nat
  BY ListType
<1>3. /\ IsList(Append(below, c)) /\ Append(below, c) # << >>
      /\ \A i \in 1 .. Len(Append(below, c)) : IsBlock(Append(below, c)[i])
  BY <1>2, ListAppend
<1>4. Grown(Open(Append(below, c)), Open(Append(below, b)))
  <2>1. CASE below = << >>
    BY <1>1, <1>3, <2>1, FirstOfAppend DEF Grown
  <2>2. CASE below # << >>
    <3>1. IsBlock(below[1]) /\ Append(below, c)[1] = below[1] /\ Append(below, b)[1] = below[1]
      BY <1>2, <2>2, FirstOfAppend
    <3>2. Extends(below[1].props, below[1].props) /\ Extends(below[1].sub, below[1].sub)
      BY <3>1, ExtendsAppend DEF IsBlock
    <3> QED BY <1>1, <1>3, <3>1, <3>2 DEF Grown
  <2> QED BY <2>1, <2>2
<1> QED BY <1>1, <1>3, <1>4 DEF IsState

LEMMA NewBlock ==
    ASSUME NEW t, NEW ps, NEW cs, IsList(ps), IsList(cs)
    PROVE  IsBlock(Element(t, ps, cs))
BY DEF IsBlock, Element

LEMMA AddedIsBlock ==
    ASSUME NEW b, IsBlock(b), NEW e
    PROVE  /\ IsBlock(AddProp(b, e)) /\ AddProp(b, e).props = Append(b.props, e)
           /\ AddProp(b, e).sub = b.sub /\ AddProp(b, e).type = b.type
           /\ IsBlock(AddSub(b, e)) /\ AddSub(b, e).props = b.props
           /\ AddSub(b, e).sub = Append(b.sub, e) /\ AddSub(b, e).type = b.type
<1> DEFINE t == b.type
           ps == b.props
           cs == b.sub
<1>1. b = Element(t, ps, cs) /\ IsList(ps) /\ IsList(cs)
  BY DEF IsBlock
<1> HIDE DEF t, ps, cs
<1>2. AddProp(b, e) = Element(t, Append(ps, e), cs) /\ AddSub(b, e) = Element(t, ps, Append(cs, e))
  BY <1>1, AddPropElement, AddSubElement
<1>3. IsList(Append(ps, e)) /\ IsList(Append(cs, e))
  BY <1>1, ListAppend
<1>4. IsBlock(AddProp(b, e)) /\ IsBlock(AddSub(b, e))
  BY <1>1, <1>2, <1>3, NewBlock
<1> QED BY <1>2, <1>4 DEF Element, t, ps, cs

\* Inside blocks, line by line.
LEMMA StepCases ==
    ASSUME NEW below, IsList(below), NEW b, NEW line \in Lines,
           NEW next, next = ParseStep(Open(Append(below, b)), line)
    PROVE  \/ /\ line = Bad \/ (line[1] = "END" /\ line # End(b.type))
              /\ next = [phase |-> "error", stack |-> Append(below, b)]
           \/ line = Begin(line[2]) /\ next = Open(Append(Append(below, b), Block(line[2])))
           \/ /\ line = End(b.type) /\ below = << >>
              /\ next = [phase |-> "done", stack |-> Append(below, b)]
           \/ /\ line = End(b.type)
              /\ \E r, a : /\ IsList(r) /\ below = Append(r, a)
                           /\ next = Open(Append(r, AddSub(a, b)))
           \/ line \in PropLines /\ next = Open(Append(below, AddProp(b, line)))
<1> DEFINE blocks == Append(below, b)
<1>0. Last(blocks) = b /\ Len(blocks) = Len(below) + 1 /\ Len(below) \in Nat
  BY FrontAndLast, ListAppend, ListType
<1>1. CASE line = Bad
  <2>1. line[1] = "BAD"
    BY <1>1 DEF Bad
  <2> HIDE DEF blocks
  <2>2. ParseStep(Open(blocks), line) = [phase |-> "error", stack |-> blocks]
    BY <2>1 DEF ParseStep, ParseBlockStep, Open, ParseError
  <2> QED BY <1>1, <2>2 DEF blocks
<1>2. CASE line \in {"BEGIN"} \X Texts
  <2>1. line = Begin(line[2])
    BY <1>2 DEF Begin
  <2>2. ParseStep(Open(blocks), Begin(line[2])) = Open(Append(blocks, Block(line[2])))
    BY StepBegin
  <2> QED BY <2>1, <2>2
<1>3. CASE line \in {"END"} \X Texts
  <2>0. line[1] = "END" /\ line = End(line[2])
    BY <1>3 DEF End
  <2>1. CASE line[2] # b.type
    <3>1. line # End(b.type)
      BY <2>0, <2>1 DEF End
    <3>2. ParseStep(Open(blocks), line) = ParseError(Open(blocks))
      <4> HIDE DEF blocks
      <4> QED BY <1>0, <2>0, <2>1 DEF ParseStep, ParseBlockStep, Open
    <3>3. ParseError(Open(blocks)) = [phase |-> "error", stack |-> blocks]
      BY DEF ParseError, Open
    <3> QED BY <2>0, <3>1, <3>2, <3>3
  <2>2. CASE line[2] = b.type /\ below = << >>
    <3>1. blocks = <<b>>
      <4>1. Append(<< >>, b) = <<b>>
        OBVIOUS
      <4> QED BY <2>2, <4>1
    <3> HIDE DEF blocks
    <3>2. ParseStep(Open(blocks), line) = [phase |-> "done", stack |-> blocks]
      BY <2>0, <2>2, <3>1, StepEndRoot
    <3> QED BY <2>0, <2>2, <3>2 DEF blocks
  <2>3. CASE line[2] = b.type /\ below # << >>
    <3>1. PICK r, a : IsList(r) /\ below = Append(r, a)
      BY <2>3, ListCases
    <3>2. ParseStep(Open(blocks), line) = Open(Append(r, AddSub(a, b)))
      BY <2>0, <2>3, <3>1, StepEnd
    <3> QED BY <2>0, <2>3, <3>1, <3>2
  <2> QED BY <2>1, <2>2, <2>3
<1>4. CASE line \in PropLines
  BY <1>4, StepProp
<1>5. line = Bad \/ line \in {"BEGIN"} \X Texts \/ line \in {"END"} \X Texts \/ line \in PropLines
  BY DEF Lines
<1> QED BY <1>1, <1>2, <1>3, <1>4, <1>5

LEMMA OpenCases ==
    ASSUME NEW st, IsState(st), st.phase = "block"
    PROVE  \E below, b : /\ IsList(below) /\ st.stack = Append(below, b) /\ st = Open(Append(below, b))
                         /\ \A i \in 1 .. Len(below) : IsBlock(below[i])
                         /\ IsBlock(b)
<1>1. PICK below, b : IsList(below) /\ Len(below) + 1 = Len(st.stack) /\ st.stack = Append(below, b)
  BY ListCases DEF IsState
<1>2. Len(below) \in Nat
  BY <1>1, ListType
<1>3. \A i \in 1 .. Len(below) : IsBlock(below[i])
  BY <1>1, <1>2, ListAppend DEF IsState
<1>4. IsBlock(b)
  BY <1>1, <1>2, ListAppend DEF IsState
<1>5. st = Open(st.stack)
  BY DEF IsState, Open
<1> QED BY <1>1, <1>3, <1>4, <1>5

LEMMA StepGrows ==
    ASSUME NEW st, IsState(st), NEW line \in Lines
    PROVE  IsState(ParseStep(st, line)) /\ Grown(ParseStep(st, line), st)
<1> DEFINE next == ParseStep(st, line)
<1>0. ASSUME NEW u, IsState(u) PROVE Grown(u, u)
  <2> SUFFICES ASSUME u.stack # << >>
               PROVE  Extends(u.stack[1].props, u.stack[1].props) /\ Extends(u.stack[1].sub, u.stack[1].sub)
    BY DEF Grown
  <2>1. Len(u.stack) >= 1 /\ Len(u.stack) \in Nat
    BY <1>0, ListType, FirstOfAppend DEF IsState
  <2>2. IsBlock(u.stack[1])
    BY <1>0, <2>1 DEF IsState
  <2> QED BY <2>2, ExtendsAppend DEF IsBlock
<1>1. CASE st.phase = "first"
  <2>1. CASE line = Begin(Calendar)
    <3>1. next = Open(<<Block(Calendar)>>)
      BY <1>1, <2>1 DEF ParseStep, Open
    <3> HIDE DEF next
    <3>2. IsBlock(Block(Calendar))
      BY NewBlock, EmptyList DEF Block, Element
    <3>3. /\ IsList(<<Block(Calendar)>>) /\ Len(<<Block(Calendar)>>) = 1
          /\ <<Block(Calendar)>> # << >>
      BY SingleList, EmptyList
    <3>4. <<Block(Calendar)>>[1] = Block(Calendar)
      OBVIOUS
    <3>5. IsState(next)
      BY <3>1, <3>2, <3>3, <3>4 DEF IsState, Open
    <3>6. Grown(next, st)
      <4>1. st.stack = << >>
        BY <1>1 DEF IsState
      <4> QED BY <4>1 DEF Grown
    <3> QED BY <3>5, <3>6 DEF next
  <2>2. CASE line # Begin(Calendar)
    <3>1. next = [phase |-> "error", stack |-> st.stack]
      BY <1>1, <2>2 DEF ParseStep, ParseError, IsState
    <3> QED BY <1>0, <3>1 DEF IsState, Grown
  <2> QED BY <2>1, <2>2
<1>2. CASE st.phase \in {"done", "error"}
  BY <1>0, <1>2 DEF ParseStep
<1>3. CASE st.phase = "block"
  <2>1. PICK below, b : /\ IsList(below) /\ st.stack = Append(below, b) /\ st = Open(Append(below, b))
                        /\ \A i \in 1 .. Len(below) : IsBlock(below[i])
                        /\ IsBlock(b)
    BY <1>3, OpenCases
  <2>2. CASE \E p \in {"error", "done"} : next = [phase |-> p, stack |-> Append(below, b)]
    <3>1. next.stack = st.stack /\ next = [phase |-> next.phase, stack |-> next.stack]
          /\ next.phase \in {"error", "done"}
      BY <2>1, <2>2
    <3> HIDE DEF next
    <3>2. st.stack # << >>
      BY <1>3 DEF IsState
    <3>3. IsState(next)
      BY <3>1, <3>2 DEF IsState
    <3> QED BY <1>0, <3>1, <3>3 DEF Grown, next
  <2>3. CASE next = Open(Append(Append(below, b), Block(line[2])))
    <3> DEFINE blocks == Append(below, b)
               c == Block(line[2])
    <3>1. IsList(blocks) /\ blocks # << >> /\ Len(blocks) = Len(below) + 1 /\ Len(below) \in Nat
      BY <2>1, ListAppend, ListType
    <3>2. IsBlock(c)
      BY NewBlock, EmptyList DEF Block, Element
    <3>3. \A i \in 1 .. Len(blocks) : IsBlock(blocks[i])
      BY <2>1 DEF IsState
    <3> HIDE DEF next
    <3>4. next.stack = Append(blocks, c) /\ st.stack = blocks
      BY <2>1, <2>3 DEF Open
    <3> HIDE DEF blocks, c
    <3>5. IsState(Open(Append(blocks, c)))
      <4>1. Extends(c.props, c.props) /\ Extends(c.sub, c.sub)
        BY <3>2, ExtendsAppend DEF IsBlock
      <4> QED BY <3>1, <3>2, <3>3, <4>1, TopGrows
    <3>6. Append(blocks, c)[1] = blocks[1] /\ Append(blocks, c) # << >>
      BY <3>1, FirstOfAppend, ListAppend
    <3>7. Grown(next, st)
      BY <1>0, <3>4, <3>6 DEF Grown
    <3>8. IsState(next)
      BY <2>3, <3>5 DEF blocks, c
    <3> QED BY <3>7, <3>8 DEF next
  <2>4. CASE \E r, a : /\ IsList(r) /\ below = Append(r, a) /\ next = Open(Append(r, AddSub(a, b)))
    <3>1. PICK r, a : IsList(r) /\ below = Append(r, a) /\ next = Open(Append(r, AddSub(a, b)))
      BY <2>4
    <3>2. Len(r) \in Nat /\ Len(below) = Len(r) + 1
      BY <3>1, ListAppend, ListType
    <3>3. (\A i \in 1 .. Len(r) : IsBlock(r[i])) /\ IsBlock(a)
      <4>1. \A i \in 1 .. Len(r) : below[i] = r[i]
        BY <3>1, ListAppend
      <4>2. below[Len(r) + 1] = a
        BY <3>1, ListAppend
      <4>3. \A i \in 1 .. Len(r) : i \in 1 .. Len(below)
        BY <3>2
      <4>4. Len(r) + 1 \in 1 .. Len(below)
        BY <3>2
      <4> QED BY <2>1, <4>1, <4>2, <4>3, <4>4
    <3>4. /\ IsBlock(AddSub(a, b))
          /\ Extends(AddSub(a, b).props, a.props) /\ Extends(AddSub(a, b).sub, a.sub)
      <4>1. /\ IsBlock(AddSub(a, b)) /\ AddSub(a, b).props = a.props
            /\ AddSub(a, b).sub = Append(a.sub, b)
        BY <3>3, AddedIsBlock
      <4>2. IsList(a.props) /\ IsList(a.sub)
        BY <3>3 DEF IsBlock
      <4> QED BY <4>1, <4>2, ExtendsAppend
    <3>5. IsState(next) /\ Grown(next, Open(below))
      BY <3>1, <3>3, <3>4, TopGrows
    <3>6. Grown(next, st)
      <4>1. below # << >> /\ Append(below, b)[1] = below[1] /\ Append(below, b) # << >>
        BY <2>1, <3>1, ListAppend, FirstOfAppend
      <4>2. st.stack = Append(below, b) /\ Open(below).stack = below
        BY <2>1 DEF Open
      <4> HIDE DEF next
      <4> QED BY <3>5, <4>1, <4>2 DEF Grown
    <3> QED BY <3>5, <3>6
  <2>5. CASE next = Open(Append(below, AddProp(b, line)))
    <3>1. /\ IsBlock(AddProp(b, line))
          /\ Extends(AddProp(b, line).props, b.props) /\ Extends(AddProp(b, line).sub, b.sub)
      <4>1. /\ IsBlock(AddProp(b, line)) /\ AddProp(b, line).sub = b.sub
            /\ AddProp(b, line).props = Append(b.props, line)
        BY <2>1, AddedIsBlock
      <4>2. IsList(b.props) /\ IsList(b.sub)
        BY <2>1 DEF IsBlock
      <4> QED BY <4>1, <4>2, ExtendsAppend
    <3> QED BY <2>1, <2>5, <3>1, TopGrows
  <2> HIDE DEF next
  <2>6. next = ParseStep(Open(Append(below, b)), line)
    BY <2>1 DEF next
  <2>7. \/ \E p \in {"error", "done"} : next = [phase |-> p, stack |-> Append(below, b)]
        \/ next = Open(Append(Append(below, b), Block(line[2])))
        \/ \E r, a : /\ IsList(r) /\ below = Append(r, a) /\ next = Open(Append(r, AddSub(a, b)))
        \/ next = Open(Append(below, AddProp(b, line)))
    BY <2>1, <2>6, StepCases
  <2> QED BY <2>2, <2>3, <2>4, <2>5, <2>7 DEF next
<1> QED BY <1>1, <1>2, <1>3 DEF IsState

LEMMA StartIsState == IsState(ParseStart)
BY EmptyList DEF IsState, ParseStart

LEMMA GrownTransitive ==
    ASSUME NEW st, NEW u, NEW v, IsState(st), IsState(u), IsState(v), Grown(u, st), Grown(v, u)
    PROVE  Grown(v, st)
<1> SUFFICES ASSUME st.stack # << >> PROVE Grown(v, st)
  BY DEF Grown
<1>1. u.stack # << >> /\ v.stack # << >>
  BY DEF Grown
<1>2. ASSUME NEW w, IsState(w), w.stack # << >>
      PROVE  IsList(w.stack[1].props) /\ IsList(w.stack[1].sub)
  <2>1. Len(w.stack) >= 1 /\ Len(w.stack) \in Nat
    BY <1>2, ListType, FirstOfAppend DEF IsState
  <2> QED BY <1>2, <2>1 DEF IsState, IsBlock
<1> QED BY <1>1, <1>2, ExtendsTransitive DEF Grown

\* The same for a list of lines; and a parse that has come to its end stays there.
LEMMA RunGrows ==
    ASSUME NEW st, IsState(st), NEW s \in Seq(Lines)
    PROVE  /\ IsState(Run(st, s)) /\ Grown(Run(st, s), st)
           /\ st.phase \in {"done", "error"} => Run(st, s) = st
<1> DEFINE P(qs) == /\ IsState(Run(st, qs)) /\ Grown(Run(st, qs), st)
                    /\ st.phase \in {"done", "error"} => Run(st, qs) = st
           S == {n \in Nat : n <= Len(s) => P(SubSeq(s, 1, n))}
<1>0. IsList(s) /\ Len(s) \in Nat
  BY DEF IsList
<1>1. 0 \in S
  <2>1. SubSeq(s, 1, 0) = << >> /\ Run(st, << >>) = st
    BY RunEmpty
  <2>2. Grown(st, st)
    <3> SUFFICES ASSUME st.stack # << >> PROVE Grown(st, st)
      BY DEF Grown
    <3>1. Len(st.stack) >= 1 /\ Len(st.stack) \in Nat
      BY ListType, FirstOfAppend DEF IsState
    <3>2. IsBlock(st.stack[1])
      BY <3>1 DEF IsState
    <3> QED BY <3>2, ExtendsAppend DEF IsBlock, Grown
  <2> QED BY <2>1, <2>2
<1>2. ASSUME NEW n \in S PROVE n + 1 \in S
  <2> SUFFICES ASSUME n + 1 <= Len(s) PROVE P(SubSeq(s, 1, n + 1))
    OBVIOUS
  <2> DEFINE qs == SubSeq(s, 1, n)
             line == s[n + 1]
  <2>1. n \in Nat /\ n < Len(s) /\ n <= Len(s) /\ 1 <= n + 1 /\ n + 1 \in 1 .. Len(s)
    BY <1>0
  <2>2. IsList(qs) /\ SubSeq(s, 1, n + 1) = Append(qs, line)
    BY <1>0, <2>1, ListPart
  <2>3. line \in Lines
    BY <2>1
  <2>4. P(qs)
    BY <2>1
  <2> HIDE DEF qs, line
  <2>5. Run(st, Append(qs, line)) = ParseStep(Run(st, qs), line)
    BY <2>2, RunAppend
  <2>6. IsState(Run(st, Append(qs, line))) /\ Grown(Run(st, Append(qs, line)), Run(st, qs))
    BY <2>3, <2>4, <2>5, StepGrows
  <2>7. Grown(Run(st, Append(qs, line)), st)
    BY <2>4, <2>6, GrownTransitive
  <2>8. st.phase \in {"done", "error"} => Run(st, Append(qs, line)) = st
    BY <2>4, <2>5 DEF ParseStep
  <2>9. P(Append(qs, line))
    BY <2>6, <2>7, <2>8
  <2> HIDE DEF P
  <2> QED BY <2>2, <2>9
<1> HIDE DEF S
<1>3. S \in SUBSET Nat
  BY DEF S
<1>4. Len(s) \in S
  BY <1>0, <1>1, <1>2, <1>3, Parsing!NatInduct
<1>5. P(SubSeq(s, 1, Len(s)))
  BY <1>0, <1>4 DEF S
<1>6. SubSeq(s, 1, Len(s)) = s
  BY <1>0
<1> QED BY <1>5, <1>6

-----------------------------------------------------------------------------
(* The calendar.                                                           *)

\* The calendar under construction.
Root(ps, comps) == Element(Calendar, ps, comps)

\* The properties that the header gives it.
HeaderProps(p) == <<Version(SupportedVersion), ProdID(p)>>

LEMMA RunHeader ==
    ASSUME NEW p \in Texts
    PROVE  /\ IsList(HeaderLines(p))
           /\ Run(ParseStart, HeaderLines(p)) = Open(<<Root(HeaderProps(p), << >>)>>)
<1>1. HeaderLines(p) = <<Begin(Calendar)>> \o HeaderProps(p)
  <2>1. \A a, b, c : <<a, b, c>> = <<a>> \o <<b, c>>
    OBVIOUS
  <2> QED BY <2>1 DEF HeaderLines, HeaderProps
<1>2. HeaderProps(p) \in Seq(PropLines)
  <2>1. Version(SupportedVersion) \in PropLines /\ ProdID(p) \in PropLines
    BY DEF PropLines, Texts, Version, ProdID, SupportedVersion
  <2>2. \A a, b : a \in PropLines /\ b \in PropLines => <<a, b>> \in Seq(PropLines)
    OBVIOUS
  <2> QED BY <2>1, <2>2 DEF HeaderProps
<1>3. IsList(<<Begin(Calendar)>>) /\ IsList(HeaderProps(p))
  BY <1>2, SingleList DEF IsList
<1>4. Run(ParseStart, <<Begin(Calendar)>>) = Open(<<Block(Calendar)>>)
  BY RunLine DEF ParseStart, ParseStep, Open
<1>5. \A b : Append(<< >>, b) = <<b>>
  OBVIOUS
<1>6. Run(Open(<<Block(Calendar)>>), HeaderProps(p)) = Open(<<Root(HeaderProps(p), << >>)>>)
  BY <1>2, <1>5, EmptyList, RunProps DEF Root
<1>7. Run(ParseStart, <<Begin(Calendar)>> \o HeaderProps(p))
        = Run(Run(ParseStart, <<Begin(Calendar)>>), HeaderProps(p))
  BY <1>3, RunConcat
<1>8. IsList(<<Begin(Calendar)>> \o HeaderProps(p))
  BY <1>3, ListConcat
<1> QED BY <1>1, <1>4, <1>6, <1>7, <1>8

LEMMA HeaderIsRead ==
    ASSUME NEW p \in Texts, NEW comps
    PROVE  /\ VersionsOK(Root(HeaderProps(p), comps))
           /\ RootProdID(Root(HeaderProps(p), comps)) = p
<1> DEFINE root == Root(HeaderProps(p), comps)
<1>1. root.props = HeaderProps(p)
  BY DEF Root, Element
<1> HIDE DEF root
<1>2. /\ DOMAIN root.props = {1, 2}
      /\ root.props[1] = Version(SupportedVersion) /\ root.props[2] = ProdID(p)
      /\ root.props[1][1] = "VERSION" /\ root.props[2][1] = "PRODID" /\ root.props[2][2] = p
  BY <1>1 DEF HeaderProps, Version, ProdID
<1>3. Positions(root, "VERSION") = {1} /\ Positions(root, "PRODID") = {2}
  BY <1>2 DEF Positions
<1>4. Max({2}) = 2
  BY DEF Max
<1> QED BY <1>2, <1>3, <1>4 DEF root, VersionsOK, RootProdID

\* One more property of the calendar: the last PRODID counts, and every VERSION.
LEMMA RootGains ==
    ASSUME NEW ps, IsList(ps), NEW line, NEW cs, NEW ds
    PROVE  /\ RootProdID(Root(Append(ps, line), ds))
                = IF line[1] = "PRODID" THEN line[2] ELSE RootProdID(Root(ps, cs))
           /\ VersionsOK(Root(Append(ps, line), ds))
                <=> VersionsOK(Root(ps, cs)) /\ (line[1] = "VERSION" => line = Version(SupportedVersion))
<1> DEFINE n == Len(ps)
           old == Root(ps, cs)
           new == Root(Append(ps, line), ds)
<1>1. old.props = ps /\ new.props = Append(ps, line)
  BY DEF Root, Element
<1>2. n \in Nat /\ DOMAIN ps = 1 .. n
  BY ListType
<1>3. /\ DOMAIN Append(ps, line) = 1 .. n + 1 /\ Append(ps, line)[n + 1] = line
      /\ \A i \in 1 .. n : Append(ps, line)[i] = ps[i]
  BY <1>2, ListAppend, ListType
<1> HIDE DEF n, old, new
<1>4. ASSUME NEW kw
      PROVE  Positions(new, kw) = Positions(old, kw) \cup IF line[1] = kw THEN {n + 1} ELSE {}
  BY <1>1, <1>2, <1>3 DEF Positions
<1>5. RootProdID(new) = IF line[1] = "PRODID" THEN line[2] ELSE RootProdID(old)
  <2>0. \A k \in Positions(old, "PRODID") : k \in 1 .. n
    BY <1>1, <1>2 DEF Positions
  <2>1. CASE line[1] = "PRODID"
    <3>1. /\ n + 1 \in Positions(new, "PRODID") /\ Positions(new, "PRODID") # {}
          /\ \A k \in Positions(new, "PRODID") : k <= n + 1 /\ k \in Nat
      BY <1>2, <1>4, <2>0, <2>1
    <3>2. Max(Positions(new, "PRODID")) = n + 1
      <4> DEFINE at == Positions(new, "PRODID")
      <4>1. n + 1 \in at /\ \A k \in at : n + 1 >= k /\ k \in Nat
        BY <1>2, <3>1
      <4> HIDE DEF at
      <4>2. \A x \in at : (\A k \in at : x >= k) => x = n + 1
        BY <1>2, <4>1
      <4>3. Max(at) \in at /\ \A k \in at : Max(at) >= k
        BY <4>1 DEF Max
      <4> QED BY <4>2, <4>3 DEF at
    <3> QED BY <1>1, <1>3, <2>1, <3>1, <3>2 DEF RootProdID
  <2>2. CASE line[1] # "PRODID"
    <3>1. Positions(new, "PRODID") = Positions(old, "PRODID")
      BY <1>4, <2>2
    <3>2. CASE Positions(old, "PRODID") = {}
      BY <2>2, <3>1, <3>2 DEF RootProdID
    <3>3. CASE Positions(old, "PRODID") # {}
      <4> DEFINE at == Positions(old, "PRODID")
      <4>1. Max(at) \in at
        <5>1. at \in SUBSET (1 .. n)
          BY <2>0
        <5>2. \E x \in at : \A k \in at : x >= k
          BY <1>2, <3>3, <5>1, Parsing!MaxIsLargest DEF Max, Parsing!Max
        <5> HIDE DEF at
        <5> QED BY <5>2 DEF Max
      <4>2. new.props[Max(at)] = old.props[Max(at)]
        BY <1>1, <1>3, <2>0, <4>1
      <4> QED BY <2>2, <3>1, <3>3, <4>2 DEF RootProdID
    <3> QED BY <3>2, <3>3
  <2> QED BY <2>1, <2>2
<1>6. VersionsOK(new) <=> VersionsOK(old) /\ (line[1] = "VERSION" => line = Version(SupportedVersion))
  <2>0. \A k \in Positions(old, "VERSION") : k \in 1 .. n
    BY <1>1, <1>2 DEF Positions
  <2>1. \A k \in Positions(old, "VERSION") : new.props[k] = old.props[k]
    BY <1>1, <1>3, <2>0
  <2>2. CASE line[1] = "VERSION"
    <3>1. Positions(new, "VERSION") = Positions(old, "VERSION") \cup {n + 1} /\ new.props[n + 1] = line
      BY <1>1, <1>3, <1>4, <2>2
    <3> QED BY <2>1, <2>2, <3>1 DEF VersionsOK
  <2>3. CASE line[1] # "VERSION"
    BY <1>4, <2>1, <2>3 DEF VersionsOK
  <2> QED BY <2>2, <2>3
<1> QED BY <1>5, <1>6 DEF old, new

LEMMA EmptyRoot ==
    ASSUME NEW cs
    PROVE  RootProdID(Root(<< >>, cs)) = "" /\ VersionsOK(Root(<< >>, cs))
<1>1. Root(<< >>, cs).props = << >> /\ DOMAIN << >> = {}
  BY DEF Root, Element
<1>2. \A kw : Positions(Root(<< >>, cs), kw) = {}
  BY <1>1 DEF Positions
<1> QED BY <1>2 DEF RootProdID, VersionsOK

\* A calendar with an unsupported VERSION keeps it.
LEMMA BadVersionStays ==
    ASSUME NEW b, NEW c, IsBlock(b), IsBlock(c), Extends(c.props, b.props), VersionsOK(c)
    PROVE  VersionsOK(b)
<1>1. /\ DOMAIN b.props = 1 .. Len(b.props) /\ DOMAIN c.props = 1 .. Len(c.props)
      /\ Len(b.props) \in Nat /\ Len(c.props) \in Nat
  BY ListType DEF IsBlock
<1>2. \A k \in DOMAIN b.props : k \in DOMAIN c.props /\ c.props[k] = b.props[k]
  BY <1>1 DEF Extends
<1> QED BY <1>2 DEF VersionsOK, Positions

\* The batch codec reads back what it writes: Parse accepts the document that Encode
\* makes of any calendar, whatever the number of its components, of their properties and
\* of their sub-components, and finds the same PRODID and components in it, in order.
THEOREM BatchRoundTrip ==
    ASSUME NEW p \in Texts, NEW comps \in Seq(Components)
    PROVE  /\ Accepts(Document(p, comps))
           /\ Parsed(Document(p, comps)) = [prodid |-> p, components |-> comps]
<1> DEFINE root == Root(HeaderProps(p), comps)
<1>1. Document(p, comps) = (HeaderLines(p) \o BodyLines(comps)) \o <<End(Calendar)>>
  BY DEF Document, BodyLines
<1>2. /\ IsList(BodyLines(comps))
      /\ Run(Open(Append(<< >>, Root(HeaderProps(p), << >>))), BodyLines(comps)) = Open(Append(<< >>, root))
  BY EncodedComponents, EmptyList DEF Root
<1>3. \A b : Append(<< >>, b) = <<b>>
  OBVIOUS
<1>4. IsList(HeaderLines(p)) /\ IsList(HeaderLines(p) \o BodyLines(comps)) /\ IsList(<<End(Calendar)>>)
  BY <1>2, RunHeader, ListConcat, SingleList
<1>5. Run(ParseStart, HeaderLines(p) \o BodyLines(comps)) = Open(<<root>>)
  <2>1. Run(ParseStart, HeaderLines(p) \o BodyLines(comps)) = Run(Run(ParseStart, HeaderLines(p)), BodyLines(comps))
    BY <1>2, <1>4, RunConcat
  <2>2. Run(ParseStart, HeaderLines(p)) = Open(<<Root(HeaderProps(p), << >>)>>)
    BY RunHeader
  <2> HIDE DEF root
  <2> QED BY <1>2, <1>3, <2>1, <2>2
<1>6. root.type = Calendar /\ root.sub = comps
  BY DEF Root, Element
<1> HIDE DEF root
<1>7. ParseRun(Document(p, comps)) = [phase |-> "done", stack |-> <<root>>]
  BY <1>1, <1>4, <1>5, <1>6, RunConcat, RunLine, StepEndRoot, ParseRunIsRun
<1>8. VersionsOK(root) /\ RootProdID(root) = p
  BY HeaderIsRead DEF root
<1> QED BY <1>6, <1>7, <1>8 DEF Accepts, Parsed
-----------------------------------------------------------------------------
(* The pull parser.                                                        *)


\* Where the scanner is.
AtLine == input \in Seq(Lines) /\ pos \in 0 .. Len(input)

\* A line that was peeked at is the last one that the scanner has handed out, and
\* nothing is read before Next has taken it.
PeekedIsLast ==
    pending # NoLine => /\ pos > 0 /\ input[pos] = pending
                        /\ headerRead /\ pc \in {"idle", "top"}

\* The field done is set by END:VCALENDAR, the last line that is ever read.
DoneIsAtEnd == done => /\ pos > 0 /\ input[pos] = End(Calendar)
                       /\ headerRead /\ pc = "idle" /\ pending = NoLine

\* io.EOF comes from done, and done is set behind the header.
IInv == /\ AtLine /\ PeekedIsLast /\ DoneIsAtEnd
        /\ headerRead \in BOOLEAN /\ done \in BOOLEAN
        /\ pc # "idle" => headerRead
        /\ result = "EOF" => done

-----------------------------------------------------------------------------
\* The scanner moves over at most one line; the line it hands out is the one it
\* then stands on, unless the input has ended.
LEMMA Consumed ==
    ASSUME AtLine, Consume, UNCHANGED input
    PROVE  /\ AtLine'
           /\ NextLine # EOFLine => pos' > 0 /\ input'[pos'] = NextLine
BY DEF AtLine, Consume, NextLine

\* Some elements behind the first p are replaced by others.
IsSplice(t, s, p, n, new) ==
    /\ Len(t) = Len(s) - n + Len(new) /\ p <= Len(t)
    /\ \A j \in 1 .. p : t[j] = s[j]
    /\ \A j \in 1 .. Len(new) : t[p + j] = new[j]
    /\ \A j \in p + Len(new) + 1 .. Len(t) : t[j] = s[j - Len(new) + n]

LEMMA Spliced ==
    ASSUME NEW S, NEW s \in Seq(S), NEW new \in Seq(S), NEW p \in Nat, NEW n \in Nat, p + n <= Len(s),
           NEW t, t = SubSeq(s, 1, p) \o new \o SubSeq(s, p + n + 1, Len(s))
    PROVE  t \in Seq(S) /\ IsSplice(t, s, p, n, new)
<1> DEFINE front == SubSeq(s, 1, p)
           back  == SubSeq(s, p + n + 1, Len(s))
           head  == front \o new
<1>1. front \in Seq(S) /\ Len(front) = p /\ \A j \in 1 .. p : front[j] = s[j]
  OBVIOUS
<1>2. /\ back \in Seq(S) /\ Len(back) = Len(s) - p - n
      /\ \A j \in 1 .. Len(s) - p - n : back[j] = s[p + n + j]
  OBVIOUS
<1>3. t = head \o back
  OBVIOUS
<1>4. Len(new) \in Nat /\ Len(s) \in Nat
  OBVIOUS
<1> HIDE DEF front, back
<1>5. /\ head \in Seq(S) /\ Len(head) = p + Len(new)
      /\ \A j \in 1 .. p + Len(new) : head[j] = IF j <= p THEN front[j] ELSE new[j - p]
  BY <1>1, ConcatProperties
<1> HIDE DEF head
<1>6. /\ head \o back \in Seq(S) /\ Len(head \o back) = Len(head) + Len(back)
      /\ \A j \in 1 .. Len(head) + Len(back) :
            (head \o back)[j] = IF j <= Len(head) THEN head[j] ELSE back[j - Len(head)]
  BY ONLY <1>2, <1>5, ConcatProperties
<1>7. PICK m \in Nat, l \in Nat : m = Len(new) /\ l = Len(s)
  BY <1>4
<1>8. /\ p + n <= l /\ Len(head) = p + m /\ Len(back) = l - p - n
      /\ Len(t) = l - n + m
  <2>1. Len(head) = p + m /\ Len(back) = l - p - n /\ Len(t) = Len(head) + Len(back) /\ p + n <= l
    BY ONLY <1>2, <1>3, <1>5, <1>6, <1>7, p + n <= Len(s), Zenon
  <2> QED BY ONLY <1>7, <2>1, p \in Nat, n \in Nat
<1>9. /\ \A j \in 1 .. p + m : t[j] = head[j]
      /\ \A j \in p + m + 1 .. Len(t) : t[j] = back[j - (p + m)]
  <2>1. \A j \in 1 .. (p + m) + (l - p - n) :
           t[j] = IF j <= p + m THEN head[j] ELSE back[j - (p + m)]
    BY ONLY <1>3, <1>6, <1>8, Zenon
  <2>2. PICK w \in Nat, k \in Nat : w = p + m /\ k = l - p - n
    <3>1. p + n <= l
      BY <1>8
    <3>2. p + m \in Nat /\ l - p - n \in Nat
      BY ONLY <3>1, p \in Nat, n \in Nat, m \in Nat, l \in Nat
    <3> QED BY ONLY <3>2, Zenon
  <2>3. Len(t) = w + k
    BY ONLY <1>7, <1>8, <2>2, p \in Nat, n \in Nat
  <2>4. \A j \in 1 .. w + k : t[j] = IF j <= w THEN head[j] ELSE back[j - w]
    BY ONLY <2>1, <2>2, Zenon
  <2>5. (\A j \in 1 .. w : t[j] = head[j]) /\ (\A j \in w + 1 .. w + k : t[j] = back[j - w])
    BY ONLY <2>2, <2>4
  <2> QED BY ONLY <2>2, <2>3, <2>5, Zenon
<1>10. \A j \in 1 .. p : t[j] = s[j]
  BY ONLY <1>1, <1>5, <1>7, <1>9, p \in Nat
<1>11. \A j \in 1 .. m : t[p + j] = new[j]
  BY ONLY <1>5, <1>7, <1>9, p \in Nat
<1>12. ASSUME NEW j \in p + m + 1 .. Len(t) PROVE t[j] = s[j - m + n]
  <2>1. t[j] = back[j - (p + m)] /\ j - (p + m) \in 1 .. l - p - n
    BY ONLY <1>7, <1>8, <1>9, p \in Nat, n \in Nat, j \in p + m + 1 .. Len(t)
  <2>2. p + n + (j - (p + m)) = j - m + n
    BY ONLY <1>7, <1>8, p \in Nat, n \in Nat, j \in p + m + 1 .. Len(t)
  <2>3. back[j - (p + m)] = s[p + n + (j - (p + m))]
    BY <1>2, <1>7, <2>1
  <2> QED BY <2>1, <2>2, <2>3
<1>13. p <= Len(t)
  BY ONLY <1>7, <1>8, p \in Nat, n \in Nat
<1>14. t \in Seq(S)
  BY <1>3, <1>6
<1>15. /\ Len(t) = Len(s) - n + Len(new) /\ p <= Len(t)
       /\ \A j \in 1 .. Len(new) : t[p + j] = new[j]
       /\ \A j \in p + Len(new) + 1 .. Len(t) : t[j] = s[j - Len(new) + n]
  BY ONLY <1>7, <1>8, <1>11, <1>12, <1>13, Zenon
<1> QED BY ONLY <1>10, <1>14, <1>15, Zenon DEF IsSplice

\* A line that a failed read may leave: what is left of a torn one, the line that the
\* scanner holds, or that line without one of its folds or with another glued to it.
Remains == Rests \cup {input[pos + 1]} \cup Spoilt(input[pos + 1])

LEMMA SpoiltIsLine ==
    ASSUME NEW l \in Lines, NEW m \in Spoilt(l)
    PROVE  m \in Lines /\ m # End(Calendar)
<1>1. "torn" \in Texts
  BY DEF Texts
<1>2. CASE m = Bad
  BY <1>2 DEF Lines, Bad, End
<1>3. CASE l = Bad /\ m = Prop("torn")
  BY <1>1, <1>3 DEF Lines, PropLines, Prop, End
<1>4. CASE l # Bad /\ m = <<l[1], "torn">>
  <2>1. l \in {"BEGIN", "END"} \X Texts \/ l \in PropLines
    BY <1>4 DEF Lines
  <2>2. m \in {"BEGIN", "END"} \X Texts \/ m \in PropLines
    BY <1>1, <1>4, <2>1 DEF PropLines
  <2>3. m[2] = "torn" /\ End(Calendar)[2] = "VCALENDAR"
    BY <1>4 DEF End, Calendar
  <2> QED BY <2>2, <2>3 DEF Lines
<1> QED BY <1>2, <1>3, <1>4 DEF Spoilt

LEMMA LossKinds ==
    ASSUME AtLine, pos < Len(input), NEW loss \in Losses
    PROVE  /\ loss[1] \in {1, 2} /\ loss[2] \in Seq(Lines) /\ Len(loss[2]) <= 2
           /\ \A j \in 1 .. Len(loss[2]) : loss[2][j] \in Remains
<1> DEFINE held == input[pos + 1]
           Short(seq) == /\ seq \in Seq(Lines) /\ Len(seq) <= 1
                         /\ \A j \in 1 .. Len(seq) : seq[j] \in Remains
<1>1. held \in Lines
  BY DEF AtLine
<1>2. ASSUME NEW l \in Spoilt(held) \cup {held} PROVE Short(<<l>>)
  <2>1. l \in Lines /\ l \in Remains
    BY <1>1, <1>2, SpoiltIsLine DEF Remains
  <2> QED BY <2>1
<1>3. Short(<< >>)
  OBVIOUS
<1>4. ASSUME NEW seqs, \A seq \in seqs : Short(seq), NEW new \in AndRest(seqs)
      PROVE  /\ new \in Seq(Lines) /\ Len(new) <= 2
             /\ \A j \in 1 .. Len(new) : new[j] \in Remains
  <2>1. CASE new \in seqs
    BY <1>4, <2>1
  <2>2. CASE \E seq \in seqs, r \in Rests : new = Append(seq, r)
    <3>1. PICK seq \in seqs, r \in Rests : new = Append(seq, r)
      BY <2>2
    <3>2. Short(seq) /\ r \in Lines /\ r \in Remains
      BY <1>4, InputsAssumption DEF Remains
    <3>3. new \in Seq(Lines) /\ Len(new) = Len(seq) + 1 /\ Len(new) <= 2
      BY <3>1, <3>2
    <3>4. ASSUME NEW j \in 1 .. Len(new) PROVE new[j] \in Remains
      <4>1. Len(seq) \in Nat
        BY <3>2
      <4>2. CASE j \in 1 .. Len(seq)
        BY <3>1, <3>2, <4>2
      <4>3. CASE j = Len(seq) + 1
        BY <3>1, <3>2, <4>3
      <4> QED BY <3>3, <4>1, <4>2, <4>3
    <3> QED BY <3>3, <3>4
  <2> QED BY <2>1, <2>2 DEF AndRest
<1> DEFINE cut == {<<l>> : l \in Spoilt(held)}
<1>5. \A seq \in {<< >>} \cup cut : Short(seq)
  BY <1>2, <1>3
<1>6. \A seq \in {<<held>>} \cup cut : Short(seq)
  BY <1>2
<1>7. \/ loss[1] = 1 /\ loss[2] \in AndRest({<< >>} \cup cut)
      \/ loss[1] = 2 /\ loss[2] \in AndRest({<<held>>} \cup cut)
  BY DEF Losses
<1> HIDE DEF held, cut, Short
<1> QED BY <1>4, <1>5, <1>6, <1>7

\* What a failing read loses lies ahead of the scanner; further ahead all is as it was.
LEMMA LossIsAhead ==
    ASSUME AtLine, Lose
    PROVE  /\ input' \in Seq(Lines) /\ pos \in 0 .. Len(input')
           /\ \A j \in 1 .. pos : input'[j] = input[j]
           /\ \A j \in DOMAIN input' :
                 input'[j] \in Remains \/ \E i \in DOMAIN input : input'[j] = input[i]
           /\ \E m \in 0 .. 2, n \in 1 .. 2 :
                 /\ intact <= pos + 2 /\ intact' = pos + m + 1
                 /\ Len(input') = Len(input) - n + m /\ pos + n <= Len(input)
                 /\ \A j \in pos + m + 1 .. Len(input') : input'[j] = input[j - m + n]
<1>1. PICK loss \in Losses :
         /\ pos + loss[1] <= Len(input)
         /\ input' = SubSeq(input, 1, pos) \o loss[2]
                       \o SubSeq(input, pos + loss[1] + 1, Len(input))
         /\ intact' = pos + Len(loss[2]) + 1
  BY DEF Lose
<1>2. pos < Len(input) /\ intact <= pos + 2 /\ pos \in Nat /\ Len(input) \in Nat /\ input \in Seq(Lines)
  BY DEF Lose, AtLine
<1> DEFINE n == loss[1]
           new == loss[2]
           in == input'
<1>3. /\ n \in {1, 2} /\ new \in Seq(Lines) /\ Len(new) <= 2 /\ Len(new) \in Nat
      /\ \A j \in 1 .. Len(new) : new[j] \in Remains
  BY <1>2, LossKinds
<1>4. in = SubSeq(input, 1, pos) \o new \o SubSeq(input, pos + n + 1, Len(input)) /\ pos + n <= Len(input)
  BY <1>1
<1> HIDE DEF n, new, in
<1>5. /\ in \in Seq(Lines) /\ Len(in) = Len(input) - n + Len(new) /\ pos <= Len(in)
      /\ \A j \in 1 .. pos : in[j] = input[j]
      /\ \A j \in 1 .. Len(new) : in[pos + j] = new[j]
      /\ \A j \in pos + Len(new) + 1 .. Len(in) : in[j] = input[j - Len(new) + n]
  <2>1. n \in Nat
    BY <1>3
  <2>2. new \in Seq(Lines) /\ input \in Seq(Lines) /\ pos \in Nat
    BY <1>2, <1>3
  <2>3. in \in Seq(Lines) /\ IsSplice(in, input, pos, n, new)
    BY ONLY <1>4, <2>1, <2>2, Spliced, Zenon
  <2> QED BY ONLY <2>3, Zenon DEF IsSplice
<1>6. ASSUME NEW j \in DOMAIN in
      PROVE  in[j] \in Remains \/ \E i \in DOMAIN input : in[j] = input[i]
  <2>1. j \in 1 .. Len(in) /\ DOMAIN input = 1 .. Len(input) /\ Len(in) \in Nat
    BY <1>2, <1>5
  <2>2. CASE j <= pos
    BY <1>2, <1>5, <2>1, <2>2
  <2>3. CASE j > pos /\ j <= pos + Len(new)
    <3>1. j - pos \in 1 .. Len(new) /\ pos + (j - pos) = j
      BY <1>2, <1>3, <2>1, <2>3
    <3>2. in[pos + (j - pos)] = new[j - pos]
      BY <1>5, <3>1
    <3> QED BY <1>3, <3>1, <3>2
  <2>4. CASE j > pos + Len(new)
    <3>1. j \in pos + Len(new) + 1 .. Len(in) /\ j - Len(new) + n \in 1 .. Len(input)
      BY <1>2, <1>3, <1>5, <2>1, <2>4
    <3> QED BY <1>5, <2>1, <3>1
  <2> QED BY <1>2, <1>3, <2>1, <2>2, <2>3, <2>4
<1>7. /\ Len(new) \in 0 .. 2 /\ n \in 1 .. 2 /\ intact' = pos + Len(new) + 1
      /\ Len(in) = Len(input) - n + Len(new)
      /\ \A j \in pos + Len(new) + 1 .. Len(in) : in[j] = input[j - Len(new) + n]
  <2>1. intact' = pos + Len(new) + 1
    BY <1>1 DEF new
  <2>2. Len(new) \in 0 .. 2 /\ n \in 1 .. 2
    <3>1. Len(new) \in Nat /\ Len(new) <= 2 /\ n \in {1, 2}
      BY <1>3
    <3>2. (\A k \in Nat : k <= 2 => k \in 0 .. 2) /\ {1, 2} = 1 .. 2
      OBVIOUS
    <3> QED BY <3>1, <3>2, Zenon
  <2>3. /\ Len(in) = Len(input) - n + Len(new)
        /\ \A j \in pos + Len(new) + 1 .. Len(in) : in[j] = input[j - Len(new) + n]
    BY <1>5, Zenon
  <2> QED BY ONLY <2>1, <2>2, <2>3, Zenon
<1>8. pos \in 0 .. Len(in)
  BY <1>2, <1>5
<1> QED BY <1>2, <1>4, <1>5, <1>6, <1>7, <1>8 DEF in

-----------------------------------------------------------------------------
\* An error ends the call, and does not answer io.EOF.
LEMMA ErrorIsNotEOF ==
    ASSUME NEW e \in Errors, HeaderError(e) \/ ReturnError(e)
    PROVE  pc' = "idle" /\ result' # "EOF"
BY DEF HeaderError, ReturnError, Return, Errors

\* A step of the header or of a block: it is taken with done not set and nothing
\* pending, consumes one line and does not answer io.EOF.
LEMMA ReadingKeeps ==
    ASSUME IInv, pc \in {"first", "header", "block"}, Consume, UNCHANGED <<input, headerRead, done>>,
           pending' = pending \/ (pc' \in {"idle", "top"} /\ pending' = NextLine /\ NextLine # EOFLine),
           result' = result \/ result' # "EOF"
    PROVE  IInv'
<1>1. ~done /\ headerRead /\ pending = NoLine
  BY DEF IInv, DoneIsAtEnd, PeekedIsLast
<1>2. AtLine' /\ (NextLine # EOFLine => pos' > 0 /\ input'[pos'] = NextLine)
  BY Consumed DEF IInv
<1>3. PeekedIsLast'
  BY <1>1, <1>2 DEF PeekedIsLast
<1> QED
  BY <1>1, <1>2, <1>3 DEF IInv, DoneIsAtEnd

LEMMA ReadFirstKeeps == IInv /\ ReadFirst => IInv'
<1> SUFFICES ASSUME IInv, ReadFirst PROVE IInv'
  OBVIOUS
<1>1. result' = result \/ result' # "EOF"
  BY ErrorIsNotEOF DEF ReadFirst, Continue, Errors
<1> QED
  BY <1>1, ReadingKeeps DEF ReadFirst, source, fields

LEMMA ReadHeaderKeeps == IInv /\ ReadHeader => IInv'
<1> SUFFICES ASSUME IInv, ReadHeader PROVE IInv'
  OBVIOUS
<1>1. result' = result \/ result' # "EOF"
  BY ErrorIsNotEOF DEF ReadHeader, HeaderAtEOF, Continue, Return, Errors
<1>2. pending' = pending \/ (pc' \in {"idle", "top"} /\ pending' = NextLine /\ NextLine # EOFLine)
  <2>1. CASE pending' = pending
    BY <2>1
  <2>2. CASE pending' # pending
    <3>1. NextLine # EOFLine
      <4> SUFFICES ASSUME NextLine = EOFLine PROVE FALSE
        OBVIOUS
      <4>1. NextLine # Bad /\ ~EndsHeader(NextLine) /\ NextLine[1] # "VERSION"
        BY DEF EndsHeader, IsBoundary, EOFLine, Bad
      <4> QED BY <2>2, <4>1 DEF ReadHeader
    <3>2. EndsHeader(NextLine) /\ pending' = NextLine /\ pc' \in {"idle", "top"}
      BY <2>2 DEF ReadHeader, Continue, Return
    <3> QED BY <3>1, <3>2
  <2> QED BY <2>1, <2>2
<1> QED
  BY <1>1, <1>2, ReadingKeeps DEF ReadHeader, source

LEMMA ReadBlockKeeps == IInv /\ ReadBlock => IInv'
<1> SUFFICES ASSUME IInv, ReadBlock PROVE IInv'
  OBVIOUS
<1>1. result' = result \/ result' # "EOF"
  BY ErrorIsNotEOF DEF ReadBlock, BlockAtEOF, Continue, Yield, Return, Errors
<1> QED
  BY <1>1, ReadingKeeps DEF ReadBlock, source, fields

\* Next takes the line that was peeked at or the next one. It answers io.EOF for
\* END:VCALENDAR only, and sets done with it.
LEMMA ReadTopKeeps == IInv /\ ReadTop => IInv'
<1> SUFFICES ASSUME IInv, ReadTop PROVE IInv'
  OBVIOUS
<1> DEFINE line == IF pending # NoLine THEN pending ELSE NextLine
<1>1. ~done /\ headerRead /\ UNCHANGED <<input, headerRead>> /\ pending' = NoLine
  BY DEF IInv, DoneIsAtEnd, ReadTop, source
<1>2. AtLine' /\ (line # EOFLine => pos' > 0 /\ input'[pos'] = line)
  <2>1. CASE pending # NoLine
    BY <1>1, <2>1 DEF IInv, ReadTop, PeekedIsLast, AtLine
  <2>2. CASE pending = NoLine
    BY <1>1, <2>2, Consumed DEF IInv, ReadTop
  <2> QED BY <2>1, <2>2
<1>3. done' = (line = End(Calendar)) /\ End(Calendar) # EOFLine
  BY <1>1 DEF ReadTop, End, EOFLine, IInv
<1>4. CASE line = End(Calendar)
  <2>1. pc' = "idle"
    BY <1>3, <1>4 DEF ReadTop, ReturnEOF, Return, End
  <2> QED
    <3>1. done' /\ pos' > 0 /\ input'[pos'] = End(Calendar)
      <4> HIDE DEF line
      <4> QED BY <1>2, <1>3, <1>4
    <3>2. DoneIsAtEnd' /\ PeekedIsLast'
      BY <1>1, <2>1, <3>1 DEF DoneIsAtEnd, PeekedIsLast
    <3> QED
      BY <1>1, <1>2, <2>1, <3>1, <3>2, Zenon DEF IInv
<1>5. CASE line # End(Calendar)
  <2>1. result' = result \/ result' # "EOF"
    BY <1>5, ErrorIsNotEOF DEF ReadTop, TopAtEOF, Continue, Errors
  <2> QED
    BY <1>1, <1>2, <1>3, <1>5, <2>1 DEF IInv, DoneIsAtEnd, PeekedIsLast
<1> QED
  BY <1>4, <1>5

\* A failing read moves nothing that has been read.
LEMMA ReadFailsKeeps == IInv /\ ReadFails => IInv'
<1> SUFFICES ASSUME IInv, ReadFails PROVE IInv'
  OBVIOUS
<1>1. /\ ~done /\ headerRead /\ pending = NoLine
      /\ UNCHANGED <<pos, headerRead, done, pending>>
  BY DEF IInv, ReadFails, DoneIsAtEnd, PeekedIsLast, fields
<1>2. AtLine'
  <2>1. CASE input' = input
    BY <1>1, <2>1 DEF IInv, AtLine
  <2>2. CASE Lose
    BY <1>1, <2>2, LossIsAhead DEF IInv, AtLine
  <2> QED BY <2>1, <2>2 DEF ReadFails
<1>3. result' # "EOF"
  <2>1. \E e \in Errors : HeaderError(e) \/ ReturnError(e)
    <3>1. "read error" \in Errors
      BY DEF Errors
    <3>2. HeaderError("read error") \/ ReturnError("read error")
      BY DEF ReadFails, BlockBroken
    <3> QED BY <3>1, <3>2
  <2> QED BY <2>1, ErrorIsNotEOF
<1> QED
  BY <1>1, <1>2, <1>3 DEF IInv, DoneIsAtEnd, PeekedIsLast

LEMMA CallKeeps == IInv /\ (CallHeader \/ CallNext) => IInv'
<1> SUFFICES ASSUME IInv, CallHeader \/ CallNext PROVE IInv'
  OBVIOUS
<1>1. UNCHANGED <<input, pos, pending, done>> /\ pc = "idle" /\ AtLine'
  BY DEF IInv, AtLine, CallHeader, CallNext, Call, source
<1>2. CASE CallHeader
  BY <1>1, <1>2 DEF IInv, CallHeader, DoneIsAtEnd, PeekedIsLast
<1>3. CASE CallNext
  BY <1>1, <1>3 DEF IInv, CallNext, DoneIsAtEnd, PeekedIsLast
<1> QED
  BY <1>2, <1>3

-----------------------------------------------------------------------------
LEMMA IInvStarts == ASSUME InitParser, input \in Seq(Lines) PROVE IInv
<1>1. AtLine
  <2>1. pos = 0
    BY DEF InitParser
  <2> QED BY <2>1 DEF AtLine
<1> QED
  BY <1>1, Zenon DEF InitParser, IInv, PeekedIsLast, DoneIsAtEnd

LEMMA IInvInit == Init => IInv
BY IInvStarts, InputsAssumption DEF Init

LEMMA IInvKept == IInv /\ [Next]_vars => IInv'
<1>1. IInv /\ UNCHANGED vars => IInv'
  BY DEF IInv, AtLine, PeekedIsLast, DoneIsAtEnd, vars, source, parserVars, fields
<1> QED
  BY <1>1, CallKeeps, ReadFirstKeeps, ReadHeaderKeeps, ReadTopKeeps, ReadBlockKeeps, ReadFailsKeeps
  DEF Next, Step, Read

-----------------------------------------------------------------------------
(* The open blocks of the pull parser and those of the batch parser.       *)

\* A line is one of five things.
LEMMA LineKinds ==
    /\ Bad[1] = "BAD" /\ EOFLine[1] = "EOF" /\ NoLine[1] = "NONE"
    /\ \A t : Begin(t)[1] = "BEGIN" /\ End(t)[1] = "END" /\ Begin(t)[2] = t /\ End(t)[2] = t
    /\ \A line \in PropLines : line[1] \in {"VERSION", "PRODID", "PROP"}
    /\ \A line \in Lines : \/ line = Bad \/ line \in PropLines
                          \/ line = Begin(line[2]) \/ line = End(line[2])
<1>1. ASSUME NEW line \in {"BEGIN"} \X Texts PROVE line = Begin(line[2])
  BY DEF Begin
<1>2. ASSUME NEW line \in {"END"} \X Texts PROVE line = End(line[2])
  BY DEF End
<1>3. ASSUME NEW line \in PropLines PROVE line[1] \in {"VERSION", "PRODID", "PROP"}
  BY DEF PropLines
<1>4. ASSUME NEW line \in Lines
      PROVE  \/ line = Bad \/ line \in PropLines
             \/ line \in {"BEGIN"} \X Texts \/ line \in {"END"} \X Texts
  BY DEF Lines
<1>5. \A t : Begin(t)[1] = "BEGIN" /\ End(t)[1] = "END" /\ Begin(t)[2] = t /\ End(t)[2] = t
  BY DEF Begin, End
<1>6. Bad[1] = "BAD" /\ EOFLine[1] = "EOF" /\ NoLine[1] = "NONE"
  BY DEF Bad, EOFLine, NoLine
<1> QED BY <1>1, <1>2, <1>3, <1>4, <1>5, <1>6

\* The scanner is at a line of the input or at its end.
LEMMA NextLineCases ==
    ASSUME AtLine
    PROVE  /\ NextLine # EOFLine => NextLine \in Lines /\ pos < Len(input) /\ NextLine = input[pos + 1]
           /\ NextLine = EOFLine => pos = Len(input)
           /\ NoLine \notin Lines /\ EOFLine \notin Lines
<1>1. NoLine \notin Lines /\ EOFLine \notin Lines
  BY DEF Lines, PropLines, Bad, NoLine, EOFLine
<1>2. \A k \in 1 .. Len(input) : input[k] \in Lines
  BY DEF AtLine
<1>3. pos < Len(input) => pos + 1 \in 1 .. Len(input)
  BY DEF AtLine
<1> QED BY <1>1, <1>2, <1>3 DEF NextLine, AtLine

\* ensureHeader, by the line it reads.
LEMMA HeaderCases ==
    ASSUME ReadHeader, NEW line, line = NextLine
    PROVE  \/ line = EOFLine /\ HeaderError("ErrUnclosedBlock") /\ UNCHANGED <<prodid, pending>>
           \/ line = Bad /\ HeaderError("ErrMalformed") /\ UNCHANGED <<prodid, pending>>
           \/ /\ line[1] = "VERSION" /\ line # Version(SupportedVersion)
              /\ HeaderError("ErrUnsupportedVersion") /\ UNCHANGED <<prodid, pending>>
           \/ /\ EndsHeader(line) /\ line # EOFLine
              /\ pending' = line /\ UNCHANGED <<prodid, stack>>
              /\ (Return("header") /\ UNCHANGED history) \/ Continue("top")
           \/ /\ line \notin {EOFLine, Bad} /\ ~EndsHeader(line)
              /\ line[1] = "VERSION" => line = Version(SupportedVersion)
              /\ prodid' = HeaderProdID(line) /\ Continue("header") /\ UNCHANGED <<pending, stack>>
<1>1. CASE line = EOFLine
  <2>1. line # Bad /\ ~EndsHeader(line) /\ line[1] # "VERSION"
    BY <1>1, LineKinds DEF EndsHeader, IsBoundary
  <2> QED BY <1>1, <2>1 DEF ReadHeader, HeaderAtEOF
<1>2. CASE line = Bad
  <2>1. line # EOFLine /\ ~EndsHeader(line) /\ line[1] # "VERSION"
    BY <1>2, LineKinds DEF EndsHeader, IsBoundary
  <2> QED BY <1>2, <2>1 DEF ReadHeader
<1>3. CASE EndsHeader(line)
  <2>1. line # EOFLine /\ line # Bad /\ line[1] # "VERSION"
    BY <1>3, LineKinds DEF EndsHeader, IsBoundary
  <2> QED BY <1>3, <2>1 DEF ReadHeader
<1>4. CASE line[1] = "VERSION" /\ line # Version(SupportedVersion)
  <2>1. line # EOFLine /\ line # Bad /\ ~EndsHeader(line)
    BY <1>4, LineKinds DEF EndsHeader, IsBoundary
  <2> QED BY <1>4, <2>1 DEF ReadHeader
<1>5. CASE /\ line # EOFLine /\ line # Bad /\ ~EndsHeader(line)
           /\ ~(line[1] = "VERSION" /\ line # Version(SupportedVersion))
  BY <1>5 DEF ReadHeader
<1> QED BY <1>1, <1>2, <1>3, <1>4, <1>5

\* Next between two components, by the line it takes.
TopLine == IF pending # NoLine THEN pending ELSE NextLine

LEMMA TopCases ==
    ASSUME ReadTop, NEW line, line = TopLine
    PROVE  \/ line = EOFLine /\ ReturnError("ErrUnclosedBlock")
           \/ line = End(Calendar) /\ ReturnEOF
           \/ line[1] = "BEGIN" /\ Continue("block") /\ stack' = <<Block(line[2])>>
           \/ /\ line \notin {EOFLine, End(Calendar)} /\ line[1] # "BEGIN"
              /\ ReturnError("ErrMalformed")
<1>1. CASE line = EOFLine
  <2>1. line # End(Calendar) /\ line[1] # "BEGIN"
    BY <1>1, LineKinds
  <2> QED BY <1>1, <2>1 DEF ReadTop, TopLine, TopAtEOF
<1>2. CASE line = End(Calendar)
  <2>1. line # EOFLine /\ line[1] # "BEGIN"
    BY <1>2, LineKinds
  <2> QED BY <1>2, <2>1 DEF ReadTop, TopLine
<1>3. CASE line[1] = "BEGIN"
  <2>1. line # EOFLine /\ line # End(Calendar)
    BY <1>3, LineKinds
  <2> QED BY <1>3, <2>1 DEF ReadTop, TopLine
<1>4. CASE line # EOFLine /\ line # End(Calendar) /\ line[1] # "BEGIN"
  BY <1>4 DEF ReadTop, TopLine
<1> QED BY <1>1, <1>2, <1>3, <1>4

\* readBlock takes a line as parseBlock does with the calendar below: it fails on the
\* lines on which parseBlock fails, and yields a component where parseBlock adds it
\* to the calendar.
BlockFails(line) ==
    /\ \E e \in Errors : ReturnError(e)
    /\ line # EOFLine => \A root : ParseStep(Open(<<root>> \o stack), line).phase = "error"

BlockContinues(line) ==
    /\ line # EOFLine /\ Continue("block") /\ IsList(stack') /\ stack' # << >>
    /\ \A root : ParseStep(Open(<<root>> \o stack), line) = Open(<<root>> \o stack')

BlockYields(line) ==
    /\ line # EOFLine
    /\ \E b : /\ Yield(b)
              /\ \A root : ParseStep(Open(<<root>> \o stack), line) = Open(<<AddSub(root, b)>>)

LEMMA BlockInStep ==
    ASSUME AtLine, IsList(stack), stack # << >>, ReadBlock, NEW line, line = NextLine
    PROVE  BlockFails(line) \/ BlockContinues(line) \/ BlockYields(line)
<1>1. PICK below, open : IsList(below) /\ stack = Append(below, open)
  BY ListCases
<1>2. /\ Last(stack) = open /\ Front(stack) = below /\ Len(below) \in Nat
      /\ Len(stack) = Len(below) + 1
  BY <1>1, FrontAndLast, ListAppend, ListType
<1>3. ASSUME NEW root
      PROVE  /\ IsList(<<root>> \o below)
             /\ <<root>> \o stack = Append(<<root>> \o below, open)
             /\ \A c : Append(<<root>> \o below, c) = <<root>> \o Append(below, c)
  BY <1>1, ConcatAppend, SingleList, ListConcat
<1>4. CASE line = EOFLine
  <2>1. line # Bad /\ line[1] # "BEGIN" /\ line[1] # "END" /\ ~Closes(line, open)
    BY <1>4, LineKinds DEF Closes
  <2>2. ReturnError("ErrUnclosedBlock")
    BY <1>2, <1>4, <2>1 DEF ReadBlock, BlockAtEOF
  <2> QED BY <1>4, <2>2 DEF Errors, BlockFails
<1>5. CASE line # EOFLine
  <2>0. line \in Lines
    BY <1>5, NextLineCases
  <2>1. CASE line = Bad
    <3>0. line[1] = "BAD" /\ ~Closes(line, open)
      BY <2>1, LineKinds DEF Closes
    <3>1. ReturnError("ErrMalformed")
      BY <1>2, <1>5, <2>1, <3>0 DEF ReadBlock
    <3>2. ASSUME NEW root PROVE ParseStep(Open(<<root>> \o stack), line).phase = "error"
      <4> DEFINE blocks == <<root>> \o stack
      <4> HIDE DEF blocks
      <4>1. ParseStep(Open(blocks), line).phase = "error"
        BY <3>0 DEF ParseStep, ParseBlockStep, ParseError, Open
      <4> QED BY <4>1 DEF blocks
    <3> QED BY <3>1, <3>2 DEF Errors, BlockFails
  <2>2. CASE line[1] = "BEGIN"
    <3>0. line # EOFLine /\ line # Bad /\ ~Closes(line, open)
      BY <2>2, LineKinds DEF Closes
    <3>1. Continue("block") /\ stack' = Append(stack, Block(line[2]))
      BY <1>2, <2>2, <3>0 DEF ReadBlock
    <3>2. line = Begin(line[2])
      BY <2>0, <2>2, LineKinds
    <3>3. ASSUME NEW root
          PROVE  ParseStep(Open(<<root>> \o stack), line) = Open(<<root>> \o stack')
      <4>1. <<root>> \o stack' = Append(<<root>> \o stack, Block(line[2]))
        BY <3>1, ConcatAppend, SingleList
      <4> QED BY <3>2, <4>1, StepBegin
    <3>4. IsList(stack') /\ stack' # << >>
      BY <3>1, ListAppend
    <3> QED BY <1>5, <3>1, <3>3, <3>4 DEF BlockContinues
  <2>3. CASE line[1] = "END" /\ ~Closes(line, open)
    <3>0. line # Bad
      BY <2>3, LineKinds
    <3>1. ReturnError("ErrMalformed")
      BY <1>2, <1>5, <2>3, <3>0 DEF ReadBlock
    <3>2. ASSUME NEW root PROVE ParseStep(Open(<<root>> \o stack), line).phase = "error"
      <4> DEFINE lower == <<root>> \o below
                 next == ParseStep(Open(Append(lower, open)), line)
      <4>1. IsList(lower) /\ <<root>> \o stack = Append(lower, open)
        BY <1>3
      <4>2. line # End(open.type) /\ line[1] = "END" /\ line # Begin(line[2]) /\ line \notin PropLines
        BY <2>3, LineKinds DEF Closes
      <4> HIDE DEF lower
      <4>3. next.phase = "error"
        <5> HIDE DEF next
        <5>1. next = ParseStep(Open(Append(lower, open)), line)
          BY DEF next
        <5> QED BY <2>0, <4>1, <4>2, <5>1, StepCases
      <4> QED BY <4>1, <4>3
    <3> QED BY <3>1, <3>2 DEF Errors, BlockFails
  <2>4. CASE line = End(open.type)
    <3>0. line[1] = "END" /\ Closes(line, open) /\ line # Bad
      BY <2>4, LineKinds DEF Closes
    <3>1. CASE below = << >>
      <4>1. Yield(open)
        <5>1. Len(stack) = 1
          BY <1>2, <3>1, EmptyList
        <5> QED BY <1>2, <1>5, <3>0, <5>1 DEF ReadBlock
      <4>2. ASSUME NEW root
            PROVE  ParseStep(Open(<<root>> \o stack), line) = Open(<<AddSub(root, open)>>)
        <5>1. <<root>> \o stack = Append(Append(<< >>, root), open)
          <6>1. <<root>> \o below = <<root>> /\ Append(<< >>, root) = <<root>>
            BY <3>1, SingleList, EmptyList, ListConcat
          <6> QED BY <1>3, <6>1
        <5>2. Append(<< >>, AddSub(root, open)) = <<AddSub(root, open)>>
          OBVIOUS
        <5>3. ParseStep(Open(Append(Append(<< >>, root), open)), End(open.type))
                = Open(Append(<< >>, AddSub(root, open)))
          BY EmptyList, StepEnd
        <5> QED BY <2>4, <5>1, <5>2, <5>3
      <4> QED BY <1>5, <4>1, <4>2 DEF BlockYields
    <3>2. CASE below # << >>
      <4>1. PICK r, a : IsList(r) /\ below = Append(r, a)
        BY <1>1, <3>2, ListCases
      <4>2. Front(below) = r /\ Last(below) = a /\ Len(stack) # 1
        BY <1>2, <4>1, FrontAndLast, ListAppend, ListType
      <4>3. Continue("block") /\ stack' = Append(r, AddSub(a, open))
        BY <1>2, <1>5, <3>0, <4>2 DEF ReadBlock
      <4>4. ASSUME NEW root
            PROVE  ParseStep(Open(<<root>> \o stack), line) = Open(<<root>> \o stack')
        <5> DEFINE lower == <<root>> \o r
        <5>1. IsList(lower) /\ <<root>> \o below = Append(lower, a)
              /\ <<root>> \o stack' = Append(lower, AddSub(a, open))
          BY <4>1, <4>3, ConcatAppend, SingleList, ListConcat
        <5>2. <<root>> \o stack = Append(Append(lower, a), open)
          BY <1>3, <5>1
        <5> HIDE DEF lower
        <5>3. ParseStep(Open(Append(Append(lower, a), open)), End(open.type))
                = Open(Append(lower, AddSub(a, open)))
          BY <5>1, StepEnd
        <5> QED BY <2>4, <5>1, <5>2, <5>3
      <4>5. IsList(stack') /\ stack' # << >>
        BY <4>1, <4>3, ListAppend
      <4> QED BY <1>5, <4>3, <4>4, <4>5 DEF BlockContinues
    <3> QED BY <3>1, <3>2
  <2>5. CASE line \in PropLines
    <3>0. line[1] \notin {"BEGIN", "END"} /\ line # Bad /\ ~Closes(line, open)
      BY <2>5, LineKinds DEF Closes
    <3>1. Continue("block") /\ stack' = Append(below, AddProp(open, line))
      BY <1>2, <1>5, <3>0 DEF ReadBlock
    <3>2. ASSUME NEW root
          PROVE  ParseStep(Open(<<root>> \o stack), line) = Open(<<root>> \o stack')
      BY <1>3, <2>5, <3>1, StepProp
    <3>3. IsList(stack') /\ stack' # << >>
      BY <1>1, <3>1, ListAppend
    <3> QED BY <1>5, <3>1, <3>2, <3>3 DEF BlockContinues
  <2>6. line = Bad \/ line[1] = "BEGIN" \/ line[1] = "END" \/ line \in PropLines
    BY <2>0, LineKinds
  <2> QED BY <2>1, <2>2, <2>3, <2>4, <2>5, <2>6, Zenon DEF Closes
<1> QED BY <1>4, <1>5

-----------------------------------------------------------------------------
(* Types.                                                                  *)

Typed == TypeOK /\ IsList(stack) /\ IsList(yielded) /\ failure.at <= pos

\* What a line does: it fails the call, ends it, or leaves it inside.
Fails == \E e \in Errors : ReturnError(e) \/ (HeaderError(e) /\ stack = << >>)

Ends == /\ \E r \in {"header", "EOF", "component"} : Return(r)
        /\ stack' = << >> /\ IsList(yielded') /\ UNCHANGED <<failure, swallowed>>

GoesOn == \/ \E w \in {"header", "top"} : Continue(w) /\ stack' = << >>
          \/ Continue("block") /\ IsList(stack') /\ stack' # << >>

LEMMA FailsTyped ==
    ASSUME Typed, Fails, pos \in Nat, pos' \in Nat, pos <= pos'
    PROVE  /\ pc' = "idle" /\ stack' = << >> /\ caller' = caller /\ result' \in {"header"} \cup Errors
           /\ failure'.error \in Errors \cup {NoError} /\ failure'.at \in 0 .. pos'
           /\ swallowed' \in Errors \cup {NoError}
           /\ yielded' = yielded
           /\ failure'.error # NoError \/ swallowed' # NoError
           /\ failure.error # NoError => failure' = failure
           /\ failure.error = NoError /\ failure'.error # NoError => failure'.at = pos'
           /\ swallowed' = NoError => swallowed = NoError
           /\ caller = "Next" => UNCHANGED swallowed /\ result' \in Errors /\ failure'.error # NoError
<1>0. PICK e \in Errors : ReturnError(e) \/ (HeaderError(e) /\ stack = << >>)
  BY DEF Fails
<1>1. e # NoError
  BY DEF Errors, NoError
<1>2. failure.at \in 0 .. pos /\ failure.error \in Errors \cup {NoError} /\ swallowed \in Errors \cup {NoError}
  BY DEF Typed, TypeOK
<1>3. CASE ReturnError(e)
  <2>1. /\ failure' = IF failure.error = NoError THEN [error |-> e, at |-> pos'] ELSE failure
        /\ pc' = "idle" /\ result' = e /\ stack' = << >> /\ UNCHANGED <<caller, yielded, swallowed>>
    BY <1>3 DEF ReturnError, Return
  <2> QED BY <1>1, <1>2, <2>1
<1>4. CASE HeaderError(e) /\ stack = << >> /\ ~ReturnError(e)
  <2>1. /\ caller = "Header" /\ pc' = "idle" /\ result' = "header" /\ swallowed' = e
        /\ UNCHANGED <<caller, stack, yielded, failure>>
    BY <1>4 DEF HeaderError, Return
  <2> QED BY <1>1, <1>2, <1>4, <2>1
<1> QED BY <1>0, <1>3, <1>4

LEMMA TypedKept ==
    ASSUME Typed, AtLine, AtLine', pos <= pos', UNCHANGED eof, headerRead' \in BOOLEAN, done' \in BOOLEAN,
           pending' = NoLine \/ IsBoundary(pending'),
           Fails \/ Ends \/ GoesOn
    PROVE  Typed'
<1>0. pos \in Nat /\ pos' \in Nat /\ pos' <= Len(input') /\ Len(input') \in Nat
  BY DEF AtLine
<1>1. IsList(<< >>)
  BY EmptyList
<1>2. /\ pc' \in {"idle", "first", "header", "top", "block"}
      /\ caller' \in {"Header", "Next"}
      /\ pc' = "block" <=> stack' # << >>
      /\ result' \in {"none", "header", "component", "EOF"} \cup Errors
      /\ failure'.error \in Errors \cup {NoError} /\ failure'.at \in 0 .. pos'
      /\ swallowed' \in Errors \cup {NoError}
      /\ IsList(stack') /\ IsList(yielded')
  <2>1. CASE Fails
    BY <1>0, <1>1, <2>1, FailsTyped DEF Typed, TypeOK
  <2>2. CASE Ends
    BY <1>0, <1>1, <2>2 DEF Ends, Return, Typed, TypeOK
  <2>3. CASE GoesOn
    BY <1>0, <1>1, <2>3 DEF GoesOn, Continue, history, Typed, TypeOK
  <2> QED BY <2>1, <2>2, <2>3
<1>3. input' \in Seq(Lines) /\ pos' \in 0 .. Len(input') /\ eof' \in BOOLEAN
  BY DEF AtLine, Typed, TypeOK
<1> QED BY <1>0, <1>2, <1>3 DEF Typed, TypeOK

\* The scanner moves forward.
LEMMA Forward ==
    ASSUME AtLine, Consume, UNCHANGED input
    PROVE  AtLine' /\ pos <= pos'
BY DEF AtLine, Consume

LEMMA ReadFirstTyped == ASSUME Typed, IInv, ReadFirst PROVE Typed' /\ (Fails \/ GoesOn)
<1>1. Fails \/ GoesOn
  <2>1. stack = << >>
    BY DEF ReadFirst, Typed, TypeOK
  <2> QED BY <2>1 DEF ReadFirst, Fails, GoesOn, Errors
<1>2. AtLine /\ AtLine' /\ pos <= pos'
  BY Forward DEF IInv, ReadFirst, source
<1> QED BY <1>1, <1>2, TypedKept DEF ReadFirst, source, fields, Typed, TypeOK

LEMMA ReadHeaderTyped == ASSUME Typed, IInv, ReadHeader PROVE Typed' /\ (Fails \/ Ends \/ GoesOn)
<1>0. PICK line : line = NextLine
  OBVIOUS
<1>1. stack = << >> /\ (pending = NoLine \/ IsBoundary(pending))
  BY DEF ReadHeader, Typed, TypeOK
<1>2. /\ Fails \/ Ends \/ GoesOn
      /\ pending' = NoLine \/ IsBoundary(pending')
  <2>1. CASE \E e \in Errors : HeaderError(e) /\ UNCHANGED pending
    BY <1>1, <2>1 DEF Fails
  <2>2. CASE /\ EndsHeader(line) /\ pending' = line /\ UNCHANGED stack
             /\ (Return("header") /\ UNCHANGED history) \/ Continue("top")
    BY <1>1, <2>2 DEF Ends, GoesOn, EndsHeader, history, Typed
  <2>3. CASE Continue("header") /\ UNCHANGED <<pending, stack>>
    BY <1>1, <2>3 DEF GoesOn
  <2>4. {"ErrUnclosedBlock", "ErrMalformed", "ErrUnsupportedVersion"} \subseteq Errors
    BY DEF Errors
  <2> QED BY <1>0, <2>1, <2>2, <2>3, <2>4, HeaderCases
<1>3. AtLine /\ AtLine' /\ pos <= pos'
  BY Forward DEF IInv, ReadHeader, source
<1>4. UNCHANGED eof /\ headerRead' \in BOOLEAN /\ done' \in BOOLEAN
  BY DEF ReadHeader, source, Typed, TypeOK
<1> QED BY <1>2, <1>3, <1>4, TypedKept

LEMMA ReadTopTyped == ASSUME Typed, IInv, ReadTop PROVE Typed' /\ (Fails \/ Ends \/ GoesOn)
<1>0. PICK line : line = TopLine
  OBVIOUS
<1>1. Fails \/ Ends \/ GoesOn
  <2>1. CASE \E e \in Errors : ReturnError(e)
    BY <2>1 DEF Fails
  <2>2. CASE ReturnEOF
    BY <2>2 DEF Ends, ReturnEOF, history, ReadTop, Typed, TypeOK
  <2>3. CASE Continue("block") /\ stack' = <<Block(line[2])>>
    BY <2>3, SingleList, EmptyList DEF GoesOn
  <2>4. {"ErrUnclosedBlock", "ErrMalformed"} \subseteq Errors
    BY DEF Errors
  <2> QED BY <1>0, <2>1, <2>2, <2>3, <2>4, TopCases
<1>2. AtLine /\ AtLine' /\ pos <= pos'
  <2>1. AtLine
    BY DEF IInv
  <2>2. CASE pending # NoLine
    BY <2>1, <2>2 DEF ReadTop, source, AtLine
  <2>3. CASE pending = NoLine
    BY <2>1, <2>3, Forward DEF ReadTop, source
  <2> QED BY <2>1, <2>2, <2>3
<1>3. UNCHANGED eof /\ headerRead' \in BOOLEAN /\ done' \in BOOLEAN /\ pending' = NoLine
  BY DEF ReadTop, source, Typed, TypeOK
<1> QED BY <1>1, <1>2, <1>3, TypedKept

LEMMA ReadBlockTyped == ASSUME Typed, IInv, ReadBlock PROVE Typed' /\ (Fails \/ Ends \/ GoesOn)
<1>0. PICK line : line = NextLine
  OBVIOUS
<1>1. Fails \/ Ends \/ GoesOn
  <2>1. AtLine /\ IsList(stack) /\ stack # << >>
    BY DEF IInv, Typed, TypeOK, ReadBlock
  <2>2. BlockFails(line) \/ BlockContinues(line) \/ BlockYields(line)
    BY <1>0, <2>1, BlockInStep
  <2>3. CASE BlockFails(line)
    BY <2>3 DEF BlockFails, Fails
  <2>4. CASE BlockContinues(line)
    BY <2>4 DEF BlockContinues, GoesOn
  <2>5. CASE BlockYields(line)
    <3>1. PICK b : Yield(b)
      BY <2>5 DEF BlockYields
    <3>2. IsList(Append(yielded, b))
      BY ListAppend DEF Typed
    <3> QED BY <3>1, <3>2 DEF Yield, Ends
  <2> QED BY <2>2, <2>3, <2>4, <2>5
<1>2. AtLine /\ AtLine' /\ pos <= pos'
  BY Forward DEF IInv, ReadBlock, source
<1>3. /\ UNCHANGED eof /\ headerRead' \in BOOLEAN /\ done' \in BOOLEAN
      /\ pending' = NoLine \/ IsBoundary(pending')
  BY DEF ReadBlock, source, fields, Typed, TypeOK
<1> QED BY <1>1, <1>2, <1>3, TypedKept

LEMMA ReadFailsTyped == ASSUME Typed, IInv, ReadFails PROVE Typed' /\ Fails
<1>1. Fails
  <2>1. CASE pc \in {"first", "header"}
    <3>1. stack = << >> /\ HeaderError("read error")
      BY <2>1 DEF ReadFails, Typed, TypeOK
    <3> QED BY <3>1 DEF Fails, Errors
  <2>2. CASE pc \notin {"first", "header"}
    <3>1. ReturnError("read error")
      BY <2>2 DEF ReadFails, BlockBroken
    <3> QED BY <3>1 DEF Fails, Errors
  <2> QED BY <2>1, <2>2
<1>2. AtLine /\ AtLine' /\ pos <= pos'
  <2>1. IInv'
    BY ReadFailsKeeps
  <2>2. pos' = pos
    BY DEF ReadFails
  <2>3. AtLine /\ pos \in Nat
    BY DEF IInv, AtLine
  <2> QED BY <2>1, <2>2, <2>3 DEF IInv
<1>3. /\ UNCHANGED eof /\ headerRead' \in BOOLEAN /\ done' \in BOOLEAN
      /\ pending' = NoLine \/ IsBoundary(pending')
  BY DEF ReadFails, fields, Typed, TypeOK
<1> QED BY <1>1, <1>2, <1>3, TypedKept

LEMMA CallTyped == ASSUME Typed, IInv, CallHeader \/ CallNext PROVE Typed'
<1>1. /\ UNCHANGED <<input, eof, pos, pending, done, stack, yielded, failure, swallowed>>
      /\ pc = "idle" /\ pc' \in {"idle", "first", "top"}
      /\ caller' \in {"Header", "Next"}
      /\ result' = result \/ result' \in {"header", "EOF"}
      /\ headerRead' \in BOOLEAN
  BY DEF CallHeader, CallNext, Call, source, history, Typed, TypeOK
<1> QED BY <1>1 DEF Typed, TypeOK

LEMMA TypedStarts == ASSUME InitParser, input \in Seq(Lines), eof \in BOOLEAN PROVE Typed
<1>1. Len(input) \in Nat
  OBVIOUS
<1>2. /\ pos = 0 /\ headerRead = FALSE /\ done = FALSE /\ pending = NoLine
      /\ pc = "idle" /\ caller = "Next" /\ stack = << >> /\ result = "none"
      /\ failure.error = NoError /\ failure.at = 0 /\ swallowed = NoError /\ yielded = << >>
  BY DEF InitParser
<1>3. IsList(stack) /\ IsList(yielded) /\ (pc = "block" <=> stack # << >>) /\ pos \in 0 .. Len(input)
  BY <1>1, <1>2, EmptyList
<1>4. failure.at \in 0 .. Len(input) /\ failure.at <= pos
  BY <1>1, <1>2
<1> QED BY <1>2, <1>3, <1>4 DEF Typed, TypeOK

LEMMA TypedInit == Init => Typed
BY TypedStarts, InputsAssumption DEF Init

LEMMA TypedStep == Typed /\ IInv /\ [Next]_vars => Typed'
<1>1. Typed /\ UNCHANGED vars => Typed'
  BY DEF Typed, TypeOK, vars, source, parserVars, fields, history
<1> QED
  BY <1>1, CallTyped, ReadFirstTyped, ReadHeaderTyped, ReadTopTyped, ReadBlockTyped, ReadFailsTyped
  DEF Next, Step, Read

-----------------------------------------------------------------------------
(* Lock step with the batch parser.                                        *)

\* The batch parser has made of the lines taken so far the calendar with the components
\* yielded so far, above it the open blocks of the pull parser, and knows the PRODID.
Locked ==
    \E ps : /\ IsList(ps)
            /\ ParseRun(Taken) = [phase |-> IF done THEN "done" ELSE "block",
                                  stack |-> <<Root(ps, yielded)>> \o stack]
            /\ RootProdID(Root(ps, yielded)) = prodid
            /\ VersionsOK(Root(ps, yielded))

\* Before the first line, and from then on. Between two components something was
\* yielded or the line after the header is still pending.
InTime ==
    IF pos = 0
    THEN /\ yielded = << >> /\ prodid = "" /\ ~done /\ pending = NoLine
         /\ pc \in {"idle", "first"} /\ (headerRead <=> pc = "first")
    ELSE /\ headerRead /\ pc # "first" /\ Locked
         /\ pc = "header" => yielded = << >> /\ pending = NoLine
         /\ pc \in {"idle", "top"} /\ ~done /\ pending = NoLine => yielded # << >>

LInv == Undisturbed => InTime

LEMMA PartOfInput ==
    ASSUME AtLine, NEW m \in Nat \ {0}, NEW n \in Nat, n <= Len(input)
    PROVE  SubSeq(input, m, n) \in Seq(Lines) /\ IsList(SubSeq(input, m, n))
<1>1. \A i \in m .. n : input[i] \in Lines
  BY DEF AtLine
<1>2. SubSeq(input, m, n) \in Seq(Lines)
  BY <1>1, SubSeqProperties
<1> QED BY <1>2 DEF IsList

LEMMA OneMoreLine ==
    ASSUME AtLine, NEW n \in Nat, n < Len(input)
    PROVE  /\ ParseRun(SubSeq(input, 1, n + 1)) = ParseStep(ParseRun(SubSeq(input, 1, n)), input[n + 1])
           /\ SubSeq(input, 1, 0) = << >> /\ ParseRun(<< >>) = ParseStart
<1>1. IsList(input) /\ n <= Len(input) /\ 1 <= n + 1
  BY DEF AtLine, IsList
<1>2. IsList(SubSeq(input, 1, n)) /\ SubSeq(input, 1, n + 1) = Append(SubSeq(input, 1, n), input[n + 1])
  BY <1>1, ListPart
<1>4. Run(ParseStart, Append(SubSeq(input, 1, n), input[n + 1]))
        = ParseStep(Run(ParseStart, SubSeq(input, 1, n)), input[n + 1])
  BY <1>2, RunAppend
<1>3. SubSeq(input, 1, 0) = << >>
  BY DEF AtLine
<1> QED BY <1>2, <1>3, <1>4, RunEmpty, ParseRunIsRun

\* A line is taken: the next one, or the one that was peeked at.
LEMMA LineTaken ==
    ASSUME IInv, UNCHANGED input, pending' = NoLine, TopLine # EOFLine,
           IF pending # NoLine THEN UNCHANGED pos ELSE Consume
    PROVE  /\ ParseRun(Taken)' = ParseStep(ParseRun(Taken), TopLine)
           /\ pos' \in Nat \ {0} /\ TopLine \in Lines /\ IsList(Taken)
           /\ pos = 0 => ParseRun(Taken) = ParseStart
           /\ pending = NoLine => pos' = pos + 1
<1>1. pos \in Nat /\ pos <= Len(input) /\ Len(input) \in Nat /\ AtLine
  BY DEF IInv, AtLine
<1>2. CASE pending # NoLine
  <2>1. pos > 0 /\ input[pos] = TopLine /\ pos' = pos
    BY <1>1, <1>2 DEF IInv, PeekedIsLast, TopLine
  <2>2. pos - 1 \in Nat /\ pos - 1 < Len(input) /\ (pos - 1) + 1 = pos
    BY <1>1, <2>1
  <2>3. ParseRun(SubSeq(input, 1, pos)) = ParseStep(ParseRun(SubSeq(input, 1, pos - 1)), input[pos])
    BY <1>1, <2>2, OneMoreLine
  <2>4. Taken = SubSeq(input, 1, pos - 1) /\ Taken' = SubSeq(input, 1, pos)
    BY <1>2, <2>1 DEF Taken
  <2>5. ParseRun(Taken)' = ParseRun(Taken')
    BY DEF ParseRun
  <2>6. input[pos] \in Lines
    BY <1>1, <2>1 DEF AtLine
  <2>7. IsList(SubSeq(input, 1, pos - 1))
    <3>1. pos - 1 <= Len(input) /\ 1 <= (pos - 1) + 1
      BY <1>1, <2>2
    <3> QED BY <1>1, <2>2, <3>1, PartOfInput
  <2> QED BY <1>1, <1>2, <2>1, <2>3, <2>4, <2>5, <2>6, <2>7
<1>3. CASE pending = NoLine
  <2>1. TopLine = NextLine /\ Consume
    BY <1>3 DEF TopLine
  <2>2. TopLine \in Lines /\ pos < Len(input) /\ TopLine = input[pos + 1]
    BY <1>1, <2>1, NextLineCases
  <2>3. pos' = pos + 1
    BY <2>1, <2>2 DEF Consume
  <2>4. ParseRun(SubSeq(input, 1, pos + 1)) = ParseStep(ParseRun(SubSeq(input, 1, pos)), input[pos + 1])
        /\ SubSeq(input, 1, 0) = << >> /\ ParseRun(<< >>) = ParseStart
    BY <1>1, <2>2, OneMoreLine
  <2>5. Taken = SubSeq(input, 1, pos) /\ Taken' = SubSeq(input, 1, pos + 1)
    BY <1>3, <2>3 DEF Taken
  <2>6. ParseRun(Taken)' = ParseRun(Taken')
    BY DEF ParseRun
  <2>7. IsList(SubSeq(input, 1, pos))
    <3>1. 1 <= pos + 1
      BY <1>1
    <3> QED BY <1>1, <3>1, PartOfInput
  <2>8. pos' \in Nat \ {0}
    BY <1>1, <2>3
  <2> QED BY <2>8, <1>3, <2>2, <2>3, <2>4, <2>5, <2>6, <2>7
<1> QED BY <1>2, <1>3

LEMMA Disturbed == ASSUME Typed, Fails PROVE ~Undisturbed'
<1>0. PICK e \in Errors : ReturnError(e) \/ HeaderError(e)
  BY DEF Fails
<1>1. e # NoError
  BY DEF Errors, NoError
<1>2. CASE ReturnError(e)
  <2>1. failure' = IF failure.error = NoError THEN [error |-> e, at |-> pos'] ELSE failure
    BY <1>2 DEF ReturnError
  <2> QED BY <1>1, <2>1 DEF Undisturbed
<1>3. CASE HeaderError(e) /\ ~ReturnError(e)
  BY <1>1, <1>3 DEF HeaderError, Undisturbed
<1> QED BY <1>0, <1>2, <1>3

LEMMA RootOnly ==
    ASSUME NEW b, NEW s, IsList(s)
    PROVE  /\ <<b>> \o << >> = <<b>> /\ (<<b>> \o s)[1] = b /\ Tail(<<b>> \o s) = s
           /\ Append(<< >>, b) = <<b>> /\ Last(<<b>>) = b /\ Len(<<b>>) = 1 /\ <<b>> # << >>
<1>1. PICK S : s \in Seq(S)
  BY DEF IsList
<1>2. <<b>> \in Seq(S \cup {b}) /\ s \in Seq(S \cup {b})
  BY <1>1
<1>3. (<<b>> \o s)[1] = b /\ Tail(<<b>> \o s) = s
  BY <1>2
<1>4. Last(<<b>>) = b /\ Append(<< >>, b) = <<b>> /\ Len(<<b>>) = 1 /\ <<b>> # << >>
  BY DEF Last
<1> QED BY <1>3, <1>4, SingleList, EmptyList, ListConcat

LEMMA ReadFirstLocked ==
    ASSUME Typed, IInv, LInv, ReadFirst PROVE LInv'
<1> SUFFICES ASSUME Undisturbed' PROVE InTime'
  BY DEF LInv
<1>0. stack = << >> /\ IsList(stack)
  BY DEF Typed, TypeOK, ReadFirst
<1>1. NextLine = Begin(Calendar)
  <2> SUFFICES ASSUME NextLine # Begin(Calendar) PROVE Fails
    BY Disturbed
  <2>1. HeaderError("ErrMalformed")
    BY DEF ReadFirst
  <2> QED BY <1>0, <2>1 DEF Fails, Errors
<1>2. /\ pc' = "header" /\ UNCHANGED <<yielded, failure, swallowed, stack, prodid, done, pending, headerRead, input>>
      /\ pc = "first" /\ Consume
  BY <1>1 DEF ReadFirst, Continue, history, fields, source
<1>3. InTime /\ pos = 0
  <2>1. Undisturbed
    BY <1>2 DEF Undisturbed
  <2> QED BY <1>2, <2>1 DEF LInv, InTime
<1>4. yielded = << >> /\ prodid = "" /\ ~done /\ pending = NoLine /\ headerRead
  BY <1>2, <1>3 DEF InTime
<1>5. TopLine = Begin(Calendar) /\ TopLine # EOFLine
  BY <1>1, <1>4, LineKinds DEF TopLine
<1>6. ParseRun(Taken)' = ParseStep(ParseStart, Begin(Calendar)) /\ pos' \in Nat \ {0}
  BY <1>2, <1>3, <1>4, <1>5, LineTaken
<1>7. ParseStep(ParseStart, Begin(Calendar)) = Open(<<Root(<< >>, << >>)>> \o << >>)
  <2>1. ParseStep(ParseStart, Begin(Calendar)) = Open(<<Block(Calendar)>>)
    BY DEF ParseStep, ParseStart, Open
  <2> QED BY <2>1, EmptyList, RootOnly DEF Root, Element, Block
<1>8. Locked'
  <2>1. yielded' = << >> /\ stack' = << >> /\ prodid' = "" /\ done' = FALSE
    BY <1>0, <1>2, <1>4 DEF Typed, TypeOK
  <2>2. IsList(<< >>) /\ RootProdID(Root(<< >>, << >>)) = "" /\ VersionsOK(Root(<< >>, << >>))
    BY EmptyList, EmptyRoot
  <2>3. ParseRun(Taken)' = [phase |-> IF done' THEN "done" ELSE "block",
                            stack |-> <<Root(<< >>, yielded')>> \o stack']
    BY <1>6, <1>7, <2>1 DEF Open
  <2> QED BY <2>1, <2>2, <2>3 DEF Locked
<1> QED BY <1>2, <1>4, <1>6, <1>8 DEF InTime

\* Where the header or Next stands, the calendar is the only open block.
LEMMA AtCalendar ==
    ASSUME Typed, IInv, InTime, pos # 0, stack = << >>, ~done
    PROVE  \E ps : /\ IsList(ps) /\ ParseRun(Taken) = Open(<<Root(ps, yielded)>>)
                   /\ RootProdID(Root(ps, yielded)) = prodid /\ VersionsOK(Root(ps, yielded))
<1>1. PICK ps : /\ IsList(ps)
                /\ ParseRun(Taken) = [phase |-> IF done THEN "done" ELSE "block",
                                      stack |-> <<Root(ps, yielded)>> \o stack]
                /\ RootProdID(Root(ps, yielded)) = prodid /\ VersionsOK(Root(ps, yielded))
  BY DEF InTime, Locked
<1>2. <<Root(ps, yielded)>> \o stack = <<Root(ps, yielded)>>
  BY EmptyList, RootOnly
<1> QED BY <1>1, <1>2 DEF Open

LEMMA ReadHeaderLocked ==
    ASSUME Typed, IInv, LInv, ReadHeader PROVE LInv'
<1> SUFFICES ASSUME Undisturbed' PROVE InTime'
  BY DEF LInv
<1>0. PICK line : line = NextLine
  OBVIOUS
<1>1. /\ stack = << >> /\ IsList(stack) /\ ~done /\ headerRead /\ pending = NoLine
      /\ UNCHANGED <<input, headerRead, done>> /\ Consume /\ pc = "header"
  BY DEF Typed, TypeOK, ReadHeader, IInv, DoneIsAtEnd, PeekedIsLast, source
<1>2. ASSUME NEW e \in Errors, HeaderError(e) PROVE FALSE
  BY <1>1, <1>2, Disturbed DEF Fails
<1>3. \/ /\ EndsHeader(line) /\ line # EOFLine
         /\ pending' = line /\ UNCHANGED <<prodid, stack>>
         /\ (Return("header") /\ UNCHANGED history) \/ Continue("top")
      \/ /\ line \notin {EOFLine, Bad} /\ ~EndsHeader(line)
         /\ line[1] = "VERSION" => line = Version(SupportedVersion)
         /\ prodid' = HeaderProdID(line) /\ Continue("header") /\ UNCHANGED <<pending, stack>>
  <2>1. {"ErrUnclosedBlock", "ErrMalformed", "ErrUnsupportedVersion"} \subseteq Errors
    BY DEF Errors
  <2> QED BY <1>0, <1>2, <2>1, HeaderCases
<1>4. UNCHANGED <<yielded, failure, swallowed, stack>>
  BY <1>3 DEF Continue, history
<1>5. InTime /\ pos # 0 /\ yielded = << >>
  <2>1. Undisturbed
    BY <1>4 DEF Undisturbed
  <2> QED BY <1>1, <2>1 DEF LInv, InTime
<1>6. pos \in Nat /\ line \in Lines /\ pos' = pos + 1 /\ line = TopLine /\ TopLine # EOFLine
  <2>1. AtLine /\ pos \in Nat /\ line # EOFLine
    BY <1>3 DEF IInv, AtLine
  <2> QED BY <1>0, <1>1, <2>1, NextLineCases DEF Consume, TopLine
<1>7. CASE EndsHeader(line) /\ pending' = line /\ UNCHANGED <<prodid, stack>> /\ pc' \in {"idle", "top"}
  <2>1. pending' # NoLine
    BY <1>6, <1>7, LineKinds DEF EndsHeader, IsBoundary
  <2>2. Taken' = Taken
    BY <1>1, <1>6, <2>1 DEF Taken
  <2>3. ParseRun(Taken)' = ParseRun(Taken)
    BY <2>2 DEF ParseRun
  <2>4. Locked'
    BY <1>1, <1>4, <1>5, <1>7, <2>3 DEF InTime, Locked
  <2>5. pos' # 0 /\ headerRead' /\ pc' # "first" /\ pc' # "header"
    BY <1>1, <1>6, <1>7
  <2> QED BY <2>1, <2>4, <2>5 DEF InTime
<1>8. CASE /\ line \notin {EOFLine, Bad} /\ ~EndsHeader(line)
           /\ line[1] = "VERSION" => line = Version(SupportedVersion)
           /\ prodid' = HeaderProdID(line) /\ Continue("header") /\ UNCHANGED <<pending, stack>>
  <2>1. PICK ps : /\ IsList(ps) /\ ParseRun(Taken) = Open(<<Root(ps, yielded)>>)
                  /\ RootProdID(Root(ps, yielded)) = prodid /\ VersionsOK(Root(ps, yielded))
    BY <1>1, <1>5, AtCalendar
  <2>2. line \in PropLines
    BY <1>6, <1>8, LineKinds DEF EndsHeader, IsBoundary
  <2>3. pending' = NoLine
    BY <1>1, <1>8
  <2>4. ParseRun(Taken)' = ParseStep(ParseRun(Taken), line)
    BY <1>1, <1>6, <2>3, LineTaken
  <2>5. ParseStep(Open(<<Root(ps, yielded)>>), line) = Open(<<Root(Append(ps, line), yielded)>>)
    <3>1. ParseStep(Open(Append(<< >>, Root(ps, yielded))), line)
            = Open(Append(<< >>, AddProp(Root(ps, yielded), line)))
      BY <2>2, EmptyList, StepProp
    <3>2. AddProp(Root(ps, yielded), line) = Root(Append(ps, line), yielded)
      BY AddPropElement DEF Root
    <3> QED BY <3>1, <3>2, RootOnly, EmptyList
  <2>6. /\ RootProdID(Root(Append(ps, line), yielded)) = prodid'
        /\ VersionsOK(Root(Append(ps, line), yielded))
    BY <1>8, <2>1, RootGains DEF HeaderProdID
  <2>7. ParseRun(Taken)' = [phase |-> IF done' THEN "done" ELSE "block",
                            stack |-> <<Root(Append(ps, line), yielded')>> \o stack']
    BY <1>1, <1>4, <2>1, <2>4, <2>5, RootOnly, EmptyList DEF Open
  <2>8. Locked'
    BY <1>4, <2>1, <2>6, <2>7, ListAppend DEF Locked
  <2> QED BY <1>1, <1>4, <1>5, <1>6, <1>8, <2>3, <2>8 DEF InTime, Continue
<1> QED BY <1>3, <1>7, <1>8 DEF Continue, Return

LEMMA RootSame ==
    ASSUME NEW ps, NEW cs, NEW ds
    PROVE  RootProdID(Root(ps, cs)) = RootProdID(Root(ps, ds)) /\ (VersionsOK(Root(ps, cs)) <=> VersionsOK(Root(ps, ds)))
<1>1. Root(ps, cs).props = ps /\ Root(ps, ds).props = ps
  BY DEF Root, Element
<1> QED BY <1>1 DEF RootProdID, VersionsOK, Positions

LEMMA ReadTopLocked ==
    ASSUME Typed, IInv, LInv, ReadTop PROVE LInv'
<1> SUFFICES ASSUME Undisturbed' PROVE InTime'
  BY DEF LInv
<1>0. PICK line : line = TopLine
  OBVIOUS
<1>1. /\ stack = << >> /\ ~done /\ headerRead /\ pending' = NoLine /\ pc = "top"
      /\ UNCHANGED <<input, headerRead, prodid>> /\ done' = (done \/ line = End(Calendar))
      /\ IF pending # NoLine THEN UNCHANGED pos ELSE Consume
  BY <1>0 DEF Typed, TypeOK, ReadTop, IInv, DoneIsAtEnd, source, TopLine
<1>2. ASSUME NEW e \in Errors, ReturnError(e) PROVE FALSE
  BY <1>1, <1>2, Disturbed DEF Fails
<1>3. \/ line = End(Calendar) /\ ReturnEOF
      \/ line[1] = "BEGIN" /\ Continue("block") /\ stack' = <<Block(line[2])>>
  <2>1. {"ErrUnclosedBlock", "ErrMalformed"} \subseteq Errors
    BY DEF Errors
  <2> QED BY <1>0, <1>2, <2>1, TopCases
<1>4. UNCHANGED <<yielded, failure, swallowed>> /\ line # EOFLine
  BY <1>3, LineKinds DEF Continue, ReturnEOF, history
<1>5. InTime /\ pos # 0
  <2>1. Undisturbed
    BY <1>4 DEF Undisturbed
  <2> QED BY <1>1, <2>1 DEF LInv, InTime
<1>6. PICK ps : /\ IsList(ps) /\ ParseRun(Taken) = Open(<<Root(ps, yielded)>>)
                /\ RootProdID(Root(ps, yielded)) = prodid /\ VersionsOK(Root(ps, yielded))
  BY <1>1, <1>5, AtCalendar
<1>7. ParseRun(Taken)' = ParseStep(Open(<<Root(ps, yielded)>>), line) /\ pos' # 0 /\ line \in Lines
  BY <1>0, <1>1, <1>4, <1>6, LineTaken
<1>8. CASE line = End(Calendar) /\ ReturnEOF
  <2>1. stack' = << >> /\ done' = TRUE /\ pc' = "idle"
    BY <1>1, <1>8 DEF ReturnEOF, Return
  <2>2. Root(ps, yielded).type = Calendar
    BY DEF Root, Element
  <2>3. ParseStep(Open(<<Root(ps, yielded)>>), line) = [phase |-> "done", stack |-> <<Root(ps, yielded)>>]
    BY <1>8, <2>2, StepEndRoot
  <2>4. <<Root(ps, yielded)>> \o << >> = <<Root(ps, yielded)>>
    BY RootOnly, EmptyList
  <2>5. ParseRun(Taken)' = [phase |-> IF done' THEN "done" ELSE "block",
                            stack |-> <<Root(ps, yielded')>> \o stack']
    BY <1>4, <1>7, <2>1, <2>3, <2>4
  <2>6. Locked'
    BY <1>1, <1>4, <1>6, <2>5 DEF Locked
  <2> QED BY <1>1, <1>7, <2>1, <2>6 DEF InTime
<1>9. CASE line[1] = "BEGIN" /\ Continue("block") /\ stack' = <<Block(line[2])>>
  <2>1. line = Begin(line[2]) /\ done' = FALSE /\ pc' = "block"
    BY <1>1, <1>7, <1>9, LineKinds DEF Continue, IInv
  <2>2. ParseStep(Open(<<Root(ps, yielded)>>), line) = Open(Append(<<Root(ps, yielded)>>, Block(line[2])))
    BY <2>1, StepBegin
  <2>3. \A a, b : Append(<<a>>, b) = <<a>> \o <<b>>
    OBVIOUS
  <2>4. ParseRun(Taken)' = [phase |-> IF done' THEN "done" ELSE "block",
                            stack |-> <<Root(ps, yielded')>> \o stack']
    BY <1>4, <1>7, <1>9, <2>1, <2>2, <2>3 DEF Open
  <2>5. Locked'
    BY <1>1, <1>4, <1>6, <2>4 DEF Locked
  <2> QED BY <1>1, <1>7, <2>1, <2>5 DEF InTime
<1> QED BY <1>3, <1>8, <1>9

LEMMA ReadBlockLocked ==
    ASSUME Typed, IInv, LInv, ReadBlock PROVE LInv'
<1> SUFFICES ASSUME Undisturbed' PROVE InTime'
  BY DEF LInv
<1>0. PICK line : line = NextLine
  OBVIOUS
<1>1. /\ IsList(stack) /\ stack # << >> /\ ~done /\ headerRead /\ pending = NoLine /\ pc = "block"
      /\ UNCHANGED <<input, headerRead, prodid, done, pending>> /\ Consume /\ AtLine
  BY DEF Typed, TypeOK, ReadBlock, IInv, DoneIsAtEnd, PeekedIsLast, source, fields
<1>2. BlockContinues(line) \/ BlockYields(line)
  <2>1. ~BlockFails(line)
    BY Disturbed DEF BlockFails, Fails
  <2> QED BY <1>0, <1>1, <2>1, BlockInStep
<1>3. UNCHANGED <<failure, swallowed>> /\ line = TopLine /\ line # EOFLine
  BY <1>0, <1>1, <1>2 DEF BlockContinues, BlockYields, Continue, Yield, history, TopLine
<1>4. InTime /\ pos # 0
  <2>1. Undisturbed
    BY <1>3 DEF Undisturbed
  <2> QED BY <1>1, <2>1 DEF LInv, InTime
<1>5. PICK ps : /\ IsList(ps) /\ ParseRun(Taken) = Open(<<Root(ps, yielded)>> \o stack)
                /\ RootProdID(Root(ps, yielded)) = prodid /\ VersionsOK(Root(ps, yielded))
  BY <1>1, <1>4 DEF InTime, Locked, Open
<1>6. ParseRun(Taken)' = ParseStep(Open(<<Root(ps, yielded)>> \o stack), line) /\ pos' # 0
  BY <1>1, <1>3, <1>5, LineTaken
<1>7. CASE BlockContinues(line)
  <2>1. UNCHANGED yielded /\ pc' = "block"
    BY <1>7 DEF BlockContinues, Continue, history
  <2>2. ParseStep(Open(<<Root(ps, yielded)>> \o stack), line) = Open(<<Root(ps, yielded)>> \o stack')
    BY <1>7 DEF BlockContinues
  <2>3. ParseRun(Taken)' = [phase |-> IF done' THEN "done" ELSE "block",
                            stack |-> <<Root(ps, yielded')>> \o stack']
    BY <1>1, <1>6, <2>1, <2>2 DEF Open
  <2>4. Locked'
    BY <1>1, <1>5, <2>1, <2>3 DEF Locked
  <2> QED BY <1>1, <1>6, <2>1, <2>4 DEF InTime
<1>8. CASE BlockYields(line)
  <2>1. PICK b : Yield(b)
                 /\ \A root : ParseStep(Open(<<root>> \o stack), line) = Open(<<AddSub(root, b)>>)
    BY <1>8 DEF BlockYields
  <2>2. pc' = "idle" /\ yielded' = Append(yielded, b) /\ stack' = << >>
    BY <2>1 DEF Yield, Return
  <2>3. AddSub(Root(ps, yielded), b) = Root(ps, Append(yielded, b))
    BY AddSubElement DEF Root
  <2>4. <<Root(ps, yielded')>> \o stack' = <<AddSub(Root(ps, yielded), b)>>
    BY <2>2, <2>3, RootOnly, EmptyList
  <2>5. ParseStep(Open(<<Root(ps, yielded)>> \o stack), line) = Open(<<AddSub(Root(ps, yielded), b)>>)
    BY <2>1
  <2>6. ParseRun(Taken)' = [phase |-> IF done' THEN "done" ELSE "block",
                            stack |-> <<Root(ps, yielded')>> \o stack']
    BY <1>1, <1>6, <2>4, <2>5 DEF Open
  <2>7. RootProdID(Root(ps, yielded')) = prodid' /\ VersionsOK(Root(ps, yielded'))
    BY <1>1, <1>5, RootSame
  <2>8. Locked'
    BY <1>5, <2>6, <2>7 DEF Locked
  <2>9. yielded' # << >>
    <3>1. yielded' = Append(yielded, b)
      BY <2>2
    <3> QED BY <3>1, ListAppend DEF Typed
  <2> QED BY <1>1, <1>6, <2>2, <2>8, <2>9 DEF InTime
<1> QED BY <1>2, <1>7, <1>8

LEMMA CallLocked ==
    ASSUME Typed, IInv, LInv, CallHeader \/ CallNext PROVE LInv'
<1> SUFFICES ASSUME Undisturbed' PROVE InTime'
  BY DEF LInv
<1>1. /\ UNCHANGED <<input, pos, prodid, pending, done, stack, yielded, failure, swallowed>>
      /\ pc = "idle"
  BY DEF CallHeader, CallNext, Call, source, history
<1>2. InTime
  BY <1>1 DEF Undisturbed, LInv
<1>3. CASE pos = 0
  <2>1. ~headerRead /\ ~done
    BY <1>1, <1>2, <1>3 DEF InTime
  <2>2. headerRead' /\ pc' = "first"
    BY <2>1 DEF CallHeader, CallNext
  <2> QED BY <1>1, <1>2, <1>3, <2>2 DEF InTime
<1>4. CASE pos # 0
  <2>1. headerRead /\ Locked /\ (~done /\ pending = NoLine => yielded # << >>)
    BY <1>1, <1>2, <1>4 DEF InTime
  <2>2. headerRead' /\ pc' \in {"idle", "top"}
    BY <1>1, <2>1 DEF CallHeader, CallNext
  <2>3. Locked'
    <3>1. Taken' = Taken
      BY <1>1 DEF Taken
    <3> QED BY <1>1, <2>1, <3>1 DEF Locked
  <2> QED BY <1>1, <1>4, <2>1, <2>2, <2>3 DEF InTime
<1> QED BY <1>3, <1>4

LEMMA ReadFailsLocked ==
    ASSUME Typed, IInv, LInv, ReadFails PROVE LInv'
BY ReadFailsTyped, Disturbed DEF LInv

LEMMA StutterLocked ==
    ASSUME LInv, UNCHANGED vars PROVE LInv'
<1>1. UNCHANGED <<input, pos, headerRead, prodid, pending, done, pc, stack, yielded, failure, swallowed>>
  BY DEF vars, source, parserVars, fields, history
<1>2. Taken' = Taken
  BY <1>1 DEF Taken
<1>3. Locked => Locked'
  BY <1>1, <1>2 DEF Locked
<1>4. InTime => InTime'
  BY <1>1, <1>3 DEF InTime
<1> QED BY <1>1, <1>4 DEF LInv, Undisturbed

-----------------------------------------------------------------------------
(* What the pull parser refuses.                                           *)

\* A list in two parts.
LEMMA Split ==
    ASSUME NEW S, NEW s \in Seq(S), NEW n \in 0 .. Len(s)
    PROVE  s = SubSeq(s, 1, n) \o SubSeq(s, n + 1, Len(s))
<1> DEFINE a == SubSeq(s, 1, n)
           b == SubSeq(s, n + 1, Len(s))
           c == a \o b
<1>1. a \in Seq(S) /\ Len(a) = n /\ \A j \in 1 .. n : a[j] = s[j]
  OBVIOUS
<1>2. b \in Seq(S) /\ Len(b) = Len(s) - n /\ \A j \in 1 .. Len(s) - n : b[j] = s[n + j]
  OBVIOUS
<1> HIDE DEF a, b
<1>3. /\ c \in Seq(S) /\ Len(c) = Len(a) + Len(b)
      /\ \A j \in 1 .. Len(a) + Len(b) : c[j] = IF j <= Len(a) THEN a[j] ELSE b[j - Len(a)]
  BY <1>1, <1>2, ConcatProperties
<1> HIDE DEF c
<1>4. Len(s) \in Nat /\ n \in Nat /\ n <= Len(s) /\ Len(c) = Len(s)
  BY <1>1, <1>2, <1>3
<1>5. ASSUME NEW j \in 1 .. Len(s) PROVE s[j] = c[j]
  <2>1. j \in 1 .. Len(a) + Len(b) /\ j \in Nat
    BY <1>1, <1>2, <1>4
  <2>2. CASE j <= n
    BY <1>1, <1>3, <1>4, <2>1, <2>2
  <2>3. CASE ~(j <= n)
    <3>1. j - n \in 1 .. Len(s) - n /\ n + (j - n) = j
      BY <1>4, <2>1, <2>3
    <3>2. c[j] = b[j - n]
      BY <1>1, <1>3, <2>1, <2>3
    <3> QED BY <1>2, <3>1, <3>2
  <2> QED BY <2>2, <2>3
<1>6. s = c
  BY <1>3, <1>4, <1>5, SeqEqual
<1> QED BY <1>6 DEF a, b, c

\* What some of the lines have made the parse, and what the whole document makes of it.
LEMMA StateOfPart ==
    ASSUME AtLine, NEW n \in Nat, n <= Len(input)
    PROVE  LET st == ParseRun(SubSeq(input, 1, n))
               whole == ParseRun(input)
           IN  /\ IsState(st) /\ IsState(whole) /\ Grown(whole, st)
               /\ st.phase \in {"done", "error"} => whole = st
<1> DEFINE taken == SubSeq(input, 1, n)
           rest  == SubSeq(input, n + 1, Len(input))
<1>0. Len(input) \in Nat /\ n + 1 \in Nat \ {0} /\ IsList(input)
  BY DEF AtLine, IsList
<1>1. taken \in Seq(Lines) /\ rest \in Seq(Lines)
  BY <1>0, PartOfInput
<1>2. input = taken \o rest
  <2>1. input \in Seq(Lines) /\ n \in 0 .. Len(input)
    BY <1>0 DEF AtLine
  <2> QED BY <2>1, Split
<1> HIDE DEF taken, rest
<1>3. ParseRun(input) = Run(ParseRun(taken), rest)
  BY <1>1, <1>2, RunConcat, ParseRunIsRun DEF IsList
<1>4. IsState(ParseRun(taken))
  BY <1>1, StartIsState, RunGrows, ParseRunIsRun
<1> QED BY <1>1, <1>3, <1>4, RunGrows DEF taken

\* A parse that fails on some of the lines refuses the document; so does one that meets
\* an unsupported VERSION, or has not come to an end behind the last line.
LEMMA Refused ==
    ASSUME AtLine, NEW n \in Nat, n <= Len(input), NEW st, st = ParseRun(SubSeq(input, 1, n)),
           \/ st.phase = "error"
           \/ st.stack # << >> /\ ~VersionsOK(st.stack[1])
           \/ n = Len(input) /\ st.phase # "done"
    PROVE  ~Accepts(input)
<1>1. /\ IsState(st) /\ IsState(ParseRun(input)) /\ Grown(ParseRun(input), st)
      /\ st.phase \in {"done", "error"} => ParseRun(input) = st
  BY StateOfPart
<1>2. CASE st.phase = "error"
  BY <1>1, <1>2 DEF Accepts
<1>3. CASE st.stack # << >> /\ ~VersionsOK(st.stack[1])
  <2> DEFINE whole == ParseRun(input)
  <2>1. /\ whole.stack # << >> /\ Extends(whole.stack[1].props, st.stack[1].props)
    BY <1>1, <1>3 DEF Grown
  <2>2. IsBlock(st.stack[1]) /\ IsBlock(whole.stack[1])
    <3>1. ASSUME NEW u, IsState(u), u.stack # << >> PROVE IsBlock(u.stack[1])
      <4>1. Len(u.stack) >= 1 /\ Len(u.stack) \in Nat
        BY <3>1, FirstOfAppend, ListType DEF IsState
      <4> QED BY <3>1, <4>1 DEF IsState
    <3> QED BY <1>1, <1>3, <2>1, <3>1
  <2>3. ~VersionsOK(whole.stack[1])
    BY <1>3, <2>1, <2>2, BadVersionStays
  <2> QED BY <2>3 DEF Accepts
<1>4. CASE n = Len(input) /\ st.phase # "done"
  <2>1. SubSeq(input, 1, n) = input
    BY <1>4 DEF AtLine
  <2> QED BY <1>4, <2>1 DEF Accepts
<1> QED BY <1>2, <1>3, <1>4

\* The input ends where the header, Next or a block still wants a line.
LEMMA EndsTooEarly ==
    ASSUME Typed, IInv, InTime, ~done, TopLine = EOFLine
    PROVE  ~Accepts(input)
<1>1. pending = NoLine /\ NextLine = EOFLine
  BY LineKinds DEF Typed, TypeOK, TopLine, IsBoundary
<1>2. AtLine /\ pos = Len(input) /\ pos \in Nat
  BY <1>1, NextLineCases DEF IInv, AtLine
<1>3. Taken = SubSeq(input, 1, pos)
  BY <1>1 DEF Taken
<1>4. ParseRun(Taken).phase # "done"
  <2>1. CASE pos = 0
    <3>1. Taken = << >>
      BY <1>2, <1>3, <2>1 DEF AtLine
    <3>2. ParseRun(<< >>) = ParseStart
      BY RunEmpty, ParseRunIsRun
    <3>3. ParseStart.phase # "done"
      BY DEF ParseStart
    <3> QED BY <3>1, <3>2, <3>3
  <2>2. CASE pos # 0
    <3>1. PICK ps : ParseRun(Taken) = [phase |-> IF done THEN "done" ELSE "block",
                                       stack |-> <<Root(ps, yielded)>> \o stack]
      BY <2>2 DEF InTime, Locked
    <3> QED BY <3>1
  <2> QED BY <2>1, <2>2
<1> QED BY <1>2, <1>3, <1>4, Refused

\* The next state of the batch parser refuses.
LEMMA RefusedNow ==
    ASSUME IInv, IInv', UNCHANGED input, pending' = NoLine, NEW st, ParseRun(Taken)' = st,
           st.phase = "error" \/ (st.stack # << >> /\ ~VersionsOK(st.stack[1]))
    PROVE  ~Accepts(input)
<1>1. AtLine /\ pos' \in Nat /\ pos' <= Len(input)
  BY DEF IInv, AtLine
<1>2. Taken' = SubSeq(input, 1, pos')
  BY DEF Taken
<1>3. ParseRun(Taken)' = ParseRun(Taken')
  BY DEF ParseRun
<1> QED BY <1>1, <1>2, <1>3, Refused

Failed == failure.error # NoError /\ swallowed = NoError

Rejects == Failed => RejectsLikeBatch

LEMMA ReadFirstRejects ==
    ASSUME Typed, IInv, InTime, ReadFirst, Failed' PROVE RejectsLikeBatch' \/ failure.error # NoError
<1> SUFFICES ASSUME failure.error = NoError PROVE RejectsLikeBatch'
  OBVIOUS
<1>0. /\ pos = 0 /\ pending = NoLine /\ Consume /\ UNCHANGED <<input, pending>> /\ ~done
      /\ TopLine = NextLine
  BY DEF InTime, ReadFirst, source, fields, TopLine
<1>1. ~Accepts(input)
  <2>1. CASE NextLine = EOFLine
    BY <1>0, <2>1, EndsTooEarly
  <2>2. CASE NextLine = Begin(Calendar)
    BY <2>2 DEF ReadFirst, Continue, history, Failed
  <2>3. CASE NextLine # EOFLine /\ NextLine # Begin(Calendar)
    <3>1. ParseRun(Taken)' = ParseStep(ParseStart, NextLine)
      BY <1>0, <2>3, LineTaken
    <3>2. ParseStep(ParseStart, NextLine).phase = "error"
      BY <2>3 DEF ParseStep, ParseStart, ParseError
    <3> QED BY <1>0, <3>1, <3>2, RefusedNow, ReadFirstKeeps
  <2> QED BY <2>1, <2>2, <2>3
<1> QED BY <1>0, <1>1 DEF RejectsLikeBatch

LEMMA ReadHeaderRejects ==
    ASSUME Typed, IInv, InTime, ReadHeader, Failed' PROVE RejectsLikeBatch' \/ failure.error # NoError
<1> SUFFICES ASSUME failure.error = NoError PROVE RejectsLikeBatch'
  OBVIOUS
<1>0. PICK line : line = NextLine
  OBVIOUS
<1>1. /\ stack = << >> /\ ~done /\ pending = NoLine /\ pos # 0
      /\ UNCHANGED input /\ Consume /\ TopLine = line
  BY <1>0 DEF Typed, TypeOK, ReadHeader, IInv, DoneIsAtEnd, PeekedIsLast, source, InTime, TopLine
<1>2. PICK ps : /\ IsList(ps) /\ ParseRun(Taken) = Open(<<Root(ps, yielded)>>)
                /\ RootProdID(Root(ps, yielded)) = prodid /\ VersionsOK(Root(ps, yielded))
  BY <1>1, AtCalendar
<1>3. ~Accepts(input)
  <2>1. CASE line = EOFLine
    BY <1>1, <2>1, EndsTooEarly
  <2>2. CASE line = Bad /\ UNCHANGED pending
    <3>0. pending' = NoLine /\ line # EOFLine /\ line[1] = "BAD"
      BY <1>1, <2>2, LineKinds
    <3>1. ParseRun(Taken)' = ParseStep(Open(<<Root(ps, yielded)>>), line)
      BY <1>1, <1>2, <3>0, LineTaken
    <3> DEFINE blocks == <<Root(ps, yielded)>>
    <3> HIDE DEF blocks
    <3>2. ParseStep(Open(blocks), line).phase = "error"
      BY <3>0 DEF ParseStep, ParseBlockStep, ParseError, Open
    <3> QED BY <1>1, <3>0, <3>1, <3>2, RefusedNow, ReadHeaderKeeps DEF blocks
  <2>3. CASE line[1] = "VERSION" /\ line # Version(SupportedVersion) /\ UNCHANGED pending
    <3>0. pending' = NoLine /\ line # EOFLine /\ line # Bad
      BY <1>1, <2>3, LineKinds
    <3>1. ParseRun(Taken)' = ParseStep(Open(<<Root(ps, yielded)>>), line) /\ line \in Lines
      BY <1>1, <1>2, <3>0, LineTaken
    <3>2. line \in PropLines
      BY <2>3, <3>0, <3>1, LineKinds
    <3>3. ParseStep(Open(<<Root(ps, yielded)>>), line) = Open(<<Root(Append(ps, line), yielded)>>)
      <4>1. ParseStep(Open(Append(<< >>, Root(ps, yielded))), line)
              = Open(Append(<< >>, AddProp(Root(ps, yielded), line)))
        BY <3>2, EmptyList, StepProp
      <4>2. AddProp(Root(ps, yielded), line) = Root(Append(ps, line), yielded)
        BY AddPropElement DEF Root
      <4> QED BY <4>1, <4>2, RootOnly, EmptyList
    <3>4. ~VersionsOK(Root(Append(ps, line), yielded))
      BY <1>2, <2>3, RootGains
    <3> DEFINE root == Root(Append(ps, line), yielded)
    <3> HIDE DEF root
    <3>5. Open(<<root>>).stack # << >> /\ Open(<<root>>).stack[1] = root
      BY RootOnly, EmptyList DEF Open
    <3> QED BY <1>1, <3>0, <3>1, <3>3, <3>4, <3>5, RefusedNow, ReadHeaderKeeps DEF root
  <2>4. CASE UNCHANGED history
    BY <2>4 DEF history, Failed
  <2> QED BY <1>0, <2>1, <2>2, <2>3, <2>4, HeaderCases DEF Continue
<1> QED BY <1>1, <1>3 DEF RejectsLikeBatch

LEMMA ReadTopRejects ==
    ASSUME Typed, IInv, InTime, ReadTop, Failed' PROVE RejectsLikeBatch' \/ failure.error # NoError
<1> SUFFICES ASSUME failure.error = NoError PROVE RejectsLikeBatch'
  OBVIOUS
<1>0. PICK line : line = TopLine
  OBVIOUS
<1>1. /\ stack = << >> /\ ~done /\ pos # 0 /\ pending' = NoLine /\ pc = "top"
      /\ UNCHANGED input /\ IF pending # NoLine THEN UNCHANGED pos ELSE Consume
  BY DEF Typed, TypeOK, ReadTop, IInv, DoneIsAtEnd, source, InTime
<1>2. PICK ps : /\ IsList(ps) /\ ParseRun(Taken) = Open(<<Root(ps, yielded)>>)
                /\ RootProdID(Root(ps, yielded)) = prodid /\ VersionsOK(Root(ps, yielded))
  BY <1>1, AtCalendar
<1>3. CASE line = EOFLine
  <2>1. ~Accepts(input)
    BY <1>0, <1>1, <1>3, EndsTooEarly
  <2> QED BY <1>1, <2>1 DEF RejectsLikeBatch
<1>4. CASE line \notin {EOFLine, End(Calendar)} /\ line[1] # "BEGIN" /\ ReturnError("ErrMalformed")
  <2>1. /\ ParseRun(Taken)' = ParseStep(Open(<<Root(ps, yielded)>>), line) /\ line \in Lines
        /\ pending = NoLine => pos' = pos + 1
    BY <1>0, <1>1, <1>2, <1>4, LineTaken
  <2>2. CASE line = Bad \/ line[1] = "END"
    <3> DEFINE root == Root(ps, yielded)
               next == ParseStep(Open(Append(<< >>, root)), line)
    <3>1. root.type = Calendar
      BY DEF Root, Element
    <3> HIDE DEF root
    <3>2. line # End(root.type) /\ line # Begin(line[2]) /\ line \notin PropLines
      BY <1>4, <2>2, <3>1, LineKinds
    <3>3. next.phase = "error"
      <4> HIDE DEF next
      <4>1. next = ParseStep(Open(Append(<< >>, root)), line) /\ line \in Lines /\ IsList(<< >>)
        BY <2>1, EmptyList DEF next
      <4>2. next = [phase |-> "error", stack |-> Append(<< >>, root)]
        BY <3>2, <4>1, StepCases
      <4> QED BY <4>2
    <3>4. Append(<< >>, root) = <<root>>
      BY RootOnly, EmptyList
    <3>5. ~Accepts(input)
      BY <1>1, <2>1, <3>3, <3>4, RefusedNow, ReadTopKeeps DEF root
    <3> QED BY <1>1, <3>5 DEF RejectsLikeBatch
  <2>3. CASE line \in PropLines
    <3>1. line[1] \notin {"BEGIN", "END"} /\ line # Bad
      BY <2>3, LineKinds
    <3>2. pending = NoLine /\ line = NextLine
      BY <1>0, <3>1 DEF Typed, TypeOK, IsBoundary, TopLine
    <3>3. pos \in Nat /\ pos' = pos + 1 /\ input[pos + 1] = line
      <4>1. AtLine /\ pos \in Nat
        BY DEF IInv, AtLine
      <4> QED BY <1>4, <2>1, <3>2, <4>1, NextLineCases
    <3>4. failure'.at = pos + 1
      BY <1>4, <3>3 DEF ReturnError
    <3>5. Taken = SubSeq(input, 1, pos)
      BY <3>2 DEF Taken
    <3>6. yielded # << >>
      BY <1>1, <3>2 DEF InTime
    <3> DEFINE root == Root(ps, yielded)
               at == failure'.at
    <3>7. root.sub = yielded
      BY DEF Root, Element
    <3> HIDE DEF root
    <3>8. /\ Open(<<root>>).phase = "block" /\ Len(Open(<<root>>).stack) = 1
          /\ Open(<<root>>).stack[1].sub # << >>
      <4>1. <<root>>[1] = root /\ Len(<<root>>) = 1
        OBVIOUS
      <4> QED BY <3>6, <3>7, <4>1 DEF Open
    <3>9. at > 0 /\ at - 1 = pos /\ input[at] = line
      BY <3>3, <3>4
    <3>10. /\ ParseRun(SubSeq(input, 1, at - 1)).phase = "block"
           /\ Len(ParseRun(SubSeq(input, 1, at - 1)).stack) = 1
           /\ ParseRun(SubSeq(input, 1, at - 1)).stack[1].sub # << >>
      <4> HIDE DEF at
      <4> QED BY <1>2, <3>5, <3>8, <3>9 DEF root
    <3>11. ~IsBoundary(input[at]) /\ input[at] # Bad
      <4> HIDE DEF at
      <4> QED BY <3>1, <3>9 DEF IsBoundary
    <3>12. failure'.at = at /\ input' = input
      BY <1>1
    <3> HIDE DEF at
    <3> QED BY <3>9, <3>10, <3>11, <3>12 DEF RejectsLikeBatch
  <2> QED BY <1>4, <2>1, <2>2, <2>3, LineKinds
<1>5. CASE UNCHANGED failure
  BY <1>5 DEF Failed
<1> QED BY <1>0, <1>3, <1>4, <1>5, TopCases DEF Continue, ReturnEOF, history

LEMMA ReadBlockRejects ==
    ASSUME Typed, IInv, InTime, ReadBlock, Failed' PROVE RejectsLikeBatch' \/ failure.error # NoError
<1> SUFFICES ASSUME failure.error = NoError PROVE RejectsLikeBatch'
  OBVIOUS
<1>0. PICK line : line = NextLine
  OBVIOUS
<1>1. /\ IsList(stack) /\ stack # << >> /\ ~done /\ pending = NoLine /\ pos # 0
      /\ UNCHANGED <<input, pending>> /\ Consume /\ AtLine /\ TopLine = line
  BY <1>0 DEF Typed, TypeOK, ReadBlock, IInv, DoneIsAtEnd, PeekedIsLast, source, fields, InTime, TopLine
<1>2. BlockFails(line)
  <2>1. ~BlockContinues(line) /\ ~BlockYields(line)
    BY DEF BlockContinues, BlockYields, Continue, Yield, history, Failed
  <2> QED BY <1>0, <1>1, <2>1, BlockInStep
<1>3. PICK ps : ParseRun(Taken) = Open(<<Root(ps, yielded)>> \o stack)
  BY <1>1 DEF InTime, Locked, Open
<1>4. ~Accepts(input)
  <2>1. CASE line = EOFLine
    BY <1>1, <2>1, EndsTooEarly
  <2>2. CASE line # EOFLine
    <3>1. ParseRun(Taken)' = ParseStep(Open(<<Root(ps, yielded)>> \o stack), line)
      BY <1>1, <1>3, <2>2, LineTaken
    <3>2. ParseStep(Open(<<Root(ps, yielded)>> \o stack), line).phase = "error"
      BY <1>2, <2>2 DEF BlockFails
    <3>3. pending' = NoLine
      BY <1>1
    <3> QED BY <1>1, <3>1, <3>2, <3>3, RefusedNow, ReadBlockKeeps
  <2> QED BY <2>1, <2>2
<1> QED BY <1>1, <1>4 DEF RejectsLikeBatch

-----------------------------------------------------------------------------
\* The first error of Next stands for a document that the batch parser refuses, unless
\* the reader failed or Header has dropped an error before.
RInv == readErrors \in Nat /\ (Failed /\ readErrors = 0 => RejectsLikeBatch)

LockStepInv == Typed /\ IInv /\ LInv /\ RInv

\* History only grows: the first failure stays, and a dropped error is remembered.
LEMMA FailureStays ==
    ASSUME Typed, pos \in Nat, pos' \in Nat, pos <= pos', Fails \/ Ends \/ GoesOn
    PROVE  /\ failure.error # NoError => failure' = failure
           /\ swallowed' = NoError => swallowed = NoError
<1>1. CASE Fails
  BY <1>1, FailsTyped
<1>2. CASE Ends \/ GoesOn
  BY <1>2 DEF Ends, GoesOn, Continue, history
<1> QED BY <1>1, <1>2

LEMMA RejectedStays ==
    ASSUME RInv, UNCHANGED <<input, failure, readErrors>>, swallowed' = NoError => swallowed = NoError
    PROVE  RInv'
BY DEF RInv, Failed, RejectsLikeBatch

LEMMA ReadRejects == ASSUME LockStepInv, Read PROVE RInv'
<1>0. Typed /\ IInv /\ LInv /\ RInv /\ UNCHANGED <<input, readErrors>>
  BY DEF LockStepInv, Read, ReadFirst, ReadHeader, ReadTop, ReadBlock, source, damage
<1>1. Fails \/ Ends \/ GoesOn
  BY <1>0, ReadFirstTyped, ReadHeaderTyped, ReadTopTyped, ReadBlockTyped DEF Read
<1>2. pos \in Nat /\ pos' \in Nat /\ pos <= pos'
  <2>1. AtLine /\ AtLine' /\ pos \in Nat /\ pos' \in Nat
    BY <1>0, ReadFirstKeeps, ReadHeaderKeeps, ReadTopKeeps, ReadBlockKeeps DEF Read, IInv, AtLine
  <2>2. UNCHANGED pos \/ Consume
    BY DEF Read, ReadFirst, ReadHeader, ReadTop, ReadBlock
  <2> QED BY <1>0, <2>1, <2>2, Forward
<1>3. /\ failure.error # NoError => failure' = failure
      /\ swallowed' = NoError => swallowed = NoError
  BY <1>0, <1>1, <1>2, FailureStays
<1>4. CASE failure.error # NoError
  BY <1>0, <1>3, <1>4, RejectedStays
<1>5. CASE failure.error = NoError
  <2>1. CASE ~Failed'
    BY <1>0, <2>1 DEF RInv
  <2>2. CASE Failed'
    <3>1. InTime
      BY <1>0, <1>3, <1>5, <2>2 DEF LInv, Undisturbed, Failed
    <3>2. RejectsLikeBatch'
      BY <1>0, <1>5, <2>2, <3>1, ReadFirstRejects, ReadHeaderRejects, ReadTopRejects, ReadBlockRejects
      DEF Read
    <3> QED BY <1>0, <3>2 DEF RInv
  <2> QED BY <2>1, <2>2
<1> QED BY <1>4, <1>5

LEMMA LockStepKept == LockStepInv /\ [Next]_vars => LockStepInv'
<1> SUFFICES ASSUME LockStepInv, [Next]_vars PROVE LockStepInv'
  OBVIOUS
<1>0. Typed /\ IInv /\ LInv /\ RInv
  BY DEF LockStepInv
<1>1. Typed' /\ IInv'
  BY <1>0, TypedStep, IInvKept
<1>2. LInv'
  BY <1>0, StutterLocked, CallLocked, ReadFirstLocked, ReadHeaderLocked, ReadTopLocked,
     ReadBlockLocked, ReadFailsLocked DEF Next, Step, Read
<1>3. RInv'
  <2>1. CASE UNCHANGED vars
    <3>1. UNCHANGED <<input, failure, readErrors, swallowed>>
      BY <2>1 DEF vars, source, parserVars, history, damage
    <3> QED BY <1>0, <3>1, RejectedStays
  <2>2. CASE CallHeader \/ CallNext
    <3>1. UNCHANGED <<input, failure, readErrors, swallowed>>
      BY <2>2 DEF CallHeader, CallNext, Call, source, history, damage
    <3> QED BY <1>0, <3>1, RejectedStays
  <2>3. CASE Read
    BY <2>3, ReadRejects
  <2>4. CASE ReadFails
    <3>1. readErrors' = readErrors + 1 /\ readErrors \in Nat
      BY <1>0, <2>4 DEF ReadFails, RInv
    <3>2. readErrors' \in Nat /\ readErrors' # 0
      BY <3>1
    <3> QED BY <3>2 DEF RInv
  <2> QED BY <2>1, <2>2, <2>3, <2>4 DEF Next, Step
<1> QED BY <1>1, <1>2, <1>3 DEF LockStepInv

LEMMA LockedStarts == ASSUME InitParser PROVE LInv
<1>1. /\ pos = 0 /\ headerRead = FALSE /\ done = FALSE /\ pending = NoLine /\ prodid = ""
      /\ pc = "idle" /\ yielded = << >>
  BY DEF InitParser
<1>2. pc \in {"idle", "first"} /\ (headerRead <=> pc = "first") /\ ~done
  BY <1>1
<1> QED BY <1>1, <1>2 DEF LInv, InTime

LEMMA LockStepInit == Init => LockStepInv
<1> SUFFICES ASSUME Init PROVE LockStepInv
  OBVIOUS
<1>1. InitParser /\ failure.error = NoError /\ readErrors = 0
  BY DEF Init, InitParser
<1>2. RInv
  BY <1>1 DEF RInv, Failed
<1> QED BY <1>1, <1>2, TypedInit, IInvInit, LockedStarts DEF LockStepInv

LEMMA InTimeIsInStep ==
    ASSUME Typed, IInv, InTime PROVE InStep
<1>1. CASE pos = 0
  <2>1. Taken = SubSeq(input, 1, 0)
    BY <1>1 DEF InTime, Taken
  <2>2. SubSeq(input, 1, 0) = << >>
    BY DEF IInv, AtLine
  <2>3. ParseRun(Taken) = ParseStart /\ ParseStart.phase = "first"
    BY <2>1, <2>2, RunEmpty, ParseRunIsRun DEF ParseStart
  <2> QED BY <1>1, <2>3 DEF InStep
<1>2. CASE pos # 0
  <2>1. PICK ps : /\ IsList(ps)
                  /\ ParseRun(Taken) = [phase |-> IF done THEN "done" ELSE "block",
                                        stack |-> <<Root(ps, yielded)>> \o stack]
                  /\ RootProdID(Root(ps, yielded)) = prodid
                  /\ VersionsOK(Root(ps, yielded))
    BY <1>2 DEF InTime, Locked
  <2> DEFINE root == Root(ps, yielded)
             blocks == <<root>> \o stack
  <2>2. IsList(stack)
    BY DEF Typed
  <2>3. root.sub = yielded
    BY DEF Root, Element
  <2> HIDE DEF root
  <2>4. blocks[1] = root /\ Tail(blocks) = stack
    BY <2>2, RootOnly
  <2> HIDE DEF blocks
  <2>5. /\ ParseRun(Taken).phase = IF done THEN "done" ELSE "block"
        /\ ParseRun(Taken).stack = blocks
    BY <2>1 DEF root, blocks
  <2>6. RootProdID(root) = prodid /\ VersionsOK(root)
    BY <2>1 DEF root
  <2> QED BY <1>2, <2>3, <2>4, <2>5, <2>6 DEF InStep
<1> QED BY <1>1, <1>2

\* For documents of any length and nesting and any client: as long as nothing has failed,
\* the pull parser has yielded what the batch parser has collected of the same lines, with
\* the same open blocks and PRODID; and a document that it refuses, the batch parser refuses,
\* but for a property of the calendar behind its first component.
THEOREM PullIsBatch == Spec => []LockStep
<1>1. LockStepInv => LockStep
  <2> SUFFICES ASSUME LockStepInv PROVE LockStep
    OBVIOUS
  <2>1. Typed /\ IInv /\ LInv /\ RInv
    BY DEF LockStepInv
  <2>2. TypeOK
    BY <2>1 DEF Typed
  <2>3. Undisturbed => InStep
    BY <2>1, InTimeIsInStep DEF LInv
  <2> QED BY <2>1, <2>2, <2>3 DEF LockStep, RInv, Failed
<1> QED BY <1>1, LockStepInit, LockStepKept, PTL DEF Spec

-----------------------------------------------------------------------------
(* A component is read from one uninterrupted run of lines.                *)

\* The lines as the only ones of a calendar.
Alone(lines) == ParseRun(<<Begin(Calendar)>> \o lines)

HasOnly(st, b) == /\ st.phase = "block" /\ Len(st.stack) = 1
                  /\ st.stack[1].props = << >> /\ st.stack[1].sub = <<b>>

\* From line n on, in ends as s does.
SameFrom(in, s, n) ==
    \A k \in n .. Len(in) :
        k + Len(s) - Len(in) \in DOMAIN s /\ in[k] = s[k + Len(s) - Len(in)]

\* The lines are those of s, one behind the other.
Within(in, s, from, to) ==
    from <= to =>
        \E at \in DOMAIN s :
            /\ at + (to - from) <= Len(s)
            /\ \A k \in 0 .. (to - from) : in[from + k] = s[at + k]

\* The first lines of the j-th component are not vouched for when a read failed before it.
Skip(j, places) == IF j \in places THEN 2 ELSE 0

\* A component of the first p lines, and open blocks that reach to line p.
FoundIn(in, s, p, b, skip) ==
    \E from, to \in 1 .. p :
        /\ from < to /\ HasOnly(Alone(SubSeq(in, from, to)), b)
        /\ Within(in, s, from + skip, to)
BegunIn(in, s, p, blocks, skip) ==
    \E from \in 1 .. p :
        /\ Alone(SubSeq(in, from, p)) = Open(<<Block(Calendar)>> \o blocks)
        /\ SameFrom(in, s, from + skip)

\* The place in yielded of the component that comes next, and the line from which it may begin.
Place == Len(yielded) + 1
Ready == IF pending # NoLine THEN pos ELSE pos + 1

\* Behind line intact nothing has been lost.
IntactInv == /\ sent \in Seq(Lines) /\ intact \in Nat /\ intact <= pos + 3
             /\ SameFrom(input, sent, intact)
             /\ suspect \subseteq 1 .. Place

BetweenInv == stack = << >> => SameFrom(input, sent, Ready + Skip(Place, suspect))

YInv == /\ \A j \in DOMAIN yielded : FoundIn(input, sent, pos, yielded[j], Skip(j, suspect))
        /\ stack # << >> => BegunIn(input, sent, pos, stack, Skip(Place, suspect))
        /\ IntactInv /\ BetweenInv

LEMMA AloneAppend ==
    ASSUME NEW s, IsList(s), NEW line
    PROVE  Alone(Append(s, line)) = ParseStep(Alone(s), line)
<1>1. <<Begin(Calendar)>> \o Append(s, line) = Append(<<Begin(Calendar)>> \o s, line)
  BY SingleList, ConcatAppend
<1>2. IsList(<<Begin(Calendar)>> \o s)
  BY SingleList, ListConcat
<1>3. Run(ParseStart, Append(<<Begin(Calendar)>> \o s, line))
        = ParseStep(Run(ParseStart, <<Begin(Calendar)>> \o s), line)
  BY <1>2, RunAppend
<1> QED BY <1>1, <1>3, ParseRunIsRun DEF Alone

LEMMA AloneBegins ==
    ASSUME NEW t
    PROVE  Alone(<<Begin(t)>>) = Open(<<Block(Calendar)>> \o <<Block(t)>>)
<1>1. IsList(<< >>) /\ Append(<< >>, Begin(t)) = <<Begin(t)>>
  BY EmptyList
<1>2. Alone(<< >>) = Open(<<Block(Calendar)>>)
  <2>1. <<Begin(Calendar)>> \o << >> = <<Begin(Calendar)>>
    BY SingleList, ListConcat
  <2>2. Run(ParseStart, <<Begin(Calendar)>>) = ParseStep(ParseStart, Begin(Calendar))
    BY RunLine
  <2>3. ParseStep(ParseStart, Begin(Calendar)) = Open(<<Block(Calendar)>>)
    BY DEF ParseStep, ParseStart, Open
  <2> QED BY <2>1, <2>2, <2>3, ParseRunIsRun DEF Alone
<1>3. Alone(Append(<< >>, Begin(t))) = ParseStep(Open(<<Block(Calendar)>>), Begin(t))
  BY <1>1, <1>2, AloneAppend
<1>4. ParseStep(Open(<<Block(Calendar)>>), Begin(t)) = Open(Append(<<Block(Calendar)>>, Block(t)))
  BY StepBegin
<1>5. \A a, b : Append(<<a>>, b) = <<a>> \o <<b>>
  OBVIOUS
<1> QED BY <1>1, <1>3, <1>4, <1>5

\* What lies behind the scanner counts, whatever happens to the lines ahead of it.
LEMMA SamePart ==
    ASSUME NEW in \in Seq(Lines), NEW out \in Seq(Lines), NEW p \in 0 .. Len(in), p <= Len(out),
           \A i \in 1 .. p : out[i] = in[i], NEW from \in 1 .. p, NEW to \in 1 .. p, from < to
    PROVE  SubSeq(out, from, to) = SubSeq(in, from, to)
<1> DEFINE a == SubSeq(out, from, to)
           b == SubSeq(in, from, to)
<1>1. /\ p \in Nat /\ from \in Nat \ {0} /\ to \in Nat /\ to <= Len(in) /\ to <= Len(out) /\ to <= p
      /\ IsList(in) /\ IsList(out) /\ from <= to + 1
  BY DEF IsList
<1>2. IsList(a) /\ Len(a) = to - from + 1 /\ \A i \in 1 .. to - from + 1 : a[i] = out[from + i - 1]
  BY <1>1, ListPart
<1>3. IsList(b) /\ Len(b) = to - from + 1 /\ \A i \in 1 .. to - from + 1 : b[i] = in[from + i - 1]
  BY <1>1, ListPart
<1> HIDE DEF a, b
<1>4. ASSUME NEW i \in 1 .. to - from + 1 PROVE from + i - 1 \in 1 .. p
  BY <1>1
<1>5. \A i \in 1 .. Len(a) : a[i] = b[i]
  BY <1>2, <1>3, <1>4
<1>6. a = b
  BY <1>2, <1>3, <1>5, ListEqual
<1> QED BY <1>6 DEF a, b

LEMMA FoundStays ==
    ASSUME NEW in \in Seq(Lines), NEW out \in Seq(Lines), NEW p \in 0 .. Len(in), NEW q \in 0 .. Len(out),
           p <= q, \A i \in 1 .. p : out[i] = in[i], NEW s, NEW b, NEW skip \in Nat,
           FoundIn(in, s, p, b, skip)
    PROVE  FoundIn(out, s, q, b, skip)
<1>0. p \in Nat /\ q \in Nat /\ Len(out) \in Nat /\ p <= Len(out)
  OBVIOUS
<1>1. PICK from \in 1 .. p, to \in 1 .. p :
         /\ from < to /\ HasOnly(Alone(SubSeq(in, from, to)), b)
         /\ Within(in, s, from + skip, to)
  BY DEF FoundIn
<1>2. SubSeq(out, from, to) = SubSeq(in, from, to)
  BY <1>0, <1>1, SamePart
<1>3. from \in 1 .. q /\ to \in 1 .. q
  BY <1>0
<1>4. Within(out, s, from + skip, to)
  <2>1. \A k \in 0 .. (to - (from + skip)) : from + skip + k \in 1 .. p
    BY <1>0
  <2>2. \A k \in 0 .. (to - (from + skip)) : out[from + skip + k] = in[from + skip + k]
    BY <2>1
  <2> QED BY <1>1, <2>2 DEF Within
<1> QED BY <1>1, <1>2, <1>3, <1>4 DEF FoundIn

LEMMA SameFurther ==
    ASSUME NEW in, NEW s, NEW m \in Nat, NEW n \in Nat, m <= n, SameFrom(in, s, m)
    PROVE  SameFrom(in, s, n)
<1>1. \A k \in n .. Len(in) : k \in m .. Len(in)
  OBVIOUS
<1> QED BY <1>1 DEF SameFrom

LEMMA SameIsWithin ==
    ASSUME NEW in \in Seq(Lines), NEW s \in Seq(Lines), NEW from \in Nat, NEW to \in 1 .. Len(in),
           SameFrom(in, s, from)
    PROVE  Within(in, s, from, to)
<1> SUFFICES ASSUME from <= to PROVE Within(in, s, from, to)
  BY DEF Within
<1>0. Len(in) \in Nat /\ Len(s) \in Nat /\ DOMAIN s = 1 .. Len(s)
  OBVIOUS
<1>1. PICK d \in Int : d = Len(s) - Len(in)
  <2>1. Len(s) - Len(in) \in Int
    BY <1>0
  <2> QED BY <2>1, Zenon
<1>2. \A k \in from .. Len(in) : k + d \in DOMAIN s /\ in[k] = s[k + d]
  <2>1. \A k \in from .. Len(in) : k + Len(s) - Len(in) = k + d
    BY <1>0, <1>1
  <2> QED BY <2>1 DEF SameFrom
<1>3. from + d \in DOMAIN s /\ to + d <= Len(s)
  BY <1>0, <1>2
<1>4. ASSUME NEW k \in 0 .. (to - from) PROVE in[from + k] = s[(from + d) + k]
  <2>1. from + k \in from .. Len(in) /\ (from + k) + d = (from + d) + k
    BY <1>0
  <2> QED BY <1>2, <2>1
<1>5. (from + d) + (to - from) <= Len(s)
  BY <1>0, <1>3
<1> QED BY <1>3, <1>4, <1>5 DEF Within

\* A loss moves the lines further ahead, and they still end as what was sent.
LEMMA LossKeeps ==
    ASSUME AtLine, Lose, IntactInv
    PROVE  intact' \in Nat /\ intact' <= pos + 3 /\ SameFrom(input', sent, intact')
<1>1. PICK m \in 0 .. 2, n \in 1 .. 2 :
         /\ intact <= pos + 2 /\ intact' = pos + m + 1
         /\ Len(input') = Len(input) - n + m /\ pos + n <= Len(input)
         /\ \A j \in pos + m + 1 .. Len(input') : input'[j] = input[j - m + n]
  BY LossIsAhead
<1>2. /\ pos \in Nat /\ Len(input) \in Nat /\ Len(sent) \in Nat /\ intact \in Nat
      /\ SameFrom(input, sent, intact)
  BY DEF AtLine, IntactInv
<1> DEFINE in == input'
           d  == Len(sent) - Len(input)
<1>3. Len(in) = Len(input) - n + m /\ \A j \in pos + m + 1 .. Len(in) : in[j] = input[j - m + n]
  BY <1>1
<1> HIDE DEF in
<1>4. ASSUME NEW k \in pos + m + 1 .. Len(in)
      PROVE  k + Len(sent) - Len(in) \in DOMAIN sent /\ in[k] = sent[k + Len(sent) - Len(in)]
  <2>1. PICK i \in Int : i = k - m + n
    BY <1>2
  <2>2. i \in intact .. Len(input) /\ in[k] = input[i]
    BY <1>1, <1>2, <1>3, <2>1
  <2>3. i + Len(sent) - Len(input) = k + Len(sent) - Len(in)
    BY <1>2, <1>3, <2>1
  <2> QED BY <1>2, <2>2, <2>3 DEF SameFrom
<1> QED BY <1>1, <1>2, <1>4 DEF SameFrom, in

\* Next, before it has a BEGIN or when it has given up.
LEMMA YieldedStays ==
    ASSUME YInv, AtLine, AtLine', pos <= pos', \A i \in 1 .. pos : input'[i] = input[i],
           IsList(yielded), UNCHANGED <<sent, yielded>>, stack' = << >>,
           suspect' \in {suspect, suspect \cup {Place}}, IntactInv', BetweenInv'
    PROVE  YInv'
<1>0. DOMAIN yielded = 1 .. Len(yielded) /\ Len(yielded) \in Nat
  BY ListType
<1>1. ASSUME NEW j \in DOMAIN yielded PROVE FoundIn(input', sent, pos', yielded[j], Skip(j, suspect'))
  <2>1. FoundIn(input, sent, pos, yielded[j], Skip(j, suspect)) /\ Skip(j, suspect) \in Nat
    BY DEF YInv, Skip
  <2>2. input \in Seq(Lines) /\ input' \in Seq(Lines) /\ pos \in 0 .. Len(input) /\ pos' \in 0 .. Len(input')
    BY DEF AtLine
  <2>3. Skip(j, suspect') = Skip(j, suspect)
    BY <1>0 DEF Skip, Place
  <2>4. FoundIn(input', sent, pos', yielded[j], Skip(j, suspect))
    BY <2>1, <2>2, FoundStays
  <2> QED BY <2>3, <2>4
<1> QED BY <1>1 DEF YInv

\* The scanner moves forward.
LEMMA FurtherOn ==
    ASSUME NEW p \in Nat, NEW q \in Nat, p <= q
    PROVE  /\ p + 1 \in Nat /\ q + 1 \in Nat /\ p + 1 <= q + 1 /\ p <= q + 1
           /\ \A i \in Nat : i <= p + 3 => i <= q + 3
           /\ \A i \in 1 .. p : i \in Nat /\ i <= q + 1
OBVIOUS

LEMMA BetweenFurther ==
    ASSUME NEW in, NEW s, NEW m \in Nat, NEW n \in Nat, m <= n, NEW k \in {0, 2}, SameFrom(in, s, m + k)
    PROVE  SameFrom(in, s, n + k)
<1>1. m + k \in Nat /\ n + k \in Nat /\ m + k <= n + k
  OBVIOUS
<1> QED BY <1>1, SameFurther

\* A step of readBlock.
LEMMA IntactStays ==
    ASSUME IntactInv, UNCHANGED <<input, sent, yielded, intact, suspect>>, stack' # << >>,
           pos \in Nat, pos' \in Nat, pos <= pos'
    PROVE  IntactInv' /\ Place' = Place /\ BetweenInv'
<1>1. Place' = Place
  BY DEF Place
<1>2. BetweenInv'
  BY DEF BetweenInv
<1>3. intact <= pos' + 3
  <2>1. intact \in Nat /\ intact <= pos + 3
    BY DEF IntactInv
  <2> QED BY <2>1, FurtherOn, Zenon
<1>4. IntactInv'
  <2>1. sent \in Seq(Lines) /\ intact \in Nat /\ SameFrom(input, sent, intact) /\ suspect \subseteq 1 .. Place
    BY DEF IntactInv
  <2>2. /\ sent' \in Seq(Lines) /\ intact' \in Nat /\ SameFrom(input', sent', intact')
        /\ suspect' \subseteq 1 .. Place' /\ intact' <= pos' + 3
    BY <1>1, <1>3, <2>1
  <2> QED BY <2>2 DEF IntactInv
<1> QED BY <1>1, <1>2, <1>4

\* The same when nothing is lost and the scanner does not fall behind.
LEMMA NothingFound ==
    ASSUME YInv, AtLine, AtLine', pos <= pos', IsList(yielded), stack' = << >>,
           UNCHANGED <<input, sent, yielded, intact, suspect>>,
           IF stack = << >> THEN Ready <= Ready' ELSE Ready' = pos' + 1
    PROVE  YInv'
<1>0. IntactInv /\ BetweenInv
  BY DEF YInv
<1>1. pos \in Nat /\ pos' \in Nat
  BY DEF AtLine
<1>2. Ready \in Nat /\ Ready' \in Nat /\ Skip(Place, suspect) \in {0, 2}
  <2>1. pos + 1 \in Nat /\ pos' + 1 \in Nat
    BY <1>1, FurtherOn, Zenon
  <2>2. Ready \in {pos, pos + 1} /\ Ready' \in {pos', pos' + 1} /\ Skip(Place, suspect) \in {0, 2}
    BY DEF Ready, Skip
  <2> QED BY <1>1, <2>1, <2>2, Zenon
<1>4. IntactInv'
  <2>1. intact \in Nat /\ intact <= pos' + 3
    <3>1. intact \in Nat /\ intact <= pos + 3
      BY <1>0 DEF IntactInv
    <3> QED BY <1>1, <3>1, FurtherOn, Zenon
  <2>2. /\ intact' \in Nat /\ intact' <= pos' + 3 /\ sent' \in Seq(Lines)
        /\ SameFrom(input', sent', intact') /\ suspect' \subseteq 1 .. Place'
    BY <1>0, <2>1, Zenon DEF IntactInv, Place
  <2> QED BY <2>2, Zenon DEF IntactInv
<1>3. SameFrom(input, sent, Ready' + Skip(Place, suspect))
  <2>1. CASE stack = << >>
    <3>1. SameFrom(input, sent, Ready + Skip(Place, suspect))
      BY <1>0, <2>1 DEF BetweenInv
    <3>2. Ready <= Ready'
      BY <2>1
    <3> QED BY <1>2, <3>1, <3>2, BetweenFurther, Zenon
  <2>2. CASE stack # << >>
    <3>1. PICK from \in 1 .. pos : SameFrom(input, sent, from + Skip(Place, suspect))
      BY <2>2 DEF YInv, BegunIn
    <3>2. from \in Nat /\ from <= Ready'
      <4>1. from \in Nat /\ from <= pos' + 1
        BY <1>1, FurtherOn, Zenon
      <4> QED BY <2>2, <4>1
    <3> QED BY <1>2, <3>1, <3>2, BetweenFurther, Zenon
  <2> QED BY <2>1, <2>2
<1>5. BetweenInv'
  BY <1>3, Zenon DEF BetweenInv, Place
<1> QED BY <1>4, <1>5, YieldedStays

\* The line that is read is the one the scanner then stands on.
LEMMA LineRead ==
    ASSUME IInv, UNCHANGED input, TopLine # EOFLine,
           IF pending # NoLine THEN UNCHANGED pos ELSE Consume
    PROVE  /\ pos' \in 1 .. Len(input) /\ input[pos'] = TopLine /\ pos <= pos'
           /\ pending = NoLine => pos' = pos + 1
<1>1. pos \in Nat /\ pos <= Len(input) /\ Len(input) \in Nat /\ AtLine
  BY DEF IInv, AtLine
<1>2. CASE pending # NoLine
  BY <1>1, <1>2 DEF IInv, PeekedIsLast, TopLine
<1>3. CASE pending = NoLine
  <2>1. TopLine = NextLine /\ Consume
    BY <1>3 DEF TopLine
  <2>2. pos < Len(input) /\ TopLine = input[pos + 1]
    BY <1>1, <2>1, NextLineCases
  <2>3. pos' = pos + 1
    BY <2>1, <2>2 DEF Consume
  <2> QED BY <1>1, <2>2, <2>3
<1> QED BY <1>2, <1>3

\* Next begins a component with a BEGIN line.
LEMMA ReadTopAsSent == ASSUME Typed, IInv, YInv, ReadTop PROVE YInv'
<1>0. PICK line : line = TopLine
  OBVIOUS
<1>1. /\ stack = << >> /\ UNCHANGED input /\ IF pending # NoLine THEN UNCHANGED pos ELSE Consume
      /\ AtLine /\ AtLine' /\ pos \in Nat /\ pos' \in Nat
      /\ UNCHANGED <<sent, intact, suspect>> /\ IsList(yielded) /\ pending' = NoLine
  BY ReadTopKeeps DEF Typed, TypeOK, ReadTop, source, damage, IInv, AtLine
<1>2. pos <= pos'
  BY <1>1, Forward
<1>3. CASE \/ ReturnError("ErrUnclosedBlock") \/ ReturnError("ErrMalformed") \/ ReturnEOF
  <2>1. UNCHANGED yielded /\ stack' = << >>
    BY <1>1, <1>3 DEF ReturnError, ReturnEOF, history
  <2>2. Ready <= Ready'
    <3>1. Ready' = pos' + 1 /\ Ready \in {pos, pos + 1}
      BY <1>1 DEF Ready
    <3> QED BY <1>1, <1>2, <3>1, FurtherOn, Zenon
  <2> QED BY <1>1, <1>2, <2>1, <2>2, NothingFound
<1>4. CASE line[1] = "BEGIN" /\ Continue("block") /\ stack' = <<Block(line[2])>>
  <2>1. line # EOFLine
    BY <1>4, LineKinds
  <2>2. pos' \in 1 .. Len(input) /\ input[pos'] = line
    BY <1>0, <1>1, <2>1, LineRead
  <2>3. line = Begin(line[2])
    <3>1. line \in Lines
      BY <2>2 DEF IInv, AtLine
    <3> QED BY <1>4, <3>1, LineKinds
  <2>4. SubSeq(input, pos', pos') = <<line>>
    <3> DEFINE at == pos'
    <3>1. at \in 1 .. Len(input) /\ input[at] = line /\ input \in Seq(Lines)
      BY <1>1, <2>2 DEF AtLine
    <3> HIDE DEF at
    <3>2. SubSeq(input, at, at) = Append(SubSeq(input, at, at - 1), line) /\ SubSeq(input, at, at - 1) = << >>
      <4> DEFINE n == at - 1
      <4>1. /\ n \in Nat /\ n < Len(input) /\ n <= Len(input) /\ n + 1 = at /\ at <= n + 1 /\ n < at
            /\ at \in Nat \ {0} /\ IsList(input) /\ n \in Int /\ at \in Int
        BY <3>1 DEF IsList
      <4> HIDE DEF n
      <4>2. SubSeq(input, at, n + 1) = Append(SubSeq(input, at, n), input[n + 1])
        BY <4>1, ListPart
      <4>3. SubSeq(input, at, n) = << >>
        BY <4>1, SubSeqEmpty
      <4> QED BY <3>1, <4>1, <4>2, <4>3 DEF n
    <3>3. Append(<< >>, line) = <<line>>
      OBVIOUS
    <3> QED BY <3>2, <3>3 DEF at
  <2>5. BegunIn(input, sent, pos', stack', Skip(Place, suspect))
    <3>1. Alone(<<Begin(line[2])>>) = Open(<<Block(Calendar)>> \o <<Block(line[2])>>)
      BY AloneBegins
    <3>2. pos' \in 1 .. pos'
      BY <2>2
    <3>3. pos' = Ready
      BY <1>0, <1>1, <2>1, LineRead DEF Ready
    <3>4. SameFrom(input, sent, pos' + Skip(Place, suspect))
      BY <1>1, <3>3 DEF YInv, BetweenInv
    <3> QED BY <1>4, <2>3, <2>4, <3>1, <3>2, <3>4 DEF BegunIn
  <2>6. ASSUME NEW j \in DOMAIN yielded
        PROVE  FoundIn(input, sent, pos', yielded[j], Skip(j, suspect))
    <3>1. FoundIn(input, sent, pos, yielded[j], Skip(j, suspect)) /\ Skip(j, suspect) \in Nat
      BY DEF YInv, Skip
    <3>2. input \in Seq(Lines) /\ pos \in 0 .. Len(input) /\ pos' \in 0 .. Len(input)
      BY <1>1 DEF AtLine
    <3> QED BY <1>2, <3>1, <3>2, FoundStays
  <2>7. UNCHANGED yielded
    BY <1>4 DEF Continue, history
  <2>8. stack' # << >>
    BY <1>4
  <2>9. IntactInv' /\ Place' = Place /\ BetweenInv'
    BY <1>1, <1>2, <2>7, <2>8, IntactStays DEF YInv
  <2> QED BY <1>1, <2>5, <2>6, <2>7, <2>9 DEF YInv
<1> QED BY <1>0, <1>3, <1>4, TopCases

\* readBlock takes one more line of it.
LEMMA ReadBlockAsSent == ASSUME Typed, IInv, YInv, ReadBlock PROVE YInv'
<1>0. PICK line : line = NextLine
  OBVIOUS
<1>1. /\ IsList(stack) /\ stack # << >> /\ pending = NoLine /\ UNCHANGED input /\ Consume
      /\ AtLine /\ AtLine' /\ pos \in Nat /\ pos' \in Nat /\ Len(input) \in Nat
      /\ UNCHANGED <<sent, intact, suspect>> /\ IsList(yielded) /\ pending' = NoLine
  BY ReadBlockKeeps DEF Typed, TypeOK, ReadBlock, IInv, PeekedIsLast, source, fields, damage, AtLine
<1>2. pos <= pos' /\ line = TopLine
  BY <1>0, <1>1, Forward DEF TopLine
<1>3. CASE BlockFails(line)
  <2>1. stack' = << >> /\ UNCHANGED yielded
    BY <1>3 DEF BlockFails, ReturnError
  <2>2. Ready' = pos' + 1
    BY <1>1 DEF Ready
  <2> QED BY <1>1, <1>2, <2>1, <2>2, NothingFound
<1>4. CASE BlockContinues(line) \/ BlockYields(line)
  <2>1. PICK from \in 1 .. pos :
           /\ Alone(SubSeq(input, from, pos)) = Open(<<Block(Calendar)>> \o stack)
           /\ SameFrom(input, sent, from + Skip(Place, suspect))
    BY <1>1 DEF YInv, BegunIn
  <2>2. pos' = pos + 1 /\ pos + 1 <= Len(input) /\ input[pos + 1] = line
    <3>1. line # EOFLine
      BY <1>4 DEF BlockContinues, BlockYields
    <3> QED BY <1>1, <1>2, <3>1, LineRead
  <2>3. Alone(SubSeq(input, from, pos + 1)) = ParseStep(Open(<<Block(Calendar)>> \o stack), line)
    <3>1. IsList(input) /\ from \in Nat \ {0} /\ pos < Len(input) /\ pos <= Len(input) /\ from <= pos + 1
      BY <1>1, <2>2 DEF AtLine, IsList
    <3>2. IsList(SubSeq(input, from, pos)) /\ SubSeq(input, from, pos + 1) = Append(SubSeq(input, from, pos), line)
      BY <1>1, <2>2, <3>1, ListPart
    <3> QED BY <2>1, <3>2, AloneAppend
  <2>4. from \in 1 .. pos' /\ pos' \in 1 .. pos' /\ from < pos'
    BY <1>1, <2>2
  <2>5. ASSUME NEW j \in DOMAIN yielded
        PROVE  FoundIn(input, sent, pos', yielded[j], Skip(j, suspect))
    <3>1. FoundIn(input, sent, pos, yielded[j], Skip(j, suspect)) /\ Skip(j, suspect) \in Nat
      BY DEF YInv, Skip
    <3>2. input \in Seq(Lines) /\ pos \in 0 .. Len(input) /\ pos' \in 0 .. Len(input)
      BY <1>1 DEF AtLine
    <3> QED BY <1>2, <3>1, <3>2, FoundStays
  <2>6. CASE BlockContinues(line)
    <3>1. UNCHANGED yielded
      BY <2>6 DEF BlockContinues, Continue, history
    <3>2. ParseStep(Open(<<Block(Calendar)>> \o stack), line) = Open(<<Block(Calendar)>> \o stack')
      BY <2>6 DEF BlockContinues
    <3>3. BegunIn(input, sent, pos', stack', Skip(Place, suspect))
      BY <2>1, <2>2, <2>3, <2>4, <3>2 DEF BegunIn
    <3>4. stack' # << >>
      BY <2>6 DEF BlockContinues, Continue
    <3>5. IntactInv' /\ Place' = Place /\ BetweenInv'
      BY <1>1, <1>2, <3>1, <3>4, IntactStays DEF YInv
    <3> QED BY <1>1, <2>5, <3>1, <3>3, <3>5 DEF YInv
  <2>7. CASE BlockYields(line)
    <3>1. PICK b : /\ Yield(b)
                   /\ \A root : ParseStep(Open(<<root>> \o stack), line) = Open(<<AddSub(root, b)>>)
      BY <2>7 DEF BlockYields
    <3>2. yielded' = Append(yielded, b) /\ stack' = << >>
      BY <3>1 DEF Yield
    <3>3. HasOnly(Open(<<AddSub(Block(Calendar), b)>>), b)
      <4>1. AddSub(Block(Calendar), b) = Element(Calendar, << >>, <<b>>)
        <5> DEFINE none == << >>
        <5>1. Block(Calendar) = Element(Calendar, none, none)
          BY DEF Block, Element
        <5>2. Append(none, b) = <<b>>
          OBVIOUS
        <5> HIDE DEF none
        <5>3. AddSub(Element(Calendar, none, none), b) = Element(Calendar, none, Append(none, b))
          BY AddSubElement
        <5>4. AddSub(Block(Calendar), b) = Element(Calendar, none, <<b>>)
          BY <5>1, <5>2, <5>3
        <5> QED BY <5>4 DEF none
      <4> DEFINE e == Element(Calendar, << >>, <<b>>)
      <4>2. e.props = << >> /\ e.sub = <<b>>
        BY DEF Element
      <4> HIDE DEF e
      <4>3. Open(<<e>>).phase = "block" /\ Len(Open(<<e>>).stack) = 1 /\ Open(<<e>>).stack[1] = e
        BY DEF Open
      <4> QED BY <4>1, <4>2, <4>3 DEF HasOnly, e
    <3>4. FoundIn(input, sent, pos', b, Skip(Place, suspect))
      <4>0. from + Skip(Place, suspect) \in Nat /\ pos' \in 1 .. Len(input) /\ sent \in Seq(Lines) /\ input \in Seq(Lines)
        BY <1>1, <2>2, <2>4 DEF Skip, YInv, IntactInv, AtLine
      <4>2. Within(input, sent, from + Skip(Place, suspect), pos')
        BY <2>1, <4>0, SameIsWithin
      <4>1. Alone(SubSeq(input, from, pos')) = Open(<<AddSub(Block(Calendar), b)>>)
        BY <2>2, <2>3, <3>1
      <4> QED BY <2>4, <3>3, <4>1, <4>2 DEF FoundIn
    <3>5. ASSUME NEW j \in DOMAIN yielded'
          PROVE  FoundIn(input, sent, pos', yielded'[j], Skip(j, suspect))
      <4>1. /\ DOMAIN yielded' = 1 .. Len(yielded) + 1 /\ DOMAIN yielded = 1 .. Len(yielded)
            /\ Len(yielded) \in Nat
            /\ \A i \in 1 .. Len(yielded) : yielded'[i] = yielded[i]
            /\ yielded'[Len(yielded) + 1] = b
        <5>1. IsList(yielded)
          BY DEF Typed
        <5> QED BY <3>2, <5>1, ListAppend, ListType
      <4>2. CASE j \in 1 .. Len(yielded)
        BY <2>5, <4>1, <4>2
      <4>3. CASE j = Len(yielded) + 1
        BY <3>4, <4>1, <4>3 DEF Place
      <4> QED BY <4>1, <4>2, <4>3
    <3>6. Place' = Place + 1 /\ Place \in Nat /\ suspect \subseteq 1 .. Place /\ Skip(Place', suspect) = 0
      <4>1. Len(yielded) \in Nat /\ Len(yielded') = Len(yielded) + 1
        BY <1>1, <3>2, ListAppend, ListType
      <4>2. Place' = Place + 1 /\ Place \in Nat
        BY ONLY <4>1 DEF Place
      <4>3. IntactInv
        BY DEF YInv
      <4>4. suspect \subseteq 1 .. Place
        BY <4>3 DEF IntactInv
      <4>5. Place' \notin suspect
        BY ONLY <4>2, <4>4
      <4> QED BY <4>2, <4>4, <4>5 DEF Skip
    <3>7. IntactInv'
      <4>1. IntactInv
        BY DEF YInv
      <4>2. suspect \subseteq 1 .. Place'
        BY ONLY <3>6
      <4>3. intact \in Nat /\ intact <= pos' + 3
        <5>1. intact \in Nat /\ intact <= pos + 3
          BY <4>1 DEF IntactInv
        <5> QED BY <1>1, <1>2, <5>1, FurtherOn, Zenon
      <4>4. sent \in Seq(Lines) /\ SameFrom(input, sent, intact)
        BY <4>1 DEF IntactInv
      <4> QED BY <1>1, <4>2, <4>3, <4>4, Zenon DEF IntactInv
    <3>8. BetweenInv'
      <4>1. Ready' = pos' + 1
        BY <1>1 DEF Ready
      <4>2. from + Skip(Place, suspect) <= pos' + 1 /\ from + Skip(Place, suspect) \in Nat /\ pos' + 1 \in Nat
        BY <1>1, <2>2, <2>4 DEF Skip
      <4>3. SameFrom(input, sent, pos' + 1)
        BY <2>1, <4>2, SameFurther
      <4>4. pos' + 1 + Skip(Place', suspect) = pos' + 1
        BY <1>1, <3>6
      <4> QED BY <1>1, <4>1, <4>3, <4>4 DEF BetweenInv
    <3> QED BY <1>1, <3>2, <3>5, <3>7, <3>8 DEF YInv
  <2> QED BY <1>4, <2>6, <2>7
<1> QED BY <1>0, <1>1, <1>3, <1>4, BlockInStep

LEMMA OtherAsSent ==
    ASSUME Typed, IInv, YInv, CallHeader \/ CallNext \/ ReadFirst \/ ReadHeader
    PROVE  YInv'
<1>1. stack = << >> /\ UNCHANGED yielded /\ stack' = << >>
  <2>1. stack = << >>
    BY DEF Typed, TypeOK, CallHeader, CallNext, Call, ReadFirst, ReadHeader
  <2>2. CASE CallHeader \/ CallNext
    BY <2>1, <2>2 DEF CallHeader, CallNext, Call, history
  <2>3. CASE ReadFirst
    BY <2>1, <2>3 DEF ReadFirst, HeaderError, ReturnError, Continue, history
  <2>4. CASE ReadHeader
    <3>1. PICK line : line = NextLine
      OBVIOUS
    <3> QED BY <2>1, <2>4, <3>1, HeaderCases DEF HeaderError, ReturnError, Continue, history
  <2> QED BY <2>1, <2>2, <2>3, <2>4
<1>2. AtLine /\ AtLine' /\ pos \in Nat /\ pos' \in Nat /\ IsList(yielded)
  BY CallKeeps, ReadFirstKeeps, ReadHeaderKeeps DEF IInv, AtLine, Typed
<1>3. UNCHANGED <<input, sent, intact, suspect>> /\ (UNCHANGED pos \/ Consume)
  BY DEF CallHeader, CallNext, Call, ReadFirst, ReadHeader, source, damage
<1>4. pos <= pos'
  BY <1>2, <1>3, Forward
<1>5. Ready <= Ready'
  <2>1. CASE CallHeader \/ CallNext
    <3>1. UNCHANGED <<pos, pending>>
      BY <2>1 DEF CallHeader, CallNext, Call
    <3>2. Ready' = Ready
      BY <3>1, Zenon DEF Ready
    <3>3. Ready \in Nat
      BY <1>2 DEF Ready
    <3>4. \A i \in Nat : i <= i
      OBVIOUS
    <3> QED BY <3>2, <3>3, <3>4, Zenon
  <2>2. CASE ReadFirst
    <3>1. pending = NoLine /\ pending' = NoLine
      BY <2>2 DEF ReadFirst, fields, IInv, PeekedIsLast
    <3>2. Ready = pos + 1 /\ Ready' = pos' + 1
      BY ONLY <3>1 DEF Ready
    <3> QED BY <1>2, <1>4, <3>2, FurtherOn, Zenon
  <2>3. CASE ReadHeader
    <3>1. pending = NoLine /\ Consume
      BY <2>3 DEF ReadHeader, IInv, PeekedIsLast
    <3>2. CASE pending' = NoLine
      <4>1. Ready = pos + 1 /\ Ready' = pos' + 1
        BY ONLY <3>1, <3>2 DEF Ready
      <4> QED BY <1>2, <1>4, <4>1, FurtherOn, Zenon
    <3>3. CASE pending' # NoLine
      <4>1. NextLine # EOFLine
        <5> SUFFICES ASSUME NextLine = EOFLine PROVE FALSE
          OBVIOUS
        <5>1. NextLine # Bad /\ ~EndsHeader(NextLine) /\ NextLine[1] # "VERSION"
          BY DEF EndsHeader, IsBoundary, EOFLine, Bad
        <5> QED BY <2>3, <3>1, <3>3, <5>1 DEF ReadHeader
      <4>2. pos' = pos + 1
        BY <1>2, <3>1, <4>1 DEF Consume, NextLine
      <4>3. Ready = pos + 1 /\ Ready' = pos'
        BY ONLY <3>1, <3>3 DEF Ready
      <4>4. pos + 1 \in Nat /\ \A i \in Nat : i <= i
        BY <1>2
      <4> QED BY <4>2, <4>3, <4>4, Zenon
    <3> QED BY <3>2, <3>3
  <2> QED BY <2>1, <2>2, <2>3
<1> QED BY <1>1, <1>2, <1>3, <1>4, <1>5, NothingFound

\* A failed read makes the component that comes next suspect; what it lost lies ahead.
LEMMA ReadFailsAsSent == ASSUME Typed, IInv, YInv, ReadFails PROVE YInv'
<1>1. /\ AtLine /\ AtLine' /\ pos \in Nat /\ pos' = pos /\ pending = NoLine /\ IsList(yielded)
      /\ UNCHANGED <<sent, pending>> /\ suspect' = suspect \cup {Place}
  <2>1. AtLine /\ AtLine' /\ IsList(yielded)
    BY ReadFailsKeeps DEF IInv, Typed
  <2>2. pos' = pos /\ UNCHANGED <<sent, pending>> /\ suspect' = suspect \cup {Place}
    BY DEF ReadFails, fields, Place
  <2>3. pending = NoLine
    BY DEF ReadFails, IInv, PeekedIsLast
  <2>4. pos \in Nat
    BY <2>1 DEF AtLine
  <2> QED BY <2>1, <2>2, <2>3, <2>4
<1>2. UNCHANGED yielded /\ stack' = << >>
  <2>1. pos \in Nat /\ pos' \in Nat /\ pos <= pos'
    BY ONLY <1>1
  <2> QED BY <2>1, ReadFailsTyped, FailsTyped, Zenon
<1>3. \A i \in 1 .. pos : input'[i] = input[i]
  <2>1. Lose \/ UNCHANGED input
    BY DEF ReadFails
  <2> QED BY <1>1, <2>1, LossIsAhead
<1>4. IntactInv /\ Len(yielded) \in Nat
  BY <1>1, ListType DEF YInv
<1>5. intact' \in Nat /\ intact' <= pos + 3 /\ SameFrom(input', sent, intact')
  <2>1. CASE Lose
    BY <1>1, <1>4, <2>1, LossKeeps
  <2>2. CASE UNCHANGED <<input, intact>>
    BY <1>4, <2>2 DEF IntactInv
  <2> QED BY <2>1, <2>2 DEF ReadFails
<1>6. IntactInv'
  <2>1. suspect' \subseteq 1 .. Place' /\ Place' = Place
    <3>1. Place' = Place /\ Place \in Nat /\ Place > 0
      BY ONLY <1>2, <1>4 DEF Place
    <3>2. suspect \subseteq 1 .. Place
      BY <1>4 DEF IntactInv
    <3> QED BY ONLY <1>1, <3>1, <3>2
  <2> QED BY <1>1, <1>4, <1>5, <2>1 DEF IntactInv
<1>7. BetweenInv'
  <2>1. Ready' = pos + 1 /\ Skip(Place', suspect') = 2
    BY <1>1, <1>2 DEF Ready, Skip, Place
  <2>2. Ready' + Skip(Place', suspect') = pos + 3
    BY <1>1, <2>1
  <2>3. SameFrom(input', sent, pos + 3)
    <3> DEFINE in == input'
               n  == intact'
    <3>1. n \in Nat /\ n <= pos + 3 /\ SameFrom(in, sent, n) /\ pos + 3 \in Nat
      BY <1>1, <1>5
    <3> HIDE DEF in, n
    <3>2. SameFrom(in, sent, pos + 3)
      BY <3>1, SameFurther
    <3> QED BY <3>2 DEF in
  <2> QED BY <1>1, <2>2, <2>3 DEF BetweenInv
<1>8. pos <= pos'
  BY <1>1
<1> QED BY <1>1, <1>2, <1>3, <1>6, <1>7, <1>8, YieldedStays

LEMMA AsSentKept == Typed /\ IInv /\ YInv /\ [Next]_vars => YInv'
<1>1. YInv /\ UNCHANGED vars => YInv'
  <2> SUFFICES ASSUME YInv, UNCHANGED vars PROVE YInv'
    OBVIOUS
  <2>1. UNCHANGED <<input, sent, pos, pending, stack, yielded, intact, suspect>>
    BY DEF vars, source, parserVars, fields, history, damage
  <2> QED BY <2>1 DEF YInv, IntactInv, BetweenInv, Ready, Place
<1> QED BY <1>1, OtherAsSent, ReadTopAsSent, ReadBlockAsSent, ReadFailsAsSent DEF Next, Step, Read

LEMMA AsSentStarts == Init => YInv
<1> SUFFICES ASSUME Init PROVE YInv
  OBVIOUS
<1>1. /\ stack = << >> /\ yielded = << >> /\ pos = 0 /\ pending = NoLine /\ intact = 1 /\ suspect = {}
      /\ sent = input /\ input \in Seq(Lines)
  BY InputsAssumption DEF Init, InitParser
<1>2. DOMAIN yielded = {} /\ Ready = 1 /\ Skip(Place, suspect) = 0
  BY <1>1 DEF Ready, Skip
<1>3. SameFrom(input, sent, 1)
  <2>1. Len(sent) = Len(input) /\ Len(input) \in Nat /\ DOMAIN input = 1 .. Len(input)
    BY <1>1
  <2>2. \A k \in 1 .. Len(input) : k + Len(sent) - Len(input) = k
    BY <2>1
  <2> QED BY <1>1, <2>1, <2>2 DEF SameFrom
<1>4. IntactInv
  BY <1>1, <1>3 DEF IntactInv
<1>5. BetweenInv
  BY <1>2, <1>3 DEF BetweenInv
<1> QED BY <1>1, <1>2, <1>4, <1>5 DEF YInv

\* Whatever the client does, whatever fails and whatever is lost with it, for documents of any
\* length and nesting: each component that Next has returned is what the batch parser makes of
\* one uninterrupted run of the lines that the scanner has delivered, and these are lines that
\* were sent in this order with nothing between them, but for the first two of the
\* first component after a failed read.
THEOREM ComponentsAreAsSent == Spec => []YieldedIsAsSent
<1>1. Typed /\ IInv /\ YInv => YieldedIsAsSent
  <2> SUFFICES ASSUME Typed, IInv, YInv, NEW j \in DOMAIN yielded
               PROVE  \E from, to \in 1 .. pos :
                         /\ from < to
                         /\ HasOnly(Alone(SubSeq(input, from, to)), yielded[j])
                         /\ Within(input, sent, IF j \in suspect THEN from + 2 ELSE from, to)
    BY DEF YieldedIsAsSent, HasOnly, Alone, AsSent, Within
  <2>1. PICK from \in 1 .. pos, to \in 1 .. pos :
           /\ from < to /\ HasOnly(Alone(SubSeq(input, from, to)), yielded[j])
           /\ Within(input, sent, from + Skip(j, suspect), to)
    BY DEF YInv, FoundIn
  <2>2. from + Skip(j, suspect) = IF j \in suspect THEN from + 2 ELSE from
    BY DEF Skip
  <2> QED BY <2>1, <2>2
<1> QED BY <1>1, AsSentStarts, TypedInit, IInvInit, TypedStep, IInvKept, AsSentKept, PTL DEF Spec

\* Whatever the client does and whatever failed before: io.EOF is returned only
\* after END:VCALENDAR was read, so a truncated stream never looks complete; and that
\* line was sent, unless it is what a failed read has left of a torn one.
THEOREM TruncatedNeverLooksComplete == Spec => []TruncationIsNotEOF
<1>1. IInv /\ YInv => TruncationIsNotEOF
  <2> SUFFICES ASSUME IInv, YInv, result = "EOF" PROVE TruncationIsNotEOF
    BY DEF TruncationIsNotEOF
  <2>1. pos > 0 /\ input[pos] = End(Calendar) /\ pos \in 1 .. Len(input)
    BY DEF IInv, DoneIsAtEnd, AtLine
  <2>2. CASE pos < intact
    BY <2>1, <2>2 DEF TruncationIsNotEOF
  <2>3. CASE pos >= intact
    <3>1. SameFrom(input, sent, intact) /\ intact \in Nat
      BY DEF YInv, IntactInv
    <3>2. pos \in intact .. Len(input)
      BY <2>1, <2>3, <3>1
    <3>3. \E k \in DOMAIN sent : sent[k] = input[pos]
      BY <3>1, <3>2 DEF SameFrom
    <3> QED BY <2>1, <3>3 DEF TruncationIsNotEOF
  <2>4. intact \in Nat /\ pos \in Nat
    BY <2>1 DEF YInv, IntactInv
  <2> QED BY <2>2, <2>3, <2>4
<1> QED BY <1>1, AsSentStarts, TypedInit, IInvInit, TypedStep, IInvKept, AsSentKept, PTL DEF Spec

-----------------------------------------------------------------------------
(* A document that is cut off.                                             *)

LEMMA PartType ==
    ASSUME NEW s \in Seq(Lines), NEW m \in Nat \ {0}, NEW n \in Nat, n <= Len(s)
    PROVE  SubSeq(s, m, n) \in Seq(Lines)
<1>1. \A i \in m .. n : s[i] \in Lines
  OBVIOUS
<1> QED BY <1>1, SubSeqProperties

LEMMA SubIsList == ASSUME NEW st, IsState(st), st.stack # << >> PROVE IsList(st.stack[1].sub)
<1>1. IsList(st.stack) /\ \A i \in 1 .. Len(st.stack) : IsBlock(st.stack[i])
  BY DEF IsState
<1>2. Len(st.stack) \in Nat /\ Len(st.stack) # 0
  BY <1>1 DEF IsList
<1>3. 1 \in 1 .. Len(st.stack)
  BY <1>2
<1> QED BY <1>1, <1>3 DEF IsBlock

LEMMA TornIsLine == ASSUME NEW l \in GoodLines PROVE Torn(l) \subseteq Lines
<1>1. l[1] \in {"BEGIN", "END", "VERSION", "PRODID", "PROP"} /\ "torn" \in Texts
  BY DEF GoodLines, Lines, PropLines, Bad, Texts
<1>2. <<l[1], "torn">> \in Lines
  BY <1>1 DEF Lines, PropLines
<1> QED BY <1>2 DEF Torn, Lines

AddsNothing(u, st) == st.stack # << >> /\ u.stack[1].sub = st.stack[1].sub

\* A torn line ends no block that the whole line does not end, and adds no component.
LEMMA TornLine ==
    ASSUME NEW st, IsState(st), NEW l \in GoodLines, NEW whole, whole = ParseStep(st, l),
           whole.phase # "error", NEW t \in Torn(l), NEW torn, torn = ParseStep(st, t)
    PROVE  /\ IsState(torn) /\ Grown(torn, st)
           /\ torn.phase = "done" => whole.phase = "done"
           /\ torn.stack # << >> => AddsNothing(torn, st) \/ torn = whole
<1>0. l \in Lines /\ t \in Lines
  BY TornIsLine DEF GoodLines
<1>1. IsState(torn) /\ Grown(torn, st)
  BY <1>0, StepGrows
<1>2. CASE st.phase = "first"
  <2>1. st.stack = << >>
    BY <1>2 DEF IsState
  <2>2. CASE t = Begin(Calendar)
    <3>1. l = Begin(Calendar)
      <4> SUFFICES ASSUME l # Begin(Calendar) PROVE FALSE
        OBVIOUS
      <4>1. whole = ParseError(st)
        BY <1>2 DEF ParseStep
      <4>2. ParseError(st).phase = "error"
        BY <1>2, <2>1 DEF ParseError, IsState
      <4> QED BY <4>1, <4>2
    <3> QED BY <1>1, <2>2, <3>1 DEF AddsNothing
  <2>3. CASE t # Begin(Calendar)
    <3>1. torn = [phase |-> "error", stack |-> << >>]
      BY <1>2, <2>1, <2>3 DEF ParseStep, ParseError, IsState
    <3> QED BY <1>1, <3>1
  <2> QED BY <2>2, <2>3
<1>3. CASE st.phase = "block"
  <2>1. PICK below, b : /\ IsList(below) /\ st.stack = Append(below, b) /\ st = Open(Append(below, b))
                        /\ IsBlock(b)
    BY <1>3, OpenCases
  <2>2. st.stack # << >>
    BY <1>3 DEF IsState
  <2>3. whole = ParseStep(Open(Append(below, b)), l) /\ torn = ParseStep(Open(Append(below, b)), t)
    BY <2>1
  <2>4. l[1] = "END" => l = End(b.type)
    <3> SUFFICES ASSUME l[1] = "END" PROVE l = End(b.type)
      OBVIOUS
    <3>1. l # Begin(l[2]) /\ l \notin PropLines
      BY LineKinds
    <3>2. ~(whole = [phase |-> "error", stack |-> Append(below, b)])
      OBVIOUS
    <3> QED BY <1>0, <2>1, <2>3, <3>1, <3>2, StepCases
  <2>5. CASE torn = [phase |-> "error", stack |-> Append(below, b)]
    <3>1. torn.stack = st.stack /\ torn.phase = "error"
      BY <2>1, <2>5
    <3> QED BY <1>1, <2>2, <3>1 DEF AddsNothing
  <2>6. CASE torn = Open(Append(Append(below, b), Block(t[2])))
    <3>1. torn.stack = Append(st.stack, Block(t[2])) /\ torn.phase = "block"
      <4>1. torn.stack = Append(Append(below, b), Block(t[2])) /\ torn.phase = "block"
        BY <2>6 DEF Open
      <4> QED BY <2>1, <4>1
    <3>2. torn.stack[1] = st.stack[1]
      <4>1. IsList(st.stack)
        BY DEF IsState
      <4> QED BY <2>2, <3>1, <4>1, FirstOfAppend
    <3> QED BY <1>1, <2>2, <3>1, <3>2 DEF AddsNothing
  <2>7. CASE t = End(b.type)
    <3>1. t = <<l[1], "torn">>
      <4>1. t[1] = "END" /\ Bad[1] = "BAD"
        BY <2>7, LineKinds
      <4> QED BY <4>1 DEF Torn
    <3>2. l[1] = "END"
      BY <2>7, <3>1 DEF End
    <3>3. l = t
      BY <2>4, <2>7, <3>2
    <3> QED BY <1>1, <3>3
  <2>8. CASE torn = Open(Append(below, AddProp(b, t)))
    <3>1. torn.stack = Append(below, AddProp(b, t)) /\ torn.phase = "block"
      BY <2>8 DEF Open
    <3>2. AddProp(b, t).sub = b.sub
      BY <2>1, AddedIsBlock
    <3>3. torn.stack[1].sub = st.stack[1].sub
      BY <2>1, <3>1, <3>2, FirstOfAppend
    <3> QED BY <1>1, <2>2, <3>1, <3>3 DEF AddsNothing
  <2>9. \/ torn = [phase |-> "error", stack |-> Append(below, b)]
        \/ torn = Open(Append(Append(below, b), Block(t[2]))) \/ t = End(b.type)
        \/ torn = Open(Append(below, AddProp(b, t)))
    BY <1>0, <2>1, <2>3, StepCases
  <2> QED BY <2>5, <2>6, <2>7, <2>8, <2>9
<1>4. CASE st.phase \in {"done", "error"}
  BY <1>1, <1>4 DEF ParseStep
<1> QED BY <1>2, <1>3, <1>4 DEF IsState

\* What arrives of a write that fails: what was there before stays, and nothing is added that
\* the whole write would not have added.
LEMMA CutOff ==
    ASSUME NEW st, IsState(st), NEW lines \in Seq(GoodLines), NEW whole, whole = Run(st, lines),
           whole.phase # "error", NEW k \in 0 .. Len(lines), NEW got,
           \/ got = Run(st, SubSeq(lines, 1, k))
           \/ /\ k < Len(lines)
              /\ \E t \in Torn(lines[k + 1]) : got = ParseStep(Run(st, SubSeq(lines, 1, k)), t)
    PROVE  /\ IsState(got) /\ Grown(got, st)
           /\ got.phase = "done" => whole.phase = "done"
           /\ got.stack # << >> => /\ whole.stack # << >>
                                  /\ Extends(whole.stack[1].sub, got.stack[1].sub)
<1>0. lines \in Seq(Lines) /\ IsList(lines) /\ Len(lines) \in Nat /\ k \in Nat /\ k <= Len(lines)
  <2>1. lines \in Seq(Lines)
    BY DEF GoodLines
  <2> QED BY <2>1 DEF IsList
<1> DEFINE Part(n) == SubSeq(lines, 1, n)
           Upto(n) == Run(st, Part(n))
<1>1. ASSUME NEW n \in Nat, n <= Len(lines)
      PROVE  /\ Part(n) \in Seq(Lines) /\ IsState(Upto(n)) /\ Grown(Upto(n), st)
             /\ Grown(whole, Upto(n)) /\ IsState(whole)
             /\ Upto(n).phase \in {"done", "error"} => whole = Upto(n)
  <2> DEFINE rest == SubSeq(lines, n + 1, Len(lines))
  <2>0. n + 1 \in Nat \ {0} /\ 1 \in Nat \ {0}
    OBVIOUS
  <2>1. Part(n) \in Seq(Lines) /\ rest \in Seq(Lines)
    BY <1>0, <1>1, <2>0, PartType
  <2>2. lines = Part(n) \o rest
    <3>1. n \in 0 .. Len(lines)
      BY <1>0, <1>1
    <3> QED BY <1>0, <3>1, Split
  <2>3. IsState(Upto(n)) /\ Grown(Upto(n), st)
    BY <2>1, RunGrows
  <2> HIDE DEF Part, rest
  <2>4. whole = Run(Upto(n), rest)
    <3>1. IsList(Part(n)) /\ IsList(rest)
      BY <2>1 DEF IsList
    <3>2. Run(st, Part(n) \o rest) = Run(Run(st, Part(n)), rest)
      BY <3>1, RunConcat
    <3> QED BY <2>2, <3>2
  <2> HIDE DEF Upto
  <2> QED BY <2>1, <2>3, <2>4, RunGrows
<1>2. ASSUME NEW u, IsState(u), Grown(whole, u), u.stack # << >>
      PROVE  whole.stack # << >> /\ Extends(whole.stack[1].sub, u.stack[1].sub)
  BY <1>2 DEF Grown
<1>3. CASE got = Upto(k)
  <2> HIDE DEF Upto
  <2> QED BY <1>0, <1>1, <1>2, <1>3
<1>4. CASE k < Len(lines) /\ \E t \in Torn(lines[k + 1]) : got = ParseStep(Upto(k), t)
  <2>1. PICK t \in Torn(lines[k + 1]) : got = ParseStep(Upto(k), t)
    BY <1>4
  <2>2. k + 1 \in Nat /\ k + 1 <= Len(lines) /\ lines[k + 1] \in GoodLines /\ 1 <= k + 1
    BY <1>0, <1>4
  <2>3. Upto(k + 1) = ParseStep(Upto(k), lines[k + 1])
    <3>1. IsList(Part(k)) /\ Part(k + 1) = Append(Part(k), lines[k + 1])
      BY <1>0, <1>4, <2>2, ListPart
    <3> HIDE DEF Part
    <3>2. Run(st, Append(Part(k), lines[k + 1])) = ParseStep(Run(st, Part(k)), lines[k + 1])
      BY <3>1, RunAppend
    <3> QED BY <3>1, <3>2
  <2>4. Upto(k + 1).phase # "error"
    <3> HIDE DEF Upto
    <3> QED BY <1>1, <2>2
  <2> HIDE DEF Upto
  <2>5. IsState(Upto(k)) /\ Grown(Upto(k), st) /\ Grown(whole, Upto(k))
        /\ IsState(Upto(k + 1)) /\ Grown(whole, Upto(k + 1)) /\ IsState(whole)
    BY <1>0, <1>1, <2>2
  <2>6. /\ IsState(got) /\ Grown(got, Upto(k))
        /\ got.phase = "done" => Upto(k + 1).phase = "done"
        /\ got.stack # << >> => AddsNothing(got, Upto(k)) \/ got = Upto(k + 1)
    BY <2>1, <2>2, <2>3, <2>4, <2>5, TornLine
  <2>7. Grown(got, st)
    BY <2>5, <2>6, GrownTransitive
  <2>8. got.phase = "done" => whole.phase = "done"
    BY <1>1, <2>2, <2>6
  <2>9. got.stack # << >> => whole.stack # << >> /\ Extends(whole.stack[1].sub, got.stack[1].sub)
    BY <1>2, <2>5, <2>6 DEF AddsNothing
  <2> QED BY <2>6, <2>7, <2>8, <2>9
<1> QED BY <1>3, <1>4

-----------------------------------------------------------------------------
(* The encoder.                                                            *)

\* The components of the calendar lie between two lists.
Between(st, some, most) ==
    st.stack # << >> => Extends(st.stack[1].sub, some) /\ Extends(most, st.stack[1].sub)

\* As long as no write has failed, the wire holds the header, if it was written, and the
\* components acknowledged, and is closed if the encoder is.
Working ==
    /\ attempted = << >> /\ closeFailed = FALSE /\ headerAck = encHeader
    /\ IF headerWritten
       THEN ParseRun(wire) = [phase |-> IF closed THEN "done" ELSE "block",
                              stack |-> <<Root(HeaderProps(EffectiveProdID), acked)>>]
       ELSE wire = << >> /\ acked = << >> /\ ~closed

\* From then on it stays as the failed write left it.
Stopped ==
    LET st == ParseRun(wire)
    IN  /\ headerWritten /\ ~closed
        /\ st.phase = "done" => closeFailed
        /\ acked # << >> => st.stack # << >>
        /\ Between(st, acked, acked \o attempted)
        /\ closeFailed => attempted = << >>

EncInv ==
    /\ EncTypeOK
    /\ wire \in Seq(Lines) /\ attempted \in Seq(EncComponents) /\ closeFailed \in BOOLEAN
    /\ IF broken THEN Stopped ELSE Working

LEMMA ProdIDType == ASSUME EncInv PROVE EffectiveProdID \in Texts
BY EncodedAssumption DEF EncInv, EncTypeOK, EffectiveProdID, Texts

LEMMA ListsOfComponents ==
    ASSUME NEW s \in Seq(EncComponents)
    PROVE  /\ IsList(s) /\ s \o << >> = s /\ Extends(s, s) /\ Extends(s, << >>)
           /\ \A c \in EncComponents : /\ Append(s, c) \in Seq(EncComponents)
                                       /\ Append(s, c) = s \o <<c>> /\ Extends(Append(s, c), s)
<1>1. IsList(s) /\ Len(s) \in Nat
  BY DEF IsList
<1>2. Extends(s, << >>)
  BY <1>1, EmptyList DEF Extends
<1>3. ASSUME NEW c \in EncComponents
      PROVE  Append(s, c) \in Seq(EncComponents) /\ Append(s, c) = s \o <<c>>
  OBVIOUS
<1> QED BY <1>1, <1>2, <1>3, ListConcat, ExtendsAppend

\* What the encoder is about to write stands behind the header.
LEMMA HeaderOnWire ==
    ASSUME EncInv, ~broken, ~closed
    PROVE  /\ PendingHeader \in Seq(GoodLines) /\ IsState(ParseRun(wire)) /\ IsList(wire)
           /\ Run(ParseRun(wire), PendingHeader) = Open(<<Root(HeaderProps(EffectiveProdID), acked)>>)
<1>1. Working /\ wire \in Seq(Lines) /\ EffectiveProdID \in Texts
  BY ProdIDType DEF EncInv
<1>2. IsState(ParseRun(wire)) /\ IsList(wire)
  BY <1>1, StartIsState, RunGrows, ParseRunIsRun DEF IsList
<1>3. CASE headerWritten
  <2>1. PendingHeader = << >>
    BY <1>3 DEF PendingHeader
  <2>2. ParseRun(wire) = Open(<<Root(HeaderProps(EffectiveProdID), acked)>>)
    BY <1>1, <1>3 DEF Working, Open
  <2>3. << >> \in Seq(GoodLines)
    OBVIOUS
  <2> QED BY <1>2, <2>1, <2>2, <2>3, RunEmpty
<1>4. CASE ~headerWritten
  <2>1. PendingHeader = HeaderLines(EffectiveProdID) /\ wire = << >> /\ acked = << >>
    BY <1>1, <1>4 DEF PendingHeader, Working
  <2>2. ParseRun(wire) = ParseStart
    BY <2>1, RunEmpty, ParseRunIsRun
  <2> QED BY <1>1, <1>2, <2>1, <2>2, RunHeader, EncodedAreLines
<1> QED BY <1>3, <1>4

LEMMA EncodeWhole ==
    ASSUME EncInv, ~broken, ~closed, NEW c \in EncComponents
    PROVE  /\ EncodeLines(c) \in Seq(GoodLines)
           /\ Run(ParseRun(wire), EncodeLines(c))
                = Open(<<Root(HeaderProps(EffectiveProdID), Append(acked, c))>>)
<1> DEFINE ps == HeaderProps(EffectiveProdID)
<1>1. c \in Components
  BY EncodedAssumption
<1>2. /\ PendingHeader \in Seq(GoodLines) /\ EncodeComponent(c) \in Seq(GoodLines)
      /\ EncodeLines(c) = PendingHeader \o EncodeComponent(c)
      /\ Run(ParseRun(wire), PendingHeader) = Open(<<Root(ps, acked)>>)
  BY <1>1, HeaderOnWire, EncodedAreLines DEF EncodeLines
<1>3. Run(Open(<<Root(ps, acked)>>), EncodeComponent(c)) = Open(<<AddSub(Root(ps, acked), c)>>)
  <2>1. Run(Open(Append(<< >>, Root(ps, acked))), EncodeComponent(c))
          = Open(Append(<< >>, AddSub(Root(ps, acked), c)))
    BY <1>1, EmptyList, EncodedComponent
  <2> QED BY <2>1, RootOnly, EmptyList
<1>4. AddSub(Root(ps, acked), c) = Root(ps, Append(acked, c))
  BY AddSubElement DEF Root
<1> HIDE DEF ps
<1>5. Run(ParseRun(wire), PendingHeader \o EncodeComponent(c)) = Run(Open(<<Root(ps, acked)>>), EncodeComponent(c))
  <2>1. IsList(PendingHeader) /\ IsList(EncodeComponent(c))
    BY <1>2 DEF IsList
  <2> QED BY <1>2, <2>1, RunConcat
<1> QED BY <1>2, <1>3, <1>4, <1>5 DEF ps

LEMMA CloseWhole ==
    ASSUME EncInv, ~broken, ~closed
    PROVE  /\ CloseLines \in Seq(GoodLines)
           /\ Run(ParseRun(wire), CloseLines)
                = [phase |-> "done", stack |-> <<Root(HeaderProps(EffectiveProdID), acked)>>]
<1> DEFINE root == Root(HeaderProps(EffectiveProdID), acked)
<1>1. /\ PendingHeader \in Seq(GoodLines) /\ <<End(Calendar)>> \in Seq(GoodLines)
      /\ CloseLines = PendingHeader \o <<End(Calendar)>>
      /\ Run(ParseRun(wire), PendingHeader) = Open(<<root>>)
  BY HeaderOnWire, EncodedAreLines DEF CloseLines
<1>2. root.type = Calendar
  BY DEF Root, Element
<1> HIDE DEF root
<1>3. Run(Open(<<root>>), <<End(Calendar)>>) = [phase |-> "done", stack |-> <<root>>]
  BY <1>2, RunLine, StepEndRoot
<1>4. Run(ParseRun(wire), PendingHeader \o <<End(Calendar)>>) = Run(Open(<<root>>), <<End(Calendar)>>)
  <2>1. IsList(PendingHeader) /\ IsList(<<End(Calendar)>>)
    BY <1>1 DEF IsList
  <2> QED BY <1>1, <2>1, RunConcat
<1> QED BY <1>1, <1>3, <1>4 DEF root

\* A write that succeeds.
LEMMA Written ==
    ASSUME wire \in Seq(Lines), NEW lines \in Seq(GoodLines), WriteOK(lines)
    PROVE  /\ ~broken /\ UNCHANGED broken /\ wire' \in Seq(Lines)
           /\ ParseRun(wire)' = Run(ParseRun(wire), lines)
           /\ \E more \in Seq(Lines) : wire' = wire \o more
<1>1. lines \in Seq(Lines) /\ wire' = wire \o lines /\ ~broken /\ UNCHANGED broken
  BY DEF WriteOK, GoodLines
<1>2. IsList(wire) /\ IsList(lines)
  BY <1>1 DEF IsList
<1>3. ParseRun(wire)' = ParseRun(wire \o lines)
  BY <1>1 DEF ParseRun
<1>4. ParseRun(wire \o lines) = Run(ParseRun(wire), lines)
  BY <1>2, RunConcat, ParseRunIsRun
<1> QED BY <1>1, <1>3, <1>4

\* A write that fails, the first one.
LEMMA NotWritten ==
    ASSUME wire \in Seq(Lines), IsState(ParseRun(wire)), NEW lines \in Seq(GoodLines), WriteFails(lines), ~broken,
           NEW whole, whole = Run(ParseRun(wire), lines), whole.phase # "error",
           NEW got, got = ParseRun(wire)'
    PROVE  /\ broken' = TRUE /\ wire' \in Seq(Lines)
           /\ \E more \in Seq(Lines) : wire' = wire \o more
           /\ IsState(got) /\ Grown(got, ParseRun(wire))
           /\ got.phase = "done" => whole.phase = "done"
           /\ got.stack # << >> => /\ whole.stack # << >>
                                  /\ Extends(whole.stack[1].sub, got.stack[1].sub)
<1>0. lines \in Seq(Lines) /\ IsList(wire) /\ IsList(lines) /\ Len(lines) \in Nat
  BY DEF GoodLines, IsList
<1>1. PICK k \in 0 .. Len(lines) :
         \/ wire' = wire \o SubSeq(lines, 1, k)
         \/ /\ k < Len(lines)
            /\ \E t \in Torn(lines[k + 1]) : wire' = Append(wire \o SubSeq(lines, 1, k), t)
  BY DEF WriteFails
<1> DEFINE part == SubSeq(lines, 1, k)
<1>2. part \in Seq(Lines) /\ IsList(part)
  <2>1. k \in Nat /\ k <= Len(lines) /\ 1 \in Nat \ {0}
    BY <1>0
  <2>2. part \in Seq(Lines)
    BY <1>0, <2>1, PartType
  <2> QED BY <2>2 DEF IsList
<1>3. Run(ParseStart, wire \o part) = Run(ParseRun(wire), part) /\ IsList(wire \o part)
  BY <1>0, <1>2, RunConcat, ListConcat, ParseRunIsRun
<1>4. got = ParseRun(wire')
  BY DEF ParseRun
<1>5. /\ \/ got = Run(ParseRun(wire), part)
         \/ /\ k < Len(lines)
            /\ \E t \in Torn(lines[k + 1]) : got = ParseStep(Run(ParseRun(wire), part), t)
      /\ \E more \in Seq(Lines) : wire' = wire \o more
  <2>1. CASE wire' = wire \o part
    <3> HIDE DEF part
    <3> QED BY <1>2, <1>3, <1>4, <2>1, ParseRunIsRun
  <2>2. CASE k < Len(lines) /\ \E t \in Torn(lines[k + 1]) : wire' = Append(wire \o part, t)
    <3>1. PICK t \in Torn(lines[k + 1]) : wire' = Append(wire \o part, t)
      BY <2>2
    <3>2. t \in Lines
      <4>1. lines[k + 1] \in GoodLines
        BY <1>0, <2>2
      <4> QED BY <4>1, TornIsLine
    <3> HIDE DEF part
    <3>3. Run(ParseStart, Append(wire \o part, t)) = ParseStep(Run(ParseRun(wire), part), t)
      BY <1>3, RunAppend
    <3>4. Append(wire \o part, t) = wire \o Append(part, t) /\ Append(part, t) \in Seq(Lines)
      BY <1>0, <1>2, <3>2, ConcatAppend
    <3> QED BY <1>4, <2>2, <3>1, <3>3, <3>4, ParseRunIsRun
  <2> QED BY <1>1, <2>1, <2>2
<1>6. wire' \in Seq(Lines) /\ broken' = TRUE
  BY <1>5 DEF WriteFails
<1>7. /\ IsState(got) /\ Grown(got, ParseRun(wire))
      /\ got.phase = "done" => whole.phase = "done"
      /\ got.stack # << >> => whole.stack # << >> /\ Extends(whole.stack[1].sub, got.stack[1].sub)
  <2> DEFINE st == ParseRun(wire)
  <2>1. /\ IsState(st) /\ whole = Run(st, lines)
        /\ \/ got = Run(st, SubSeq(lines, 1, k))
           \/ /\ k < Len(lines)
              /\ \E t \in Torn(lines[k + 1]) : got = ParseStep(Run(st, SubSeq(lines, 1, k)), t)
    BY <1>5
  <2> HIDE DEF st
  <2>2. /\ IsState(got) /\ Grown(got, st)
        /\ got.phase = "done" => whole.phase = "done"
        /\ got.stack # << >> => whole.stack # << >> /\ Extends(whole.stack[1].sub, got.stack[1].sub)
    BY <2>1, CutOff
  <2> QED BY <2>2 DEF st
<1> QED BY <1>5, <1>6, <1>7
LEMMA OnWire == ASSUME wire \in Seq(Lines) PROVE IsState(ParseRun(wire)) /\ IsList(wire) /\ Len(wire) \in Nat
BY StartIsState, RunGrows, ParseRunIsRun DEF IsList

LEMMA FirstFailure ==
    ASSUME EncInv, ~broken, NEW lines \in Seq(GoodLines), WriteFails(lines),
           NEW whole, whole = Run(ParseRun(wire), lines), whole.phase # "error",
           NEW most, whole.stack # << >> => whole.stack[1].sub = most,
           NEW got, got = ParseRun(wire)'
    PROVE  /\ broken' = TRUE /\ wire' \in Seq(Lines)
           /\ \E more \in Seq(Lines) : wire' = wire \o more
           /\ got.phase = "done" => whole.phase = "done"
           /\ acked # << >> => got.stack # << >>
           /\ Between(got, acked, most)
<1> DEFINE st == ParseRun(wire)
<1>0. wire \in Seq(Lines) /\ Working /\ acked \in Seq(EncComponents)
  BY DEF EncInv, EncTypeOK
<1>1. IsState(st)
  BY <1>0, OnWire
<1>2. /\ broken' = TRUE /\ wire' \in Seq(Lines)
      /\ \E more \in Seq(Lines) : wire' = wire \o more
      /\ IsState(got) /\ Grown(got, st)
      /\ got.phase = "done" => whole.phase = "done"
      /\ got.stack # << >> => whole.stack # << >> /\ Extends(whole.stack[1].sub, got.stack[1].sub)
  BY <1>0, <1>1, NotWritten
<1>3. CASE headerWritten
  <2> DEFINE root == Root(HeaderProps(EffectiveProdID), acked)
  <2>1. root.sub = acked
    BY DEF Root, Element
  <2> HIDE DEF root
  <2>2. st.stack = <<root>>
    <3>1. st = [phase |-> IF closed THEN "done" ELSE "block", stack |-> <<root>>]
      BY <1>0, <1>3 DEF Working, root
    <3> HIDE DEF st
    <3> QED BY <3>1
  <2> HIDE DEF st
  <2>3. st.stack # << >> /\ st.stack[1].sub = acked
    BY <2>1, <2>2
  <2>4. got.stack # << >> /\ Extends(got.stack[1].sub, acked)
    BY <1>2, <2>3 DEF Grown
  <2> QED BY <1>2, <2>4 DEF Between
<1>4. CASE ~headerWritten
  <2>1. acked = << >>
    BY <1>0, <1>4 DEF Working
  <2>2. got.stack # << >> => Extends(got.stack[1].sub, << >>)
    <3> SUFFICES ASSUME got.stack # << >> PROVE Extends(got.stack[1].sub, << >>)
      OBVIOUS
    <3> DEFINE s == got.stack[1].sub
    <3>1. IsList(s)
      BY <1>2, SubIsList
    <3> HIDE DEF s
    <3>2. Len(s) \in Nat
      BY <3>1, ListType
    <3>3. Extends(s, << >>)
      BY <3>2, EmptyList DEF Extends
    <3> QED BY <3>3 DEF s
  <2> QED BY <1>2, <2>1, <2>2 DEF Between
<1> QED BY <1>3, <1>4

\* What is left to show of a step of the encoder.
Growing == \E more \in Seq(Lines) : wire' = wire \o more

LEMMA StaysOnWire == ASSUME wire \in Seq(Lines), UNCHANGED wire PROVE Growing
<1>1. wire \o << >> = wire /\ << >> \in Seq(Lines)
  OBVIOUS
<1> QED BY <1>1 DEF Growing

LEMMA RefuseKeeps ==
    ASSUME EncInv, NEW err \in {"ErrHeaderLocked", "ErrAlreadyClosed"}, Refuse(err)
    PROVE  EncInv' /\ Growing
<1>1. UNCHANGED <<wire, broken, encHeader, headerWritten, closed, acked, attempted, headerAck, closeFailed>>
      /\ encResult' = err
  BY DEF Refuse, encHistory
<1>2. ParseRun(wire)' = ParseRun(wire) /\ EffectiveProdID' = EffectiveProdID
  BY <1>1 DEF EffectiveProdID, ParseRun
<1>3. EncTypeOK' /\ wire' \in Seq(Lines) /\ attempted' \in Seq(EncComponents) /\ closeFailed' \in BOOLEAN
  BY <1>1 DEF EncInv, EncTypeOK
<1>4. IF broken' THEN Stopped' ELSE Working'
  <2>1. CASE broken
    BY <1>1, <1>2, <2>1 DEF EncInv, Stopped, Between
  <2>2. CASE ~broken
    BY <1>1, <1>2, <2>2 DEF EncInv, Working
  <2> QED BY <1>1, <2>1, <2>2
<1> QED BY <1>1, <1>3, <1>4, StaysOnWire DEF EncInv

LEMMA SetHeaderKeeps ==
    ASSUME EncInv, NEW p \in ProdIDs, SetHeader(p) PROVE EncInv' /\ Growing
<1>1. CASE headerWritten
  BY <1>1, RefuseKeeps DEF SetHeader
<1>2. CASE ~headerWritten
  <2>1. /\ encHeader' = p /\ headerAck' = p /\ encResult' = "nil"
        /\ UNCHANGED <<wire, broken, headerWritten, closed, acked, attempted, closeFailed>>
    BY <1>2 DEF SetHeader
  <2>2. ~broken /\ Working
    BY <1>2 DEF EncInv, Stopped
  <2>3. Working'
    BY <1>2, <2>1, <2>2 DEF Working
  <2>4. EncTypeOK' /\ wire' \in Seq(Lines) /\ attempted' \in Seq(EncComponents) /\ closeFailed' \in BOOLEAN
    BY <2>1 DEF EncInv, EncTypeOK
  <2> QED BY <2>1, <2>2, <2>3, <2>4, StaysOnWire DEF EncInv
<1> QED BY <1>1, <1>2

\* A write that fails after the first one changes nothing.
LEMMA FailsAgain ==
    ASSUME EncInv, broken, NEW lines, WriteFails(lines), encResult' = "error", HeaderWritten,
           UNCHANGED <<closed, encHeader, acked, attempted, closeFailed>>
    PROVE  EncInv' /\ Growing
<1>1. broken' = TRUE /\ UNCHANGED wire /\ headerWritten' = TRUE
  BY DEF WriteFails, HeaderWritten
<1>2. ParseRun(wire)' = ParseRun(wire)
  BY <1>1 DEF ParseRun
<1>3. Stopped'
  BY <1>1, <1>2 DEF EncInv, Stopped, Between
<1>4. EncTypeOK' /\ wire' \in Seq(Lines) /\ attempted' \in Seq(EncComponents) /\ closeFailed' \in BOOLEAN
  BY <1>1 DEF EncInv, EncTypeOK
<1> QED BY <1>1, <1>3, <1>4, StaysOnWire DEF EncInv

LEMMA EncodeKeeps ==
    ASSUME EncInv, NEW c \in EncComponents, Encode(c) PROVE EncInv' /\ Growing
<1>0. PICK lines : lines = EncodeLines(c)
  OBVIOUS
<1>1. CASE closed
  BY <1>1, RefuseKeeps DEF Encode
<1> DEFINE root == Root(HeaderProps(EffectiveProdID), Append(acked, c))
<1>2. ASSUME ~closed, ~broken
      PROVE  lines \in Seq(GoodLines) /\ Run(ParseRun(wire), lines) = Open(<<root>>)
  BY <1>0, <1>2, EncodeWhole
<1>3. root.sub = Append(acked, c)
  BY DEF Root, Element
<1>4. wire \in Seq(Lines) /\ acked \in Seq(EncComponents) /\ attempted \in Seq(EncComponents)
  BY DEF EncInv, EncTypeOK
<1>5. Append(acked, c) \in Seq(EncComponents) /\ Append(acked, c) = acked \o <<c>>
  BY <1>4, ListsOfComponents
<1>6. CASE ~closed /\ WriteOK(lines) /\ EncodeOutcome(c, TRUE)
  <2>1. /\ headerWritten' = TRUE /\ UNCHANGED <<encHeader, closed, headerAck, closeFailed, attempted>>
        /\ encResult' = "nil" /\ acked' = Append(acked, c) /\ ~broken /\ UNCHANGED broken
    BY <1>6 DEF Encode, HeaderWritten, EncodeOutcome, WriteOK
  <2>2. /\ wire' \in Seq(Lines) /\ Growing /\ ParseRun(wire)' = Open(<<root>>)
    BY <1>2, <1>4, <1>6, <2>1, Written DEF Growing
  <2>3. EffectiveProdID' = EffectiveProdID
    BY <2>1 DEF EffectiveProdID
  <2>4. Working'
    <3>1. Working
      BY <2>1 DEF EncInv
    <3> QED BY <1>6, <2>1, <2>2, <2>3, <3>1 DEF Working, Open
  <2>5. EncTypeOK' /\ attempted' \in Seq(EncComponents) /\ closeFailed' \in BOOLEAN
    BY <1>5, <2>1 DEF EncInv, EncTypeOK
  <2> QED BY <2>1, <2>2, <2>4, <2>5 DEF EncInv
<1>7. CASE ~closed /\ WriteFails(lines) /\ EncodeOutcome(c, FALSE)
  <2>1. /\ HeaderWritten /\ headerWritten' = TRUE
        /\ UNCHANGED <<encHeader, closed, headerAck, closeFailed, acked>>
        /\ encResult' = "error" /\ attempted' = IF broken THEN attempted ELSE <<c>>
    BY <1>7 DEF Encode, HeaderWritten, EncodeOutcome
  <2>2. CASE broken
    BY <1>7, <2>1, <2>2, FailsAgain
  <2>3. CASE ~broken
    <3> DEFINE whole == Open(<<root>>)
    <3>1. whole.phase = "block" /\ whole.stack = <<root>>
      BY DEF Open
    <3> HIDE DEF root
    <3>2. whole.stack[1].sub = Append(acked, c)
      BY <1>3, <3>1
    <3>3. lines \in Seq(GoodLines) /\ whole = Run(ParseRun(wire), lines) /\ WriteFails(lines)
      BY <1>2, <1>7, <2>3
    <3> HIDE DEF whole
    <3>4. /\ broken' = TRUE /\ wire' \in Seq(Lines) /\ Growing
          /\ ParseRun(wire)'.phase # "done"
          /\ acked # << >> => ParseRun(wire)'.stack # << >>
          /\ Between(ParseRun(wire)', acked, Append(acked, c))
      BY <2>3, <3>1, <3>2, <3>3, FirstFailure DEF Growing
    <3>5. attempted' = <<c>> /\ <<c>> \in Seq(EncComponents) /\ Len(<<c>>) = 1 /\ closeFailed = FALSE
      BY <2>1, <2>3 DEF EncInv, Working
    <3>6. Stopped'
      BY <1>5, <1>7, <2>1, <3>4, <3>5 DEF Stopped, Between
    <3>7. EncTypeOK' /\ closeFailed' \in BOOLEAN
      <4>1. Len(attempted') <= 1
        BY <3>5
      <4> QED BY <1>7, <2>1, <3>4, <3>5, <4>1 DEF EncInv, EncTypeOK
    <3>8. attempted' \in Seq(EncComponents)
      BY <3>5
    <3> QED BY <3>4, <3>6, <3>7, <3>8 DEF EncInv
  <2> QED BY <2>2, <2>3
<1> QED BY <1>0, <1>1, <1>6, <1>7 DEF Encode

LEMMA CloseKeeps == ASSUME EncInv, Close PROVE EncInv' /\ Growing
<1>0. PICK lines : lines = CloseLines
  OBVIOUS
<1>1. CASE closed
  BY <1>1, RefuseKeeps DEF Close
<1> DEFINE root  == Root(HeaderProps(EffectiveProdID), acked)
           whole == [phase |-> "done", stack |-> <<root>>]
<1>2. ASSUME ~closed, ~broken
      PROVE  lines \in Seq(GoodLines) /\ Run(ParseRun(wire), lines) = whole
  BY <1>0, <1>2, CloseWhole
<1>3. root.sub = acked
  BY DEF Root, Element
<1>4. wire \in Seq(Lines) /\ acked \in Seq(EncComponents) /\ acked \o << >> = acked
  BY ListsOfComponents DEF EncInv, EncTypeOK
<1>5. CASE ~closed /\ WriteOK(lines) /\ closed' = TRUE /\ encResult' = "nil" /\ UNCHANGED closeFailed
  <2>1. /\ headerWritten' = TRUE /\ UNCHANGED <<encHeader, acked, attempted, headerAck>>
        /\ ~broken /\ UNCHANGED broken
    BY <1>5 DEF Close, CloseWrites, HeaderWritten, WriteOK
  <2>2. /\ wire' \in Seq(Lines) /\ Growing /\ ParseRun(wire)' = whole
    BY <1>2, <1>4, <1>5, <2>1, Written DEF Growing
  <2>3. EffectiveProdID' = EffectiveProdID
    BY <2>1 DEF EffectiveProdID
  <2>4. Working'
    <3>1. Working
      BY <2>1 DEF EncInv
    <3> QED BY <1>5, <2>1, <2>2, <2>3, <3>1 DEF Working
  <2>5. EncTypeOK' /\ attempted' \in Seq(EncComponents) /\ closeFailed' \in BOOLEAN
    BY <1>5, <2>1 DEF EncInv, EncTypeOK
  <2> QED BY <2>1, <2>2, <2>4, <2>5 DEF EncInv
<1>6. CASE /\ ~closed /\ WriteFails(lines) /\ UNCHANGED closed /\ encResult' = "error"
           /\ closeFailed' = (closeFailed \/ ~broken)
  <2>1. HeaderWritten /\ headerWritten' = TRUE /\ UNCHANGED <<encHeader, acked, attempted, headerAck>>
    BY <1>6 DEF Close, CloseWrites, HeaderWritten
  <2>2. CASE broken
    <3>1. closeFailed' = closeFailed
      BY <1>6, <2>2 DEF EncInv
    <3> QED BY <1>6, <2>1, <2>2, <3>1, FailsAgain
  <2>3. CASE ~broken
    <3>1. whole.phase = "done" /\ whole.stack = <<root>>
      OBVIOUS
    <3> HIDE DEF root
    <3>2. whole.stack[1].sub = acked
      BY <1>3, <3>1
    <3>3. lines \in Seq(GoodLines) /\ whole = Run(ParseRun(wire), lines) /\ WriteFails(lines)
      BY <1>2, <1>6, <2>3
    <3> HIDE DEF whole
    <3>4. /\ broken' = TRUE /\ wire' \in Seq(Lines) /\ Growing
          /\ acked # << >> => ParseRun(wire)'.stack # << >>
          /\ Between(ParseRun(wire)', acked, acked)
      BY <2>3, <3>1, <3>2, <3>3, FirstFailure DEF Growing
    <3>5. attempted' = << >> /\ closeFailed' = TRUE
      BY <1>6, <2>1, <2>3 DEF EncInv, Working
    <3>6. Stopped'
      BY <1>4, <1>6, <2>1, <3>4, <3>5 DEF Stopped, Between
    <3>7. EncTypeOK' /\ attempted' \in Seq(EncComponents)
      BY <1>6, <2>1, <3>4, <3>5 DEF EncInv, EncTypeOK
    <3> QED BY <3>4, <3>5, <3>6, <3>7 DEF EncInv
  <2> QED BY <2>2, <2>3
<1> QED BY <1>0, <1>1, <1>5, <1>6 DEF Close, CloseWrites

LEMMA EncKept == EncInv /\ [EncNext]_encVars => EncInv' /\ Growing
<1> SUFFICES ASSUME EncInv, [EncNext]_encVars PROVE EncInv' /\ Growing
  OBVIOUS
<1>1. CASE UNCHANGED encVars
  <2>1. UNCHANGED <<wire, broken, encHeader, headerWritten, closed, encResult, acked, attempted,
                    headerAck, closeFailed>>
    BY <1>1 DEF encVars, encHistory
  <2>2. ParseRun(wire)' = ParseRun(wire) /\ EffectiveProdID' = EffectiveProdID
    BY <2>1 DEF EffectiveProdID, ParseRun
  <2>3. EncTypeOK' /\ wire' \in Seq(Lines) /\ attempted' \in Seq(EncComponents) /\ closeFailed' \in BOOLEAN
    BY <2>1 DEF EncInv, EncTypeOK
  <2>4. IF broken' THEN Stopped' ELSE Working'
    <3>1. CASE broken
      BY <2>1, <2>2, <3>1 DEF EncInv, Stopped, Between
    <3>2. CASE ~broken
      BY <2>1, <2>2, <3>2 DEF EncInv, Working
    <3> QED BY <2>1, <3>1, <3>2
  <2>5. Growing
    BY <2>1, StaysOnWire DEF EncInv
  <2> QED BY <2>3, <2>4, <2>5 DEF EncInv
<1> QED BY <1>1, SetHeaderKeeps, EncodeKeeps, CloseKeeps DEF EncNext

LEMMA EncStarts == EncInit => EncInv
<1> SUFFICES ASSUME EncInit PROVE EncInv
  OBVIOUS
<1>1. << >> \in Seq(EncComponents) /\ << >> \in Seq(Lines) /\ Len(<< >>) = 0
  OBVIOUS
<1>2. EncTypeOK
  <2>1. acked \in Seq(EncComponents) /\ Len(attempted) <= 1
    <3>1. acked = << >> /\ attempted = << >>
      BY DEF EncInit
    <3> QED BY <1>1, <3>1
  <2> QED BY <2>1 DEF EncInit, EncTypeOK
<1>3. Working
  BY DEF EncInit, Working
<1> QED BY <1>1, <1>2, <1>3 DEF EncInit, EncInv
LEMMA WireInvariant ==
    PipeInit /\ [][PipeNext]_pipeVars => []EncInv
<1>1. PipeInit => EncInv
  BY EncStarts DEF PipeInit
<1>2. EncInv /\ [PipeNext]_pipeVars => EncInv'
  <2> SUFFICES ASSUME EncInv, [PipeNext]_pipeVars PROVE EncInv'
    OBVIOUS
  <2>1. [EncNext]_encVars
    BY DEF PipeNext, pipeVars, Produce, CloseWriter, Transfer, Consume1, Consume2
  <2> QED BY <2>1, EncKept
<1> QED BY <1>1, <1>2, PTL

LEMMA ClosedWire == ASSUME EncInv PROVE ClosedIsComplete
<1>1. CASE closed
  <2> DEFINE p    == EffectiveProdID
             root == Root(HeaderProps(p), acked)
  <2>1. Working /\ headerWritten
    BY <1>1 DEF EncInv, Stopped, Working
  <2>2. ParseRun(wire) = [phase |-> "done", stack |-> <<root>>]
    BY <1>1, <2>1 DEF Working
  <2>3. p = IF headerAck = "" THEN DefaultProdID ELSE headerAck
    BY <2>1 DEF Working, EffectiveProdID
  <2>4. p \in Texts
    BY ProdIDType
  <2> HIDE DEF p
  <2>5. VersionsOK(root) /\ RootProdID(root) = p
    BY <2>4, HeaderIsRead
  <2>6. root.sub = acked
    BY DEF Root, Element
  <2> HIDE DEF root
  <2>7. ParseRun(wire).phase = "done" /\ ParseRun(wire).stack[1] = root
    BY <2>2
  <2>8. Accepts(wire) /\ Parsed(wire) = [prodid |-> p, components |-> acked]
    BY <2>5, <2>6, <2>7 DEF Accepts, Parsed
  <2> QED BY <1>1, <2>3, <2>8 DEF ClosedIsComplete
<1>2. CASE ~closed
  <2> SUFFICES ASSUME Accepts(wire) PROVE closeFailed
    BY <1>2 DEF ClosedIsComplete
  <2>1. ParseRun(wire).phase = "done"
    BY DEF Accepts
  <2>2. broken
    <3> SUFFICES ASSUME ~broken PROVE FALSE
      OBVIOUS
    <3>1. Working
      BY DEF EncInv
    <3>2. CASE headerWritten
      <4>1. ParseRun(wire).phase = "block"
        BY <1>2, <3>1, <3>2 DEF Working
      <4> QED BY <2>1, <4>1
    <3>3. CASE ~headerWritten
      <4>1. ParseRun(wire) = ParseStart /\ ParseStart.phase = "first"
        BY <3>1, <3>3, RunEmpty, ParseRunIsRun DEF Working, ParseStart
      <4> QED BY <2>1, <4>1
    <3> QED BY <3>2, <3>3
  <2> QED BY <2>1, <2>2 DEF EncInv, Stopped
<1> QED BY <1>1, <1>2

\* The components of the calendar on the wire, if there is one.
LEMMA OnTheWire ==
    ASSUME EncInv
    PROVE  LET st == ParseRun(wire)
           IN  /\ IsState(st) /\ IsList(acked) /\ IsList(acked \o attempted)
               /\ acked # << >> => st.stack # << >>
               /\ Between(st, acked, acked \o attempted)
               /\ st.stack # << >> => IsList(st.stack[1].sub)
               /\ ~broken /\ st.stack # << >> => st.stack[1].sub = acked
<1> DEFINE st == ParseRun(wire)
<1>1. IsState(st)
  BY OnWire DEF EncInv
<1>2. acked \in Seq(EncComponents) /\ attempted \in Seq(EncComponents)
  BY DEF EncInv, EncTypeOK
<1>3. IsList(acked) /\ IsList(acked \o attempted) /\ acked \o << >> = acked /\ Extends(acked, acked)
  BY <1>2, ListsOfComponents, ListConcat
<1>4. st.stack # << >> => IsList(st.stack[1].sub)
  BY <1>1, SubIsList
<1>5. CASE broken
  <2>1. Stopped
    BY <1>5 DEF EncInv
  <2> QED BY <1>1, <1>3, <1>4, <1>5, <2>1 DEF Stopped
<1>6. CASE ~broken
  <2>1. Working
    BY <1>6 DEF EncInv
  <2>2. acked \o attempted = acked
    BY <1>3, <2>1 DEF Working
  <2>3. CASE headerWritten
    <3> DEFINE root == Root(HeaderProps(EffectiveProdID), acked)
    <3>1. st.stack = <<root>>
      <4>1. st = [phase |-> IF closed THEN "done" ELSE "block", stack |-> <<root>>]
        BY <2>1, <2>3 DEF Working
      <4> HIDE DEF st
      <4> QED BY <4>1
    <3>2. root.sub = acked
      BY DEF Root, Element
    <3> HIDE DEF root
    <3>3. st.stack # << >> /\ st.stack[1].sub = acked
      BY <3>1, <3>2
    <3>4. Between(st, acked, acked \o attempted)
      BY <1>3, <2>2, <3>3 DEF Between
    <3> QED BY <1>1, <1>3, <1>4, <3>3, <3>4
  <2>4. CASE ~headerWritten
    <3>1. wire = << >> /\ acked = << >>
      BY <2>1, <2>4 DEF Working
    <3>2. st = ParseStart /\ ParseStart.stack = << >>
      BY <3>1, RunEmpty, ParseRunIsRun DEF ParseStart
    <3> QED BY <1>1, <1>3, <1>4, <3>1, <3>2 DEF Between
  <2> QED BY <2>3, <2>4
<1> QED BY <1>5, <1>6

\* Whatever is encoded and wherever the writer fails, for components of any size and any
\* number of calls: a closed encoder has left a calendar that the batch parser accepts, with
\* the components acknowledged and the PRODID, and a wire that the batch parser accepts is one
\* that the producer asked to be closed.
THEOREM WrittenIsComplete == PipeSpec => []ClosedIsComplete
BY WireInvariant, ClosedWire, PTL DEF PipeSpec

\* Nor is a component lost whose Encode returned nil: it is on the wire, in order, whatever
\* fails later, and beyond them there is at most the one whose Encode failed.
THEOREM AcknowledgedIsOnWire == PipeSpec => []AckedIsOnWire
<1>1. EncInv => AckedIsOnWire
  <2> SUFFICES ASSUME EncInv, acked # << >>
               PROVE  LET st == ParseRun(wire)
                      IN  /\ st.stack # << >>
                          /\ IsPrefix(acked, st.stack[1].sub)
                          /\ IsPrefix(st.stack[1].sub, acked \o attempted)
    BY DEF AckedIsOnWire, EncInv
  <2> DEFINE st == ParseRun(wire)
  <2>1. /\ IsList(acked) /\ IsList(acked \o attempted) /\ IsList(st.stack[1].sub) /\ st.stack # << >>
        /\ Extends(st.stack[1].sub, acked) /\ Extends(acked \o attempted, st.stack[1].sub)
    BY OnTheWire DEF Between
  <2> HIDE DEF st
  <2>2. IsPrefix(acked, st.stack[1].sub) /\ IsPrefix(st.stack[1].sub, acked \o attempted)
    BY <2>1, ExtendsIsPrefix
  <2> QED BY <2>1, <2>2 DEF st
<1> QED BY <1>1, WireInvariant, PTL DEF PipeSpec
-----------------------------------------------------------------------------
(* The two ends.                                                           *)

\* The pipe has delivered some of the wire.
Delivered == Extends(wire, input)

\* The consumer calls Next until it fails.
ClientStops ==
    /\ caller = "Next" /\ swallowed = NoError
    /\ failure.error # NoError => pc = "idle" /\ result # "EOF"

\* What was yielded is on the wire. (As long as nothing has failed, this is because the
\* parser is in lock step.)
OnWireToo ==
    LET st == ParseRun(wire)
    IN  yielded # << >> => st.stack # << >> /\ Extends(st.stack[1].sub, yielded)

Received == failure.error # NoError => OnWireToo

PInv == EncInv /\ Typed /\ IInv /\ LInv /\ Delivered /\ ClientStops /\ Received

\* Two lists that agree on their first n elements.
LEMMA SameStart ==
    ASSUME NEW s, NEW t, IsList(s), IsList(t), NEW n \in Nat, n <= Len(s), n <= Len(t),
           \A i \in 1 .. n : s[i] = t[i]
    PROVE  SubSeq(s, 1, n) = SubSeq(t, 1, n)
<1> DEFINE a == SubSeq(s, 1, n)
           b == SubSeq(t, 1, n)
<1>1. 1 \in Nat \ {0} /\ 1 <= n + 1 /\ n - 1 + 1 = n /\ \A i \in 1 .. n : 1 + i - 1 = i
  OBVIOUS
<1>2. /\ IsList(a) /\ Len(a) = n - 1 + 1 /\ \A i \in 1 .. n - 1 + 1 : a[i] = s[1 + i - 1]
  BY <1>1, ListPart
<1>3. /\ IsList(b) /\ Len(b) = n - 1 + 1 /\ \A i \in 1 .. n - 1 + 1 : b[i] = t[1 + i - 1]
  BY <1>1, ListPart
<1> HIDE DEF a, b
<1>4. Len(a) = n /\ Len(b) = n /\ \A i \in 1 .. n : a[i] = s[i] /\ b[i] = t[i]
  BY <1>1, <1>2, <1>3
<1>5. a = b
  BY <1>2, <1>3, <1>4, ListEqual
<1> QED BY <1>5 DEF a, b

LEMMA TakenOnWire ==
    ASSUME IInv, Delivered, wire \in Seq(Lines)
    PROVE  /\ Taken \in Seq(Lines)
           /\ \E rest \in Seq(Lines) : wire = Taken \o rest
<1> DEFINE n == IF pending = NoLine THEN pos ELSE pos - 1
<1>1. /\ n \in Nat /\ n <= Len(input) /\ Len(input) \in Nat /\ Len(wire) \in Nat
      /\ Len(input) <= Len(wire) /\ \A i \in 1 .. Len(input) : wire[i] = input[i]
      /\ IsList(input) /\ IsList(wire) /\ input \in Seq(Lines)
  BY OnWire DEF IInv, AtLine, PeekedIsLast, Delivered, Extends, IsList
<1>2. Taken = SubSeq(input, 1, n)
  BY DEF Taken
<1> HIDE DEF n
<1>3. 1 \in Nat \ {0} /\ 1 <= n + 1 /\ n <= Len(wire) /\ n - 1 + 1 = n /\ n \in 0 .. Len(wire)
  BY <1>1
<1>4. Taken \in Seq(Lines)
  BY <1>1, <1>2, <1>3, PartType
<1>5. SubSeq(input, 1, n) = SubSeq(wire, 1, n)
  <2>1. \A i \in 1 .. n : input[i] = wire[i]
    BY <1>1
  <2> QED BY <1>1, <1>3, <2>1, SameStart
<1>6. /\ wire = SubSeq(wire, 1, n) \o SubSeq(wire, n + 1, Len(wire))
      /\ SubSeq(wire, n + 1, Len(wire)) \in Seq(Lines)
  <2>1. n + 1 \in Nat \ {0}
    BY <1>1
  <2>2. SubSeq(wire, n + 1, Len(wire)) \in Seq(Lines)
    BY <1>1, <2>1, PartType
  <2> QED BY <1>3, <2>2, Split
<1> QED BY <1>2, <1>4, <1>5, <1>6

\* What the batch parser makes of the wire, as long as nothing has failed.
LEMMA WireState ==
    ASSUME Typed, IInv, InTime, Delivered, wire \in Seq(Lines)
    PROVE  /\ OnWireToo
           /\ done => /\ ParseRun(wire).phase = "done" /\ ParseRun(wire).stack # << >>
                      /\ ParseRun(wire).stack[1].sub = yielded
<1>1. CASE pos = 0
  <2>1. yielded = << >> /\ ~done
    BY <1>1 DEF InTime
  <2> QED BY <2>1 DEF OnWireToo
<1>2. CASE pos # 0
  <2>1. PICK ps : /\ IsList(ps)
                  /\ ParseRun(Taken) = [phase |-> IF done THEN "done" ELSE "block",
                                        stack |-> <<Root(ps, yielded)>> \o stack]
    BY <1>2 DEF InTime, Locked
  <2> DEFINE root == Root(ps, yielded)
             part == ParseRun(Taken)
             whole == ParseRun(wire)
             blocks == <<root>> \o stack
  <2>2. root.sub = yielded
    BY DEF Root, Element
  <2>3. part.phase = (IF done THEN "done" ELSE "block") /\ part.stack = blocks
    <3> HIDE DEF blocks, part
    <3>1. part = [phase |-> IF done THEN "done" ELSE "block", stack |-> blocks]
      BY <2>1 DEF part, blocks
    <3> QED BY <3>1
  <2> HIDE DEF root
  <2>4. blocks # << >> /\ blocks[1] = root
    <3>1. IsList(stack)
      BY DEF Typed
    <3>2. Len(blocks) = Len(<<root>>) + Len(stack) /\ Len(<<root>>) = 1 /\ Len(stack) \in Nat
      BY <3>1, ListConcat, SingleList, ListType
    <3>3. Len(blocks) # 0
      BY <3>2
    <3>4. blocks[1] = root
      BY <3>1, RootOnly
    <3> HIDE DEF blocks
    <3> QED BY <3>3, <3>4, EmptyList
  <2> HIDE DEF blocks
  <2>5. PICK rest \in Seq(Lines) : wire = Taken \o rest
    BY TakenOnWire
  <2>6. whole = Run(part, rest) /\ IsState(part)
    <3>1. Taken \in Seq(Lines) /\ IsList(Taken) /\ IsList(rest)
      BY <2>5, TakenOnWire DEF IsList
    <3>2. Run(ParseStart, Taken \o rest) = Run(Run(ParseStart, Taken), rest)
      BY <3>1, RunConcat
    <3>3. IsState(Run(ParseStart, Taken))
      BY <3>1, StartIsState, RunGrows
    <3> QED BY <2>5, <3>2, <3>3, ParseRunIsRun
  <2> HIDE DEF part, whole
  <2>7. Grown(whole, part) /\ (part.phase \in {"done", "error"} => whole = part)
    BY <2>5, <2>6, RunGrows
  <2>8. whole.stack # << >> /\ Extends(whole.stack[1].sub, yielded)
    BY <2>2, <2>3, <2>4, <2>7 DEF Grown
  <2>9. done => whole.phase = "done" /\ whole.stack[1].sub = yielded
    BY <2>2, <2>3, <2>4, <2>7
  <2> QED BY <2>8, <2>9 DEF OnWireToo, whole
<1> QED BY <1>1, <1>2

LEMMA PInvStarts == PipeInit => PInv
<1> SUFFICES ASSUME PipeInit PROVE PInv
  OBVIOUS
<1>1. InitParser /\ input = << >> /\ eof = FALSE /\ EncInv
  <2>1. InitParser /\ EncInit
    BY DEF PipeInit
  <2>2. EncInv
    BY <2>1, EncStarts
  <2>3. input = << >> /\ eof = FALSE
    BY DEF PipeInit
  <2> QED BY <2>1, <2>2, <2>3
<1>2. input \in Seq(Lines) /\ eof \in BOOLEAN
  <2>1. << >> \in Seq(Lines)
    OBVIOUS
  <2>2. input = << >> /\ eof = FALSE
    BY <1>1
  <2>3. input \in Seq(Lines)
    BY <2>1, <2>2
  <2> QED BY <2>2, <2>3
<1>3. Typed /\ IInv /\ LInv
  <2>1. InitParser
    BY <1>1
  <2> QED BY <1>2, <2>1, TypedStarts, IInvStarts, LockedStarts
<1>4. Delivered
  <2>1. Len(wire) \in Nat
    BY <1>1, OnWire DEF EncInv
  <2> QED BY <1>1, <2>1, EmptyList DEF Delivered, Extends
<1>5. caller = "Next" /\ swallowed = NoError /\ failure.error = NoError
  BY <1>1 DEF InitParser
<1> QED BY <1>1, <1>3, <1>4, <1>5 DEF PInv, ClientStops, Received

\* The producer adds to the wire.
LEMMA WireGrows ==
    ASSUME wire \in Seq(Lines), Growing, UNCHANGED <<input, yielded, failure>>, Delivered, Received, AtLine,
           IsList(yielded)
    PROVE  Delivered' /\ Received'
<1>1. PICK more \in Seq(Lines) : wire' = wire \o more
  BY DEF Growing
<1>2. IsList(wire) /\ IsList(more) /\ IsList(input)
  BY DEF IsList, AtLine
<1>3. Extends(wire \o more, wire) /\ IsList(wire \o more)
  <2>1. /\ IsList(wire \o more) /\ Len(wire \o more) = Len(wire) + Len(more)
        /\ \A i \in 1 .. Len(wire) : (wire \o more)[i] = wire[i]
    BY <1>2, ListConcat
  <2>2. Len(wire) \in Nat /\ Len(more) \in Nat
    BY <1>2, ListType
  <2> QED BY <2>1, <2>2 DEF Extends
<1>4. Delivered'
  <2>1. Extends(wire \o more, input)
    BY <1>2, <1>3, ExtendsTransitive DEF Delivered
  <2> QED BY <1>1, <2>1 DEF Delivered
<1>5. Received'
  <2> DEFINE st == ParseRun(wire)
             next == Run(st, more)
  <2>1. ParseRun(wire)' = next
    <3>1. ParseRun(wire)' = ParseRun(wire \o more)
      BY <1>1 DEF ParseRun
    <3>2. Run(ParseStart, wire \o more) = Run(Run(ParseStart, wire), more)
      BY <1>2, RunConcat
    <3> QED BY <3>1, <3>2, ParseRunIsRun
  <2>2. IsState(st)
    BY OnWire
  <2> HIDE DEF st
  <2>3. Grown(next, st) /\ IsState(next)
    BY <2>2, RunGrows
  <2> HIDE DEF next
  <2> SUFFICES ASSUME failure.error # NoError, yielded # << >>
               PROVE  next.stack # << >> /\ Extends(next.stack[1].sub, yielded)
    BY <2>1 DEF Received, OnWireToo
  <2>4. st.stack # << >> /\ Extends(st.stack[1].sub, yielded)
    BY DEF Received, OnWireToo, st
  <2>5. next.stack # << >> /\ Extends(next.stack[1].sub, st.stack[1].sub)
    BY <2>3, <2>4 DEF Grown
  <2>6. IsList(st.stack[1].sub) /\ IsList(next.stack[1].sub)
    BY <2>2, <2>3, <2>4, <2>5, SubIsList
  <2> QED BY <2>4, <2>5, <2>6, ExtendsTransitive
<1> QED BY <1>4, <1>5

\* The pipe delivers a line, or the end of the input.
LEMMA DeliveryKeeps ==
    ASSUME PInv, Transfer \/ CloseWriter PROVE PInv'
<1>1. /\ EncInv /\ Typed /\ IInv /\ LInv /\ Delivered /\ ClientStops /\ Received
      /\ UNCHANGED <<parserVars, encVars>>
  BY DEF PInv, Transfer, CloseWriter
<1>2. UNCHANGED <<pos, headerRead, prodid, pending, done, pc, caller, stack, result, yielded, failure,
                  swallowed, wire>>
  BY <1>1 DEF parserVars, fields, history, encVars
<1>3. /\ input' \in Seq(Lines) /\ eof' \in BOOLEAN /\ Len(input') \in Nat
      /\ Len(input) <= Len(input') /\ Len(input) \in Nat
      /\ \A i \in 1 .. Len(input) : input'[i] = input[i]
      /\ Delivered'
  <2>0. /\ input \in Seq(Lines) /\ IsList(input) /\ Len(input) \in Nat /\ Len(wire) \in Nat
        /\ wire \in Seq(Lines)
    BY <1>1, OnWire DEF IInv, AtLine, IsList, EncInv
  <2>1. CASE CloseWriter
    BY <1>1, <1>2, <2>0, <2>1 DEF CloseWriter, Delivered
  <2>2. CASE Transfer
    <3> DEFINE n == Len(input) + 1
               line == wire[n]
    <3>1. Len(input) < Len(wire) /\ input' = Append(input, line) /\ UNCHANGED eof
      BY <2>2 DEF Transfer
    <3>2. n \in 1 .. Len(wire) /\ line \in Lines
      BY <2>0, <3>1
    <3>3. /\ input' \in Seq(Lines) /\ Len(input') = n /\ input'[n] = line
          /\ \A i \in 1 .. Len(input) : input'[i] = input[i]
      <4> HIDE DEF line
      <4>1. Append(input, line) \in Seq(Lines)
        BY <2>0, <3>2
      <4> QED BY <2>0, <3>1, <4>1, ListAppend
    <3>4. Delivered'
      <4>1. \A i \in 1 .. n : i \in 1 .. Len(input) \/ i = n
        BY <2>0
      <4>2. \A i \in 1 .. Len(input) : wire[i] = input[i]
        BY <1>1 DEF Delivered, Extends
      <4> HIDE DEF n
      <4>3. n <= Len(wire) /\ \A i \in 1 .. n : wire[i] = input'[i]
        BY <3>2, <3>3, <4>1, <4>2
      <4> QED BY <1>2, <3>3, <4>3 DEF Delivered, Extends
    <3>5. eof' \in BOOLEAN
      BY <1>1, <3>1 DEF Typed, TypeOK
    <3> QED BY <2>0, <3>3, <3>4, <3>5
  <2> QED BY <2>1, <2>2, <1>1
<1>4. IInv'
  <2>1. pos \in 0 .. Len(input) /\ pos \in 0 .. Len(input')
    BY <1>1, <1>3 DEF IInv, AtLine
  <2>2. pos > 0 => input'[pos] = input[pos]
    BY <1>3, <2>1
  <2> QED BY <1>1, <1>2, <1>3, <2>1, <2>2 DEF IInv, AtLine, PeekedIsLast, DoneIsAtEnd
<1>5. Typed'
  <2>1. pos' \in 0 .. Len(input') /\ failure'.at \in 0 .. Len(input')
    BY <1>1, <1>2, <1>3 DEF Typed, TypeOK
  <2> QED BY <1>1, <1>2, <1>3, <2>1 DEF Typed, TypeOK
<1>6. LInv'
  <2> DEFINE n == IF pending = NoLine THEN pos ELSE pos - 1
  <2>1. n \in Nat /\ n <= Len(input)
    BY <1>1 DEF IInv, AtLine, PeekedIsLast
  <2>2. Taken = SubSeq(input, 1, n) /\ Taken' = SubSeq(input', 1, n)
    BY <1>2 DEF Taken
  <2> HIDE DEF n
  <2>3. Taken' = Taken
    <3>1. n <= Len(input') /\ 1 \in Nat \ {0} /\ IsList(input) /\ IsList(input') /\ 1 <= n + 1
      BY <1>1, <1>3, <2>1 DEF IInv, AtLine, IsList
    <3>2. \A i \in 1 .. n : input'[i] = input[i]
      BY <1>3, <2>1
    <3>3. SubSeq(input', 1, n) = SubSeq(input, 1, n)
      BY <1>3, <2>1, <3>1, <3>2, SameStart
    <3> QED BY <2>2, <3>3
  <2>4. Locked => Locked'
    BY <1>2, <2>3 DEF Locked
  <2>5. InTime => InTime'
    BY <1>2, <2>4 DEF InTime
  <2> QED BY <1>1, <1>2, <2>5 DEF LInv, Undisturbed
<1>7. EncInv'
  BY <1>1, EncKept
<1>8. ClientStops' /\ Received'
  <2>1. ParseRun(wire)' = ParseRun(wire)
    BY <1>2 DEF ParseRun
  <2> QED BY <1>1, <1>2, <2>1 DEF ClientStops, Received, OnWireToo
<1> QED BY <1>3, <1>4, <1>5, <1>6, <1>7, <1>8 DEF PInv

LEMMA ProduceKeeps == ASSUME PInv, Produce PROVE PInv'
<1>1. /\ EncInv /\ Typed /\ IInv /\ LInv /\ Delivered /\ ClientStops /\ Received
      /\ EncNext /\ UNCHANGED vars
  BY DEF PInv, Produce
<1>2. UNCHANGED <<input, eof, pos, pc, caller, result, yielded, failure, swallowed>>
  BY <1>1 DEF vars, source, parserVars, fields, history
<1>3. EncInv' /\ Growing
  BY <1>1, EncKept
<1>4. Typed' /\ IInv' /\ LInv'
  BY <1>1, TypedStep, IInvKept, StutterLocked
<1>5. Delivered' /\ Received'
  BY <1>1, <1>2, <1>3, WireGrows DEF EncInv, IInv, Typed
<1>6. ClientStops'
  BY <1>1, <1>2 DEF ClientStops
<1> QED BY <1>3, <1>4, <1>5, <1>6 DEF PInv

\* What the consumer does as long as nothing has failed.
LEMMA ConsumeKeeps == ASSUME PInv, Consume1 \/ Consume2 PROVE PInv'
<1>1. /\ EncInv /\ Typed /\ IInv /\ LInv /\ Delivered /\ ClientStops /\ Received
      /\ UNCHANGED encVars /\ (CallNext \/ Read)
  BY DEF PInv, Consume1, Consume2
<1>2. UNCHANGED wire /\ EncInv'
  BY <1>1, EncKept DEF encVars
<1>3. UNCHANGED input
  BY <1>1 DEF CallNext, Call, Read, ReadFirst, ReadHeader, ReadTop, ReadBlock, source
<1>4. Delivered'
  BY <1>1, <1>2, <1>3 DEF Delivered
<1>5. Typed' /\ IInv'
  BY <1>1, TypedStep, IInvKept DEF Next, Step
<1>6. LInv'
  BY <1>1, CallLocked, ReadFirstLocked, ReadHeaderLocked, ReadTopLocked, ReadBlockLocked DEF Read
<1>7. failure.error = NoError /\ swallowed = NoError /\ caller = "Next" /\ InTime
  <2>1. failure.error = NoError
    <3>1. CASE Consume1
      BY <3>1 DEF Consume1, ConsumerStops
    <3>2. CASE Consume2
      <4>1. pc # "idle"
        BY <3>2 DEF Consume2, Read, ReadFirst, ReadHeader, ReadTop, ReadBlock
      <4> QED BY <1>1, <4>1 DEF ClientStops
    <3> QED BY <3>1, <3>2
  <2> QED BY <1>1, <2>1 DEF ClientStops, LInv, Undisturbed
<1>8. \/ UNCHANGED failure /\ swallowed' = NoError /\ caller' = "Next"
      \/ /\ pc' = "idle" /\ result' \in Errors /\ swallowed' = NoError /\ caller' = "Next"
         /\ UNCHANGED yielded
  <2>1. CASE CallNext
    BY <1>7, <2>1 DEF CallNext, Call, history
  <2>2. CASE Read
    <3>1. Fails \/ Ends \/ GoesOn
      BY <1>1, <2>2, ReadFirstTyped, ReadHeaderTyped, ReadTopTyped, ReadBlockTyped DEF Read
    <3>2. CASE Fails
      <4>1. pos \in Nat /\ pos' \in Nat /\ pos <= pos'
        <5>1. AtLine /\ AtLine' /\ pos \in Nat /\ pos' \in Nat
          BY <1>1, <1>5 DEF IInv, AtLine
        <5>2. UNCHANGED pos \/ Consume
          BY <2>2 DEF Read, ReadFirst, ReadHeader, ReadTop, ReadBlock
        <5> QED BY <1>3, <5>1, <5>2, Forward
      <4> QED BY <1>1, <1>7, <3>2, <4>1, FailsTyped
    <3>3. CASE Ends \/ GoesOn
      BY <1>7, <3>3 DEF Ends, GoesOn, Return, Continue, history
    <3> QED BY <3>1, <3>2, <3>3
  <2> QED BY <1>1, <2>1, <2>2
<1>9. ClientStops'
  <2>1. "EOF" \notin Errors
    BY DEF Errors
  <2> QED BY <1>7, <1>8, <2>1 DEF ClientStops
<1>10. Received'
  <2>1. CASE UNCHANGED failure
    BY <1>7, <2>1 DEF Received
  <2>2. CASE UNCHANGED yielded
    <3>1. OnWireToo
      BY <1>1, <1>7, WireState DEF EncInv
    <3>2. ParseRun(wire)' = ParseRun(wire)
      BY <1>2 DEF ParseRun
    <3> QED BY <2>2, <3>1, <3>2 DEF Received, OnWireToo
  <2> QED BY <1>8, <2>1, <2>2
<1> QED BY <1>2, <1>4, <1>5, <1>6, <1>9, <1>10 DEF PInv

LEMMA PInvKept == PInv /\ [PipeNext]_pipeVars => PInv'
<1> SUFFICES ASSUME PInv, [PipeNext]_pipeVars PROVE PInv'
  OBVIOUS
<1>1. CASE UNCHANGED pipeVars
  <2>1. UNCHANGED vars /\ UNCHANGED encVars
    BY <1>1 DEF pipeVars
  <2>2. EncInv' /\ Growing
    BY <2>1, EncKept DEF PInv
  <2>3. Typed' /\ IInv' /\ LInv'
    BY <2>1, TypedStep, IInvKept, StutterLocked DEF PInv
  <2>4. UNCHANGED <<input, pc, caller, result, yielded, failure, swallowed>>
    BY <2>1 DEF vars, source, parserVars, history
  <2>5. Delivered' /\ Received'
    BY <2>2, <2>4, WireGrows DEF PInv, EncInv, IInv, Typed
  <2>6. ClientStops'
    BY <2>4 DEF PInv, ClientStops
  <2> QED BY <2>2, <2>3, <2>5, <2>6 DEF PInv
<1> QED BY <1>1, ProduceKeeps, DeliveryKeeps, ConsumeKeeps DEF PipeNext

\* For a producer and a consumer of any speed, components of any size and a writer that fails
\* at any octet: the consumer gets the producer's components in order and no other, and io.EOF
\* tells it that the producer closed the encoder and that it has got them all.
THEOREM ConsumerIsToldTheTruth == PipeSpec => []EOFTellsTruth
<1>1. PInv => EOFTellsTruth
  <2> SUFFICES ASSUME PInv PROVE EOFTellsTruth
    OBVIOUS
  <2> DEFINE st  == ParseRun(wire)
             all == acked \o attempted
  <2>1. EncInv /\ Typed /\ IInv /\ LInv /\ Delivered /\ ClientStops /\ Received /\ wire \in Seq(Lines)
    BY DEF PInv, EncInv
  <2>2. /\ IsState(st) /\ IsList(acked) /\ IsList(all) /\ IsList(yielded)
        /\ Between(st, acked, all)
        /\ st.stack # << >> => IsList(st.stack[1].sub)
        /\ ~broken /\ st.stack # << >> => st.stack[1].sub = acked
    BY <2>1, OnTheWire DEF Typed
  <2>3. OnWireToo
    <3>1. CASE failure.error = NoError
      <4>1. InTime
        BY <2>1, <3>1 DEF LInv, Undisturbed, ClientStops
      <4> QED BY <2>1, <4>1, WireState
    <3>2. CASE failure.error # NoError
      BY <2>1, <3>2 DEF Received
    <3> QED BY <3>1, <3>2
  <2>4. IsPrefix(yielded, all)
    <3>1. CASE yielded = << >>
      <4>1. Extends(all, yielded)
        <5>1. Len(all) \in Nat
          BY <2>2, ListType
        <5> HIDE DEF all
        <5> QED BY <3>1, <5>1, EmptyList DEF Extends
      <4> HIDE DEF all
      <4> QED BY <2>2, <4>1, ExtendsIsPrefix
    <3>2. CASE yielded # << >>
      <4>1. st.stack # << >> /\ Extends(st.stack[1].sub, yielded)
        BY <2>3, <3>2 DEF OnWireToo
      <4>2. Extends(all, st.stack[1].sub) /\ IsList(st.stack[1].sub)
        BY <2>2, <4>1 DEF Between
      <4> HIDE DEF st, all
      <4>3. Extends(all, yielded)
        BY <2>2, <4>1, <4>2, ExtendsTransitive
      <4> QED BY <2>2, <4>3, ExtendsIsPrefix
    <3> QED BY <3>1, <3>2
  <2>5. ASSUME result = "EOF" PROVE (closed \/ closeFailed) /\ yielded = acked
    <3>1. failure.error = NoError /\ done
      BY <2>1, <2>5 DEF ClientStops, IInv
    <3>2. InTime
      BY <2>1, <3>1 DEF LInv, Undisturbed, ClientStops
    <3>3. st.phase = "done" /\ st.stack # << >> /\ st.stack[1].sub = yielded
      BY <2>1, <3>1, <3>2, WireState
    <3>4. CASE broken
      <4>1. Stopped
        BY <2>1, <3>4 DEF EncInv
      <4>2. closeFailed /\ attempted = << >>
        BY <3>3, <4>1 DEF Stopped
      <4>3. all = acked
        BY <2>2, <4>2, ListConcat
      <4>4. Extends(st.stack[1].sub, acked) /\ Extends(acked, st.stack[1].sub)
        BY <2>2, <3>3, <4>3 DEF Between
      <4> HIDE DEF st
      <4>5. yielded = acked
        <5>1. Extends(yielded, acked) /\ Extends(acked, yielded)
          BY <3>3, <4>4
        <5>2. Len(yielded) \in Nat /\ Len(acked) \in Nat
          BY <2>2, ListType
        <5>3. Len(yielded) = Len(acked) /\ \A i \in 1 .. Len(yielded) : yielded[i] = acked[i]
          BY <5>1, <5>2 DEF Extends
        <5> QED BY <2>2, <5>3, ListEqual
      <4> QED BY <4>2, <4>5
    <3>5. CASE ~broken
      <4>1. Working
        BY <2>1, <3>5 DEF EncInv
      <4>2. closed
        <5>1. CASE headerWritten
          <6>1. st.phase = IF closed THEN "done" ELSE "block"
            BY <4>1, <5>1 DEF Working
          <6> HIDE DEF st
          <6> QED BY <3>3, <6>1
        <5>2. CASE ~headerWritten
          <6>1. st = ParseStart /\ ParseStart.phase = "first"
            BY <4>1, <5>2, RunEmpty, ParseRunIsRun DEF Working, ParseStart
          <6> QED BY <3>3, <6>1
        <5> QED BY <5>1, <5>2
      <4> HIDE DEF st
      <4> QED BY <2>2, <3>3, <3>5, <4>2
    <3> QED BY <3>4, <3>5
  <2> QED BY <2>4, <2>5 DEF EOFTellsTruth
<1> QED BY <1>1, PInvStarts, PInvKept, PTL DEF PipeSpec

=============================================================================
