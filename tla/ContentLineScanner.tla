-------------------------- MODULE ContentLineScanner --------------------------
(***************************************************************************)
(* src/go/codec/internal/contentline Scanner: unfolding of physical lines   *)
(* into logical content lines, with one line of lookahead, over a reader    *)
(* that may fail in the middle of a line; and writeFolded, its counterpart  *)
(* in the encoders.                                                         *)
(*                                                                         *)
(* A line is a sequence of octets; the terminator is not part of it.        *)
(***************************************************************************)
EXTENDS Naturals, Sequences, SequencesExt, FiniteSetsExt

CONSTANTS
    Octets,         \* octets of a line, terminators left out
    WSP,            \* one of them: SP (HTAB is treated alike)
    MaxOctets,      \* maxLineOctets: octets of a physical line
    Written,        \* documents (sequences of logical lines) an encoder wrote
    Raw,            \* other inputs, as sequences of physical lines
    MaxFailures     \* bound: failures of the reader

ASSUME ScannerAssumption ==
    /\ MaxOctets \in Nat /\ MaxOctets >= 2
    /\ WSP \in Octets
    /\ Raw \subseteq Seq(Seq(Octets))
    /\ Written \subseteq Seq(Seq(Octets))
    /\ \A d \in Written : \A k \in DOMAIN d : d[k] # << >> /\ d[k][1] # WSP   \* a name
-----------------------------------------------------------------------------
(* writeFolded: the first physical line takes MaxOctets octets, every       *)
(* continuation WSP and MaxOctets - 1 more.                                 *)

Continuations(len) ==
    IF len <= MaxOctets THEN 0
    ELSE (len - MaxOctets + MaxOctets - 2) \div (MaxOctets - 1)

\* Where the part of the logical line on physical line k (from 0) ends.
FoldAt(k, len) == Min({len, MaxOctets + k * (MaxOctets - 1)})

Fold(line) ==
    [k \in 1..(Continuations(Len(line)) + 1) |->
       IF k = 1 THEN SubSeq(line, 1, FoldAt(0, Len(line)))
       ELSE <<WSP>> \o SubSeq(line, FoldAt(k - 2, Len(line)) + 1,
                              FoldAt(k - 1, Len(line)))]

FoldAll(lines) == FlattenSeq([k \in DOMAIN lines |-> Fold(lines[k])])
-----------------------------------------------------------------------------
(* Unfolding as RFC 5545 section 3.1 defines it: a physical line that starts *)
(* with WSP continues the one before it, the WSP goes; a first line has none *)
(* before it; lines that are empty once unfolded are no content lines.       *)

Continues(raw) == raw # << >> /\ raw[1] = WSP

Glue(lines, raw) ==
    CASE ~Continues(raw)                  -> Append(lines, raw)
      [] Continues(raw) /\ lines = << >>  -> <<Tail(raw)>>
      [] OTHER                            -> Append(Front(lines), Last(lines) \o Tail(raw))

KeepContent(lines, line) == IF line = << >> THEN lines ELSE Append(lines, line)

Joined(phys) == FoldLeft(Glue, << >>, phys)
NonEmpty(lines) == FoldLeft(KeepContent, << >>, lines)

Unfold(phys) == NonEmpty(Joined(phys))
-----------------------------------------------------------------------------
VARIABLES
    input,               \* the physical lines the reader holds
    pos, off,            \* lines read, and octets of the next one that are gone
    pending, hasPend, finished,      \* fields of the Scanner
    pc, result,          \* "idle" | "scan"; what Next returned last
    \* history
    out,                 \* the logical lines returned
    received,            \* physical lines as readPhysical returned them
    doc,                 \* <<d>> if the input is what an encoder wrote for d
    failures

vars == <<input, pos, off, pending, hasPend, finished, pc, result, out,
          received, doc, failures>>

Init ==
    /\ \/ input \in Raw /\ doc = << >>
       \/ \E d \in Written : input = FoldAll(d) /\ doc = <<d>>
    /\ pos = 0 /\ off = 0
    /\ pending = << >> /\ hasPend = FALSE /\ finished = FALSE
    /\ pc = "idle" /\ result = "none"
    /\ out = << >> /\ received = << >> /\ failures = 0

Return(r) == pc' = "idle" /\ result' = r
Deliver(line) == Return("line") /\ out' = Append(out, line)
Loop == UNCHANGED <<pc, result, out>>

\* Next is called.
Call ==
    /\ pc = "idle"
    /\ pc' = "scan"
    /\ UNCHANGED <<input, pos, off, pending, hasPend, finished, result, out,
                   received, doc, failures>>

\* Next after io.EOF, nothing pending: the reader is left alone.
ScanFinished ==
    /\ pc = "scan" /\ finished /\ ~hasPend
    /\ Return("EOF")
    /\ UNCHANGED <<input, pos, off, pending, hasPend, finished, out, received, doc, failures>>

CanRead == pc = "scan" /\ (~finished \/ hasPend)

\* readPhysical finds the end of the input: the pending line is the last one.
ScanEOF ==
    /\ CanRead /\ pos = Len(input)
    /\ finished' = TRUE
    /\ pending' = << >> /\ hasPend' = FALSE
    /\ IF hasPend /\ pending # << >> THEN Deliver(pending)
       ELSE Return("EOF") /\ UNCHANGED out
    /\ UNCHANGED <<input, pos, off, received, doc, failures>>

\* Mutants of the handling of a line: its WSP stays; a blank line does not end
\* a fold.
Continuation_KeepsWSP(raw) == raw
EndsFold_ButNotBlank(raw) == raw # << >>

\* What a continuation adds; what starts a new logical line.
Continuation(raw) == Tail(raw)
EndsFold(raw) == TRUE

NewPending(raw) == raw

\* readPhysical delivers the (rest of the) next line.
ScanLine ==
    /\ CanRead /\ pos < Len(input)
    /\ LET raw == SubSeq(input[pos + 1], off + 1, Len(input[pos + 1]))
       IN  /\ received' = Append(received, raw)
           /\ IF raw # << >> /\ raw[1] = WSP
              THEN /\ pending' = (IF hasPend THEN pending ELSE << >>) \o Continuation(raw)
                   /\ hasPend' = TRUE
                   /\ Loop
              ELSE IF EndsFold(raw)
              THEN /\ pending' = NewPending(raw)
                   /\ hasPend' = (raw # << >>)
                   /\ IF hasPend /\ pending # << >> THEN Deliver(pending) ELSE Loop
              ELSE UNCHANGED <<pending, hasPend>> /\ Loop
    /\ pos' = pos + 1 /\ off' = 0
    /\ UNCHANGED <<input, finished, doc, failures>>

\* The reader fails after some octets of the line, or in place of the end of the
\* input: the octets are dropped, the error goes to the caller, and a later read gets
\* the rest of the line.
ScanFails ==
    /\ CanRead /\ failures < MaxFailures
    /\ \E lost \in 0..(IF pos < Len(input) THEN Len(input[pos + 1]) - off ELSE 0) :
         off' = off + lost
    /\ failures' = failures + 1
    /\ Return("error")
    /\ UNCHANGED <<input, pos, pending, hasPend, finished, out, received, doc>>

Scan == ScanFinished \/ ScanEOF \/ ScanLine

Next == Call \/ Scan \/ ScanFails

Spec == Init /\ [][Next]_vars
-----------------------------------------------------------------------------
(* Properties                                                               *)

TypeOK ==
    /\ pos \in 0..Len(input) /\ pos = Len(received)
    /\ off = 0 \/ pos < Len(input)
    /\ hasPend \in BOOLEAN /\ finished \in BOOLEAN
    /\ ~hasPend => pending = << >>
    /\ finished => pos = Len(input)
    /\ pc \in {"idle", "scan"}
    /\ result \in {"none", "line", "EOF", "error"}

\* At every step the lines returned plus the one being assembled are the
\* unfolding of what readPhysical delivered: nothing is lost, split, merged or
\* reordered wherever blank lines and folds meet, not even across a read error.
NothingLost ==
    /\ TypeOK
    /\ out \o (IF hasPend /\ pending # << >> THEN <<pending>> ELSE << >>)
         = Unfold(received)

\* What an encoder folds keeps to the limit and is read back as it was: folding and
\* unfolding are inverse to each other, whatever octet the fold falls on.
LineLimit == \A k \in DOMAIN input : Len(input[k]) <= MaxOctets
RoundTrip ==
    doc # << >> => LineLimit /\ (result = "EOF" /\ failures = 0 => out = doc[1])

=============================================================================
