---------------------------- MODULE VCalendarEncoder ----------------------------
(***************************************************************************)
(* src/go/codec/stream VCalendarEncoder over a writer that may fail.  Every *)
(* call ends with a flush of the bufio.Writer (Close itself, and Encode     *)
(* through rfc5545.EncodeComponent, which flushes the very same bufio       *)
(* buffer), so between calls nothing is buffered.  When the writer fails,   *)
(* any part of what the call wrote has reached it, the last line possibly   *)
(* torn, and bufio answers every later write with the same error.           *)
(***************************************************************************)
EXTENDS ContentLines

CONSTANTS
    EncComponents,   \* components the caller encodes
    ProdIDs,         \* PRODIDs it passes to SetHeader; "" means the default
    MaxEncCalls      \* bound: calls

ASSUME EncodedAssumption == EncComponents \subseteq Components /\ ProdIDs \subseteq Texts

VARIABLES
    wire,            \* the lines the writer has accepted
    broken,          \* the sticky error of bufio.Writer
    encHeader,       \* e.header.ProdID
    headerWritten, closed,
    encResult,       \* what the last call returned
    \* history
    acked,           \* components whose Encode returned nil
    attempted,       \* the component of the Encode that failed, if one did
    headerAck,       \* PRODID of the last SetHeader that returned nil
    closeFailed,     \* Close failed in Flush, END:VCALENDAR already written
    encCalls

encHistory == <<acked, attempted, headerAck, closeFailed>>
encVars == <<wire, broken, encHeader, headerWritten, closed, encResult,
             encHistory, encCalls>>

EncInit ==
    /\ wire = << >> /\ broken = FALSE
    /\ encHeader = "" /\ headerWritten = FALSE /\ closed = FALSE
    /\ encResult = "none"
    /\ acked = << >> /\ attempted = << >> /\ headerAck = ""
    /\ closeFailed = FALSE
    /\ encCalls = 0

EncCall == encCalls < MaxEncCalls /\ encCalls' = encCalls + 1

EffectiveProdID == IF encHeader = "" THEN DefaultProdID ELSE encHeader

\* writeHeaderOnce
PendingHeader == IF headerWritten THEN << >> ELSE HeaderLines(EffectiveProdID)

HeaderWritten == headerWritten' = TRUE

\* What a cut-off line may read as.
Torn(line) == {<<line[1], "torn">>, Bad}

\* All lines reach the writer.
WriteOK(lines) == ~broken /\ wire' = wire \o lines /\ UNCHANGED broken

\* The write fails: now, with any part of the lines accepted, or because an
\* earlier one did.
WriteFails(lines) ==
    /\ broken' = TRUE
    /\ IF broken THEN UNCHANGED wire
       ELSE \E k \in 0..Len(lines) :
              \/ wire' = wire \o SubSeq(lines, 1, k)
              \/ /\ k < Len(lines)
                 /\ \E t \in Torn(lines[k + 1]) :
                      wire' = Append(wire \o SubSeq(lines, 1, k), t)

Refuse(err) ==
    /\ encResult' = err
    /\ UNCHANGED <<wire, broken, encHeader, headerWritten, closed, encHistory>>

\* Mutant: the header can still be set when it is on the wire.
SetHeader_Unlocked(p) ==
    /\ EncCall
    /\ encHeader' = p /\ headerAck' = p /\ encResult' = "nil"
    /\ UNCHANGED <<wire, broken, headerWritten, closed, acked, attempted, closeFailed>>

SetHeader(p) ==
    /\ EncCall
    /\ IF headerWritten THEN Refuse("ErrHeaderLocked")
       ELSE /\ encHeader' = p /\ headerAck' = p /\ encResult' = "nil"
            /\ UNCHANGED <<wire, broken, headerWritten, closed, acked, attempted,
                           closeFailed>>

\* What Encode writes.
EncodeLines(c) == PendingHeader \o EncodeComponent(c)

\* Mutant: an error is dropped.
EncodeOutcome_ErrorDropped(c, ok) ==
    /\ encResult' = "nil" /\ acked' = Append(acked, c) /\ UNCHANGED attempted

EncodeOutcome(c, ok) ==
    IF ok THEN encResult' = "nil" /\ acked' = Append(acked, c) /\ UNCHANGED attempted
    ELSE /\ encResult' = "error" /\ UNCHANGED acked
         /\ attempted' = IF broken THEN attempted ELSE <<c>>

Encode(c) ==
    /\ EncCall
    /\ IF closed THEN Refuse("ErrAlreadyClosed")
       ELSE /\ \/ WriteOK(EncodeLines(c)) /\ EncodeOutcome(c, TRUE)
               \/ WriteFails(EncodeLines(c)) /\ EncodeOutcome(c, FALSE)
            /\ HeaderWritten
            /\ UNCHANGED <<encHeader, closed, headerAck, closeFailed>>

CloseLines == PendingHeader \o <<End(Calendar)>>

CloseWrites ==
    /\ \/ WriteOK(CloseLines) /\ closed' = TRUE /\ encResult' = "nil"
          /\ UNCHANGED closeFailed
       \/ WriteFails(CloseLines) /\ UNCHANGED closed /\ encResult' = "error"
          /\ closeFailed' = (closeFailed \/ ~broken)
    /\ HeaderWritten
    /\ UNCHANGED <<encHeader, acked, attempted, headerAck>>

Close ==
    /\ EncCall
    /\ IF closed THEN Refuse("ErrAlreadyClosed") ELSE CloseWrites

EncNext ==
    \/ \E p \in ProdIDs : SetHeader(p)
    \/ \E c \in EncComponents : Encode(c)
    \/ Close

-----------------------------------------------------------------------------
(* Properties                                                               *)

EncTypeOK ==
    /\ broken \in BOOLEAN /\ headerWritten \in BOOLEAN /\ closed \in BOOLEAN
    /\ encHeader \in ProdIDs \cup {""}
    /\ acked \in Seq(EncComponents) /\ Len(attempted) <= 1
    /\ encResult \in {"none", "nil", "error", "ErrHeaderLocked", "ErrAlreadyClosed"}
    /\ wire # << >> => headerWritten

\* Once Close has returned nil, the wire holds a calendar that the batch parser
\* accepts, with exactly the components whose Encode returned nil, in order, and the
\* PRODID of the last SetHeader that returned nil. And a wire that a reader would
\* take for complete is one the caller asked to be closed: no failure of the writer
\* at any byte makes a cut-off stream pass.
ClosedIsComplete ==
    /\ closed =>
         /\ Accepts(wire)
         /\ Parsed(wire) = [prodid |-> IF headerAck = "" THEN DefaultProdID ELSE headerAck,
                            components |-> acked]
    /\ Accepts(wire) => closed \/ closeFailed

\* An Encode that returned nil has put its component on the wire for good: it
\* is there, in order, whatever fails later; beyond them there is at most the
\* component of the Encode that failed.
AckedIsOnWire ==
    LET st == ParseRun(wire)
    IN  /\ EncTypeOK
        /\ acked # << >> =>
             /\ st.stack # << >>
             /\ IsPrefix(acked, st.stack[1].sub)
             /\ IsPrefix(st.stack[1].sub, acked \o attempted)

=============================================================================
