---------------------------- MODULE VCalendarParser ----------------------------
(***************************************************************************)
(* src/go/codec/stream VCalendarParser: the pull parser that yields one     *)
(* top-level component per call of Next.  A call is the sequence of steps   *)
(* it takes, one content line each; between calls the client decides what   *)
(* to do next, also after an error, which the parser does not remember.     *)
(*                                                                         *)
(* Lines come from a Scanner over some io.Reader.  sent holds the lines     *)
(* written so far and eof says that no more will come; a run on a finished  *)
(* document fixes both in Init, StreamPipe lets a producer extend sent.     *)
(* input is what the scanner makes of them: sent, but for what was lost     *)
(* when the reader failed in the middle of a line.                          *)
(***************************************************************************)
EXTENDS ContentLines

CONSTANTS
    Inputs,          \* the documents a run reads
    Rests,           \* what is left of a line whose beginning is lost may read as these
    MaxReadErrors,   \* bound: failures of the reader (timeouts, resets)
    MaxCalls         \* bound: calls of Next and Header

ASSUME InputsAssumption == Inputs \subseteq Seq(Lines) /\ Rests \subseteq Lines

VARIABLES
    sent,            \* what was written to the reader
    input, eof,      \* what the scanner delivers
    pos,             \* lines the scanner has handed out
    headerRead, prodid, pending, done,     \* fields of the parser
    pc,              \* where the call is: "idle" "first" "header" "top" "block"
    caller,          \* the method called: "Header" | "Next"
    stack,           \* open blocks of readBlock and its recursive calls
    result,          \* what the last call returned
    \* history
    yielded,         \* components returned so far
    failure,         \* the first error of Next, and pos when it was returned
    swallowed,       \* the error that Header dropped
    intact,          \* from this line of input on nothing has been lost
    suspect,         \* places in yielded, each the first after a failed read
    readErrors, calls

source   == <<input, eof, sent>>
fields   == <<headerRead, prodid, pending, done>>
history  == <<yielded, failure, swallowed>>
damage   == <<intact, suspect, readErrors>>
parserVars == <<pos, fields, pc, caller, stack, result, history, damage, calls>>
vars       == <<source, parserVars>>

NoLine == <<"NONE", "">>     \* p.pending == ""
EOFLine == <<"EOF", "">>
NoError == "none"
Errors == {"ErrMalformed", "ErrUnclosedBlock", "ErrUnsupportedVersion", "read error"}

InitParser ==
    /\ pos = 0
    /\ headerRead = FALSE /\ prodid = "" /\ pending = NoLine /\ done = FALSE
    /\ pc = "idle" /\ caller = "Next" /\ stack = << >>
    /\ result = "none"
    /\ yielded = << >> /\ failure = [error |-> NoError, at |-> 0]
    /\ swallowed = NoError
    /\ intact = 1 /\ suspect = {} /\ readErrors = 0 /\ calls = 0

Init == InitParser /\ input \in Inputs /\ sent = input /\ eof = TRUE
-----------------------------------------------------------------------------
(* The scanner.  It knows that a line is complete only when it sees the     *)
(* start of the next one or the end of the input: a line is available when  *)
(* another follows it.                                                      *)

\* (Mutant: the reader waits until its buffer is full.)
LineAvailable_FullBuffer == eof

LineAvailable == pos + 1 < Len(input) \/ eof
NextLine == IF pos < Len(input) THEN input[pos + 1] ELSE EOFLine
Consume == pos' = IF pos < Len(input) THEN pos + 1 ELSE pos

\* The scanner holds the next line, as far as it has read it, and reads on to see
\* where it ends.  When the reader fails, the octets it has of the physical line are
\* lost, and the rest of that comes with the next call: as a line of its own, or
\* as a continuation of the one held, or it is blank.

\* The line held has lost a fold, or the rest of another line was glued to it.
Spoilt(line) == {Bad, IF line = Bad THEN Prop("torn") ELSE <<line[1], "torn">>}

AndRest(lines) == lines \cup {Append(s, r) : s \in lines, r \in Rests}

\* <<n, lines>>: lines are delivered in place of the next n.  Lost is the beginning of
\* the next line while none is held, a fold of the line held, or the
\* beginning of the one behind it.
Losses ==
    LET held == input[pos + 1]
        cut  == {<<l>> : l \in Spoilt(held)}
    IN  ({1} \X AndRest({<< >>} \cup cut)) \cup ({2} \X AndRest({<<held>>} \cup cut))

\* Nothing more is lost at this place once the rest of a line ends the one held.
Lose ==
    /\ pos < Len(input) /\ intact <= pos + 2
    /\ \E loss \in Losses :
         /\ pos + loss[1] <= Len(input)
         /\ input' = SubSeq(input, 1, pos) \o loss[2]
                       \o SubSeq(input, pos + loss[1] + 1, Len(input))
         /\ intact' = pos + Len(loss[2]) + 1

-----------------------------------------------------------------------------
(* Returning.                                                              *)

Return(r) == pc' = "idle" /\ result' = r /\ UNCHANGED caller

\* Next returns an error; the parser keeps its position.
ReturnError(e) ==
    /\ Return(e)
    /\ stack' = << >>
    /\ failure' = IF failure.error = NoError THEN [error |-> e, at |-> pos']
                  ELSE failure
    /\ UNCHANGED <<yielded, swallowed>>

\* ensureHeader fails: Next passes the error on, Header ignores it.
HeaderError(e) ==
    \/ caller = "Next" /\ ReturnError(e)
    \/ /\ caller = "Header"
       /\ Return("header")
       /\ swallowed' = e
       /\ UNCHANGED <<stack, yielded, failure>>

ReturnEOF ==
    /\ Return("EOF")
    /\ UNCHANGED <<stack, history>>

Yield(block) ==
    /\ Return("component")
    /\ yielded' = Append(yielded, block)
    /\ stack' = << >>
    /\ UNCHANGED <<failure, swallowed>>

Continue(where) == pc' = where /\ UNCHANGED <<caller, result, history>>
-----------------------------------------------------------------------------
(* The client.                                                             *)

Call(method) ==
    /\ pc = "idle" /\ calls < MaxCalls
    /\ caller' = method /\ calls' = calls + 1
    /\ UNCHANGED <<source, pos, prodid, pending, done, stack, history, damage>>

CallHeader ==
    /\ Call("Header")
    /\ headerRead' = TRUE
    /\ IF headerRead THEN pc' = "idle" /\ result' = "header"
       ELSE pc' = "first" /\ UNCHANGED result

CallNext ==
    /\ Call("Next")
    /\ headerRead' = (headerRead \/ ~done)
    /\ CASE done       -> pc' = "idle" /\ result' = "EOF"
         [] ~done /\ ~headerRead -> pc' = "first" /\ UNCHANGED result
         [] OTHER      -> pc' = "top" /\ UNCHANGED result
-----------------------------------------------------------------------------
(* ensureHeader.                                                           *)

\* Mutant: the header ends at a sub-component only.
EndsHeader_BeginOnly(line) == line[1] = "BEGIN"
EndsHeader(line) == IsBoundary(line)

\* Mutant: the first PRODID counts.
HeaderProdID_First(line) ==
    IF line[1] = "PRODID" /\ prodid = "" THEN line[2] ELSE prodid

HeaderProdID(line) == IF line[1] = "PRODID" THEN line[2] ELSE prodid

HeaderAtEOF == HeaderError("ErrUnclosedBlock")

ReadFirst ==
    /\ pc = "first" /\ LineAvailable /\ Consume
    /\ IF NextLine = Begin(Calendar)
       THEN Continue("header") /\ UNCHANGED stack
       ELSE HeaderError("ErrMalformed")
    /\ UNCHANGED <<source, fields, damage, calls>>

ReadHeader ==
    /\ pc = "header" /\ LineAvailable /\ Consume
    /\ LET line == NextLine
       IN  CASE line = EOFLine ->
                  HeaderAtEOF /\ UNCHANGED <<prodid, pending>>
             [] line = Bad ->
                  HeaderError("ErrMalformed") /\ UNCHANGED <<prodid, pending>>
             [] EndsHeader(line) ->
                  /\ pending' = line
                  /\ IF caller = "Header" THEN Return("header") /\ UNCHANGED history
                     ELSE Continue("top")
                  /\ UNCHANGED <<prodid, stack>>
             [] line[1] = "VERSION" /\ line # Version(SupportedVersion) ->
                  HeaderError("ErrUnsupportedVersion") /\ UNCHANGED <<prodid, pending>>
             [] OTHER ->
                  /\ prodid' = HeaderProdID(line)
                  /\ Continue("header") /\ UNCHANGED <<pending, stack>>
    /\ UNCHANGED <<source, headerRead, done, damage, calls>>
-----------------------------------------------------------------------------
(* Next, once the header is behind.                                        *)

\* Mutant: the end of the input ends the stream.
TopAtEOF_Clean == ReturnEOF

TopAtEOF == ReturnError("ErrUnclosedBlock")

ReadTop ==
    /\ pc = "top"
    /\ IF pending # NoLine THEN UNCHANGED pos ELSE LineAvailable /\ Consume
    /\ pending' = NoLine
    /\ LET line == IF pending # NoLine THEN pending ELSE NextLine
       IN  /\ CASE line = EOFLine -> TopAtEOF
                [] line = End(Calendar) -> ReturnEOF
                [] line[1] = "BEGIN" ->
                     Continue("block") /\ stack' = <<Block(line[2])>>
                [] OTHER ->      \* malformed, another END, a late property
                     ReturnError("ErrMalformed")
           /\ done' = (done \/ line = End(Calendar))
    /\ UNCHANGED <<source, headerRead, prodid, damage, calls>>

\* Mutant: any END closes the block.
Closes_AnyEnd(line, block) == line[1] = "END"

Closes(line, block) == line = End(block.type)

BlockAtEOF == ReturnError("ErrUnclosedBlock")

\* readBlock: the innermost open block takes the line.
ReadBlock ==
    /\ pc = "block" /\ LineAvailable /\ Consume
    /\ LET line == NextLine
           open == Last(stack)
       IN  CASE line = EOFLine -> BlockAtEOF
             [] line = Bad -> ReturnError("ErrMalformed")
             [] line[1] = "BEGIN" ->
                  Continue("block") /\ stack' = Append(stack, Block(line[2]))
             [] line[1] = "END" /\ ~Closes(line, open) -> ReturnError("ErrMalformed")
             [] Closes(line, open) ->
                  IF Len(stack) = 1 THEN Yield(open)
                  ELSE LET outer == Front(stack)
                       IN  /\ stack' = Append(Front(outer), AddSub(Last(outer), open))
                           /\ Continue("block")
             [] OTHER ->
                  Continue("block") /\ stack' = Append(Front(stack), AddProp(open, line))
    /\ UNCHANGED <<source, fields, damage, calls>>

\* Mutant: readBlock reads on.
BlockBroken_Retries == Continue("block") /\ UNCHANGED stack

BlockBroken == ReturnError("read error")

\* The reader fails, between two lines or in the middle of one.
ReadFails ==
    /\ readErrors < MaxReadErrors
    /\ readErrors' = readErrors + 1
    /\ UNCHANGED pos
    /\ \/ pc \in {"first", "header"} /\ HeaderError("read error")
       \/ pc = "top" /\ pending = NoLine /\ ReturnError("read error")
       \/ pc = "block" /\ BlockBroken
    /\ Lose \/ UNCHANGED <<input, intact>>
    /\ suspect' = suspect \cup {Len(yielded) + 1}
    /\ UNCHANGED <<eof, sent, fields, calls>>

Read == ReadFirst \/ ReadHeader \/ ReadTop \/ ReadBlock

Step == Read \/ ReadFails

Next == CallHeader \/ CallNext \/ Step

Spec == Init /\ [][Next]_vars
-----------------------------------------------------------------------------
(* Properties                                                               *)

TypeOK ==
    /\ input \in Seq(Lines) /\ eof \in BOOLEAN
    /\ pos \in 0..Len(input)
    /\ headerRead \in BOOLEAN /\ done \in BOOLEAN
    /\ pending = NoLine \/ IsBoundary(pending)
    /\ pc \in {"idle", "first", "header", "top", "block"}
    /\ caller \in {"Header", "Next"}
    /\ pc = "block" <=> stack # << >>
    /\ result \in {"none", "header", "component", "EOF"} \cup Errors
    /\ failure.error \in Errors \cup {NoError} /\ failure.at \in 0..Len(input)
    /\ swallowed \in Errors \cup {NoError}

Undisturbed == failure.error = NoError /\ swallowed = NoError

\* The lines taken into account so far: the peeked one is not.
Taken == SubSeq(input, 1, IF pending = NoLine THEN pos ELSE pos - 1)

\* What the batch parser has collected under the calendar is what was yielded, its
\* open blocks are the open blocks of the pull parser, and so is the phase.
InStep ==
    LET st == ParseRun(Taken)
    IN  IF pos = 0 THEN st.phase = "first"
        ELSE LET root == st.stack[1]
             IN  /\ st.phase = IF done THEN "done" ELSE "block"
                 /\ Tail(st.stack) = stack
                 /\ root.sub = yielded
                 /\ RootProdID(root) = prodid
                 /\ VersionsOK(root)

\* The batch parser refuses the document, or it tolerates what the pull parser has
\* stopped at, a calendar-level property after the header.
RejectsLikeBatch ==
    \/ ~Accepts(input)
    \/ /\ failure.at > 0
       /\ LET before == ParseRun(SubSeq(input, 1, failure.at - 1))
          IN  /\ before.phase = "block" /\ Len(before.stack) = 1
              /\ before.stack[1].sub # << >>
              /\ ~IsBoundary(input[failure.at]) /\ input[failure.at] # Bad

\* As long as nothing failed, the pull parser is in lock step with the batch
\* parser on the same lines, and at io.EOF the batch parser accepts with the same
\* PRODID; a document that the pull parser refuses is one that the batch parser
\* refuses, with the one exception named above.
LockStep ==
    /\ TypeOK
    /\ Undisturbed => InStep
    /\ failure.error # NoError /\ swallowed = NoError /\ readErrors = 0 /\ eof
         => RejectsLikeBatch

\* Whatever the client does and whatever failed before: io.EOF is returned only
\* after END:VCALENDAR was read, so a truncated stream never looks complete.  That
\* line was sent, unless it is what a failed read has left of a torn one.
TruncationIsNotEOF ==
    result = "EOF" =>
        /\ pos > 0 /\ input[pos] = End(Calendar)
        /\ pos < intact \/ \E k \in DOMAIN sent : sent[k] = End(Calendar)

\* The lines are delivered as they were sent, one behind the other.
AsSent(from, to) ==
    from <= to =>
        \E at \in DOMAIN sent :
            /\ at + (to - from) <= Len(sent)
            /\ \A k \in 0..(to - from) : input[from + k] = sent[at + k]

\* A client may go on after an error.  Each component it gets is what the batch
\* parser makes of one run of the lines delivered, and these are lines that were
\* sent in this order with nothing between them: all of them, except in the first
\* component after a failed read, whose BEGIN and the line behind it may be damaged,
\* or lines between them lost.  Who discards that one has only components that were sent.
YieldedIsAsSent ==
    \A j \in DOMAIN yielded : \E from, to \in 1..pos :
        LET st == ParseRun(<<Begin(Calendar)>> \o SubSeq(input, from, to))
        IN  /\ from < to
            /\ st.phase = "block" /\ Len(st.stack) = 1
            /\ st.stack[1].props = << >> /\ st.stack[1].sub = <<yielded[j]>>
            /\ AsSent(IF j \in suspect THEN from + 2 ELSE from, to)
=============================================================================
