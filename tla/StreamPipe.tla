------------------------------- MODULE StreamPipe -------------------------------
(***************************************************************************)
(* A VCalendarEncoder and a VCalendarParser at the two ends of a pipe, each *)
(* in a goroutine of its own.  The pipe delivers what the encoder's writer  *)
(* accepted, a line at a time and as late as it likes.  The end of the      *)
(* input is seen when the producer closes its writer, which the encoder     *)
(* never does: stream.go leaves that to the caller.                         *)
(***************************************************************************)
EXTENDS VCalendarParser, VCalendarEncoder

pipeVars == <<vars, encVars>>

PipeInit ==
    /\ InitParser /\ input = << >> /\ sent = << >> /\ eof = FALSE
    /\ EncInit

\* The producer.
Produce == EncNext /\ UNCHANGED vars

\* Producers give up on an encoder whose writer fails and close when done.
CloseWriter ==
    /\ ~eof /\ (closed \/ broken)
    /\ Len(input) = Len(wire)
    /\ eof' = TRUE
    /\ UNCHANGED <<input, sent, parserVars, encVars>>

\* The reader does not fail here: what is sent is delivered.
Transfer ==
    /\ ~eof /\ Len(input) < Len(wire)
    /\ input' = Append(input, wire[Len(input) + 1])
    /\ sent' = Append(sent, wire[Len(input) + 1])
    /\ UNCHANGED <<eof, parserVars, encVars>>

\* The consumer: for { c, err := p.Next(); if err != nil { break } }
ConsumerStops == result = "EOF" \/ failure.error # NoError
Consume1 == ~ConsumerStops /\ CallNext /\ UNCHANGED encVars
Consume2 == Read /\ UNCHANGED encVars

PipeNext == Produce \/ CloseWriter \/ Transfer \/ Consume1 \/ Consume2

\* The pipe delivers and the consumer loop runs.  Nothing obliges the producer
\* to encode, to Close the encoder or to close the writer.
PipeFairness == WF_pipeVars(Transfer) /\ WF_pipeVars(Consume1) /\ WF_pipeVars(Consume2)

PipeSpec == PipeInit /\ [][PipeNext]_pipeVars /\ PipeFairness

\* The same, with a producer that closes its writer when it is done with it.
ClosingSpec == PipeSpec /\ WF_pipeVars(CloseWriter)
-----------------------------------------------------------------------------
(* Properties                                                               *)

\* The consumer sees the producer's components in order, and none that the
\* producer did not encode, even when the writer tore the last line. And io.EOF tells
\* the truth: the producer closed the encoder (or its Close failed after the trailer
\* was out), and everything acknowledged has been yielded.
EOFTellsTruth ==
    /\ IsPrefix(yielded, acked \o attempted)
    /\ result = "EOF" => (closed \/ closeFailed) /\ yielded = acked

\* A producer that closes the encoder and then its writer gets everything
\* across: the consumer's loop ends with io.EOF and all components.
EverythingArrives == (closed /\ eof) ~> (result = "EOF" /\ yielded = acked)

\* The consumer is at most one component behind an encoder that goes on, whether
\* or not the stream is ever closed: the line that ends a component is recognised
\* when the next one begins.
OneBehind ==
    \A k \in 1..(MaxEncCalls - 1) : Len(acked) > k ~> Len(yielded) >= k
=============================================================================
