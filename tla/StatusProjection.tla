--------------------------- MODULE StatusProjection ---------------------------
(***************************************************************************)
(* What supersession.Superseded promises: a query answers with the          *)
(* effective status that the ledger, as it is when the query is made, gives *)
(* to the component asked about.  The answer is fixed in one step, however  *)
(* long the computation takes and whatever is appended meanwhile.           *)
(***************************************************************************)
EXTENDS LedgerEntries

VARIABLES
    ledger,    \* the append-only log
    asked,     \* UID of the query under way, or of the last one
    busy,      \* a query is under way
    answer     \* its answer

absVars == <<ledger, asked, busy, answer>>

AbsInit ==
    /\ ledger = << >>
    /\ asked = NoUID
    /\ busy = FALSE
    /\ answer = NoStatus

\* The owner of the ledger appends a component, or (against the contract of
\* spec/02, but nothing prevents it) rewrites one in place.
Extend ==
    /\ Len(ledger') = Len(ledger) + 1
    /\ \A j \in 1..Len(ledger) : ledger'[j] = ledger[j]
    /\ UNCHANGED <<asked, busy, answer>>

Rewrite ==
    /\ ~busy
    /\ Len(ledger') = Len(ledger)
    /\ \E i \in 1..Len(ledger) :
          \A j \in 1..Len(ledger) : j # i => ledger'[j] = ledger[j]
    /\ UNCHANGED <<asked, busy, answer>>

Ask ==
    /\ ~busy
    /\ \E u \in UIDs :
          /\ asked' = u
          /\ answer' = Effective(u, ledger)
    /\ busy' = TRUE
    /\ UNCHANGED ledger

Reply ==
    /\ busy
    /\ busy' = FALSE
    /\ asked' = NoUID
    /\ UNCHANGED <<ledger, answer>>

AbsNext == Extend \/ Rewrite \/ Ask \/ Reply

AbsSpec == AbsInit /\ [][AbsNext]_absVars
=============================================================================
