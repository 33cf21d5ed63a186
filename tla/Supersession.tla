----------------------------- MODULE Supersession -----------------------------
(***************************************************************************)
(* src/go/supersession with the part of src/go/hashing it relies on: a      *)
(* ledger of components, the constructor Supersedes with its integrity      *)
(* check, and the query Superseded as the loop it is, one ledger entry per  *)
(* step over the slice it was called with.                                  *)
(*                                                                         *)
(* The ledger is the caller's; the library never appends to it.  The        *)
(* caller's moves are modelled as far as they matter here: it appends fresh *)
(* components, what Supersedes built and what it read from elsewhere, and   *)
(* it may edit an entry in place, with or without refreshing the hash.      *)
(***************************************************************************)
EXTENDS LedgerEntries

CONSTANTS
    MaxLen,      \* bound of the model: the longest ledger
    MaxEdits,    \* bound of the model: edits in place
    Foreign      \* entries other producers write (read by a codec)

\* Foreign entries arrive with hashes that verify, if any; one that was damaged
\* on the way is an append followed by an edit in place.
ASSUME SupersessionAssumption ==
    /\ MaxLen \in Nat /\ MaxEdits \in Nat
    /\ MaxStamp >= 1
    /\ Foreign \subseteq Components
    /\ \A e \in Foreign : e.hash # NoHash => e.hash = e.body

VARIABLES
    ledger,      \* []vstar.Component, owned by the caller
    tampered,    \* history: positions edited in place without a new hash
    edits,       \* how many edits in place there were
    pc,          \* "idle" | "scan": where the call of Superseded is
    target,      \* its argument c, by UID
    n,           \* len(ledger) of the slice it was given
    i,           \* the next position the loop looks at
    found, bestT, bestStatus,   \* its local variables
    answer       \* what it returned, until the next call

ledgerVars == <<ledger, tampered, edits>>
loopVars   == <<target, n, i, found, bestT, bestStatus>>
vars       == <<ledgerVars, pc, loopVars, answer>>

-----------------------------------------------------------------------------
\* hashing.Component: the digest covers everything but the hash itself.
Digest(body) == body

\* hashing.SetXVSTAR
SetXVSTAR(c) == [c EXCEPT !.hash = Digest(c.body)]

\* hashing.GetXVSTAR
HasXVSTAR(c) == c.hash # NoHash

\* hashing.VerifyXVSTAR
VerifyXVSTAR(c) == HasXVSTAR(c) /\ c.hash = Digest(c.body)

\* The body of the journal, with everything Supersedes sets on it.
JournalBody(c, s, t) ==
    [type |-> "VJOURNAL", uid |-> JournalUID(c.body.uid, t), stamp |-> t,
     rel |-> <<c.body.uid>>, super |-> TRUE, status |-> s, rev |-> 0]

\* Mutant: the hash is refreshed before the status is set.
Journal_HashTooEarly(c, s, t) ==
    [SetXVSTAR([body |-> [JournalBody(c, s, t) EXCEPT !.status = NoStatus],
                hash |-> NoHash])
     EXCEPT !.body.status = s]

\* The returned journal: the hash is refreshed after the last property.
Journal(c, s, t) == SetXVSTAR([body |-> JournalBody(c, s, t), hash |-> NoHash])

\* Supersedes refuses a target whose stored hash does not verify.
ErrTargetCorrupted(c) == HasXVSTAR(c) /\ ~VerifyXVSTAR(c)

\* A component the caller creates, with the hash the constructors stamp or
\* built by hand without one.
Original(u, t, hashed) ==
    LET c == [body |-> [type |-> "VTODO", uid |-> u, stamp |-> t,
                        rel |-> << >>, super |-> FALSE,
                        status |-> NoStatus, rev |-> 0],
              hash |-> NoHash]
    IN  IF hashed THEN SetXVSTAR(c) ELSE c

\* entryT.Before(bestT) is false: the entry takes the place of the best so far.
NotBefore(entryT, t) == ~(entryT < t)
-----------------------------------------------------------------------------
Init ==
    /\ ledger = << >>
    /\ tampered = {} /\ edits = 0
    /\ pc = "idle"
    /\ target = NoUID
    /\ n = 0 /\ i = 1
    /\ found = FALSE /\ bestT = ZeroTime /\ bestStatus = NoStatus
    /\ answer = NoStatus

AppendEntry(e) ==
    /\ Len(ledger) < MaxLen
    /\ ledger' = Append(ledger, e)
    /\ UNCHANGED <<tampered, edits, pc, loopVars, answer>>

AppendOriginal ==
    \E u \in TargetUIDs, hashed \in BOOLEAN : AppendEntry(Original(u, 1, hashed))

AppendForeign == \E e \in Foreign : AppendEntry(e)

\* The caller supersedes entry k and appends the journal.  Journals of
\* journals are legal; the model stops at journals of originals.
Supersedes(k, s, t) ==
    /\ ledger[k].body.uid \in TargetUIDs
    /\ ~ErrTargetCorrupted(ledger[k])
    /\ AppendEntry(Journal(ledger[k], s, t))

\* The caller edits an entry in place: a bare Component.Set leaves the hash
\* stale, a helper (helpers.SetPriority, ...) ends with SetXVSTAR.  Not while
\* a query reads the slice: that is a data race the package excludes.
EditInPlace(k, rehash) ==
    /\ pc = "idle"
    /\ edits < MaxEdits /\ edits' = edits + 1
    /\ \E r \in 0..MaxRev \ {ledger[k].body.rev} :
         LET c == [ledger[k] EXCEPT !.body.rev = r]
         IN  ledger' = [ledger EXCEPT ![k] = IF rehash THEN SetXVSTAR(c) ELSE c]
    /\ tampered' = IF rehash THEN tampered \ {k} ELSE tampered \cup {k}
    /\ UNCHANGED <<pc, loopVars, answer>>

\* Superseded(c, ledger) is entered; no UID, no match.
QueryStart(u) ==
    /\ pc = "idle"
    /\ target' = u
    /\ n' = Len(ledger)
    /\ pc' = "scan"
    /\ answer' = NoStatus
    /\ UNCHANGED <<ledgerVars, i, found, bestT, bestStatus>>

\* Mutant: the loop does not look at CATEGORIES.
QueryScan_AnyJournal ==
    /\ pc = "scan" /\ target # NoUID /\ i <= n
    /\ LET e == ledger[i]
           better == /\ Matches([e EXCEPT !.body.super = TRUE], target)
                     /\ ~found \/ NotBefore(e.body.stamp, bestT)
       IN  /\ found' = (found \/ better)
           /\ bestT' = IF better THEN e.body.stamp ELSE bestT
           /\ bestStatus' = IF better THEN e.body.status ELSE bestStatus
    /\ i' = i + 1
    /\ UNCHANGED <<ledgerVars, pc, target, n, answer>>

\* One iteration of the loop.
QueryScan ==
    /\ pc = "scan" /\ target # NoUID /\ i <= n
    /\ LET e == ledger[i]
           better == Matches(e, target) /\ (~found \/ NotBefore(e.body.stamp, bestT))
       IN  /\ found' = (found \/ better)
           /\ bestT' = IF better THEN e.body.stamp ELSE bestT
           /\ bestStatus' = IF better THEN e.body.status ELSE bestStatus
    /\ i' = i + 1
    /\ UNCHANGED <<ledgerVars, pc, target, n, answer>>

QueryReturn ==
    /\ pc = "scan" /\ (target = NoUID \/ i > n)
    /\ answer' = IF found THEN bestStatus ELSE NoStatus
    /\ pc' = "idle"
    /\ target' = NoUID /\ n' = 0                       \* the frame is gone
    /\ i' = 1
    /\ found' = FALSE /\ bestT' = ZeroTime /\ bestStatus' = NoStatus
    /\ UNCHANGED ledgerVars

Caller ==
    \/ AppendOriginal
    \/ AppendForeign
    \/ \E k \in 1..Len(ledger) :
          \/ \E s \in Statuses, t \in 1..MaxStamp : Supersedes(k, s, t)
          \/ \E rehash \in BOOLEAN : EditInPlace(k, rehash)
    \/ \E u \in TargetUIDs : QueryStart(u)

Next == Caller \/ QueryScan \/ QueryReturn

Spec == Init /\ [][Next]_vars
-----------------------------------------------------------------------------
(* Properties                                                               *)

TypeOK ==
    /\ ledger \in Seq(Components)
    /\ tampered \subseteq 1..Len(ledger) /\ edits \in 0..MaxEdits
    /\ pc \in {"idle", "scan"}
    /\ target \in TargetUIDs
    /\ n \in 0..Len(ledger) /\ i \in 1..(n + 1)
    /\ found \in BOOLEAN /\ bestT \in Stamps
    /\ bestStatus \in Statuses \cup {NoStatus}
    /\ answer \in Statuses \cup {NoStatus}

\* The loop invariant of Superseded: after i - 1 entries, its locals hold the
\* latest matching entry of that prefix, or say that there is none.
ScanInv ==
    IF pc = "idle"
    THEN i = 1 /\ ~found /\ bestStatus = NoStatus
    ELSE
      /\ ~found => bestStatus = NoStatus
      /\ found <=> (target # NoUID /\ MatchesUpTo(target, ledger, i - 1) # {})
      /\ found => \E k \in 1..(i - 1) :
                     /\ IsLatest(k, target, ledger, i - 1)
                     /\ bestT = ledger[k].body.stamp
                     /\ bestStatus = ledger[k].body.status

\* Every stored hash verifies, except on entries that somebody edited without
\* refreshing it: Supersedes and the constructors stamp the hash after the last
\* property they set, and superseding never touches the target.
HashesVerify ==
    \A k \in 1..Len(ledger) :
        HasXVSTAR(ledger[k]) /\ k \notin tampered => VerifyXVSTAR(ledger[k])

\* The projection does not depend on the order in which replicas appended the
\* entries, as long as no two entries that count carry the same DTSTAMP: every
\* permutation of the ledger gives every component the same status.
OrderIrrelevant ==
    LET len  == Len(ledger)
        perms == {p \in [1..len -> 1..len] :
                    \A a, b \in 1..len : a # b => p[a] # p[b]}
    IN  \A u \in TargetUIDs :
          (\A a, b \in MatchesUpTo(u, ledger, len) :
              a # b => ledger[a].body.stamp # ledger[b].body.stamp)
          => \A p \in perms :
               Effective(u, [k \in 1..len |-> ledger[p[k]]]) = Effective(u, ledger)

\* Appending is incremental: an entry changes the status of the component it
\* supersedes exactly when no entry that counts is stamped later, and the
\* status of no other component.  A late-arriving older change, a journal
\* about somebody else and an entry that does not count change nothing.
AppendedTakesEffect ==
    [][Len(ledger') > Len(ledger) =>
         LET e == ledger'[Len(ledger')]
         IN  \A u \in TargetUIDs :
               Effective(u, ledger') =
                 IF /\ u # NoUID /\ Matches(e, u)
                    /\ \A k \in MatchesUpTo(u, ledger, Len(ledger)) :
                          ledger[k].body.stamp <= e.body.stamp
                 THEN e.body.status
                 ELSE Effective(u, ledger)]_vars

\* A query is answered with what the ledger said when it was asked, although
\* the scan takes many steps and entries are appended meanwhile.
Projection == INSTANCE StatusProjection WITH
    asked  <- target,
    busy   <- pc = "scan",
    answer <- IF pc = "scan" THEN EffectiveUpTo(target, ledger, n) ELSE answer
AnswersAsOfCall == Projection!AbsSpec

=============================================================================
