---------------------------- MODULE LedgerEntries ----------------------------
(***************************************************************************)
(* The components a V* ledger is made of, and the declarative meaning of    *)
(* "the status a ledger gives to a component": the value carried by the     *)
(* matching supersession VJOURNAL with the greatest DTSTAMP, the later      *)
(* ledger position winning a tie.  Constant-level only: the abstract        *)
(* StatusProjection and the detailed Supersession both build on it.         *)
(*                                                                         *)
(* Property values are abstracted to what the projection distinguishes.     *)
(* A DTSTAMP is a natural number; 0 is Go's zero time.Time, which is what   *)
(* parseEntryDTSTAMP returns for a missing or unparseable value.            *)
(***************************************************************************)
EXTENDS Naturals, Sequences

CONSTANTS
    BaseUIDs,    \* UIDs that callers give to the components they create
    NoUID,       \* Component.UID() of a component without UID: ""
    Statuses,    \* values of X-VSTAR-EFFECTIVE-STATUS
    NoStatus,    \* the property is absent; also the ("", false) answer
    NoHash,      \* the component carries no X-VSTAR-HASH
    MaxStamp,    \* greatest DTSTAMP of the model
    MaxRev       \* revisions 0..MaxRev of the properties nobody reads here

ASSUME LedgerAssumption ==
    /\ NoUID \notin BaseUIDs
    /\ NoStatus \notin Statuses
    /\ MaxStamp \in Nat
    /\ MaxRev \in Nat

ZeroTime == 0
Stamps   == 0..MaxStamp

\* Supersedes derives the journal's UID from (target UID, instant) alone.
JournalUID(uid, t) == <<uid, t>>

TargetUIDs == BaseUIDs \cup {NoUID}
UIDs == TargetUIDs \cup (TargetUIDs \X Stamps)

Types == {"VTODO", "VJOURNAL"}

\* Everything of a component that its canonical form, hence its hash, covers.
Contents == [type : Types, uid : UIDs, stamp : Stamps,
             rel : Seq(UIDs),                  \* RELATED-TO, in order
             super : BOOLEAN,                  \* a CATEGORIES token matches
             status : Statuses \cup {NoStatus},
             rev : 0..MaxRev]                  \* all other properties

\* SHA-256 is collision free here: the digest is the hashed content itself.
Components == [body : Contents, hash : Contents \cup {NoHash}]

\* An entry counts for uid when it is a VJOURNAL whose FIRST RELATED-TO is
\* uid, is categorised as a supersession and carries an effective status.
Matches(e, uid) ==
    /\ e.body.type = "VJOURNAL"
    /\ e.body.rel # << >>
    /\ e.body.rel[1] = uid
    /\ e.body.super
    /\ e.body.status # NoStatus

\* Positions among the first n entries that count for uid.
MatchesUpTo(uid, led, n) == {k \in 1..n : Matches(led[k], uid)}

\* Mutants: the last position wins whatever its stamp; the first of two tied
\* entries wins.
IsLatest_ByPosition(k, uid, led, n) ==
    /\ k \in MatchesUpTo(uid, led, n)
    /\ \A j \in MatchesUpTo(uid, led, n) : j <= k

IsLatest_FirstOfTied(k, uid, led, n) ==
    /\ k \in MatchesUpTo(uid, led, n)
    /\ \A j \in MatchesUpTo(uid, led, n) :
          \/ led[j].body.stamp < led[k].body.stamp
          \/ led[j].body.stamp = led[k].body.stamp /\ j >= k

\* k holds the latest of them: none is stamped later, none tied is after it.
IsLatest(k, uid, led, n) ==
    /\ k \in MatchesUpTo(uid, led, n)
    /\ \A j \in MatchesUpTo(uid, led, n) :
          \/ led[j].body.stamp < led[k].body.stamp
          \/ led[j].body.stamp = led[k].body.stamp /\ j <= k

LatestIndex(uid, led, n) == CHOOSE k \in 1..n : IsLatest(k, uid, led, n)

\* The status the first n entries of led give to uid.
EffectiveUpTo(uid, led, n) ==
    IF uid = NoUID \/ MatchesUpTo(uid, led, n) = {}
    THEN NoStatus
    ELSE led[LatestIndex(uid, led, n)].body.status

Effective(uid, led) == EffectiveUpTo(uid, led, Len(led))
=============================================================================
