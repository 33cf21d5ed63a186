-------------------------- MODULE Supersession_proofs --------------------------
(***************************************************************************)
(* Theorems about Supersession, for every set of UIDs, statuses and foreign *)
(* entries, every ledger length and every DTSTAMP.                          *)
(***************************************************************************)
EXTENDS Supersession, FiniteSetTheorems, TLAPS

-----------------------------------------------------------------------------
(* The latest matching entry.                                              *)

\* What an entry of a ledger is.
LEMMA EntryType ==
    ASSUME NEW led \in Seq(Components), NEW j \in 1..Len(led)
    PROVE  led[j] \in Components /\ led[j].body \in Contents
           /\ led[j].body.stamp \in Stamps /\ led[j].body.stamp \in Nat
<1>1. led[j] \in Components
  OBVIOUS
<1>2. led[j].body \in Contents
  BY <1>1 DEF Components
<1>3. led[j].body.stamp \in Stamps
  BY <1>2 DEF Contents
<1> QED
  BY <1>1, <1>2, <1>3, LedgerAssumption DEF Stamps, LedgerAssumption

\* There is at most one latest entry: "not before" plus ledger position is a
\* strict order on the entries that count.
LEMMA LatestUnique ==
    ASSUME NEW led \in Seq(Components), NEW u, NEW m \in 0..Len(led),
           NEW j, NEW k, IsLatest(j, u, led, m), IsLatest(k, u, led, m)
    PROVE  j = k
<1>1. j \in 1..m /\ k \in 1..m
  BY DEF IsLatest, MatchesUpTo
<1>2. led[j].body.stamp \in Nat /\ led[k].body.stamp \in Nat
  BY <1>1, EntryType
<1>3. /\ \/ led[j].body.stamp < led[k].body.stamp
         \/ led[j].body.stamp = led[k].body.stamp /\ j <= k
      /\ \/ led[k].body.stamp < led[j].body.stamp
         \/ led[k].body.stamp = led[j].body.stamp /\ k <= j
  BY DEF IsLatest
<1> QED
  BY <1>1, <1>2, <1>3

\* Whoever holds the latest position holds the effective status.
LEMMA EffectiveOfLatest ==
    ASSUME NEW led \in Seq(Components), NEW u, NEW m \in 0..Len(led),
           NEW k, IsLatest(k, u, led, m), u # NoUID
    PROVE  EffectiveUpTo(u, led, m) = led[k].body.status
<1>1. k \in 1..m /\ MatchesUpTo(u, led, m) # {}
  BY DEF IsLatest, MatchesUpTo
<1>2. IsLatest(LatestIndex(u, led, m), u, led, m)
  BY <1>1 DEF LatestIndex
<1>3. LatestIndex(u, led, m) = k
  BY <1>2, LatestUnique
<1> QED
  BY <1>1, <1>3 DEF EffectiveUpTo

\* One more entry: how the set of matching positions grows.
LEMMA MatchesStep ==
    ASSUME NEW led, NEW u, NEW m \in Nat
    PROVE  MatchesUpTo(u, led, m + 1) =
             MatchesUpTo(u, led, m) \cup
               (IF Matches(led[m + 1], u) THEN {m + 1} ELSE {})
BY DEF MatchesUpTo

\* One more entry, which does not count: the latest stays.
LEMMA LatestSkip ==
    ASSUME NEW led, NEW u, NEW m \in Nat, NEW k,
           IsLatest(k, u, led, m), ~Matches(led[m + 1], u)
    PROVE  IsLatest(k, u, led, m + 1)
BY MatchesStep DEF IsLatest

\* One more entry, which counts but is stamped before the latest.
LEMMA LatestKeep ==
    ASSUME NEW led, NEW u, NEW m \in Nat, NEW k,
           IsLatest(k, u, led, m), led[m + 1].body.stamp < led[k].body.stamp
    PROVE  IsLatest(k, u, led, m + 1)
BY MatchesStep DEF IsLatest

\* One more entry, which counts and which no entry that counts is after.
LEMMA LatestTake ==
    ASSUME NEW led \in Seq(Components), NEW u, NEW m \in Nat, m + 1 <= Len(led),
           Matches(led[m + 1], u),
           \A j \in MatchesUpTo(u, led, m) :
              led[j].body.stamp <= led[m + 1].body.stamp
    PROVE  IsLatest(m + 1, u, led, m + 1)
<1>1. m + 1 \in MatchesUpTo(u, led, m + 1)
  BY DEF MatchesUpTo
<1>2. \A j \in 1..(m + 1) : led[j].body.stamp \in Nat
  BY EntryType
<1>3. ASSUME NEW j \in MatchesUpTo(u, led, m + 1)
      PROVE  \/ led[j].body.stamp < led[m + 1].body.stamp
             \/ led[j].body.stamp = led[m + 1].body.stamp /\ j <= m + 1
  <2>1. j \in 1..(m + 1)
    BY DEF MatchesUpTo
  <2>2. CASE j = m + 1
    BY <2>2, <1>2
  <2>3. CASE j # m + 1
    <3>1. j \in MatchesUpTo(u, led, m)
      BY <2>1, <2>3 DEF MatchesUpTo
    <3>2. led[j].body.stamp <= led[m + 1].body.stamp
      BY <3>1
    <3>3. led[j].body.stamp \in Nat /\ led[m + 1].body.stamp \in Nat
      BY <2>1, <1>2
    <3> QED
      BY <2>1, <3>2, <3>3
  <2> QED
    BY <2>2, <2>3
<1> QED
  BY <1>1, <1>3 DEF IsLatest

\* Being the latest of a prefix depends on that prefix only, and of its entries
\* only on what the projection reads.
LEMMA LatestOfPrefix ==
    ASSUME NEW led, NEW led2, NEW u, NEW m \in Nat, NEW k,
           \A j \in 1..m : /\ Matches(led2[j], u) <=> Matches(led[j], u)
                           /\ led2[j].body.stamp = led[j].body.stamp
    PROVE  /\ MatchesUpTo(u, led2, m) = MatchesUpTo(u, led, m)
           /\ IsLatest(k, u, led2, m) <=> IsLatest(k, u, led, m)
<1>1. MatchesUpTo(u, led2, m) = MatchesUpTo(u, led, m)
  BY DEF MatchesUpTo
<1>2. \A j \in MatchesUpTo(u, led, m) : led2[j].body.stamp = led[j].body.stamp
  BY DEF MatchesUpTo
<1>3. k \in MatchesUpTo(u, led, m) => k \in 1..m
  BY DEF MatchesUpTo
<1> QED
  BY <1>1, <1>2, <1>3 DEF IsLatest

\* Hence a prefix that has a latest entry still has one after one more entry.
LEMMA LatestStep ==
    ASSUME NEW led \in Seq(Components), NEW u, NEW m \in Nat, m + 1 <= Len(led),
           MatchesUpTo(u, led, m) # {} => \E k : IsLatest(k, u, led, m),
           MatchesUpTo(u, led, m + 1) # {}
    PROVE  \E k : IsLatest(k, u, led, m + 1)
<1>1. CASE ~Matches(led[m + 1], u)
  <2>1. MatchesUpTo(u, led, m + 1) = MatchesUpTo(u, led, m)
    BY <1>1 DEF MatchesUpTo
  <2>2. PICK k : IsLatest(k, u, led, m)
    BY <2>1
  <2> QED
    BY <2>2, <1>1, LatestSkip
<1>2. CASE Matches(led[m + 1], u)
  <2>1. CASE \A j \in MatchesUpTo(u, led, m) :
                led[j].body.stamp <= led[m + 1].body.stamp
    BY <1>2, <2>1, LatestTake
  <2>2. CASE \E j \in MatchesUpTo(u, led, m) :
                ~(led[j].body.stamp <= led[m + 1].body.stamp)
    <3>1. PICK j \in MatchesUpTo(u, led, m) :
                ~(led[j].body.stamp <= led[m + 1].body.stamp)
      BY <2>2
    <3>2. PICK k : IsLatest(k, u, led, m)
      BY <3>1
    <3>3. j \in 1..m /\ k \in 1..m
      BY <3>1, <3>2 DEF IsLatest, MatchesUpTo
    <3>4. /\ led[j].body.stamp \in Nat /\ led[k].body.stamp \in Nat
          /\ led[m + 1].body.stamp \in Nat
      BY <3>3, EntryType
    <3>5. led[j].body.stamp <= led[k].body.stamp
      BY <3>1, <3>2, <3>4 DEF IsLatest
    <3>6. led[m + 1].body.stamp < led[k].body.stamp
      BY <3>1, <3>4, <3>5
    <3> QED
      BY <3>2, <3>6, LatestKeep
  <2> QED
    BY <2>1, <2>2
<1> QED
  BY <1>1, <1>2

-----------------------------------------------------------------------------
(* The steps of the ledger.                                                *)

LEMMA AppendFacts ==
    ASSUME NEW led \in Seq(Components), NEW e \in Components
    PROVE  /\ Append(led, e) \in Seq(Components)
           /\ Len(Append(led, e)) = Len(led) + 1
           /\ \A j \in 1..Len(led) : Append(led, e)[j] = led[j]
           /\ Append(led, e)[Len(led) + 1] = e
OBVIOUS

LEMMA SetXVSTARType ==
    ASSUME NEW c \in Components
    PROVE  /\ SetXVSTAR(c) \in Components
           /\ SetXVSTAR(c).body = c.body
           /\ SetXVSTAR(c).hash = c.body
BY DEF SetXVSTAR, Digest, Components

LEMMA OriginalType ==
    ASSUME NEW u \in TargetUIDs, NEW t \in Stamps, NEW hashed \in BOOLEAN
    PROVE  /\ Original(u, t, hashed) \in Components
           /\ HasXVSTAR(Original(u, t, hashed))
                => VerifyXVSTAR(Original(u, t, hashed))
<1> DEFINE b == [type |-> "VTODO", uid |-> u, stamp |-> t, rel |-> << >>,
                 super |-> FALSE, status |-> NoStatus, rev |-> 0]
           c == [body |-> b, hash |-> NoHash]
<1>1. b \in Contents
  BY LedgerAssumption DEF LedgerAssumption, Contents, Types, UIDs
<1>2. c \in Components
  BY <1>1 DEF Components
<1>3. Original(u, t, hashed) = IF hashed THEN SetXVSTAR(c) ELSE c
  BY DEF Original
<1>4. CASE hashed
  BY <1>2, <1>3, <1>4, SetXVSTARType DEF VerifyXVSTAR, Digest
<1>5. CASE ~hashed
  BY <1>2, <1>3, <1>5 DEF HasXVSTAR
<1> QED
  BY <1>4, <1>5

LEMMA JournalType ==
    ASSUME NEW c \in Components, c.body.uid \in TargetUIDs,
           NEW s \in Statuses, NEW t \in Stamps
    PROVE  /\ Journal(c, s, t) \in Components
           /\ HasXVSTAR(Journal(c, s, t)) => VerifyXVSTAR(Journal(c, s, t))
<1>1. JournalUID(c.body.uid, t) \in UIDs /\ c.body.uid \in UIDs
  BY DEF JournalUID, UIDs
<1>2. <<c.body.uid>> \in Seq(UIDs)
  BY <1>1
<1>3. JournalBody(c, s, t) \in Contents
  BY <1>1, <1>2, LedgerAssumption DEF LedgerAssumption, JournalBody, Contents, Types
<1>4. [body |-> JournalBody(c, s, t), hash |-> NoHash] \in Components
  BY <1>3 DEF Components
<1> QED
  BY <1>4, SetXVSTARType DEF Journal, VerifyXVSTAR, Digest

\* What an edit in place may change of a ledger.
LEMMA EditFacts ==
    ASSUME NEW k \in 1..Len(ledger), NEW rehash \in BOOLEAN, TypeOK,
           EditInPlace(k, rehash)
    PROVE  /\ ledger' \in Seq(Components) /\ Len(ledger') = Len(ledger)
           /\ \A j \in 1..Len(ledger) : j # k => ledger'[j] = ledger[j]
           /\ \A j \in 1..Len(ledger) :
                 /\ ledger'[j].body.stamp = ledger[j].body.stamp
                 /\ \A u : Matches(ledger'[j], u) <=> Matches(ledger[j], u)
           /\ rehash => VerifyXVSTAR(ledger'[k]) \/ ~HasXVSTAR(ledger'[k])
<1>1. PICK r \in 0..MaxRev :
         ledger' = [ledger EXCEPT ![k] =
                      IF rehash THEN SetXVSTAR([ledger[k] EXCEPT !.body.rev = r])
                      ELSE [ledger[k] EXCEPT !.body.rev = r]]
  BY DEF EditInPlace
<1> DEFINE b == [ledger[k].body EXCEPT !.rev = r]
           c == [ledger[k] EXCEPT !.body.rev = r]
           e == IF rehash THEN SetXVSTAR(c) ELSE c
<1>2. ledger \in Seq(Components)
  BY DEF TypeOK
<1>3. ledger[k] \in Components /\ ledger[k].body \in Contents
  BY <1>2, EntryType
<1>4. b \in Contents
  BY <1>3 DEF Contents
<1>5. c = [ledger[k] EXCEPT !.body = b]
  BY <1>3 DEF Components
<1>6. c \in Components /\ c.body = b /\ c.hash = ledger[k].hash
  BY <1>3, <1>4, <1>5 DEF Components
<1>7. e \in Components /\ e.body = b
  BY <1>6, SetXVSTARType
<1>8. ledger' = [ledger EXCEPT ![k] = e]
  BY <1>1
<1>9. /\ ledger' \in Seq(Components) /\ Len(ledger') = Len(ledger)
      /\ ledger'[k] = e
      /\ \A j \in 1..Len(ledger) : j # k => ledger'[j] = ledger[j]
  BY <1>2, <1>7, <1>8
<1>10. /\ b.type = ledger[k].body.type /\ b.rel = ledger[k].body.rel
       /\ b.super = ledger[k].body.super /\ b.status = ledger[k].body.status
       /\ b.stamp = ledger[k].body.stamp
  BY <1>3 DEF Contents
<1>11. ledger'[k].body = b
  BY <1>7, <1>9
<1>12. rehash => VerifyXVSTAR(e) \/ ~HasXVSTAR(e)
  BY <1>6, SetXVSTARType DEF VerifyXVSTAR, Digest
<1> HIDE DEF b, e
<1>13. /\ ledger'[k].body.stamp = ledger[k].body.stamp
       /\ \A u : Matches(ledger'[k], u) <=> Matches(ledger[k], u)
  BY <1>10, <1>11 DEF Matches
<1> QED
  BY <1>9, <1>12, <1>13

-----------------------------------------------------------------------------
(* The inductive invariant.                                                *)

\* Wherever an entry counts, one of them is the latest.  (The existence of a
\* maximum needs an induction; here the states provide it: each append extends
\* the prefixes by one.)
LatestExists ==
    \A u \in TargetUIDs, m \in 0..Len(ledger) :
        MatchesUpTo(u, ledger, m) # {} => \E k : IsLatest(k, u, ledger, m)

IInv == TypeOK /\ ScanInv /\ LatestExists /\ HashesVerify

\* The initial state satisfies the inductive invariant.
LEMMA InitIInv == Init => IInv
<1> SUFFICES ASSUME Init PROVE IInv
  OBVIOUS
<1> USE DEF Init
<1>1. TypeOK
  <2>1. NoUID \in TargetUIDs /\ ZeroTime \in Stamps
    BY LedgerAssumption DEF LedgerAssumption, UIDs, TargetUIDs, Stamps, ZeroTime
  <2>2. ledger \in Seq(Components) /\ Len(ledger) = 0
    OBVIOUS
  <2>3. edits \in 0..MaxEdits
    BY SupersessionAssumption DEF SupersessionAssumption
  <2>4. tampered \subseteq 1..Len(ledger) /\ n \in 0..Len(ledger) /\ i \in 1..(n + 1)
    BY <2>2
  <2> QED
    BY <2>1, <2>2, <2>3, <2>4 DEF TypeOK
<1>2. ScanInv
  BY DEF ScanInv
<1>3. LatestExists
  BY DEF LatestExists, MatchesUpTo
<1>4. HashesVerify
  BY DEF HashesVerify
<1> QED
  BY <1>1, <1>2, <1>3, <1>4 DEF IInv

\* Appending a component of verifying hash preserves it.
LEMMA AppendIInv ==
    ASSUME IInv, NEW e \in Components, AppendEntry(e),
           HasXVSTAR(e) => VerifyXVSTAR(e)
    PROVE  IInv'
<1> USE DEF IInv
<1>1. /\ ledger' \in Seq(Components) /\ Len(ledger') = Len(ledger) + 1
      /\ \A j \in 1..Len(ledger) : ledger'[j] = ledger[j]
      /\ ledger'[Len(ledger) + 1] = e
  BY AppendFacts DEF AppendEntry, TypeOK
<1>2. UNCHANGED <<tampered, edits, pc, loopVars, answer>> /\ Len(ledger) \in Nat
  BY DEF AppendEntry, TypeOK
<1>3. TypeOK'
  BY <1>1, <1>2 DEF TypeOK, loopVars
<1>4. ASSUME NEW m \in 0..Len(ledger), NEW u, NEW k
      PROVE  /\ MatchesUpTo(u, ledger', m) = MatchesUpTo(u, ledger, m)
             /\ IsLatest(k, u, ledger', m) <=> IsLatest(k, u, ledger, m)
  <2>1. m \in Nat /\ \A j \in 1..m : ledger'[j] = ledger[j]
    BY <1>1, <1>2
  <2> QED
    BY <2>1, LatestOfPrefix
<1>5. ScanInv'
  <2>1. CASE pc = "idle"
    BY <1>2, <2>1 DEF ScanInv, loopVars
  <2>2. CASE pc # "idle"
    <3>1. i - 1 \in 0..Len(ledger)
      BY DEF TypeOK
    <3>2. /\ MatchesUpTo(target, ledger', i - 1) = MatchesUpTo(target, ledger, i - 1)
          /\ \A k : IsLatest(k, target, ledger', i - 1)
                      <=> IsLatest(k, target, ledger, i - 1)
      BY <3>1, <1>4
    <3>3. \A k \in 1..(i - 1) : ledger'[k] = ledger[k]
      BY <3>1, <1>1, <1>2
    <3> QED
      BY <2>2, <3>2, <3>3, <1>2 DEF ScanInv, loopVars
  <2> QED
    BY <2>1, <2>2
<1>6. LatestExists'
  <2> SUFFICES ASSUME NEW u \in TargetUIDs, NEW m \in 0..Len(ledger'),
                      MatchesUpTo(u, ledger', m) # {}
               PROVE  \E k : IsLatest(k, u, ledger', m)
    BY DEF LatestExists
  <2>1. CASE m \in 0..Len(ledger)
    BY <2>1, <1>4 DEF LatestExists
  <2>2. CASE m = Len(ledger) + 1
    <3>1. Len(ledger) \in 0..Len(ledger)
      BY <1>2
    <3>2. MatchesUpTo(u, ledger', Len(ledger)) # {}
             => \E k : IsLatest(k, u, ledger', Len(ledger))
      BY <3>1, <1>4 DEF LatestExists
    <3>3. /\ ledger' \in Seq(Components) /\ Len(ledger) \in Nat
          /\ Len(ledger) + 1 <= Len(ledger')
      BY <1>1, <1>2
    <3>4. MatchesUpTo(u, ledger', Len(ledger) + 1) # {}
      BY <2>2
    <3>5. \E k : IsLatest(k, u, ledger', Len(ledger) + 1)
      BY <3>2, <3>3, <3>4, LatestStep
    <3> QED
      BY <2>2, <3>5
  <2> QED
    BY <2>1, <2>2, <1>1, <1>2
<1>7. HashesVerify'
  BY <1>1, <1>2 DEF HashesVerify
<1> QED
  BY <1>3, <1>5, <1>6, <1>7

\* Editing an entry in place preserves it.
LEMMA EditIInv ==
    ASSUME IInv, NEW k \in 1..Len(ledger), NEW rehash \in BOOLEAN,
           EditInPlace(k, rehash)
    PROVE  IInv'
<1> USE DEF IInv
<1>1. /\ ledger' \in Seq(Components) /\ Len(ledger') = Len(ledger)
      /\ \A j \in 1..Len(ledger) : j # k => ledger'[j] = ledger[j]
      /\ \A j \in 1..Len(ledger) :
            /\ ledger'[j].body.stamp = ledger[j].body.stamp
            /\ \A u : Matches(ledger'[j], u) <=> Matches(ledger[j], u)
      /\ rehash => VerifyXVSTAR(ledger'[k]) \/ ~HasXVSTAR(ledger'[k])
  BY EditFacts
<1>2. /\ UNCHANGED <<pc, loopVars, answer>> /\ pc = "idle"
      /\ edits' = edits + 1 /\ edits < MaxEdits
      /\ tampered' = IF rehash THEN tampered \ {k} ELSE tampered \cup {k}
  BY DEF EditInPlace
<1>3. TypeOK'
  BY <1>1, <1>2, SupersessionAssumption DEF TypeOK, loopVars, SupersessionAssumption
<1>4. ScanInv'
  BY <1>2 DEF ScanInv, loopVars
<1>5. LatestExists'
  <2> SUFFICES ASSUME NEW u \in TargetUIDs, NEW m \in 0..Len(ledger'),
                      MatchesUpTo(u, ledger', m) # {}
               PROVE  \E j : IsLatest(j, u, ledger', m)
    BY DEF LatestExists
  <2>1. m \in Nat /\ m \in 0..Len(ledger) /\ 1..m \subseteq 1..Len(ledger)
    BY <1>1 DEF TypeOK
  <2>2. MatchesUpTo(u, ledger', m) = MatchesUpTo(u, ledger, m)
        /\ \A j : IsLatest(j, u, ledger', m) <=> IsLatest(j, u, ledger, m)
    BY <2>1, <1>1, LatestOfPrefix
  <2> QED
    BY <2>1, <2>2 DEF LatestExists
<1>6. HashesVerify'
  BY <1>1, <1>2 DEF HashesVerify
<1> QED
  BY <1>3, <1>4, <1>5, <1>6

\* One step of the loop of Superseded preserves it: the new best entry is the
\* latest of the longer prefix, or the old one still is.
LEMMA ScanIInv ==
    ASSUME IInv, QueryScan
    PROVE  IInv'
<1> USE DEF IInv
<1> DEFINE e == ledger[i]
           better == Matches(e, target) /\ (~found \/ NotBefore(e.body.stamp, bestT))
           m == i - 1
<1>1. /\ pc = "scan" /\ target # NoUID /\ i <= n /\ i' = i + 1
      /\ UNCHANGED <<ledgerVars, pc, target, n, answer>>
      /\ found' = (found \/ better)
      /\ bestT' = IF better THEN e.body.stamp ELSE bestT
      /\ bestStatus' = IF better THEN e.body.status ELSE bestStatus
  BY DEF QueryScan
<1>2. /\ ledger \in Seq(Components) /\ m \in Nat /\ m + 1 = i
      /\ i \in 1..Len(ledger) /\ i' - 1 = i /\ m \in 0..Len(ledger)
      /\ bestT \in Nat /\ found \in BOOLEAN
  BY <1>1, LedgerAssumption DEF TypeOK, Stamps, LedgerAssumption
<1>3. /\ e \in Components /\ e.body \in Contents
      /\ e.body.stamp \in Stamps /\ e.body.stamp \in Nat
      /\ e.body.status \in Statuses \cup {NoStatus}
  <2>1. e.body \in Contents
    BY <1>2, EntryType
  <2> QED
    BY <2>1, <1>2, EntryType DEF Contents
<1>4. TypeOK'
  <2>1. better \in BOOLEAN
    BY DEF Matches
  <2>2. i' \in 1..(n' + 1) /\ n' \in 0..Len(ledger')
    BY <1>1 DEF TypeOK, ledgerVars
  <2>3. found' \in BOOLEAN
    BY <1>1, <2>1, <1>2
  <2>4. bestT' \in Stamps /\ bestStatus' \in Statuses \cup {NoStatus}
    BY <1>1, <1>3 DEF TypeOK
  <2> QED
    BY <1>1, <2>2, <2>3, <2>4 DEF TypeOK, ledgerVars
<1>5. found <=> MatchesUpTo(target, ledger, m) # {}
  BY <1>1 DEF ScanInv
<1>6. MatchesUpTo(target, ledger, i) =
         MatchesUpTo(target, ledger, m) \cup (IF Matches(e, target) THEN {i} ELSE {})
  BY <1>2 DEF MatchesUpTo
<1>7. found' <=> MatchesUpTo(target, ledger, i) # {}
  BY <1>1, <1>5, <1>6
<1>8. ~found' => bestStatus' = NoStatus
  BY <1>1 DEF ScanInv
<1>9. ASSUME found'
      PROVE  \E k \in 1..i : /\ IsLatest(k, target, ledger, i)
                             /\ bestT' = ledger[k].body.stamp
                             /\ bestStatus' = ledger[k].body.status
  <2>1. ASSUME found
        PROVE  \E k \in 1..m : /\ IsLatest(k, target, ledger, m)
                               /\ bestT = ledger[k].body.stamp
                               /\ bestStatus = ledger[k].body.status
    BY <2>1, <1>1 DEF ScanInv
  <2>2. CASE better
    <3>1. \A j \in MatchesUpTo(target, ledger, m) :
             ledger[j].body.stamp <= e.body.stamp
      <4> SUFFICES ASSUME NEW j \in MatchesUpTo(target, ledger, m)
                   PROVE  ledger[j].body.stamp <= e.body.stamp
        OBVIOUS
      <4>1. found
        BY <1>5
      <4>2. PICK k \in 1..m : /\ IsLatest(k, target, ledger, m)
                              /\ bestT = ledger[k].body.stamp
        BY <4>1, <2>1
      <4>3. j \in 1..Len(ledger)
        BY <1>2 DEF MatchesUpTo
      <4>4. ledger[j].body.stamp \in Nat
        BY <4>3, <1>2, EntryType
      <4>5. ledger[j].body.stamp <= bestT
        BY <4>2, <4>4, <1>2 DEF IsLatest
      <4>6. ~(e.body.stamp < bestT)
        BY <2>2, <4>1 DEF NotBefore
      <4> QED
        BY <4>4, <4>5, <4>6, <1>2, <1>3
    <3>2. Matches(ledger[m + 1], target) /\ m + 1 <= Len(ledger)
      BY <2>2, <1>2
    <3>3. \A j \in MatchesUpTo(target, ledger, m) :
             ledger[j].body.stamp <= ledger[m + 1].body.stamp
      BY <3>1, <1>2
    <3>4. IsLatest(m + 1, target, ledger, m + 1)
      BY <3>2, <3>3, <1>2, LatestTake
    <3> QED
      BY <3>4, <1>1, <1>2, <2>2
  <2>3. CASE ~better
    <3>1. found
      BY <1>1, <1>9, <2>3
    <3>2. PICK k \in 1..m : /\ IsLatest(k, target, ledger, m)
                            /\ bestT = ledger[k].body.stamp
                            /\ bestStatus = ledger[k].body.status
      BY <3>1, <2>1
    <3>3. ~Matches(e, target) \/ e.body.stamp < bestT
      BY <2>3, <3>1 DEF NotBefore
    <3>4. IsLatest(k, target, ledger, m + 1)
      BY <3>2, <3>3, <1>2, LatestSkip, LatestKeep
    <3> QED
      BY <3>2, <3>4, <1>1, <1>2, <2>3
  <2> QED
    BY <2>2, <2>3
<1>10. ScanInv'
  BY <1>1, <1>2, <1>7, <1>8, <1>9 DEF ScanInv, ledgerVars
<1>11. LatestExists' /\ HashesVerify'
  BY <1>1 DEF LatestExists, HashesVerify, ledgerVars
<1> QED
  BY <1>4, <1>10, <1>11

\* Entering and leaving Superseded.
LEMMA StartIInv ==
    ASSUME IInv, NEW u \in TargetUIDs, QueryStart(u)
    PROVE  IInv'
<1> USE DEF IInv
<1>1. /\ pc = "idle" /\ pc' = "scan" /\ target' = u /\ n' = Len(ledger)
      /\ answer' = NoStatus
      /\ UNCHANGED <<ledgerVars, i, found, bestT, bestStatus>>
  BY DEF QueryStart
<1>2. i' = 1 /\ ~found' /\ bestStatus' = NoStatus
  BY <1>1 DEF ScanInv
<1>3. TypeOK'
  BY <1>1, <1>2 DEF TypeOK, ledgerVars, UIDs
<1>4. ScanInv'
  <2>1. i' - 1 = 0
    BY <1>2
  <2>2. MatchesUpTo(target', ledger', i' - 1) = {}
    BY <2>1 DEF MatchesUpTo
  <2> QED
    BY <1>1, <1>2, <2>2 DEF ScanInv
<1>5. LatestExists' /\ HashesVerify'
  BY <1>1 DEF LatestExists, HashesVerify, ledgerVars
<1> QED
  BY <1>3, <1>4, <1>5

LEMMA ReturnIInv ==
    ASSUME IInv, QueryReturn
    PROVE  IInv'
<1> USE DEF IInv
<1>1. /\ answer' = IF found THEN bestStatus ELSE NoStatus
      /\ pc' = "idle" /\ target' = NoUID /\ n' = 0 /\ i' = 1
      /\ ~found' /\ found' \in BOOLEAN /\ bestT' = ZeroTime /\ bestStatus' = NoStatus
      /\ UNCHANGED ledgerVars
  BY DEF QueryReturn
<1>2. NoUID \in TargetUIDs /\ ZeroTime \in Stamps
  BY LedgerAssumption DEF LedgerAssumption, UIDs, TargetUIDs, Stamps, ZeroTime
<1>3. TypeOK'
  BY <1>1, <1>2 DEF TypeOK, ledgerVars
<1>4. ScanInv' /\ LatestExists' /\ HashesVerify'
  BY <1>1 DEF ScanInv, LatestExists, HashesVerify, ledgerVars
<1> QED
  BY <1>3, <1>4

\* What the three kinds of append hand over: a component, and a hash that
\* verifies, unless the component was read from elsewhere.
LEMMA NextIInv ==
    ASSUME IInv, [Next]_vars
    PROVE  IInv'
<1>1. CASE AppendOriginal
  <2>1. PICK u \in TargetUIDs, hashed \in BOOLEAN :
           AppendEntry(Original(u, 1, hashed))
    BY <1>1 DEF AppendOriginal
  <2>2. 1 \in Stamps
    BY LedgerAssumption, SupersessionAssumption
    DEF Stamps, LedgerAssumption, SupersessionAssumption
  <2> QED
    BY <2>1, <2>2, OriginalType, AppendIInv
<1>2. CASE AppendForeign
  <2>1. PICK e \in Foreign : AppendEntry(e)
    BY <1>2 DEF AppendForeign
  <2>2. e \in Components /\ (HasXVSTAR(e) => VerifyXVSTAR(e))
    BY SupersessionAssumption
    DEF SupersessionAssumption, HasXVSTAR, VerifyXVSTAR, Digest
  <2> QED
    BY <2>1, <2>2, AppendIInv
<1>3. ASSUME NEW k \in 1..Len(ledger), NEW s \in Statuses, NEW t \in 1..MaxStamp,
             Supersedes(k, s, t)
      PROVE  IInv'
  <2>1. /\ ledger[k].body.uid \in TargetUIDs
        /\ AppendEntry(Journal(ledger[k], s, t))
    BY <1>3 DEF Supersedes
  <2>2. ledger[k] \in Components
    BY EntryType DEF IInv, TypeOK
  <2>3. t \in Stamps
    BY LedgerAssumption DEF Stamps, LedgerAssumption
  <2> QED
    BY <2>1, <2>2, <2>3, JournalType, AppendIInv
<1>4. ASSUME NEW k \in 1..Len(ledger), NEW rehash \in BOOLEAN, EditInPlace(k, rehash)
      PROVE  IInv'
  BY <1>4, EditIInv
<1>5. ASSUME NEW u \in TargetUIDs, QueryStart(u)
      PROVE  IInv'
  BY <1>5, StartIInv
<1>6. CASE QueryScan
  BY <1>6, ScanIInv
<1>7. CASE QueryReturn
  BY <1>7, ReturnIInv
<1>8. CASE UNCHANGED vars
  BY <1>8 DEF IInv, TypeOK, ScanInv, LatestExists, HashesVerify,
              vars, ledgerVars, loopVars
<1> QED
  BY <1>1, <1>2, <1>3, <1>4, <1>5, <1>6, <1>7, <1>8 DEF Next, Caller

LEMMA Invariance == Spec => []IInv
<1>1. Init => IInv
  BY InitIInv
<1>2. IInv /\ [Next]_vars => IInv'
  BY NextIInv
<1> QED
  BY <1>1, <1>2, PTL DEF Spec

\* The variables keep their types: in particular the loop never reads past the
\* slice it was given, however the ledger grows meanwhile.
THEOREM TypeCorrect == Spec => []TypeOK
BY Invariance, PTL DEF IInv

\* Superseded's loop invariant holds for every ledger: the locals always
\* describe the latest entry that counts among those already looked at.
THEOREM LoopCorrect == Spec => []ScanInv
BY Invariance, PTL DEF IInv

\* Whatever the library stamped verifies until somebody edits it.
THEOREM HashesAlwaysVerify == Spec => []HashesVerify
BY Invariance, PTL DEF IInv

-----------------------------------------------------------------------------
(* Appending is incremental.                                               *)

\* The effective status of a uid before and after one more entry.
LEMMA EffectiveStep ==
    ASSUME NEW led \in Seq(Components), NEW led2 \in Seq(Components),
           NEW u, u # NoUID,
           Len(led2) = Len(led) + 1,
           \A j \in 1..Len(led) : led2[j] = led[j],
           MatchesUpTo(u, led, Len(led)) # {} => \E k : IsLatest(k, u, led, Len(led))
    PROVE  Effective(u, led2) =
             IF /\ Matches(led2[Len(led2)], u)
                /\ \A k \in MatchesUpTo(u, led, Len(led)) :
                      led[k].body.stamp <= led2[Len(led2)].body.stamp
             THEN led2[Len(led2)].body.status
             ELSE Effective(u, led)
<1> DEFINE m == Len(led)
           e == led2[m + 1]
<1>1. /\ m \in Nat /\ m + 1 <= Len(led2) /\ Len(led2) = m + 1
      /\ m + 1 \in 0..Len(led2) /\ m \in 0..Len(led)
  OBVIOUS
<1>2. /\ MatchesUpTo(u, led2, m) = MatchesUpTo(u, led, m)
      /\ \A k : IsLatest(k, u, led2, m) <=> IsLatest(k, u, led, m)
  <2>1. \A j \in 1..m : led2[j] = led[j]
    OBVIOUS
  <2> QED
    BY <1>1, <2>1, LatestOfPrefix
<1>3. MatchesUpTo(u, led2, m + 1) =
         MatchesUpTo(u, led2, m) \cup (IF Matches(e, u) THEN {m + 1} ELSE {})
  BY <1>1 DEF MatchesUpTo
<1>4. \A j \in MatchesUpTo(u, led, m) :
         j \in 1..m /\ led2[j] = led[j] /\ led[j].body.stamp \in Nat
  BY EntryType DEF MatchesUpTo
<1>5. e.body.stamp \in Nat
  BY <1>1, EntryType
<1>6. CASE /\ Matches(e, u)
           /\ \A k \in MatchesUpTo(u, led, m) : led[k].body.stamp <= e.body.stamp
  <2>1. \A k \in MatchesUpTo(u, led2, m) : led2[k].body.stamp <= led2[m + 1].body.stamp
    BY <1>6, <1>2, <1>4
  <2>2. IsLatest(m + 1, u, led2, m + 1)
    BY <1>1, <1>6, <2>1, LatestTake
  <2>3. EffectiveUpTo(u, led2, m + 1) = e.body.status
    BY <1>1, <2>2, EffectiveOfLatest
  <2> QED
    BY <1>1, <1>6, <2>3 DEF Effective
<1>7. CASE ~ (/\ Matches(e, u)
              /\ \A k \in MatchesUpTo(u, led, m) : led[k].body.stamp <= e.body.stamp)
  <2>1. CASE MatchesUpTo(u, led, m) = {}
    <3>1. MatchesUpTo(u, led2, m + 1) = {}
      BY <1>2, <1>3, <1>7, <2>1
    <3> QED
      BY <1>1, <1>7, <2>1, <3>1 DEF Effective, EffectiveUpTo
  <2>2. CASE MatchesUpTo(u, led, m) # {}
    <3>1. PICK k : IsLatest(k, u, led, m)
      BY <2>2
    <3>2. k \in MatchesUpTo(u, led, m) /\ k \in 1..m /\ led2[k] = led[k]
      BY <3>1, <1>4 DEF IsLatest
    <3>3. ~Matches(e, u) \/ e.body.stamp < led2[k].body.stamp
      <4> SUFFICES ASSUME Matches(e, u) PROVE e.body.stamp < led2[k].body.stamp
        OBVIOUS
      <4>1. PICK j \in MatchesUpTo(u, led, m) :
               ~(led[j].body.stamp <= e.body.stamp)
        BY <1>7
      <4>2. led[j].body.stamp <= led[k].body.stamp
        BY <3>1, <3>2, <1>4 DEF IsLatest
      <4>3. led[j].body.stamp \in Nat /\ led[k].body.stamp \in Nat
        BY <4>1, <3>2, <1>4
      <4>4. e.body.stamp < led[j].body.stamp
        BY <4>1, <4>3, <1>5
      <4>5. e.body.stamp < led[k].body.stamp
        BY <4>2, <4>3, <4>4, <1>5
      <4> QED
        BY <4>5, <3>2
    <3>4. IsLatest(k, u, led2, m)
      BY <3>1, <1>2
    <3>5. IsLatest(k, u, led2, m + 1)
      BY <3>3, <3>4, <1>1, LatestSkip, LatestKeep
    <3>6. EffectiveUpTo(u, led2, m + 1) = led2[k].body.status
      BY <3>5, <1>1, EffectiveOfLatest
    <3>7. EffectiveUpTo(u, led, m) = led[k].body.status
      BY <3>1, <1>1, EffectiveOfLatest
    <3> QED
      BY <1>1, <1>7, <3>2, <3>6, <3>7 DEF Effective
  <2> QED
    BY <2>1, <2>2
<1> QED
  BY <1>6, <1>7

\* A component of ledger' appended at the end is the only change.
LEMMA GrowthIsAppend ==
    ASSUME IInv, [Next]_vars, Len(ledger') > Len(ledger)
    PROVE  /\ Len(ledger') = Len(ledger) + 1
           /\ \A j \in 1..Len(ledger) : ledger'[j] = ledger[j]
<1> USE DEF IInv
<1>1. ASSUME NEW e, AppendEntry(e)
      PROVE  /\ Len(ledger') = Len(ledger) + 1
             /\ \A j \in 1..Len(ledger) : ledger'[j] = ledger[j]
  BY <1>1 DEF AppendEntry, TypeOK
<1>2. ASSUME NEW k \in 1..Len(ledger), NEW rehash \in BOOLEAN, EditInPlace(k, rehash)
      PROVE  Len(ledger') = Len(ledger)
  BY <1>2, EditFacts
<1>3. ASSUME \/ QueryScan \/ QueryReturn \/ UNCHANGED vars
             \/ \E u \in TargetUIDs : QueryStart(u)
      PROVE  ledger' = ledger
  BY <1>3 DEF QueryScan, QueryReturn, QueryStart, vars, ledgerVars
<1>4. CASE AppendOriginal \/ AppendForeign
  BY <1>1, <1>4 DEF AppendOriginal, AppendForeign
<1>5. CASE \E k \in 1..Len(ledger), s \in Statuses, t \in 1..MaxStamp : Supersedes(k, s, t)
  BY <1>1, <1>5 DEF Supersedes
<1>6. Len(ledger) \in Nat
  BY DEF TypeOK
<1> QED
  BY <1>2, <1>3, <1>4, <1>5, <1>6 DEF Next, Caller

\* The incremental law for every ledger: an appended supersession takes effect
\* exactly when nothing that counts is stamped later, and nothing else changes.
THEOREM AppendIncremental == Spec => AppendedTakesEffect
<1>1. ASSUME IInv, [Next]_vars, Len(ledger') > Len(ledger)
      PROVE  \A u \in TargetUIDs :
               Effective(u, ledger') =
                 IF /\ u # NoUID /\ Matches(ledger'[Len(ledger')], u)
                    /\ \A k \in MatchesUpTo(u, ledger, Len(ledger)) :
                          ledger[k].body.stamp <= ledger'[Len(ledger')].body.stamp
                 THEN ledger'[Len(ledger')].body.status
                 ELSE Effective(u, ledger)
  <2> TAKE u \in TargetUIDs
  <2>1. /\ Len(ledger') = Len(ledger) + 1
        /\ \A j \in 1..Len(ledger) : ledger'[j] = ledger[j]
    BY <1>1, GrowthIsAppend
  <2>2. ledger \in Seq(Components) /\ ledger' \in Seq(Components)
    BY <1>1, NextIInv DEF IInv, TypeOK
  <2>3. Len(ledger) \in 0..Len(ledger)
    BY <2>2
  <2>4. MatchesUpTo(u, ledger, Len(ledger)) # {}
          => \E k : IsLatest(k, u, ledger, Len(ledger))
    BY <1>1, <2>3 DEF IInv, LatestExists
  <2>5. CASE u = NoUID
    BY <2>5 DEF Effective, EffectiveUpTo
  <2>6. CASE u # NoUID
    BY <2>1, <2>2, <2>4, <2>6, EffectiveStep
  <2> QED
    BY <2>5, <2>6
<1>2. IInv /\ [Next]_vars =>
        [Len(ledger') > Len(ledger) =>
           LET e == ledger'[Len(ledger')]
           IN  \A u \in TargetUIDs :
                 Effective(u, ledger') =
                   IF /\ u # NoUID /\ Matches(e, u)
                      /\ \A k \in MatchesUpTo(u, ledger, Len(ledger)) :
                            ledger[k].body.stamp <= e.body.stamp
                   THEN e.body.status
                   ELSE Effective(u, ledger)]_vars
  BY <1>1
<1> QED
  BY <1>2, Invariance, PTL DEF Spec, AppendedTakesEffect

-----------------------------------------------------------------------------
(* Superseded implements StatusProjection.                                 *)

\* What a prefix says does not change when entries are appended after it.
LEMMA PrefixStable ==
    ASSUME NEW led \in Seq(Components), NEW led2 \in Seq(Components),
           NEW u, NEW m \in 0..Len(led), Len(led) <= Len(led2),
           \A j \in 1..Len(led) : led2[j] = led[j],
           u # NoUID => (MatchesUpTo(u, led, m) # {} => \E k : IsLatest(k, u, led, m))
    PROVE  EffectiveUpTo(u, led2, m) = EffectiveUpTo(u, led, m)
<1>1. /\ m \in Nat /\ m \in 0..Len(led2)
      /\ \A j \in 1..m : led2[j] = led[j]
  OBVIOUS
<1>2. /\ MatchesUpTo(u, led2, m) = MatchesUpTo(u, led, m)
      /\ \A k : IsLatest(k, u, led2, m) <=> IsLatest(k, u, led, m)
  BY <1>1, LatestOfPrefix
<1>3. CASE u = NoUID \/ MatchesUpTo(u, led, m) = {}
  BY <1>2, <1>3 DEF EffectiveUpTo
<1>4. CASE u # NoUID /\ MatchesUpTo(u, led, m) # {}
  <2>1. PICK k : IsLatest(k, u, led, m)
    BY <1>4
  <2>2. k \in 1..m
    BY <2>1 DEF IsLatest, MatchesUpTo
  <2>3. EffectiveUpTo(u, led2, m) = led2[k].body.status
    BY <1>1, <1>2, <1>4, <2>1, EffectiveOfLatest
  <2>4. EffectiveUpTo(u, led, m) = led[k].body.status
    BY <1>4, <2>1, EffectiveOfLatest
  <2> QED
    BY <2>2, <2>3, <2>4, <1>1
<1> QED
  BY <1>3, <1>4

\* The mapped answer, named to keep the obligations small.
absAnswer == IF pc = "scan" THEN EffectiveUpTo(target, ledger, n) ELSE answer

\* When the loop is over, its locals are the answer of the whole slice.
LEMMA LoopAnswer ==
    ASSUME IInv, pc = "scan", target = NoUID \/ i > n
    PROVE  EffectiveUpTo(target, ledger, n) = IF found THEN bestStatus ELSE NoStatus
<1> USE DEF IInv
<1>1. CASE target = NoUID
  <2>1. ~found
    BY <1>1 DEF ScanInv
  <2> QED
    BY <1>1, <2>1 DEF EffectiveUpTo
<1>2. CASE target # NoUID
  <2>1. i - 1 = n /\ n \in 0..Len(ledger) /\ ledger \in Seq(Components)
    BY <1>2 DEF TypeOK
  <2>2. found <=> MatchesUpTo(target, ledger, n) # {}
    BY <1>2, <2>1 DEF ScanInv
  <2>3. CASE ~found
    BY <2>2, <2>3 DEF EffectiveUpTo
  <2>4. CASE found
    <3>1. PICK k \in 1..n : /\ IsLatest(k, target, ledger, n)
                            /\ bestStatus = ledger[k].body.status
      BY <2>1, <2>4 DEF ScanInv
    <3> QED
      BY <1>2, <2>1, <2>4, <3>1, EffectiveOfLatest
  <2> QED
    BY <2>3, <2>4
<1> QED
  BY <1>1, <1>2

\* Appending, from the side of a query under way.
LEMMA AppendMaps ==
    ASSUME IInv, IInv', NEW e, AppendEntry(e)
    PROVE  /\ Len(ledger') = Len(ledger) + 1
           /\ \A j \in 1..Len(ledger) : ledger'[j] = ledger[j]
           /\ UNCHANGED <<target, pc>> /\ absAnswer' = absAnswer
<1> USE DEF IInv
<1>1. /\ Len(ledger') = Len(ledger) + 1
      /\ \A j \in 1..Len(ledger) : ledger'[j] = ledger[j]
      /\ UNCHANGED <<target, pc, n, answer>>
  BY DEF AppendEntry, TypeOK, loopVars
<1>2. EffectiveUpTo(target, ledger', n) = EffectiveUpTo(target, ledger, n) \/ pc = "idle"
  <2> SUFFICES ASSUME pc = "scan"
               PROVE  EffectiveUpTo(target, ledger', n) = EffectiveUpTo(target, ledger, n)
    BY DEF TypeOK
  <2>1. /\ ledger \in Seq(Components) /\ ledger' \in Seq(Components)
        /\ n \in 0..Len(ledger) /\ Len(ledger) <= Len(ledger')
    BY <1>1 DEF TypeOK
  <2>2. MatchesUpTo(target, ledger, n) # {} => \E k : IsLatest(k, target, ledger, n)
    BY <2>1 DEF LatestExists, TypeOK
  <2> QED
    BY <1>1, <2>1, <2>2, PrefixStable
<1> QED
  BY <1>1, <1>2 DEF absAnswer

\* The projection reads the ledger with the same operators.
LEMMA SameEffective ==
    ASSUME NEW u, NEW led
    PROVE  Projection!Effective(u, led) = Effective(u, led)
BY DEF Projection!Effective, Projection!EffectiveUpTo, Projection!MatchesUpTo,
       Projection!LatestIndex, Projection!IsLatest, Projection!Matches,
       Effective, EffectiveUpTo, MatchesUpTo, LatestIndex, IsLatest, Matches

\* Every initial state maps to an initial state of the projection.
LEMMA InitMaps == Init => Projection!AbsInit
BY DEF Init, Projection!AbsInit

\* Every step maps to a step of the projection or to a stutter.
LEMMA NextMaps ==
    ASSUME IInv, IInv', [Next]_vars
    PROVE  [Projection!AbsNext]_(Projection!absVars)
<1> USE DEF IInv
<1>0. /\ pc \in {"idle", "scan"}
      /\ absAnswer = IF pc = "scan" THEN EffectiveUpTo(target, ledger, n) ELSE answer
      /\ absAnswer' = IF pc' = "scan" THEN EffectiveUpTo(target', ledger', n') ELSE answer'
  BY DEF TypeOK, absAnswer
<1>1. ASSUME NEW e, AppendEntry(e)
      PROVE  Projection!Extend
  BY <1>1, AppendMaps, <1>0 DEF Projection!Extend, absAnswer
<1>2. ASSUME NEW k \in 1..Len(ledger), NEW rehash \in BOOLEAN, EditInPlace(k, rehash)
      PROVE  Projection!Rewrite
  <2>1. /\ Len(ledger') = Len(ledger)
        /\ \A j \in 1..Len(ledger) : j # k => ledger'[j] = ledger[j]
    BY <1>2, EditFacts
  <2>2. pc = "idle" /\ UNCHANGED <<pc, target, n, answer>>
    BY <1>2 DEF EditInPlace, loopVars
  <2> QED
    BY <2>1, <2>2 DEF Projection!Rewrite
<1>3. ASSUME NEW u \in TargetUIDs, QueryStart(u)
      PROVE  Projection!Ask
  <2>1. /\ pc = "idle" /\ pc' = "scan" /\ target' = u /\ n' = Len(ledger)
        /\ ledger' = ledger
    BY <1>3 DEF QueryStart, ledgerVars
  <2>2. EffectiveUpTo(target', ledger', n') = Effective(u, ledger)
    BY <2>1 DEF Effective
  <2>3. u \in Projection!UIDs
    BY DEF Projection!UIDs, Projection!TargetUIDs, TargetUIDs
  <2>4. absAnswer' = Projection!Effective(u, ledger)
    BY <2>1, <2>2, <1>0, SameEffective
  <2> QED
    BY <2>1, <2>3, <2>4 DEF Projection!Ask, absAnswer
<1>4. CASE QueryScan
  <2>1. UNCHANGED <<ledger, pc, target, n, answer>>
    BY <1>4 DEF QueryScan, ledgerVars
  <2> QED
    BY <2>1 DEF Projection!absVars
<1>5. CASE QueryReturn
  <2>1. /\ pc = "scan" /\ pc' = "idle" /\ target' = NoUID /\ ledger' = ledger
        /\ answer' = IF found THEN bestStatus ELSE NoStatus
        /\ target = NoUID \/ i > n
    BY <1>5 DEF QueryReturn, ledgerVars
  <2>2. EffectiveUpTo(target, ledger, n) = answer'
    BY <2>1, LoopAnswer
  <2>3. absAnswer' = absAnswer
    BY <2>1, <2>2, <1>0
  <2>4. Projection!Reply
    BY <2>1, <2>3 DEF Projection!Reply, absAnswer
  <2> QED
    BY <2>4 DEF Projection!AbsNext
<1>6. CASE UNCHANGED vars
  BY <1>6 DEF vars, ledgerVars, loopVars, Projection!absVars
<1> QED
  BY <1>1, <1>2, <1>3, <1>4, <1>5, <1>6
  DEF Next, Caller, AppendOriginal, AppendForeign, Supersedes, Projection!AbsNext

\* The query, scanning an entry at a time while the ledger grows, answers what
\* the abstract projection answers in one step at the moment of the call.
THEOREM ImplementsProjection == Spec => AnswersAsOfCall
<1>1. Init => Projection!AbsInit
  BY InitMaps
<1>2. IInv /\ IInv' /\ [Next]_vars => [Projection!AbsNext]_(Projection!absVars)
  BY NextMaps
<1> QED
  BY <1>1, <1>2, Invariance, PTL DEF Spec, AnswersAsOfCall, Projection!AbsSpec

-----------------------------------------------------------------------------
(* The order of the ledger.                                                *)

\* A permutation reaches every position.
LEMMA PermutationReaches ==
    ASSUME NEW len \in Nat, NEW p \in [1..len -> 1..len],
           \A a, b \in 1..len : a # b => p[a] # p[b],
           NEW k \in 1..len
    PROVE  \E j \in 1..len : p[j] = k
<1> SUFFICES ASSUME \A j \in 1..len : p[j] # k PROVE FALSE
  OBVIOUS
<1> DEFINE S == 1..len
           T == S \ {k}
<1>1. IsFiniteSet(S) /\ Cardinality(S) = len
  BY FS_Interval
<1>2. p \in [S -> T] /\ k \in S
  OBVIOUS
<1>3. \A x, y \in S : x # y => p[x] # p[y]
  OBVIOUS
<1> HIDE DEF S
<1>4. IsFiniteSet(T) /\ Cardinality(T) = len - 1
  BY <1>1, <1>2, FS_RemoveElement
<1>5. Cardinality(T) < Cardinality(S)
  BY <1>1, <1>4
<1> HIDE DEF T
<1>6. \A f \in [S -> T] : \E x, y \in S : x # y /\ f[x] = f[y]
  BY ONLY <1>1, <1>4, <1>5, FS_PigeonHole
<1>7. \E x, y \in S : x # y /\ p[x] = p[y]
  BY <1>2, <1>6
<1> QED
  BY <1>3, <1>7

\* Of entries with different DTSTAMPs, the latest stays the latest wherever it is put.
LEMMA LatestAnywhere ==
    ASSUME NEW led \in Seq(Components), NEW u, NEW p \in [1..Len(led) -> 1..Len(led)],
           \A a, b \in 1..Len(led) : a # b => p[a] # p[b],
           \A a, b \in MatchesUpTo(u, led, Len(led)) :
              a # b => led[a].body.stamp # led[b].body.stamp,
           NEW led2, led2 = [k \in 1..Len(led) |-> led[p[k]]],
           NEW j \in 1..Len(led), IsLatest(p[j], u, led, Len(led))
    PROVE  IsLatest(j, u, led2, Len(led))
<1> DEFINE m == Len(led)
<1>1. \A k \in 1..m : p[k] \in 1..m /\ led2[k] = led[p[k]]
  OBVIOUS
<1>2. \A k \in 1..m : k \in MatchesUpTo(u, led2, m) <=> p[k] \in MatchesUpTo(u, led, m)
  BY <1>1 DEF MatchesUpTo
<1>3. j \in MatchesUpTo(u, led2, m)
  BY <1>2 DEF IsLatest
<1>4. ASSUME NEW k \in MatchesUpTo(u, led2, m)
      PROVE  \/ led2[k].body.stamp < led2[j].body.stamp
             \/ led2[k].body.stamp = led2[j].body.stamp /\ k <= j
  <2>1. k \in 1..m /\ j \in 1..m
    BY DEF MatchesUpTo
  <2>2. p[k] \in MatchesUpTo(u, led, m) /\ p[j] \in MatchesUpTo(u, led, m)
    BY <1>2, <1>3, <2>1
  <2>3. \/ led[p[k]].body.stamp < led[p[j]].body.stamp
        \/ led[p[k]].body.stamp = led[p[j]].body.stamp
    BY <2>2 DEF IsLatest
  <2>4. CASE k = j
    BY <2>1, <2>4
  <2>5. CASE k # j
    <3>1. p[k] # p[j]
      BY <2>1, <2>5
    <3>2. led[p[k]].body.stamp # led[p[j]].body.stamp
      BY <2>2, <3>1
    <3> QED
      BY <1>1, <2>1, <2>3, <3>2
  <2> QED
    BY <2>4, <2>5
<1> QED
  BY <1>3, <1>4 DEF IsLatest

\* For ledgers of any length: replicas that hold the same entries in whatever order give every
\* component the same status, as long as no two entries that count for it have one DTSTAMP.
THEOREM OrderDoesNotMatter == Spec => []OrderIrrelevant
<1> DEFINE len == Len(ledger)
           Distinct(u) == \A a, b \in MatchesUpTo(u, ledger, len) :
                             a # b => ledger[a].body.stamp # ledger[b].body.stamp
<1>1. ASSUME IInv, NEW u \in TargetUIDs, Distinct(u), NEW p \in [1..len -> 1..len],
             \A a, b \in 1..len : a # b => p[a] # p[b],
             NEW led2, led2 = [k \in 1..len |-> ledger[p[k]]]
      PROVE  Effective(u, led2) = Effective(u, ledger)
  <2>1. ledger \in Seq(Components) /\ len \in Nat
    BY <1>1 DEF IInv, TypeOK
  <2>2. led2 \in Seq(Components) /\ Len(led2) = len
    BY <1>1, <2>1
  <2>3. \A k \in 1..len : k \in MatchesUpTo(u, led2, len) <=> p[k] \in MatchesUpTo(u, ledger, len)
    BY <1>1 DEF MatchesUpTo
  <2>4. \A k \in 1..len : \E j \in 1..len : p[j] = k
    BY <1>1, <2>1, PermutationReaches
  <2>5. CASE MatchesUpTo(u, ledger, len) = {} \/ u = NoUID
    <3>1. MatchesUpTo(u, led2, len) \subseteq 1..len
      BY DEF MatchesUpTo
    <3>2. MatchesUpTo(u, ledger, len) = {} => MatchesUpTo(u, led2, len) = {}
      BY <2>3, <3>1
    <3> QED
      BY <2>2, <2>5, <3>2 DEF Effective, EffectiveUpTo
  <2>6. CASE MatchesUpTo(u, ledger, len) # {} /\ u # NoUID
    <3>1. len \in 0..len
      BY <2>1
    <3>2. PICK k : IsLatest(k, u, ledger, len)
      BY <1>1, <2>6, <3>1 DEF IInv, LatestExists
    <3>3. k \in 1..len
      BY <3>2 DEF IsLatest, MatchesUpTo
    <3>4. PICK j \in 1..len : p[j] = k
      BY <2>4, <3>3
    <3>5. IsLatest(j, u, led2, len)
      BY <1>1, <2>1, <3>2, <3>4, LatestAnywhere
    <3>6. EffectiveUpTo(u, ledger, len) = ledger[k].body.status
      BY <2>1, <2>6, <3>1, <3>2, EffectiveOfLatest
    <3>7. EffectiveUpTo(u, led2, len) = led2[j].body.status
      BY <2>2, <2>6, <3>1, <3>5, EffectiveOfLatest
    <3>8. led2[j] = ledger[k]
      BY <1>1, <3>4
    <3> QED
      BY <2>2, <3>6, <3>7, <3>8 DEF Effective
  <2> QED
    BY <2>5, <2>6
<1>2. IInv => OrderIrrelevant
  BY <1>1 DEF OrderIrrelevant
<1> QED
  BY <1>2, Invariance, PTL

=============================================================================
