--------------------------- MODULE HelperCalls_proofs ---------------------------
(***************************************************************************)
(* Calls that their callers serialise are safe, for any number of           *)
(* goroutines and of calls.  HelperCalls without the callers' lock is       *)
(* not: TLC shows a lost increment with two calls.                          *)
(***************************************************************************)
EXTENDS HelperCalls, TLAPS

\* Every variable has its type: the arguments that SetPriority lets through are
\* in the range of PRIORITY, and no counter leaves the naturals.
THEOREM TypeCorrect == Spec => []TypeOK
<1>1. Init => TypeOK
  BY DEF Init, TypeOK, Props, Bodies, Start
<1>2. TypeOK /\ [Next]_vars => TypeOK'
  <2> SUFFICES ASSUME TypeOK, [Next]_vars PROVE TypeOK'
    OBVIOUS
  <2> USE DEF TypeOK, Goto
  <2>1. ASSUME NEW g \in Goroutines, IncrementSequence(g) PROVE TypeOK'
    BY <2>1 DEF IncrementSequence, Begin, Props
  <2>2. ASSUME NEW g \in Goroutines, SetPriority(g) PROVE TypeOK'
    BY <2>2 DEF SetPriority, Begin, InRange
  <2>3. ASSUME NEW g \in Goroutines, Load(g) PROVE TypeOK'
    BY <2>3 DEF Load
  <2>4. ASSUME NEW g \in Goroutines, Store(g) PROVE TypeOK'
    <3>1. Written(g) \in Props
      BY DEF Written, Props
    <3> QED BY <2>4, <3>1 DEF Store
  <2>5. ASSUME NEW g \in Goroutines, Digest(g) PROVE TypeOK'
    <3>1. Hashed(g) \in Bodies
      BY DEF Hashed, Body, Bodies, Props
    <3> QED BY <2>5, <3>1 DEF Digest
  <2>6. ASSUME NEW g \in Goroutines, LoadHash(g) PROVE TypeOK'
    BY <2>6 DEF LoadHash
  <2>7. ASSUME NEW g \in Goroutines, StoreHash(g) PROVE TypeOK'
    <3>1. [snap[g] EXCEPT !.hash = h[g]] \in Props
      BY DEF Props
    <3> QED BY <2>7, <3>1 DEF StoreHash
  <2>8. CASE UNCHANGED vars
    BY <2>8 DEF vars
  <2> QED BY <2>1, <2>2, <2>3, <2>4, <2>5, <2>6, <2>7, <2>8 DEF Next, Step
<1> QED BY <1>1, <1>2, PTL DEF Spec
-----------------------------------------------------------------------------
(* The invariant of serialised calls.                                      *)

IInv == TypeOK /\ Counted /\ HashIsFresh /\ ReadsAreCurrent

\* A call that starts finds nobody else under way, and the component as the
\* last call left it.
LEMMA Starts ==
    ASSUME Serialised, IInv, NEW g \in Goroutines, Begin(g)
    PROVE  Alone(g) /\ Quiet /\ props.seq = increments /\ props.hash = Body(props)
BY DEF IInv, Begin, MayEnter, Alone, Quiet, Counted, HashIsFresh

\* While a call goes on it is the only one, so of the invariant only the part
\* on its own position is left to show.
LEMMA OneCall ==
    ASSUME NEW g \in Goroutines, UnderWay(g)', pc'[g] # "idle"
    PROVE  ReadsAreCurrent' /\ Counted' /\ HashIsFresh'
BY DEF UnderWay, Alone, ReadsAreCurrent, Counted, HashIsFresh, Quiet

LEMMA StepPreserves ==
    ASSUME Serialised, IInv, TypeOK', [Next]_vars
    PROVE  ReadsAreCurrent' /\ Counted' /\ HashIsFresh'
<1> USE DEF TypeOK, Goto, UnderWay, Alone
<1>1. ASSUME NEW g \in Goroutines, IncrementSequence(g) PROVE UnderWay(g)' /\ pc'[g] = "load"
  <2>1. Begin(g)
    BY <1>1 DEF IncrementSequence
  <2>2. Untouched(g)'
    BY <1>1, <2>1, Starts DEF IncrementSequence, Untouched, IInv, Body
  <2> QED BY <1>1, <2>1, <2>2, Starts DEF IncrementSequence, IInv
<1>2. ASSUME NEW g \in Goroutines, SetPriority(g) PROVE UnderWay(g)' /\ pc'[g] = "load"
  <2>1. Begin(g)
    BY <1>2 DEF SetPriority
  <2>2. Untouched(g)'
    BY <1>2, <2>1, Starts DEF SetPriority, Untouched, IInv, Body
  <2> QED BY <1>2, <2>1, <2>2, Starts DEF SetPriority, IInv
<1>3. ASSUME NEW g \in Goroutines, Load(g) PROVE UnderWay(g)' /\ pc'[g] = "store"
  <2>1. UnderWay(g) /\ Untouched(g)
    BY <1>3 DEF Load, IInv, ReadsAreCurrent
  <2>2. Untouched(g)' /\ snap'[g] = props'
    BY <1>3, <2>1 DEF Load, Untouched, IInv, Body
  <2> QED BY <1>3, <2>1, <2>2 DEF Load, IInv
<1>4. ASSUME NEW g \in Goroutines, Store(g) PROVE UnderWay(g)' /\ pc'[g] = "digest"
  <2>1. UnderWay(g) /\ Untouched(g) /\ snap[g] = props
    BY <1>4 DEF Store, IInv, ReadsAreCurrent
  <2>2. Written(g).seq = increments + Bump(g)
    BY <2>1 DEF Written, Untouched, Bump, IInv, Props
  <2>3. Bumped(g)'
    BY <1>4, <2>2 DEF Store, Bumped, Bump
  <2> QED BY <1>4, <2>1, <2>3 DEF Store, IInv
<1>5. ASSUME NEW g \in Goroutines, Digest(g) PROVE UnderWay(g)' /\ pc'[g] = "loadhash"
  <2>1. UnderWay(g) /\ Bumped(g)
    BY <1>5 DEF Digest, IInv, ReadsAreCurrent
  <2>2. Bumped(g)' /\ h'[g] = Body(props)'
    BY <1>5, <2>1 DEF Digest, Hashed, Bumped, Bump, IInv, Body
  <2> QED BY <1>5, <2>1, <2>2 DEF Digest, IInv
<1>6. ASSUME NEW g \in Goroutines, LoadHash(g) PROVE UnderWay(g)' /\ pc'[g] = "storehash"
  <2>1. UnderWay(g) /\ Bumped(g) /\ h[g] = Body(props)
    BY <1>6 DEF LoadHash, IInv, ReadsAreCurrent
  <2>2. Bumped(g)' /\ h'[g] = Body(props)' /\ snap'[g] = props'
    BY <1>6, <2>1 DEF LoadHash, Bumped, Bump, IInv, Body
  <2> QED BY <1>6, <2>1, <2>2 DEF LoadHash, IInv
<1>7. ASSUME NEW g \in Goroutines, StoreHash(g)
      PROVE  ReadsAreCurrent' /\ Counted' /\ HashIsFresh'
  <2>1. UnderWay(g) /\ Bumped(g) /\ h[g] = Body(props) /\ snap[g] = props
    BY <1>7 DEF StoreHash, IInv, ReadsAreCurrent
  <2>2. \A o \in Goroutines : pc'[o] = "idle"
    BY <1>7, <2>1 DEF StoreHash, IInv
  <2>3. props'.seq = increments'
    BY <1>7, <2>1 DEF StoreHash, Bumped, Bump, IInv, Props
  <2>4. props'.hash = Body(props')
    BY <1>7, <2>1 DEF StoreHash, IInv, Props, Body
  <2> QED BY <2>2, <2>3, <2>4 DEF ReadsAreCurrent, Counted, HashIsFresh
<1>8. CASE UNCHANGED vars
  BY <1>8 DEF vars, IInv, ReadsAreCurrent, Counted, HashIsFresh, Quiet, UnderWay, Alone,
     Untouched, Bumped, Bump, Body
<1> QED BY <1>1, <1>2, <1>3, <1>4, <1>5, <1>6, <1>7, <1>8, OneCall DEF Next, Step

LEMMA Inductive == ASSUME Serialised PROVE Spec => []IInv
<1>1. Init => IInv
  <2>1. Init => TypeOK
    BY DEF Init, TypeOK, Props, Bodies, Start
  <2>2. Init => Counted /\ HashIsFresh /\ ReadsAreCurrent
    BY DEF Init, Start, Counted, HashIsFresh, ReadsAreCurrent, Body
  <2> QED BY <2>1, <2>2 DEF IInv
<1>2. TypeOK' /\ IInv /\ [Next]_vars => IInv'
  BY StepPreserves DEF IInv
<1> QED BY <1>1, <1>2, TypeCorrect, PTL DEF Spec

\* Serialised calls find current what they have read.
THEOREM SerialisedCallsReadCurrent == ASSUME Serialised PROVE Spec => []ReadsAreCurrent
BY Inductive, PTL DEF IInv

\* They lose no increment: the claim of IncrementSequence's comment, for callers
\* that hold a lock.
THEOREM SerialisedCallsCount == ASSUME Serialised PROVE Spec => []Counted
BY Inductive, PTL DEF IInv

\* They leave a hash that verifies.
THEOREM SerialisedCallsHash == ASSUME Serialised PROVE Spec => []HashIsFresh
BY Inductive, PTL DEF IInv
=============================================================================
