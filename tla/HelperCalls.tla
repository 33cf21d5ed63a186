------------------------------ MODULE HelperCalls ------------------------------
(***************************************************************************)
(* src/go/helpers: calls of IncrementSequence and SetPriority on one shared *)
(* component from several goroutines, statement by statement.  A helper     *)
(* reads what it needs, replaces c.Props by a new slice (Component.Set),    *)
(* computes the hash of the component as it is then, and replaces c.Props   *)
(* again by one that carries the hash (hashing.SetXVSTAR).                  *)
(*                                                                         *)
(* The library takes no lock.  Serialised says whether the callers do.      *)
(* Unserialised calls are a data race in Go; of its outcomes the model has  *)
(* those in which each load and each store of c.Props is atomic.            *)
(***************************************************************************)
EXTENDS Naturals

CONSTANTS
    Goroutines,
    Serialised,     \* BOOLEAN: callers hold a lock of their own during a call
    Priorities,     \* arguments of SetPriority
    MaxCalls        \* bound: calls of a goroutine

ASSUME HelperCallsAssumption ==
    /\ Serialised \in BOOLEAN
    /\ MaxCalls \in Nat
    /\ Priorities \subseteq Nat

VARIABLES
    props,          \* c.Props: the properties of the shared component
    pc, call,       \* per goroutine: where it is, what it calls
    n, snap, h,     \* its locals: value to write, c.Props it loaded, digest
    calls,          \* per goroutine: calls made (bound)
    increments      \* history: calls of IncrementSequence that returned

vars == <<props, pc, call, n, snap, h, calls, increments>>

Body(p) == [seq |-> p.seq, pri |-> p.pri]

Start == [seq |-> 0, pri |-> 0]

\* A component that a constructor stamped; SEQUENCE is absent, which reads as 0.
Init ==
    /\ props = [seq |-> 0, pri |-> 0, hash |-> Start]
    /\ pc = [g \in Goroutines |-> "idle"]
    /\ call = [g \in Goroutines |-> "none"]
    /\ n = [g \in Goroutines |-> 0]
    /\ snap = [g \in Goroutines |-> props]
    /\ h = [g \in Goroutines |-> Start]
    /\ calls = [g \in Goroutines |-> 0]
    /\ increments = 0

Goto(g, where) == pc' = [pc EXCEPT ![g] = where]

\* The callers' lock.
MayEnter(g) == Serialised => \A o \in Goroutines \ {g} : pc[o] = "idle"

Begin(g) ==
    /\ pc[g] = "idle" /\ calls[g] < MaxCalls /\ MayEnter(g)
    /\ calls' = [calls EXCEPT ![g] = @ + 1]

\* n, ok := Sequence(*c)
IncrementSequence(g) ==
    /\ Begin(g)
    /\ call' = [call EXCEPT ![g] = "IncrementSequence"]
    /\ n' = [n EXCEPT ![g] = props.seq + 1]
    /\ Goto(g, "load")
    /\ UNCHANGED <<props, snap, h, increments>>

\* Other arguments are rejected: the call returns and changes nothing.
InRange(v) == v \in 0..9

SetPriority(g) ==
    /\ Begin(g)
    /\ call' = [call EXCEPT ![g] = "SetPriority"]
    /\ \E v \in Priorities : InRange(v) /\ n' = [n EXCEPT ![g] = v]
    /\ Goto(g, "load")
    /\ UNCHANGED <<props, snap, h, increments>>

\* Component.Set goes over c.Props ...
Load(g) ==
    /\ pc[g] = "load"
    /\ snap' = [snap EXCEPT ![g] = props]
    /\ Goto(g, "store")
    /\ UNCHANGED <<props, call, n, h, calls, increments>>

\* ... and replaces it.
Written(g) ==
    IF call[g] = "IncrementSequence" THEN [snap[g] EXCEPT !.seq = n[g]]
    ELSE [snap[g] EXCEPT !.pri = n[g]]

Store(g) ==
    /\ pc[g] = "store"
    /\ props' = Written(g)
    /\ Goto(g, "digest")
    /\ UNCHANGED <<call, n, snap, h, calls, increments>>

\* Mutant: the digest is that of the component the call found.
Hashed_Stale(g) == Body(snap[g])

\* hashing.Component(*c)
Hashed(g) == Body(props)

Digest(g) ==
    /\ pc[g] = "digest"
    /\ h' = [h EXCEPT ![g] = Hashed(g)]
    /\ Goto(g, "loadhash")
    /\ UNCHANGED <<props, call, n, snap, calls, increments>>

\* Mutant: SetXVSTAR writes the hash into the properties that Set went over.
LoadHash_Reused(g) ==
    /\ pc[g] = "loadhash"
    /\ Goto(g, "storehash")
    /\ UNCHANGED <<props, call, n, snap, h, calls, increments>>

\* SetXVSTAR: Component.Set goes over c.Props once more ...
LoadHash(g) ==
    /\ pc[g] = "loadhash"
    /\ snap' = [snap EXCEPT ![g] = props]
    /\ Goto(g, "storehash")
    /\ UNCHANGED <<props, call, n, h, calls, increments>>

\* ... and replaces it; the call returns.
StoreHash(g) ==
    /\ pc[g] = "storehash"
    /\ props' = [snap[g] EXCEPT !.hash = h[g]]
    /\ increments' = IF call[g] = "IncrementSequence" THEN increments + 1
                     ELSE increments
    /\ Goto(g, "idle")
    /\ UNCHANGED <<call, n, snap, h, calls>>

Step(g) == Load(g) \/ Store(g) \/ Digest(g) \/ LoadHash(g) \/ StoreHash(g)

Next == \E g \in Goroutines : IncrementSequence(g) \/ SetPriority(g) \/ Step(g)

Spec == Init /\ [][Next]_vars
-----------------------------------------------------------------------------
(* Properties                                                               *)

Quiet == \A g \in Goroutines : pc[g] = "idle"

Bodies == [seq : Nat, pri : 0..9]
Props == [seq : Nat, pri : 0..9, hash : Bodies]

TypeOK ==
    /\ props \in Props
    /\ pc \in [Goroutines -> {"idle", "load", "store", "digest", "loadhash", "storehash"}]
    /\ call \in [Goroutines -> {"none", "IncrementSequence", "SetPriority"}]
    /\ n \in [Goroutines -> Nat]
    /\ \A g \in Goroutines : call[g] # "IncrementSequence" => n[g] \in 0..9
    /\ snap \in [Goroutines -> Props]
    /\ h \in [Goroutines -> Bodies]
    /\ calls \in [Goroutines -> Nat]
    /\ increments \in Nat

\* No increment is lost: when no call is under way, SEQUENCE has been bumped
\* once per call.  The comment of IncrementSequence (revision.go, lines 125-128)
\* claims it also for callers that interleave.
Counted == Quiet => props.seq = increments

\* When no call is under way the stored hash is the hash of the component.
HashIsFresh == Quiet => props.hash = Body(props)

\* Why both hold for serialised calls: there is one call at most, so nothing it
\* has read is out of date when it is used, and between its two stores SEQUENCE
\* is ahead of the calls that returned by the one under way.
Alone(g) == \A o \in Goroutines \ {g} : pc[o] = "idle"

Bump(g) == IF call[g] = "IncrementSequence" THEN 1 ELSE 0

Untouched(g) == /\ props.hash = Body(props)
                /\ props.seq = increments
                /\ call[g] = "IncrementSequence" => n[g] = increments + 1
Bumped(g) == props.seq = increments + Bump(g)

UnderWay(g) ==
    /\ Alone(g)
    /\ pc[g] = "load" => Untouched(g)
    /\ pc[g] = "store" => Untouched(g) /\ snap[g] = props
    /\ pc[g] = "digest" => Bumped(g)
    /\ pc[g] = "loadhash" => Bumped(g) /\ h[g] = Body(props)
    /\ pc[g] = "storehash" => Bumped(g) /\ h[g] = Body(props) /\ snap[g] = props

ReadsAreCurrent == \A g \in Goroutines : pc[g] # "idle" => UnderWay(g)
=============================================================================
