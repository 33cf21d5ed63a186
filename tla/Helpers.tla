-------------------------------- MODULE Helpers --------------------------------
(***************************************************************************)
(* The constructors and mutators of src/go/helpers and the constructor of   *)
(* src/go/supersession, as functions from components to components. Every   *)
(* one that changes a component ends with hashing.SetXVSTAR; one that is    *)
(* given what it does not take changes nothing, the hash included.          *)
(*                                                                         *)
(* A constructor gives << >> for an error. An instant is its UTC text, ""   *)
(* Go's zero time.                                                          *)
(***************************************************************************)
EXTENDS Validation

CONSTANTS
    Now,           \* time.Now() when a component is made
    JournalUIDs    \* UIDs of journals, as a function of target UID and instant

Put(c, name, value) == SetProp(c, Property(name, value))

\* Component.setOrClearTime
PutTime(c, name, t) == IF t = "" THEN RemoveProp(c, name) ELSE Put(c, name, t)

stampUID(type, uid) == Put(Put(Component(type, << >>), "UID", uid), "DTSTAMP", Now)

\* Mutant: the hash is taken before the last property is set.
Made_HashFirst(uid, c) ==
    IF uid = "" THEN << >>
    ELSE LET n == Len(c.props) IN <<AddProp(SetXVSTAR([c EXCEPT !.props = SubSeq(@, 1, n - 1)]), c.props[n])>>

\* ErrMissingUID, or the component with its hash.
Made(uid, c) == IF uid = "" THEN << >> ELSE <<SetXVSTAR(c)>>

NewTodo(uid, due) == Made(uid, PutTime(stampUID("VTODO", uid), "DUE", due))
NewJournal(uid, dtstart) == Made(uid, PutTime(stampUID("VJOURNAL", uid), "DTSTART", dtstart))
NewEvent(uid, dtstart, dtend) ==
    Made(uid, PutTime(PutTime(stampUID("VEVENT", uid), "DTSTART", dtstart), "DTEND", dtend))
NewFreeBusy(uid, dtstart, dtend) ==
    Made(uid, PutTime(PutTime(stampUID("VFREEBUSY", uid), "DTSTART", dtstart), "DTEND", dtend))
NewAlarm(uid, action, trigger) ==
    Made(uid, Put(Put(stampUID("VALARM", uid), "ACTION", action), "TRIGGER", trigger))

\* NewRelativeAlarm and NewAbsoluteAlarm: the trigger comes with its parameters.
newAlarmWithTrigger(uid, action, trigger) ==
    Made(uid, SetProp(Put(stampUID("VALARM", uid), "ACTION", action), trigger))

NewCalendar(prodid) ==
    [prodid |-> IF prodid = "" THEN "-//hop-top//vstar//EN" ELSE prodid, components |-> << >>]

NewCard(uid, kind) ==
    LET k == IF kind = "" THEN "individual" ELSE kind
    IN  [uid |-> uid, kind |-> k,
         props |-> <<Property("VERSION", "4.0"), Property("KIND", k), Property("UID", uid)>>]

\* supersession.Supersedes; << >> for ErrTargetCorrupted
Supersedes(target, status, t) ==
    LET set == << Property("UID", JournalUIDs[<<UID(target), t>>]), Property("DTSTAMP", t),
                  Property("RELATED-TO", UID(target)), Property("CATEGORIES", "status-supersession"),
                  Property(EFFECTIVE, status) >>
    IN  IF Has(target, HASH) /\ ~VerifyXVSTAR(target) THEN << >>
        ELSE <<SetXVSTAR(Component("VJOURNAL", set))>>
-----------------------------------------------------------------------------
(* Mutators.  Refreshed when the argument is taken.                        *)

\* Mutant: a value outside the domain is written all the same.
Taken_Always(condition, c, new) == SetXVSTAR(new)

Taken(condition, c, new) == IF condition THEN SetXVSTAR(new) ELSE c

Scheduled == {"VEVENT", "VTODO", "VJOURNAL"}

SetStatus(c, s) == Taken(c.type = "VTODO" /\ s \in TodoStatuses, c, Put(c, "STATUS", s))
SetEventStatus(c, s) == Taken(c.type = "VEVENT" /\ s \in EventStatuses, c, Put(c, "STATUS", s))
SetJournalStatus(c, s) == Taken(c.type = "VJOURNAL" /\ s \in JournalStatuses, c, Put(c, "STATUS", s))
SetClass(c, v) == Taken(c.type \in Scheduled /\ v \in Classes, c, Put(c, "CLASS", v))
SetTransp(c, v) == Taken(c.type = "VEVENT" /\ v \in Transps, c, Put(c, "TRANSP", v))

Complete(c, t) ==
    Taken(c.type = "VTODO", c,
          Put(PutTime(Put(c, "STATUS", "COMPLETED"), "COMPLETED", t), "PERCENT-COMPLETE", "100"))

SetDue(c, t) == Taken(TRUE, c, PutTime(c, "DUE", t))

\* parseUint: the canonical decimals an int holds; -1 when s is none.
parseUint(s) == IF isCanonicalDecimal(s) /\ Decimals[s] <= MaxInt THEN Decimals[s] ELSE -1
Sequence(c) == IF Has(c, "SEQUENCE") THEN parseUint(Value(c, "SEQUENCE")) ELSE -1

SetSequence(c, n) == Taken(c.type \in Scheduled /\ n >= 0, c, Put(c, "SEQUENCE", Itoa(n)))

IncrementSequence(c) ==
    LET n == IF Sequence(c) = -1 THEN 0 ELSE Sequence(c)
    IN  Taken(c.type \in Scheduled, c, Put(c, "SEQUENCE", Itoa(n + 1)))

SetPriority(c, n) == Taken(c.type \in {"VEVENT", "VTODO"} /\ n \in 0 .. 9, c, Put(c, "PRIORITY", Itoa(n)))
SetPercentComplete(c, n) ==
    Taken(c.type = "VTODO" /\ n \in 0 .. 100, c, Put(c, "PERCENT-COMPLETE", Itoa(n)))
RemovePriority(c) == Taken(TRUE, c, RemoveProp(c, "PRIORITY"))
RemovePercentComplete(c) == Taken(TRUE, c, RemoveProp(c, "PERCENT-COMPLETE"))

\* Blanks around the tokens and empty tokens are dropped.
TrimmedTokens(ts) == SelectSeq([k \in DOMAIN ts |-> Trim(ts[k])], LAMBDA t : t # "")
dedupePreserve(ts) ==
    FoldLeft(LAMBDA kept, t : IF t \in Range(kept) THEN kept ELSE Append(kept, t),
             << >>, TrimmedTokens(ts))

\* Categories: the tokens of the first CATEGORIES.
Categories(c) == IF Has(c, "CATEGORIES") THEN TrimmedTokens(Split(Value(c, "CATEGORIES"))) ELSE << >>

\* Mutant: beside the CATEGORIES there are, not in their place.
SetCategories_Adds(c, values) ==
    LET kept == dedupePreserve(values)
    IN  Taken(TRUE, c, IF kept = << >> THEN RemoveProp(c, "CATEGORIES")
                       ELSE AddProp(c, Property("CATEGORIES", Join(kept))))

SetCategories(c, values) ==
    LET kept == dedupePreserve(values)
    IN  Taken(TRUE, c, IF kept = << >> THEN RemoveProp(c, "CATEGORIES")
                       ELSE Put(c, "CATEGORIES", Join(kept)))

AddCategory(c, v) ==
    Taken(v # "" /\ v \notin Range(Categories(c)), c,
          Put(c, "CATEGORIES", Join(Append(Categories(c), v))))

Related(uid, reltype) ==
    [Property("RELATED-TO", uid) EXCEPT
        !.params = IF reltype = "" THEN << >> ELSE <<Param("RELTYPE", reltype)>>]

AddRelatedTo(c, uid, reltype) == Taken(uid # "", c, AddProp(c, Related(uid, reltype)))

\* RelatedTo with ParseRelType: the first RELTYPE that is not empty, in upper case
\* when it is registered, PARENT when there is none.
RelTypes == {"PARENT", "CHILD", "SIBLING", "FINISHTOSTART", "FINISHTOFINISH", "STARTTOFINISH",
             "STARTTOSTART", "DEPENDS-ON", "FIRST", "NEXT", "CONCEPT", "REFID"}
RelatedTo(c) ==
    LET all == GetAll(c.props, "RELATED-TO")
        Given(p) == SelectSeq(p.params, LAMBDA q : q.name = "RELTYPE" /\ q.value # "")
        RelType(p) == IF Given(p) = << >> THEN "PARENT"
                      ELSE IF ToUpper(Given(p)[1].value) \in RelTypes THEN ToUpper(Given(p)[1].value)
                      ELSE Given(p)[1].value
    IN  [k \in DOMAIN all |-> [uid |-> all[k].value, reltype |-> RelType(all[k])]]
=============================================================================
