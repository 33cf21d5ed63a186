------------------------------ MODULE Validation ------------------------------
(***************************************************************************)
(* The validator (src/go/validate): every check of a component, as the      *)
(* diagnostics it gives in order. A diagnostic is [code, at], at the name   *)
(* of the property its path ends in, "" when it ends at the component.      *)
(***************************************************************************)
EXTENDS CanonicalForm

CONSTANTS
    Trimmed,    \* texts with blanks around them, as a function to those without
    Tokens,     \* texts with commas, as a function to the tokens between them
    Decimals,   \* canonical decimals, as a function to the numbers they write
    MaxInt      \* greatest int of the build; Decimals may go beyond it

ASSUME TextsAssumption ==
    /\ MaxInt \in Nat
    /\ \A s, t \in DOMAIN Tokens : Tokens[s] = Tokens[t] => s = t
    /\ \A s, t \in DOMAIN Decimals : Decimals[s] = Decimals[t] => s = t

\* strings.TrimSpace and strings.ToUpper
Trim(s) == Apply(Trimmed, s)
ToUpper(s) == Apply(Upper, s)
EqualFold(s, t) == ToUpper(s) = ToUpper(t)
FoldsInto(s, vocabulary) == \E word \in vocabulary : EqualFold(s, word)

\* strings.Split and strings.Join at commas
Split(s) == IF s \in DOMAIN Tokens THEN Tokens[s] ELSE <<s>>
Join(ts) == IF Len(ts) = 1 THEN ts[1] ELSE CHOOSE s \in DOMAIN Tokens : Tokens[s] = ts

\* strconv.Itoa; one past the greatest int is the least of them, some text with a sign.
Itoa(n) == IF n > MaxInt THEN "-" ELSE CHOOSE s \in DOMAIN Decimals : Decimals[s] = n
-----------------------------------------------------------------------------
CONSTANTS
    UnsupportedRules, MalformedRules,   \* RRULE texts ParseRRule refuses
    MalformedTexts                      \* texts ParseTrigger and Parse of duration refuse

Diagnostic(code, at) == [code |-> code, at |-> at]
When(condition, code, at) == IF condition THEN <<Diagnostic(code, at)>> ELSE << >>

\* codeSeverities
Warnings == {"VS020", "VS050"}
Errors(diagnostics) == SelectSeq(diagnostics, LAMBDA d : d.code \notin Warnings)

Value(c, name) == Get(c, name)[1].value

\* Gives what Check finds at every property of the name.
AtEach(c, name, Check(_)) ==
    LET all == GetAll(c.props, name) IN FlattenSeq([k \in DOMAIN all |-> Check(all[k])])
-----------------------------------------------------------------------------
checkRequiredCommon(c) ==
    When(~Has(c, "UID"), "VS001", "UID") \o When(~Has(c, "DTSTAMP"), "VS002", "DTSTAMP")
      \o When(~Has(c, HASH), "VS003", HASH)

checkHashIntegrity(c) == When(Has(c, HASH) /\ ~VerifyXVSTAR(c), "VS010", HASH)

\* RFC 5545, sections 3.7 and 3.8, and RFC 6350, section 6
StandardProperties ==
  { "ACTION", "ATTACH", "ATTENDEE", "CALSCALE", "CATEGORIES", "CLASS", "COMMENT", "COMPLETED",
    "CONTACT", "CREATED", "DESCRIPTION", "DTEND", "DTSTAMP", "DTSTART", "DUE", "DURATION",
    "EXDATE", "EXRULE", "FREEBUSY", "GEO", "LAST-MODIFIED", "LOCATION", "METHOD", "ORGANIZER",
    "PERCENT-COMPLETE", "PRIORITY", "PRODID", "RDATE", "RECURRENCE-ID", "RELATED-TO", "REPEAT",
    "REQUEST-STATUS", "RESOURCES", "RRULE", "SEQUENCE", "STATUS", "SUMMARY", "TRANSP", "TRIGGER",
    "TZID", "TZNAME", "TZOFFSETFROM", "TZOFFSETTO", "TZURL", "UID", "URL", "VERSION" }
  \cup
  { "ADR", "ANNIVERSARY", "BDAY", "CALADRURI", "CALURI", "CLIENTPIDMAP", "EMAIL", "FBURL", "FN",
    "GENDER", "IMPP", "KEY", "KIND", "LANG", "LOGO", "MEMBER", "N", "NICKNAME", "NOTE", "ORG",
    "PHOTO", "RELATED", "REV", "ROLE", "SOUND", "SOURCE", "TEL", "TITLE", "TZ", "XML" }

\* ext.IsExtension is constant: names that begin with X-.
CONSTANT Extensions

checkExtensionNamespace(c) ==
    FlattenSeq([k \in DOMAIN c.props |->
      When(c.props[k].name \notin StandardProperties \cup Extensions, "VS020", c.props[k].name)])

checkVTODO(c) ==
    When(~Has(c, "DUE") /\ ~( /\ Has(c, "STATUS") /\ EqualFold(Value(c, "STATUS"), "COMPLETED")
                              /\ Has(c, "COMPLETED")), "VS040", "")
checkVEVENT(c) == When(~Has(c, "DTSTART"), "VS041", "DTSTART")
checkVFREEBUSY(c) == When(~(Has(c, "DTSTART") /\ Has(c, "DTEND")), "VS042", "")
checkVCARDComponent(c) == When(~(Has(c, "VERSION") /\ Has(c, "UID")), "VS043", "")

checkTypeSpecific(c) ==
    CASE c.type = "VTODO"     -> checkVTODO(c)
      [] c.type = "VEVENT"    -> checkVEVENT(c)
      [] c.type = "VFREEBUSY" -> checkVFREEBUSY(c)
      [] c.type = "VCARD"     -> checkVCARDComponent(c)
      [] OTHER                -> << >>

TodoStatuses == {"NEEDS-ACTION", "IN-PROCESS", "COMPLETED", "CANCELLED"}
EventStatuses == {"TENTATIVE", "CONFIRMED", "CANCELLED"}
JournalStatuses == {"DRAFT", "FINAL", "CANCELLED"}
Classes == {"PUBLIC", "PRIVATE", "CONFIDENTIAL"}
Transps == {"OPAQUE", "TRANSPARENT"}

StatusVocabulary == [VEVENT |-> EventStatuses, VTODO |-> TodoStatuses, VJOURNAL |-> JournalStatuses]

vocabularyDiagnostic(c, name, allowed, code) ==
    When(Has(c, name) /\ ~FoldsInto(Value(c, name), allowed), code, name)

checkStatusVocabulary(c) ==
    IF c.type \notin DOMAIN StatusVocabulary THEN << >>
    ELSE vocabularyDiagnostic(c, "STATUS", StatusVocabulary[c.type], "VS044")

checkClassification(c) ==
    vocabularyDiagnostic(c, "CLASS", Classes, "VS053")
      \o vocabularyDiagnostic(c, "TRANSP", Transps, "VS054")

\* The bound is compared digit by digit, whatever the length; SEQUENCE has none.
isCanonicalDecimal(s) == s \in DOMAIN Decimals
Exceeds(name, s) == \/ name = "PRIORITY" /\ Decimals[s] > 9
                    \/ name = "PERCENT-COMPLETE" /\ Decimals[s] > 100

checkIntegerDomains(c) ==
    LET At(p) == When(/\ p.name \in {"PRIORITY", "PERCENT-COMPLETE", "SEQUENCE"}
                      /\ ~isCanonicalDecimal(p.value) \/ Exceeds(p.name, p.value), "VS055", p.name)
    IN  FlattenSeq([k \in DOMAIN c.props |-> At(c.props[k])])
-----------------------------------------------------------------------------
SUPERSESSION == "STATUS-SUPERSESSION"
EFFECTIVE == "X-VSTAR-EFFECTIVE-STATUS"

\* In both packages, over all CATEGORIES.
categoriesContainSupersession(c) ==
    \E p \in Range(GetAll(c.props, "CATEGORIES")) :
      \E token \in Range(Split(p.value)) : ToUpper(Trim(token)) = SUPERSESSION

ledgerContainsUID(ledger, uid) == \E k \in DOMAIN ledger : UID(ledger[k]) = uid

\* Mutant: any RELATED-TO that resolves will do.
checkSupersessionDiscipline_AnyTarget(c, ledger) ==
    LET targets == {Trim(p.value) : p \in Range(GetAll(c.props, "RELATED-TO"))}
    IN  IF c.type # "VJOURNAL" \/ ~categoriesContainSupersession(c) THEN << >>
        ELSE When(targets \subseteq {""}, "VS030", "RELATED-TO")
               \o When(~Has(c, EFFECTIVE) \/ Trim(Value(c, EFFECTIVE)) = "", "VS030", EFFECTIVE)
               \o When(ledger # << >> /\ ~\E t \in targets : ledgerContainsUID(ledger, t),
                       "VS031", "RELATED-TO")

\* Without a ledger, << >>, the target is not looked for.
checkSupersessionDiscipline(c, ledger) ==
    LET target == IF Has(c, "RELATED-TO") THEN Trim(Value(c, "RELATED-TO")) ELSE ""
    IN  IF c.type # "VJOURNAL" \/ ~categoriesContainSupersession(c) THEN << >>
        ELSE When(target = "", "VS030", "RELATED-TO")
               \o When(~Has(c, EFFECTIVE) \/ Trim(Value(c, EFFECTIVE)) = "", "VS030", EFFECTIVE)
               \o When(ledger # << >> /\ target # "" /\ ~ledgerContainsUID(ledger, target),
                       "VS031", "RELATED-TO")

checkRRule(c) ==
    AtEach(c, "RRULE", LAMBDA p : When(p.value \in UnsupportedRules, "VS050", "RRULE")
                                    \o When(p.value \in MalformedRules, "VS051", "RRULE"))

checkDuration(c) ==
    LET At(p) == When(\/ p.name \in {"TRIGGER", "DURATION"} /\ p.value \in MalformedTexts
                      \/ p.name = "REPEAT" /\ ~isCanonicalDecimal(p.value), "VS052", p.name)
    IN  FlattenSeq([k \in DOMAIN c.props |-> At(c.props[k])])

\* validateComponentAtWithLedger. Sub-components are not looked at.
ValidateWithLedger(c, ledger) ==
    checkRequiredCommon(c) \o checkHashIntegrity(c) \o checkExtensionNamespace(c)
      \o checkTypeSpecific(c) \o checkStatusVocabulary(c) \o checkClassification(c)
      \o checkIntegerDomains(c) \o checkSupersessionDiscipline(c, ledger)
      \o checkRRule(c) \o checkDuration(c)

ValidateComponent(c) == ValidateWithLedger(c, << >>)

\* componentPath: a component without a UID is called by its place in its type.
componentPath(components, k) ==
    LET c == components[k]
    IN  IF UID(c) # "" THEN <<c.type, UID(c), 0>>
        ELSE <<c.type, "", Cardinality({j \in 1 .. (k - 1) :
                                          components[j].type = c.type /\ UID(components[j]) = ""})>>

Validate(cal) ==
    LET Found(k) == ValidateWithLedger(cal.components[k], cal.components)
        Placed(k) == [j \in DOMAIN Found(k) |->
                        [path |-> componentPath(cal.components, k), diagnostic |-> Found(k)[j]]]
    IN  FlattenSeq([k \in DOMAIN cal.components |-> Placed(k)])

\* The part of supersession.Superseded that decides whether an entry is looked at.
Counts(entry, uid) ==
    /\ entry.type = "VJOURNAL"
    /\ Has(entry, "RELATED-TO") /\ Value(entry, "RELATED-TO") = uid
    /\ categoriesContainSupersession(entry)
    /\ Has(entry, EFFECTIVE)
=============================================================================
