------------------------------ MODULE MCDocuments ------------------------------
(* Documents with what canonicalisation is about: local times with a zone, dates, *)
(* attachments, text that is not in NFC, alarms, entries, components without UID. *)
EXTENDS Documents

\* Names, UIDs and TZIDs in byte order.
MCOrder ==
  << "ACTION", "ATTACH", "CATEGORIES", "CLASS", "COMPLETED", "DTEND", "DTSTAMP", "DTSTART", "DUE",
     "ENCODING", "FOO", "KIND", "LANGUAGE", "PERCENT-COMPLETE", "PRIORITY", "RELATED", "RELATED-TO", "RELTYPE",
     "RRULE", "SEQUENCE", "STANDARD", "STATUS", "SUMMARY", "TRANSP", "TRIGGER", "TZID", "TZOFFSETTO",
     "UID", "VALARM", "VALUE", "VERSION", "VEVENT", "VFREEBUSY", "VJOURNAL", "VTIMEZONE", "VTODO",
     "X-VSTAR-EFFECTIVE-STATUS", "X-VSTAR-HASH", "a", "b", "e+acute", "j-a", "j-b", "z", "eacute" >>

MCNFC == [x \in {"e+acute"} |-> "eacute"]
MCUpper == [x \in {"date", "binary", "base64", "completed", "status-supersession"} |->
              CASE x = "date" -> "DATE" [] x = "binary" -> "BINARY" [] x = "base64" -> "BASE64"
                [] x = "completed" -> "COMPLETED" [] x = "status-supersession" -> "STATUS-SUPERSESSION"]
MCToUTC == [x \in {<<"noon", "+0100">>} |-> "noon-1Z"]
MCTrimmed == [x \in {" x", " a", " "} |-> CASE x = " x" -> "x" [] x = " a" -> "a" [] x = " " -> ""]

\* Categories as helpers write them, and one as somebody else does.
Cat == {"x", "status-supersession", "STATUS-SUPERSESSION"}
Lists == {<<a, b>> : a \in Cat, b \in Cat}
           \cup {<<a, b, c>> : a \in Cat, b \in Cat, c \in Cat}
           \cup {<<"x", "x", a, b>> : a \in Cat, b \in Cat} \cup {<<" x", "", "x">>}
MCTokens == [s \in {ToString(l) : l \in Lists} |-> CHOOSE l \in Lists : ToString(l) = s]

MCMaxInt == 200
MCDecimals == [s \in {ToString(n) : n \in 0 .. 201} |->
                 CHOOSE n \in 0 .. 201 : ToString(n) = s]

MCTimes == {"", "noonZ"}
MCJournalUIDs == [x \in {"", "a", "b", "j-a", "j-b", "z", "e+acute", "eacute"} \X MCTimes |-> IF x[1] = "a" THEN "j-a" ELSE "j-b"]

MCExtensions == {"X-VSTAR-HASH", "X-VSTAR-EFFECTIVE-STATUS"}
-----------------------------------------------------------------------------
P(name, value) == Property(name, value)
With(p, params) == [p EXCEPT !.params = params]
Sub(c, sub) == [c EXCEPT !.sub = sub]

MCRawProps ==
    { P("UID", "a"), P("RELATED-TO", "b"), P("RELATED-TO", " a"), P(EFFECTIVE, "COMPLETED"),
      P("SEQUENCE", "201"), P("FOO", "x"),
      With(P("SUMMARY", "x"), <<Param("LANGUAGE", "e"), Param("VALUE", "t")>>) }

Zone == Sub(Component("VTIMEZONE", <<P("TZID", "z")>>),
            <<Component("STANDARD", <<P("TZOFFSETTO", "+0100")>>)>>)
Alarm(uid) == [Component("VALARM", IF uid = "" THEN << >> ELSE <<P("UID", uid)>>) EXCEPT
                 !.props = @ \o <<P("TRIGGER", "-PT15M"), P("X-VSTAR-HASH", "old")>>]

Zoned == [prodid |-> "e+acute", components |->
  << Zone,
     Sub(Component("VEVENT",
           << P("UID", "b"), With(P("DTSTART", "noon"), <<Param("TZID", "z"), Param("LANGUAGE", "e")>>),
              With(P("DTEND", "noon"), <<Param("TZID", "a")>>),
              With(P("DUE", "noon"), <<Param("VALUE", "DATE")>>), P("ATTACH", "x") >>),
         <<Alarm(""), Alarm("")>>) >>]

Ledger == [prodid |-> "p", components |->
  << Component("VJOURNAL", << P("UID", "b"), P("RELATED-TO", "a"), P("RELATED-TO", "j-a"),
                              P("CATEGORIES", "x"), P("CATEGORIES", "status-supersession"),
                              P(EFFECTIVE, "x"), P("RRULE", "FREQ=SECONDLY") >>),
     Component("VTODO", << P("UID", "a"), P("SEQUENCE", "200"), P("SUMMARY", "eacute"),
                           P("SUMMARY", "x"), P("CATEGORIES", ToString(<<" x", "", "x">>)) >>) >>]

Keyless == [prodid |-> "p", components |->
  << Component("VTIMEZONE", <<P("TZID", "")>>),
     Component("VTODO", <<P("STATUS", "completed"), P("COMPLETED", "noonZ"), P("RRULE", "x")>>),
     Sub(Component("VTODO", <<P("UID", "a")>>), <<Alarm("a"), Alarm("b")>>) >>]

\* Two components with one UID; UIDs whose order is not that of their NFC.
Twins == [prodid |-> "p", components |->
  << Component("VTODO", <<P("UID", "a")>>), Component("VTODO", <<P("UID", "a")>>) >>]
Accented == [prodid |-> "p", components |->
  << Component("VTODO", <<P("UID", "z")>>), Component("VTODO", <<P("UID", "e+acute")>>) >>]

MCCalendars == {Zoned, Ledger, Keyless, Twins, Accented}

\* UID and KIND of cards as fields, as properties and as both, text that is not in NFC,
\* parameters in two orders, a stale hash.
MCCardProps ==
    { P("UID", "b"), P("KIND", "org"), P("FOO", "x"), P(HASH, "old"),
      With(P("SUMMARY", "x"), <<Param("LANGUAGE", "e"), Param("VALUE", "t")>>),
      With(P("SUMMARY", "x"), <<Param("VALUE", "t"), Param("LANGUAGE", "e")>>) }

MCLower == [x \in {"GROUP"} |-> "group"]
=============================================================================
