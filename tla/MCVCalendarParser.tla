--------------------------- MODULE MCVCalendarParser ---------------------------
(* Documents for VCalendarParser: one that is well formed, and everything one  *)
(* line away from it or from a prefix of it.                                   *)
EXTENDS VCalendarParser

Leaf(t, props) == [type |-> t, props |-> props, sub |-> << >>]

Base == Document("p",
          << [type |-> "VTODO", props |-> <<Prop("a")>>,
              sub |-> <<Leaf("VALARM", <<Prop("b")>>)>>],
             Leaf("VEVENT", << >>) >>)

Alphabet == { Begin(Calendar), End(Calendar), Begin("VALARM"), End("VTODO"),
              Version("1.0"), ProdID("q"), Prop("c"), Bad }

Truncated == {SubSeq(Base, 1, k) : k \in 0..Len(Base)}
Dropped   == {RemoveAt(Base, k) : k \in DOMAIN Base}
Replaced  == {ReplaceAt(Base, k, l) : k \in DOMAIN Base, l \in Alphabet}
Inserted  == {InsertAt(Base, k, l) : k \in 1..(Len(Base) + 1), l \in Alphabet}

\* Components without a header, and the same cut off.
Headless == <<Begin(Calendar)>> \o SubSeq(Base, 4, 10) \o <<Prop("c")>> \o SubSeq(Base, 11, 12)

MCInputs == Truncated \cup Dropped \cup Replaced \cup Inserted \cup {Headless, SubSeq(Headless, 1, 7)}

\* What is left of a torn line may be any kind of line. (Spoilt adds the malformed ones.)
MCRests == { Prop("torn"), Begin("VEVENT"), End("VTODO"), End(Calendar) }
=============================================================================
