----------------------------- MODULE MCVCardStream -----------------------------
(* Cards with everything the grammar escapes or quotes, and documents one line  *)
(* away from a well-formed one or from a prefix of it.                          *)
EXTENDS VCardStream

MCUIDs  == {<< >>, <<"u", ";", "1">>}
MCKinds == {<<"ORG">>}

P(name, params, value) == [name |-> name, params |-> params, value |-> value]

MCNewProps ==
    { P(<<"fn">>, << >>, <<"a", ",", BS, "n", LF, BS>>),
      P(<<"item1", ".", "uid">>,
        <<[name |-> <<"type">>, value |-> <<"b", ":", "=">>],
          [name |-> <<"X">>, value |-> << >>]>>, <<DQ, ";">>) }

\* What the clients write reads back.
ASSUME MCClientIsCareful ==
    /\ \A u \in MCUIDs, k \in MCKinds : WritableCard(Literal(u, k))
    /\ \A p \in MCNewProps : WritableProp(p)

Base ==
    << BeginCard, <<"VERSION", ":", "4.0">>, <<"uid", ":", "1">>,
       <<"FN", ";", "TYPE", "=", DQ, ":", DQ, ":", "a", BS, "x">>, EndCard,
       <<"BEGIN", ":", "vcard">>, <<"version", ":", "4.0">>, <<"KIND", ":", "ORG">>,
       <<"end", ":", "VCARD">> >>

Alphabet ==
    { BeginCard, EndCard, << >>, <<"VERSION", ":", "3.0">>, <<"VERSION", ":">>,
      <<"g", ".", "VERSION", ":", "4.0">>, <<"g", ".", "UID", ":", "2">>,
      <<"FN", ";", DQ, ":", "a">>, <<"FN", ";", ";", "A", "=", "1", ":", "a">>,
      <<"FN", ";", "A", "=", "1", ";", ":", "a">>, <<";", "A", "=", "1", ":", "a">> }

MCDocuments ==
    {SubSeq(Base, 1, k) : k \in 0..Len(Base)}
      \cup {RemoveAt(Base, k) : k \in DOMAIN Base}
      \cup {ReplaceAt(Base, k, l) : k \in DOMAIN Base, l \in Alphabet}
      \cup {InsertAt(Base, k, l) : k \in 1..(Len(Base) + 1), l \in Alphabet}
=============================================================================
