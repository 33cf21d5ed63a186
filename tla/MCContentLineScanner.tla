------------------------ MODULE MCContentLineScanner ------------------------
(* Instance of ContentLineScanner for TLC: every input of up to four physical  *)
(* lines out of seven, and what the encoder writes for documents of two lines *)
(* of every length around the fold positions, with WSP anywhere but in front. *)
EXTENDS ContentLineScanner, SequencesExt

Blank == << >>
Physical == { Blank, <<" ">>, <<"a">>, <<"a", "b">>, <<" ", "c">>,
              <<" ", " ", "c">>, <<"d", " ">> }

MCRaw == BoundedSeq(Physical, 4)

LogicalOf(len) == {l \in [1..len -> {"a", " "}] : l[1] # " "}
Logical == UNION {LogicalOf(len) : len \in 1..6}
MCWritten == { <<l>> : l \in Logical }
               \cup { <<l, m>> : l \in LogicalOf(4) \cup LogicalOf(3), m \in LogicalOf(5) }
=============================================================================
