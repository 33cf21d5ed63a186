------------------------------ MODULE MCPropSlices ------------------------------
(* Instance of PropSlices for TLC.  The component a codec read carries a       *)
(* priority, or two CATEGORIES properties.                                     *)
EXTENDS PropSlices, TLC

CONSTANTS a1, a2, a3, v1, v2

MCVars == {v1, v2}
MCArrays == {a1, a2, a3}

MCInitial == { <<[Priority EXCEPT !.value = <<"9">>]>>, <<Category(<<"x">>), Category(<<"y">>)>> }

\* Arrays and variables are interchangeable.
Symmetry == Permutations(MCArrays) \cup Permutations(MCVars)
=============================================================================
