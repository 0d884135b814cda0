------------------------------ MODULE MCColors ------------------------------
(* Two terminals over a table of four pairs: the real terminal's own, one   *)
(* the host has made with the same colors, and two black ones, of which the *)
(* first is reserved.  One pair is left to give away: with two colors the   *)
(* table runs out.                                                          *)
EXTENDS Colors, TLC

MCColors == {0, 7}

MCHostTable == [p \in 0 .. NPairs - 1 |->
                  IF p \in {0, NPairs - 1} THEN <<7, 0>> ELSE Black]

\* A host that chooses takes the pair it has made.
MCHostPick == {NPairs - 1}

Symmetric == Permutations(Term)
=============================================================================
