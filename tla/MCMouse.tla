------------------------------ MODULE MCMouse -------------------------------
(* Two terminals, one of whose events may come from beyond column 223. *)
EXTENDS Mouse, TLC

MCButtons == {1}

\* Mode 1007 is set only while the terminal has none of the others.
ScrollsAlone ==
  \A t \in Term :
    "ALTSCROLL" \in term[t].mode => term[t].mode = {"ALTSCROLL"}

Symmetric == Permutations(Term)
=============================================================================
