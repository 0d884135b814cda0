------------------------------ MODULE MCTerminal -----------------------------
(* TLC instances of Terminal: small screens on which every edge, margin    *)
(* and wrap is a few steps away.                                           *)
EXTENDS Terminal

Empty == {}
One == {1}
OneTwo == {1, 2}
ZeroTwo == {0, 2}

Small == <<2, 2>>   \* room for a wide glyph
Column == <<1, 3>>  \* a region can leave out a row at either edge, or both
ThreeSizes == {Small, Column, <<1, 4>>}
Tall == {<<2, 3>>}  \* a size only the child asks for

\* The geometry, margins and flags never depend on where the cursor is: the
\* run about them leaves the plain cursor movements out, except the two that
\* let the column drift off the buffer.
Drift == \/ \E n \in TabCounts : BackTab(n)
         \/ \E n \in RepCounts : Repeat(n)
GeometrySpec == Init /\ [][Sizes \/ ModeParams \/ Drift]_vars
=============================================================================
