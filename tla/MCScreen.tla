------------------------------- MODULE MCScreen -------------------------------
(* TLC instances of Screen: up to two rows of two columns, with every way to  *)
(* be narrower, wider, lower or higher than before.                           *)
EXTENDS Screen

MCInitSize == <<1, 2>>
MCHostSizes == {<<1, 2>>, <<2, 2>>, <<2, 1>>}
Narrow == {<<1, 1>>}
Wide == {<<3, 1>>}   \* wider than the history ever was
=============================================================================
