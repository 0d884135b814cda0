------------------------------ MODULE MCRowMove -----------------------------
(* TLC instance of RowMove: four rows leave room for a region with frozen  *)
(* rows on both sides and for counts below, at and above its height.  All  *)
(* screens over two lines and a blank are initial states.                  *)
EXTENDS RowMove

MCCounts == 1 .. 5
=============================================================================
