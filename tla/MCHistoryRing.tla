---------------------------- MODULE MCHistoryRing ---------------------------
(* TLC instances of HistoryRing: two distinguishable lines are enough to   *)
(* tell any two positions of the ring apart, since every fill of the ring  *)
(* is reached; capacities 1 to 5 include the one-row ring and every        *)
(* rotation a shrink or growth can meet.                                   *)
EXTENDS HistoryRing

MCCapacities == 1 .. 5
MCInitCapacity == 2
=============================================================================
