------------------------------- MODULE Stream -------------------------------
(***************************************************************************)
(* What the parser promises: bytes do what they do, however the reads      *)
(* split them and whichever path renders them.  The abstract parser gets   *)
(* all that was sent at once and has one loop, without the fast path.      *)
(***************************************************************************)
EXTENDS Parser

\* A call of vtty_render that the host made.
Outermost(s) == [data |-> s, ris |-> FALSE]

\* What the calls that run would have before them, had all come in one read.
Joined ==
  IF frames = <<>> THEN <<Outermost(pending)>>
  ELSE [frames EXCEPT ![1].data = @ \o pending]

\* The child sends what it sends when the last of it is done.
SendAll ==
  /\ Joined = <<Outermost(<<>>)>>
  /\ \E u \in Unit(kind) :
       /\ unit' = u
       /\ Joined' = <<Outermost(u.bytes)>>
  /\ calls' = <<>>
  /\ before' = <<title, clip>>
  /\ UNCHANGED <<kind, p>>
  /\ NoStrings

RenderAll == Loop(Joined, Joined') /\ UNCHANGED <<kind, unit, before>>

StreamNext == SendAll \/ RenderAll

streamVars == <<kind, p, Joined, calls, unit, title, clip, before>>

StreamInit ==
  /\ kind \in Kinds /\ p = Ground
  /\ Joined = <<Outermost(<<>>)>>
  /\ calls = <<>> /\ unit = Nothing
  /\ title = None /\ clip = None /\ before = <<None, None>>

\* Reads and the fast path do not show: every step is one of the loop over all
\* that was sent, or changes nothing (vtty_read_pipe, which renders what came;
\* vtty_render and its tight loop).
ImplementsStream == StreamInit /\ [][StreamNext]_streamVars
=============================================================================
