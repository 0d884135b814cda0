-------------------------------- MODULE MCInk --------------------------------
(* From the colors a child asks for to the pairs they become.  Pen hands     *)
(* colors to the cache, which takes any: no variable is common to both, and  *)
(* each is searched while the other rests as it began.                       *)
EXTENDS MCColors, MCPen

VARIABLE part   \* the one that takes the steps

inkVars == <<part, colorVars, penVars>>

\* The pen rests on a real terminal that shows every color as it is.
InkInit ==
  /\ Init /\ PenInit
  /\ part \in {"pen", "cache"}
  /\ part = "cache" => Fits(host.colors) /\ ~host.C16 /\ ~host.TRUECOLOR

InkNext ==
  /\ \/ part = "cache" /\ Next /\ UNCHANGED penVars
     \/ part = "pen" /\ PenNext /\ UNCHANGED colorVars
  /\ UNCHANGED part

InkSpec == InkInit /\ [][InkNext]_inkVars
==============================================================================
