------------------------------- MODULE MCText --------------------------------
(* Where lines are kept and moved: the scrollback ring, the row loops, and   *)
(* the text of the three buffers.  No variable is common to two of them, so  *)
(* each is searched while the others rest as they began.                     *)
EXTENDS MCHistoryRing, MCRowMove, MCScreen

VARIABLE part   \* the one that takes the steps

textVars == <<part, ringVars, moveVars, screenVars>>

\* RowMove rests on one of the screens it may begin with.
TextInit ==
  /\ Init /\ MoveInit /\ ScreenInit
  /\ part \in {"ring", "rows", "screen"}
  /\ part # "rows" => grid = [i \in AllRows |-> BlankRow]

TextNext ==
  /\ \/ part = "ring" /\ Next /\ UNCHANGED <<moveVars, screenVars>>
     \/ part = "rows" /\ MoveNext /\ UNCHANGED <<ringVars, screenVars>>
     \/ part = "screen" /\ ScreenNext /\ UNCHANGED <<ringVars, moveVars>>
  /\ UNCHANGED part

TextSpec == TextInit /\ [][TextNext]_textVars
==============================================================================
