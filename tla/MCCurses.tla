------------------------------ MODULE MCCurses -------------------------------
(* The two sides of curses: the window the terminals are painted on, and the *)
(* mouse they share.  No variable is common to both, so each is searched     *)
(* while the other rests as it began.                                        *)
EXTENDS MCPaint, MCMouse

VARIABLE part   \* the one that takes the steps

cursesVars == <<part, vars, mouseVars>>

\* The mouse rests in one of the ways a host may begin.
CursesInit ==
  /\ Init /\ MouseInit
  /\ part \in {"window", "mouse"}
  /\ part = "window" => ext = {} /\ curses.mask = "off"

CursesNext ==
  /\ \/ part = "window" /\ Next /\ UNCHANGED mouseVars
     \/ part = "mouse" /\ MouseNext /\ UNCHANGED vars
  /\ UNCHANGED part

CursesSpec == CursesInit /\ [][CursesNext]_cursesVars
==============================================================================
