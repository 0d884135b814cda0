----------------------------- MODULE HistoryLog -----------------------------
(***************************************************************************)
(* What the scrollback of a vtty promises its host: a log of the lines     *)
(* that left the screen, newest first, of which the newest `cap' are kept. *)
(* Nothing here says how the lines are stored; HistoryRing implements it.  *)
(***************************************************************************)
EXTENDS Integers

CONSTANTS
  Line,         \* the lines a screen can surrender
  Capacities,   \* the sizes the host asks of vtty_set_history_size
  InitCapacity  \* the size vtty_init gives the scrollback

VARIABLES
  log,   \* log[a] is the line of age a; the newest line has age 0
  used,  \* how many lines the log holds
  cap    \* how many lines it may hold

logVars == <<log, used, cap>>

Lesser(a, b) == IF a < b THEN a ELSE b

-----------------------------------------------------------------------------
LogInit ==
  /\ log = [a \in {} |-> a]
  /\ used = 0
  /\ cap = InitCapacity

\* A line leaves the screen: every kept line ages by one, the oldest goes
\* when the log is full.
Capture(l) ==
  /\ used' = Lesser(used + 1, cap)
  /\ log' = [a \in 0 .. used' - 1 |-> IF a = 0 THEN l ELSE log[a - 1]]
  /\ UNCHANGED cap

\* The host changes the capacity: the newest lines survive.
Resize(n) ==
  /\ cap' = n
  /\ used' = Lesser(used, n)
  /\ log' = [a \in 0 .. used' - 1 |-> log[a]]

LogNext ==
  \/ \E l \in Line : Capture(l)
  \/ \E n \in Capacities : Resize(n)

LogSpec == LogInit /\ [][LogNext]_logVars
=============================================================================
