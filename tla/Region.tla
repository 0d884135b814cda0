------------------------------- MODULE Region -------------------------------
(***************************************************************************)
(* What scrolling part of a screen means: rows top .. bot move n places,   *)
(* the rows pushed over the edge are lost, the rows left behind are blank, *)
(* and no other row changes.  RowMove implements it row by row.            *)
(***************************************************************************)
EXTENDS Integers

CONSTANTS
  Height,    \* number of rows of the screen
  RowText,   \* contents of a row
  BlankRow,  \* an erased row
  Counts     \* the line counts a sequence may carry

VARIABLE screen  \* row -> its line

ShiftedUp(s, top, bot, n) ==
  [r \in DOMAIN s |-> IF r < top \/ r > bot THEN s[r]
                      ELSE IF r + n <= bot THEN s[r + n] ELSE BlankRow]

ShiftedDown(s, top, bot, n) ==
  [r \in DOMAIN s |-> IF r < top \/ r > bot THEN s[r]
                      ELSE IF r - n >= top THEN s[r - n] ELSE BlankRow]

-----------------------------------------------------------------------------
RegionInit == screen \in [0 .. Height - 1 -> RowText \union {BlankRow}]

ShiftUp(top, bot, n) == screen' = ShiftedUp(screen, top, bot, n)
ShiftDown(top, bot, n) == screen' = ShiftedDown(screen, top, bot, n)

RegionNext ==
  \E top, bot \in 0 .. Height - 1, n \in Counts :
    ShiftUp(top, bot, n) \/ ShiftDown(top, bot, n)

RegionSpec == RegionInit /\ [][RegionNext]_screen
=============================================================================
