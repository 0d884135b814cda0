------------------------------- MODULE RowMove ------------------------------
(***************************************************************************)
(* The in-place row loops of SU, SD, IL and DL.  Source and destination    *)
(* rows overlap, so the order of the copies and the bounds of the copy and *)
(* of the clear loop decide whether the right lines survive.  One step is  *)
(* one memcpy or one vtty_fill_span of a row.  vtty_buffer_shift_up and    *)
(* vtty_buffer_shift_down with the erase of their callers run the same     *)
(* loops with a count of 1.                                                *)
(***************************************************************************)
EXTENDS Integers

CONSTANTS
  Height,    \* rows of the active buffer
  RowText,   \* contents of a row
  BlankRow,  \* what vtty_fill_span leaves
  Counts     \* the counts a sequence may carry

ASSUME RowMoveAssumption ==
  /\ Height \in Nat \ {0}
  /\ Counts \subseteq Nat \ {0}
  /\ \A k \in Counts : 1 .. k \subseteq Counts

VARIABLES
  grid,   \* the cells of the active buffer, row -> what it shows
  start,  \* the same when the sequence began
  loop,   \* the running sequence's loop, or "idle"
  verb,   \* the running sequence
  top,    \* its first row: scroll_min, or the cursor row for IL and DL
  bot,    \* its last row: scroll_max
  n,      \* its count
  r       \* the loop variable

moveVars == <<grid, start, loop, verb, top, bot, n, r>>

AllRows == 0 .. Height - 1
Verbs == {"SU", "SD", "IL", "DL"}

-----------------------------------------------------------------------------
MoveInit ==
  /\ grid \in [AllRows -> RowText \union {BlankRow}]
  /\ start = grid
  /\ loop = "idle"
  /\ verb = "SU" /\ top = 0 /\ bot = 0 /\ n = 0 /\ r = 0

\* Fault: the count is not clamped.
Unclamped(k, t, b) == k

\* SU and SD: the count is clamped to the height of the region.
Clamped(k, t, b) == IF k > b - t + 1 THEN b - t + 1 ELSE k

StartSU(t, b, k) ==
  /\ t <= b
  /\ verb' = "SU" /\ loop' = "up" /\ n' = Clamped(k, t, b) /\ r' = t

StartSD(t, b, k) ==
  /\ t <= b
  /\ verb' = "SD" /\ loop' = "down" /\ n' = Clamped(k, t, b) /\ r' = b

\* IL and DL work from the cursor row t, which may lie below the region, and
\* do not clamp the count.
StartIL(t, b, k) ==
  /\ verb' = "IL" /\ loop' = "down" /\ n' = k /\ r' = b

StartDL(t, b, k) ==
  /\ verb' = "DL" /\ loop' = "up" /\ n' = k /\ r' = t

Start(t, b, k) ==
  /\ loop = "idle"
  /\ top' = t /\ bot' = b
  /\ start' = grid
  /\ UNCHANGED grid
  /\ \/ StartSU(t, b, k) \/ StartSD(t, b, k)
     \/ StartIL(t, b, k) \/ StartDL(t, b, k)

\* SU: for(r = top; r < scroll_max - (n - 1); r++); DL has the same test as
\* r + n <= scroll_max.
CopyUp ==
  /\ loop = "up" /\ r <= bot - n
  /\ grid' = [grid EXCEPT ![r] = grid[r + n]]
  /\ r' = r + 1
  /\ UNCHANGED <<start, loop, verb, top, bot, n>>

\* SD: for(r = scroll_max; r > scroll_min + (n - 1); r--); IL has the same
\* test as r >= crow + n.
CopyDown ==
  /\ loop = "down" /\ r >= top + n
  /\ grid' = [grid EXCEPT ![r] = grid[r - n]]
  /\ r' = r - 1
  /\ UNCHANGED <<start, loop, verb, top, bot, n>>

\* The clear loop: SU clears scroll_max - (n - 1) .. scroll_max, DL goes on
\* from where its copies ended, SD and IL clear n rows from the top.
BeginClear ==
  /\ \/ loop = "up" /\ r > bot - n
     \/ loop = "down" /\ r < top + n
  /\ r' = CASE verb = "SU" -> bot - (n - 1)
            [] verb = "DL" -> r
            [] OTHER -> top
  /\ loop' = "clear"
  /\ UNCHANGED <<grid, start, verb, top, bot, n>>

\* Fault: one row too few is cleared.
ClearLastShort ==
  IF verb \in {"SU", "DL"} THEN bot - 1
  ELSE IF verb = "IL" /\ top + n - 1 > bot THEN bot ELSE top + n - 1

\* IL stops at scroll_max when the count runs past it.
ClearLast ==
  IF verb \in {"SU", "DL"} THEN bot
  ELSE IF verb = "IL" /\ top + n - 1 > bot THEN bot ELSE top + n - 1

Clear ==
  /\ loop = "clear" /\ r <= ClearLast
  /\ grid' = [grid EXCEPT ![r] = BlankRow]
  /\ r' = r + 1
  /\ UNCHANGED <<start, loop, verb, top, bot, n>>

Return ==
  /\ loop = "clear" /\ r > ClearLast
  /\ loop' = "idle"
  /\ UNCHANGED <<grid, start, verb, top, bot, n, r>>

MoveNext ==
  \/ \E t, b \in AllRows, k \in Counts : Start(t, b, k)
  \/ CopyUp \/ CopyDown \/ BeginClear \/ Clear \/ Return

MoveSpec == MoveInit /\ [][MoveNext]_moveVars

-----------------------------------------------------------------------------
(* Properties *)

MoveTypeOK ==
  /\ grid \in [AllRows -> RowText \union {BlankRow}]
  /\ start \in [AllRows -> RowText \union {BlankRow}]
  /\ loop \in {"idle", "up", "down", "clear"}
  /\ verb \in Verbs
  /\ top \in AllRows /\ bot \in AllRows
  /\ n \in Nat /\ r \in Int

\* Every row a loop reads or writes is a row of the buffer.
AccessInBounds ==
  /\ loop = "up" /\ r <= bot - n => r \in AllRows /\ r + n \in AllRows
  /\ loop = "down" /\ r >= top + n => r \in AllRows /\ r - n \in AllRows
  /\ loop = "clear" /\ r <= ClearLast => r \in AllRows

\* What the loops have done so far, row by row.  The copies of an upward
\* loop are done below r, those of a downward loop above it; the clear loop
\* starts from a screen where every surviving row is in place.
UpSoFar(i) == IF top <= i /\ i < r THEN start[i + n] ELSE start[i]
DownSoFar(i) == IF r < i /\ i <= bot THEN start[i - n] ELSE start[i]
ClearedSoFar(i, survives, from) ==
  IF i < top \/ i > bot THEN start[i]
  ELSE IF survives THEN start[from]
  ELSE IF i < r THEN BlankRow ELSE start[i]

LoopInv ==
  loop # "idle" =>
    /\ n \in Counts
    /\ verb \in {"SU", "SD"} => top <= bot /\ n <= bot - top + 1
    /\ loop = "up" =>
         /\ verb \in {"SU", "DL"}
         /\ r >= top /\ (r <= bot - n + 1 \/ r = top)
         /\ \A i \in AllRows : grid[i] = UpSoFar(i)
    /\ loop = "down" =>
         /\ verb \in {"SD", "IL"}
         /\ r <= bot /\ (r >= top + n - 1 \/ r = bot)
         /\ \A i \in AllRows : grid[i] = DownSoFar(i)
    /\ loop = "clear" =>
         /\ r >= top
         /\ verb \in {"SU", "DL"} =>
              /\ r >= bot - n + 1
              /\ \A i \in AllRows : grid[i] = ClearedSoFar(i, i + n <= bot, i + n)
         /\ verb \in {"SD", "IL"} =>
              \A i \in AllRows : grid[i] = ClearedSoFar(i, i - n >= top, i - n)

\* The sequence as the caller sees it: nothing happens until it returns.
Whole == INSTANCE Region WITH screen <- IF loop = "idle" THEN grid ELSE start

\* Every sequence, with every region and count, does what scrolling a region
\* means, although it overwrites the rows it is still reading from.
ImplementsRegion == Whole!RegionSpec
=============================================================================
