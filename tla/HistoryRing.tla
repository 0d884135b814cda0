---------------------------- MODULE HistoryRing -----------------------------
(***************************************************************************)
(* The scrollback buffer of a vtty (VTTY_BUF_HISTORY) as the code keeps    *)
(* it: a block of physical rows rotated by `head', so that capturing a     *)
(* line overwrites the oldest row and advances the head.  Logical row r    *)
(* lives at physical row r + head (mod rows); the newest line is logical   *)
(* row rows - 1, which is how every reader addresses it.                   *)
(***************************************************************************)
EXTENDS Integers

CONSTANTS
  Line,          \* the lines a screen can surrender
  Blank,         \* the content of a row no line was captured into
  Capacities,    \* the sizes the host asks of vtty_set_history_size
  InitCapacity,  \* 4 * height in vtty_init
  AllocMayFail   \* whether calloc may return NULL inside a realloc

ASSUME RingAssumption ==
  /\ Capacities \subseteq Nat \ {0}
  /\ InitCapacity \in Capacities
  /\ Blank \notin Line
  /\ AllocMayFail \in BOOLEAN

VARIABLES
  cells,  \* physical row -> its line
  rows,   \* number of rows
  head,   \* rotation of the row space
  fill    \* number of rows captured into, at most rows

ringVars == <<cells, rows, head, fill>>

-----------------------------------------------------------------------------
(* Addressing *)

\* vtty_desc_row_phys for a rotation h: a single wrap, no modulo.
PhysFrom(h, r) == IF r + h >= rows THEN r + h - rows ELSE r + h

\* The line a reader finds at logical row r.
Row(r) == cells[PhysFrom(head, r)]

\* What vtty_buffer_realloc leaves in a buffer of n rows: the old rows in
\* logical order from rotation h, blank rows below them.
Linear(h, n) ==
  [r \in 0 .. n - 1 |-> IF r < rows THEN cells[PhysFrom(h, r)] ELSE Blank]

-----------------------------------------------------------------------------
(* Operations *)

Init ==
  /\ rows = InitCapacity
  /\ cells = [r \in 0 .. rows - 1 |-> Blank]
  /\ head = 0
  /\ fill = 0

\* Fault: the head runs off the end of the block.
HistoryAppendNoWrap(l) ==
  /\ head < rows
  /\ cells' = [cells EXCEPT ![head] = l]
  /\ head' = head + 1
  /\ fill' = IF fill < rows THEN fill + 1 ELSE fill
  /\ UNCHANGED rows

\* vtty_buffer_history_append.  The guard is where the code is defined: a
\* head outside the block writes memory that is not the buffer's.
HistoryAppend(l) ==
  /\ head < rows
  /\ cells' = [cells EXCEPT ![head] = l]
  /\ head' = IF head + 1 = rows THEN 0 ELSE head + 1
  /\ fill' = IF fill < rows THEN fill + 1 ELSE fill
  /\ UNCHANGED rows

\* Fault: the oldest rows survive instead of the newest.
ShrinkHistoryKeepsOldest(n) ==
  /\ n < rows
  /\ cells' = Linear(head, n)
  /\ rows' = n
  /\ head' = 0
  /\ fill' = IF fill > n THEN n ELSE fill

\* vtty_set_history_size to fewer rows: the head moves past the rows that
\* go, then the buffer is reallocated.  A failed allocation keeps the rows
\* but not the head and not the fill.
ShrinkHistory(n) ==
  /\ n < rows
  /\ LET h == (head + rows - n) % rows IN
       \/ /\ cells' = Linear(h, n)
          /\ rows' = n
          /\ head' = 0
       \/ /\ AllocMayFail
          /\ head' = h
          /\ UNCHANGED <<cells, rows>>
  /\ fill' = IF fill > n THEN n ELSE fill

\* Fault: the content is left at the top of the grown buffer.
GrowHistoryAtTop(n) ==
  /\ n > rows
  /\ cells' = Linear(head, n)
  /\ rows' = n
  /\ head' = 0
  /\ UNCHANGED fill

\* vtty_set_history_size to more rows: the content is linear at the top, so
\* the head is set to the first new row to make it the logical tail again.
GrowHistory(n) ==
  /\ n > rows
  /\ \/ /\ cells' = Linear(head, n)
        /\ rows' = n
     \/ /\ AllocMayFail
        /\ UNCHANGED <<cells, rows>>
  /\ head' = rows
  /\ UNCHANGED fill

\* vtty_resize reallocates the scrollback to the new width with its height
\* unchanged, which linearises the rows in place.
Relinearise ==
  /\ \/ /\ cells' = Linear(head, rows)
        /\ head' = 0
     \/ /\ AllocMayFail
        /\ UNCHANGED <<cells, head>>
  /\ UNCHANGED <<rows, fill>>

Next ==
  \/ \E l \in Line : HistoryAppend(l)
  \/ \E n \in Capacities : ShrinkHistory(n) \/ GrowHistory(n)
  \/ Relinearise

Spec == Init /\ [][Next]_ringVars

-----------------------------------------------------------------------------
(* Properties *)

TypeOK ==
  /\ rows \in Capacities
  /\ cells \in [0 .. rows - 1 -> Line \union {Blank}]
  /\ head \in Nat
  /\ fill \in 0 .. rows

\* The descriptor is consistent whenever anybody looks at it: the rotation
\* is a row of the block.  Every reader and the next append index by it
\* (vtty_buffer.c:158-159).
HeadInRange == head < rows

\* The used rows are exactly the logical tail: a reader that stays within
\* vtty_get_history_used sees captured lines only, and the rows above them
\* are blank.  Growing, shrinking and linearising all move rows.
UsedRowsAreTheTail ==
  \A r \in 0 .. rows - 1 : (Row(r) = Blank) <=> (r < rows - fill)

\* The line of age a, addressed as vtty_copy_scrollback and
\* vtty_wnd_scrollback do: right-aligned at the newest row.
LineOfAge(a) == Row(rows - 1 - a)

Log == INSTANCE HistoryLog WITH
         log <- [a \in 0 .. fill - 1 |-> LineOfAge(a)],
         used <- fill,
         cap <- rows

\* The ring implements the log: in every order of captures, capacity
\* changes and resizes the reader sees the newest lines, in order, none
\* lost, doubled or revived.
ImplementsLog == Log!LogSpec
=============================================================================
