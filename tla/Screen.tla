-------------------------------- MODULE Screen --------------------------------
(***************************************************************************)
(* What text survives: the cells of the standard, the alternate and the    *)
(* history buffer through resizes, switches and scrolls.  A row is stored  *)
(* at the greatest width its buffer ever had, of which cols are visible;   *)
(* so text hidden by a shrink may come back, and a row that is captured    *)
(* meets a history row of another width.  Which lines the ring of the      *)
(* history keeps is HistoryRing's subject: here it is a queue.             *)
(***************************************************************************)
EXTENDS Integers, Sequences, SequencesExt

CONSTANTS
  Char,        \* what the child prints
  Space,
  InitSize,    \* <<cols, rows>> of the terminal when it is created
  HostSizes,   \* the sizes the host passes to vtty_resize
  ChildSizes,  \* the sizes the child gives its own terminal
  Capacity     \* rows of the history

Positive == Nat \ {0}
ASSUME ScreenAssumption ==
  /\ Space \notin Char /\ Capacity \in Positive
  /\ {InitSize} \union HostSizes \union ChildSizes \subseteq Positive \X Positive

VARIABLES
  std, alt, hist,  \* descriptors: [cells, cols], a row being max_cols long
  active,          \* "std" or "alt"
  winsize,         \* what TIOCGWINSZ returns
  inUse,           \* rows of the history in use
  lines,           \* history: the captured lines as they were seen, newest last
  seen             \* history: each row of std as last seen since it was stored to

screenVars == <<std, alt, hist, active, winsize, inUse, lines, seen>>

Least(a, b) == IF a < b THEN a ELSE b
Blanks(n) == [c \in 1 .. n |-> Space]
Rows(b) == Len(b.cells)
MaxCols(b) == Len(b.cells[1])
Size(b) == <<b.cols, Rows(b)>>

\* The visible part of a row, and all of them.
Visible(b, r) == SubSeq(b.cells[r], 1, b.cols)
Picture(b) == [r \in 1 .. Rows(b) |-> Visible(b, r)]

\* vtty_fill_span over the visible columns of a row.
ErasedRow(row, cols) == [c \in DOMAIN row |-> IF c <= cols THEN Space ELSE row[c]]

Alloc(size) == [cells |-> [r \in 1 .. size[2] |-> Blanks(size[1])], cols |-> size[1]]

\* Fault: only what is visible is copied.
ReallocVisible(b, width, height) ==
  LET stride == IF width > MaxCols(b) THEN width ELSE MaxCols(b) IN
  [cells |-> [r \in 1 .. height |->
                IF r <= Rows(b) THEN Visible(b, r) \o Blanks(stride - b.cols)
                                ELSE Blanks(stride)],
   cols |-> width]

\* The rows keep their greatest width; rows and columns that are new are blank.
Realloc(b, width, height) ==
  LET stride == IF width > MaxCols(b) THEN width ELSE MaxCols(b) IN
  [cells |-> [r \in 1 .. height |->
                IF r <= Rows(b) THEN b.cells[r] \o Blanks(stride - MaxCols(b))
                                ELSE Blanks(stride)],
   cols |-> width]

\* The history starts filled with '-', which nobody sees: no unused row is read.
ScreenInit ==
  /\ std = Alloc(InitSize) /\ alt = [cells |-> <<>>, cols |-> 0]
  /\ hist = Alloc(<<InitSize[1], Capacity>>)
  /\ active = "std" /\ winsize = InitSize /\ inUse = 0
  /\ lines = <<>> /\ seen = Picture(std)

-----------------------------------------------------------------------------
(* Captures *)

\* The rows of the history once those of b from the first to the last one went,
\* top down, over its oldest: of each as many cells as both have.
Captured(b, first, last) ==
  LET count == last - first + 1
      stride == Least(MaxCols(b), MaxCols(hist))
      old(i) == hist.cells[((i + count - 1) % Capacity) + 1]
  IN [i \in 1 .. Capacity |->
        IF i + count <= Capacity THEN old(i)
        ELSE SubSeq(b.cells[last - Capacity + i], 1, stride)
               \o SubSeq(old(i), stride + 1, MaxCols(hist))]

Capture(b, first, last) ==
  /\ hist' = [hist EXCEPT !.cells = Captured(b, first, last)]
  /\ inUse' = Least(inUse + last - first + 1, Capacity)
  /\ lines' = LET all == lines \o SubSeq(Picture(b), first, last)
              IN SubSeq(all, Len(all) - Least(Len(all), Capacity) + 1, Len(all))

-----------------------------------------------------------------------------
(* What the child does to the active buffer *)

\* A shift copies whole rows, or only what is visible of them when they are
\* wider than that; the row that becomes free is erased.
Onto(b, from, to) ==
  IF b.cols = MaxCols(b) THEN b.cells[from]
  ELSE Visible(b, from) \o SubSeq(b.cells[to], b.cols + 1, MaxCols(b))

ShiftedUp(b, top, bottom) ==
  [b EXCEPT !.cells = [r \in DOMAIN @ |->
     IF r = bottom THEN ErasedRow(@[r], b.cols)
     ELSE IF r \in top .. bottom THEN Onto(b, r + 1, r) ELSE @[r]]]

ShiftedDown(b, top, bottom) ==
  [b EXCEPT !.cells = [r \in DOMAIN @ |->
     IF r = top THEN ErasedRow(@[r], b.cols)
     ELSE IF r \in top .. bottom THEN Onto(b, r - 1, r) ELSE @[r]]]

Active == IF active = "std" THEN std ELSE alt

\* Rows of the active buffer are stored to.
Store(b, rows) ==
  IF active = "std"
  THEN /\ std' = b
       /\ seen' = [r \in DOMAIN seen |-> IF r \in rows THEN Visible(b, r) ELSE seen[r]]
       /\ UNCHANGED alt
  ELSE alt' = b /\ UNCHANGED <<std, seen>>

PutCell(r, c, ch) ==
  /\ r <= Rows(Active) /\ c <= Active.cols
  /\ Store([Active EXCEPT !.cells[r][c] = ch], {r})
  /\ UNCHANGED <<hist, active, winsize, inUse, lines>>

\* A line feed on the bottom margin.  What leaves the top of the standard
\* buffer is captured before it is overwritten.
ScrollUp(top, bottom) ==
  /\ top <= bottom /\ bottom <= Rows(Active)
  /\ IF active = "std" /\ top = 1 THEN Capture(std, 1, 1)
                                  ELSE UNCHANGED <<hist, inUse, lines>>
  /\ Store(ShiftedUp(Active, top, bottom), top .. bottom)
  /\ UNCHANGED <<active, winsize>>

ScrollDown(top, bottom) ==
  /\ top <= bottom /\ bottom <= Rows(Active)
  /\ Store(ShiftedDown(Active, top, bottom), top .. bottom)
  /\ UNCHANGED <<hist, active, winsize, inUse, lines>>

-----------------------------------------------------------------------------
(* Resizes and switches *)

\* What was seen of the rows that are left, and the new rows as they appear.
StillSeen(b) == [r \in 1 .. Rows(b) |-> IF r \in DOMAIN seen THEN seen[r] ELSE Visible(b, r)]

\* vtty_resize_full: the active buffer, with the rows it gains erased.
Resized(b, width, height) ==
  [Realloc(b, width, height) EXCEPT !.cells = [r \in DOMAIN @ |->
     IF r <= Rows(b) THEN @[r] ELSE ErasedRow(@[r], width)]]

\* Fault: the history is left as it is.
ResizeScreenOnly(width, height) ==
  /\ IF active = "std"
     THEN /\ std' = Resized(std, width, height) /\ seen' = StillSeen(std') /\ UNCHANGED alt
     ELSE /\ alt' = Resized(alt, width, height) /\ UNCHANGED <<std, seen>>
  /\ winsize' = <<width, height>>
  /\ UNCHANGED <<hist, active, inUse, lines>>

Resize(width, height) ==
  /\ IF active = "std"
     THEN /\ std' = Resized(std, width, height) /\ seen' = StillSeen(std') /\ UNCHANGED alt
     ELSE /\ alt' = Resized(alt, width, height) /\ UNCHANGED <<std, seen>>
  /\ hist' = Realloc(hist, width, Capacity)
  /\ winsize' = <<width, height>>
  /\ UNCHANGED <<active, inUse, lines>>

EnterAlt ==
  /\ active = "std"
  /\ alt' = Alloc(winsize) /\ active' = "alt"
  /\ UNCHANGED <<std, hist, winsize, inUse, lines, seen>>

\* The standard buffer takes the size of the alternate one, whose rows are
\* captured before they are freed.
LeaveAlt ==
  /\ active = "alt"
  /\ std' = IF Size(std) = Size(alt) THEN std ELSE Realloc(std, alt.cols, Rows(alt))
  /\ seen' = StillSeen(std')
  /\ Capture(alt, 1, Rows(alt))
  /\ alt' = [cells |-> <<>>, cols |-> 0] /\ active' = "std"
  /\ UNCHANGED winsize

\* TIOCSWINSZ by the child: the library is not told.
ChildResize(width, height) ==
  /\ winsize' = <<width, height>>
  /\ UNCHANGED <<std, alt, hist, active, inUse, lines, seen>>

-----------------------------------------------------------------------------
ScreenNext ==
  \/ \E r \in 1 .. Rows(Active), c \in 1 .. Active.cols, ch \in Char : PutCell(r, c, ch)
  \/ \E top, bottom \in 1 .. Rows(Active) : ScrollUp(top, bottom) \/ ScrollDown(top, bottom)
  \/ \E size \in HostSizes : Resize(size[1], size[2])
  \/ EnterAlt \/ LeaveAlt
  \/ \E size \in ChildSizes : ChildResize(size[1], size[2])

ScreenSpec == ScreenInit /\ [][ScreenNext]_screenVars

-----------------------------------------------------------------------------
(* Properties *)

Descriptor == [cells : Seq(Seq(Char \union {Space})), cols : Nat]
ScreenTypeOK ==
  /\ {std, alt, hist} \subseteq Descriptor
  /\ active \in {"std", "alt"} /\ inUse \in 0 .. Capacity
  /\ \A b \in {std, hist} : \A r \in 1 .. Rows(b) : Len(b.cells[r]) = MaxCols(b)

\* Text that a resize hides of a row of the standard screen comes back with the
\* columns, whatever is done to the other rows and in the alternate screen
\* meanwhile: nobody stored to the row (CHANGELOG:518, a resize of the width does
\* not clip the contents).
TextComesBack ==
  \A r \in 1 .. Rows(std) : \A c \in 1 .. Least(std.cols, Len(seen[r])) :
    std.cells[r][c] = seen[r][c]

\* A captured line is kept as wide as it was seen, however buffers of other
\* widths were resized, left and captured since (vtty_buffer.c:559-560, "which
\* always covers the visible width").
LinesAreKept ==
  /\ Len(lines) = inUse
  /\ \A i \in 1 .. inUse :
       IsPrefix(lines[i], hist.cells[Capacity - inUse + i])
=============================================================================
