-------------------------------- MODULE Paint --------------------------------
(***************************************************************************)
(* The cells of the standard and the alternate buffer, their dirty bits,   *)
(* and the curses window the host paints them on.  Every handler that      *)
(* stores a cell is here with what it stores and which bits it sets; where *)
(* the cursor and the margins stand is the business of Terminal, so each   *)
(* handler takes any position and region Terminal allows.  A cell is one   *)
(* value: its character with its attributes and colors.  Curses is taken   *)
(* to accept every cell (setcchar does not fail).                          *)
(***************************************************************************)
EXTENDS Integers

CONSTANTS
  Rows, Cols,   \* the size of both buffers and of the window
  Narrow, Wide, \* the characters a child prints, by display width
  Blank,        \* a space
  Half,         \* what curses keeps right of a wide character
  WithChar(_, _), \* a cell with the character of another one
  Counts        \* the counts of ECH, ICH, DCH, REP, IL, DL, SU and SD

Glyph == Narrow \union Wide \union {Blank}

ASSUME PaintAssumption ==
  /\ Rows \in Nat \ {0} /\ Cols \in Nat \ {0}
  /\ Half \notin Glyph /\ Blank \notin Wide /\ Narrow \intersect Wide = {}
  /\ Counts \subseteq Nat \ {0}
  /\ \A g, h \in Glyph : WithChar(g, h) \in Glyph

RowSet == 0 .. Rows - 1
ColSet == 0 .. Cols - 1
Grid == RowSet \X ColSet

STD == "VTTY_BUF_STANDARD"
ALT == "VTTY_BUF_ALTERNATE"
Buffer == {STD, ALT}

VARIABLES
  active,    \* vtty_desc_idx
  screen,    \* per buffer: its cells and the set of its dirty bits
  window,    \* the characters on the curses window
  reversed,  \* the cells of the window shown with A_REVERSE
  shows      \* what the window is: painted from the buffer as it stands,
             \* stale since, or showing the history

vars == <<active, screen, window, reversed, shows>>

Screen == [cells : [Grid -> Glyph], dirty : SUBSET Grid]

Init ==
  /\ active = STD
  /\ screen = [b \in Buffer |-> [cells |-> [p \in Grid |-> Blank], dirty |-> Grid]]
  /\ window = [p \in Grid |-> Blank]
  /\ reversed = {}
  /\ shows = "stale"

-----------------------------------------------------------------------------
(* The primitives that change cells.  Each returns the buffer it leaves.    *)

Least(a, b) == IF a < b THEN a ELSE b

\* Cells r, first..last of one row.
Span(r, first, last) == {p \in Grid : p[1] = r /\ first <= p[2] /\ p[2] <= last}

\* A store of g in the cells of ps, each of which is marked.
Store(s, ps, g) ==
  [cells |-> [p \in Grid |-> IF p \in ps THEN g ELSE s.cells[p]],
   dirty |-> s.dirty \union ps]

\* vtty_fill_span: cells and bits of the span, both ends included.
FillSpan(s, r, first, last, g) == Store(s, Span(r, first, last), g)

\* VCELL_SET_ALL.
SetCell(s, r, c, g) == FillSpan(s, r, c, c, g)

\* Every row of rs filled to its end.
FillRows(s, rs, g) == Store(s, {p \in Grid : p[1] \in rs}, g)

\* The cells of ps take what the cell so many rows and columns away was.
Move(s, ps, down, right) ==
  [cells |-> [p \in Grid |-> IF p \in ps THEN s.cells[<<p[1] + down, p[2] + right>>]
                                        ELSE s.cells[p]],
   dirty |-> s.dirty \union ps]

\* Row r becomes what row r + by was, when both are rows of top..bottom.
CopyRows(s, top, bottom, by) ==
  Move(s, {p \in Grid : p[1] \in top .. bottom /\ p[1] + by \in top .. bottom}, by, 0)

\* VCELL_ALL_SET_DIRTY.
AllDirty(s) == [s EXCEPT !.dirty = Grid]

\* vtty_buffer_shift_up and _down by one row; a region of one row is left.
ShiftUp(s, t, b) == IF t = b THEN s ELSE AllDirty(CopyRows(s, t, b, 1))
ShiftDown(s, t, b) == IF t = b THEN s ELSE AllDirty(CopyRows(s, t, b, -1))

\* vtty_scroll_up with the cursor on row r, and vtty_scroll_down.
ScrollUp(s, r, t, b) ==
  IF r + 1 <= b THEN s ELSE FillSpan(ShiftUp(s, t, b), b, 0, Cols - 1, Blank)
ScrollDown(s, r, t, b) ==
  IF r - 1 >= t THEN s
  ELSE AllDirty(FillSpan(ShiftDown(s, t, b), t, 0, Cols - 1, Blank))
RowBelow(r, b) == Least(r + 1, b)

-----------------------------------------------------------------------------
(* The handlers, on the active buffer with the cursor at row r, column c    *)

Ages == shows' = IF shows = "painted" THEN "stale" ELSE shows

Becomes(s) ==
  /\ screen' = [screen EXCEPT ![active] = s]
  /\ Ages
  /\ UNCHANGED <<active, window, reversed>>

Active == screen[active]

\* vtty_put_char of a character that takes one cell.  The pending wrap comes
\* first, and scrolls unless NO_WRAP is set.
PutNarrow(r, c, g, t, b, wraps) ==
  LET wrapped == c >= Cols
      s == IF wrapped /\ wraps THEN ScrollUp(Active, r, t, b) ELSE Active
      row == IF wrapped /\ wraps THEN RowBelow(r, b) ELSE r
  IN Becomes(SetCell(s, row, IF wrapped THEN 0 ELSE c, g))

\* A wide one takes two; in the last column it blanks the cell and wraps again.
PutWide(r, c, g, t, b, wraps) ==
  LET pending == c >= Cols
      s1 == IF pending /\ wraps THEN ScrollUp(Active, r, t, b) ELSE Active
      r1 == IF pending /\ wraps THEN RowBelow(r, b) ELSE r
      c1 == IF pending THEN 0 ELSE c
      again == c1 = Cols - 1
      s2 == SetCell(s1, r1, c1, Blank)
      s3 == IF ~again THEN s1 ELSE IF wraps THEN ScrollUp(s2, r1, t, b) ELSE s2
      row == IF again /\ wraps THEN RowBelow(r1, b) ELSE r1
      col == IF again THEN 0 ELSE c1
  IN Becomes(SetCell(SetCell(s3, row, col, g), row, col + 1, Blank))

\* LF, VT, IND, NEL, a tab at the right edge, and the host's scroll.
LineDown(r, t, b) == Becomes(ScrollUp(Active, r, t, b))
LineUp(r, t, b) == Becomes(ScrollDown(Active, r, t, b))

\* EL.  A cursor past the edge erases to the last column.
ErasedLine(s, r, c, how) ==
  FillSpan(s, r, IF how = 0 THEN c ELSE 0,
                 IF how = 1 THEN Least(c, Cols - 1) ELSE Cols - 1, Blank)
EL(r, c, how) == Becomes(ErasedLine(Active, r, c, how))

\* ED.  Without a parameter, and for 0, the cursor's row goes too, whole.
ED(r, c, how) ==
  Becomes(
    IF how = 2 THEN FillRows(IF c < Cols THEN ErasedLine(Active, r, c, 0) ELSE Active,
                             RowSet, Blank)
    ELSE IF how = 1 THEN FillRows(IF c > 0 THEN ErasedLine(Active, r, c, 1) ELSE Active,
                                  0 .. r - 1, Blank)
    ELSE FillRows(Active, r .. Rows - 1, Blank))

ECH(r, c, n) == Becomes(FillSpan(Active, r, c, Least(c + n, Cols) - 1, Blank))

\* Fault: the cells moved to the right keep their dirty bits.
ICHMarksBlanksOnly(r, c, n) ==
  LET k == Least(n, Cols - c)
      s == [Active EXCEPT !.cells = Move(Active, Span(r, c + k, Cols - 1), 0, -k).cells]
  IN Becomes(FillSpan(s, r, c, c + k - 1, Blank))

ICH(r, c, n) ==
  LET k == Least(n, Cols - c) IN
  Becomes(FillSpan(Move(Active, Span(r, c + k, Cols - 1), 0, -k), r, c, c + k - 1, Blank))

\* Only characters move: each cell keeps the attributes it had.
DCH(r, c, n) ==
  LET k == Least(n, Cols - c)
      s == FillSpan(Move(Active, Span(r, c, Cols - 1 - k), 0, k),
                    r, Cols - k, Cols - 1, Blank)
  IN Becomes([s EXCEPT !.cells = [p \in Grid |->
       IF p \in Span(r, c, Cols - 1) THEN WithChar(Active.cells[p], s.cells[p])
                                     ELSE s.cells[p]]])

\* REP copies the cell left of the cursor; at column 0 it reads whatever lies
\* before the row.
REP(r, c, n) ==
  \E g \in IF c = 0 THEN Glyph ELSE {Active.cells[<<r, c - 1>>]} :
    Becomes(FillSpan(Active, r, c, Least(c + n, Cols) - 1, g))

\* IL and DL act from the cursor row to the bottom margin, and not at all with
\* the cursor below it; SU and SD act on the whole region.
IL(r, b, n) ==
  Becomes(FillRows(CopyRows(Active, r, b, -n), r .. Least(r + n - 1, b), Blank))
DL(r, b, n) ==
  Becomes(FillRows(CopyRows(Active, r, b, n), {q \in r .. b : q + n > b}, Blank))
SU(t, b, n) ==
  LET k == Least(n, b - t + 1) IN
  Becomes(FillRows(CopyRows(Active, t, b, k), b - k + 1 .. b, Blank))
SD(t, b, n) ==
  LET k == Least(n, b - t + 1) IN
  Becomes(FillRows(CopyRows(Active, t, b, -k), t .. t + k - 1, Blank))

\* DECALN, and vtty_erase with its fill character.
EraseWith(g) == Becomes(FillRows(Active, RowSet, g))

\* The host's vtty_erase_row, _rows and _cols; vtty_erase_col clamps the column.
EraseRows(first, last) == Becomes(FillRows(Active, first .. last, Blank))
EraseCols(first, last) ==
  Becomes(Store(Active, {p \in Grid : p[2] \in first .. last}, Blank))

-----------------------------------------------------------------------------
(* Switching buffers: the one that becomes active is marked whole           *)

Fresh == [cells |-> [p \in Grid |-> Blank], dirty |-> Grid]

FlipToAlt ==
  /\ active = STD
  /\ active' = ALT
  /\ screen' = [screen EXCEPT ![ALT] = Fresh]
  /\ Ages
  /\ UNCHANGED <<window, reversed>>

\* Fault: the standard buffer comes back with the bits it left with.
FlipToStdKeepsBits ==
  /\ active = ALT
  /\ active' = STD
  /\ Ages
  /\ UNCHANGED <<screen, window, reversed>>

\* The cells of the alternate buffer are freed.
FlipToStd ==
  /\ active = ALT
  /\ active' = STD
  /\ screen' = [screen EXCEPT ![STD] = AllDirty(@), ![ALT] = Fresh]
  /\ Ages
  /\ UNCHANGED <<window, reversed>>

-----------------------------------------------------------------------------
(* Painting                                                                 *)

LeftOf(p) == <<p[1], p[2] - 1>>
RightOf(p) == <<p[1], p[2] + 1>>

\* A cell the painter skips: the wide characters right before it, counted
\* back to one that is not wide, are odd in number.
Shadowed(cells, p) ==
  \E k \in 1 .. p[2] :
    /\ k % 2 = 1
    /\ \A j \in 1 .. k : cells[<<p[1], p[2] - j>>] \in Wide
    /\ k < p[2] => cells[<<p[1], p[2] - k - 1>>] \notin Wide

\* The cells vtty_wnd_update hands to curses; curses has no room for a wide
\* character in the last column.
Handed(s, all) ==
  {p \in Grid : /\ all \/ p \in s.dirty
                /\ ~Shadowed(s.cells, p)
                /\ s.cells[p] \in Wide => p[2] < Cols - 1}

Halves(s, given) == {p \in Grid : LeftOf(p) \in given /\ s.cells[LeftOf(p)] \in Wide}

\* What curses shows then: a wide character of which one half was written
\* over loses the other.
Shown(s, given) ==
  LET written == given \union Halves(s, given)
      Torn(p) == \/ window[p] = Half /\ LeftOf(p) \in written
                 \/ window[p] \in Wide /\ RightOf(p) \in written
  IN [p \in Grid |-> IF p \in given THEN s.cells[p]
                     ELSE IF p \in written THEN Half
                     ELSE IF Torn(p) THEN Blank ELSE window[p]]

\* Where the cursor is drawn: at a pending wrap, in the last column.
CursorCell(r, c) == <<r, Least(c, Cols - 1)>>

\* Fault: the cell under the cursor is not marked.
BitsLeftNoCursor(s, cursor, leave) == IF leave THEN s.dirty ELSE {}

\* The bits vtty_wnd_update leaves: none, or with LEAVE_DIRTY those it found;
\* a visible cursor's cell is marked to be painted again.
BitsLeft(s, cursor, leave) == (IF leave THEN s.dirty ELSE {}) \union cursor

Paint(all, cursor, leave) ==
  LET given == Handed(Active, all) IN
  /\ window' = Shown(Active, given)
  /\ reversed' = (reversed \ (given \union Halves(Active, given))) \union cursor
  /\ screen' = [screen EXCEPT ![active].dirty = BitsLeft(Active, cursor, leave)]
  /\ shows' = "painted"
  /\ UNCHANGED active

Cursors == {{}} \union {{CursorCell(r, c)} : r \in RowSet, c \in 0 .. Cols}

\* vtty_wnd_update of the active buffer.  A host that has shown the scrollback
\* asks for every cell, as vshell does.
Update(cursor) ==
  /\ shows # "history"
  /\ \E leave \in BOOLEAN : Paint(FALSE, cursor, leave)

RenderAll(cursor) == \E leave \in BOOLEAN : Paint(TRUE, cursor, leave)

\* vtty_wnd_scrollback, or vtty_wnd_update of the history: the window shows
\* other rows, and the bits of the active buffer stay.
Scrollback(g) ==
  /\ window' = [p \in Grid |-> g]
  /\ reversed' = {}
  /\ shows' = "history"
  /\ UNCHANGED <<active, screen>>

-----------------------------------------------------------------------------
Region == {m \in RowSet \X RowSet : m[1] <= m[2]}
Columns == 0 .. Cols  \* Cols is the pending wrap

PrintNarrow ==
  \E r \in RowSet, c \in Columns, wraps \in BOOLEAN :
    \E m \in IF c < Cols THEN {<<0, Rows - 1>>} ELSE Region, g \in Narrow \union {Blank} :
      PutNarrow(r, c, g, m[1], m[2], wraps)

PrintWide ==
  \E r \in RowSet, c \in Columns, wraps \in BOOLEAN, m \in Region, g \in Wide :
    PutWide(r, c, g, m[1], m[2], wraps)

Scroll ==
  \E m \in Region :
    \/ \E r \in RowSet : LineDown(r, m[1], m[2]) \/ LineUp(r, m[1], m[2])
    \/ \E n \in Counts : SU(m[1], m[2], n) \/ SD(m[1], m[2], n)
    \/ \E r \in RowSet, n \in Counts :
         r <= m[2] /\ (IL(r, m[2], n) \/ DL(r, m[2], n))

Edit ==
  \E r \in RowSet, c \in Columns :
    \/ \E how \in 0 .. 2 : EL(r, c, how) \/ ED(r, c, how)
    \/ \E n \in Counts :
         \/ ECH(r, c, n) \/ ICH(r, c, n) \/ DCH(r, c, n) \/ REP(r, c, n)

Erase ==
  \/ \E g \in Narrow \union {Blank} : EraseWith(g)
  \/ \E r \in RowSet : EraseRows(r, r) \/ EraseRows(r, Rows - 1)
  \/ \E c \in ColSet : EraseCols(c, c) \/ EraseCols(c, Cols - 1)

Next ==
  \/ PrintNarrow \/ Scroll \/ Edit \/ Erase
  \/ FlipToAlt \/ FlipToStd
  \/ \E cursor \in Cursors : Update(cursor) \/ RenderAll(cursor)
  \/ \E g \in Narrow : Scrollback(g)

Spec == Init /\ [][Next]_vars

\* The same with wide characters.
WideSpec == Init /\ [][Next \/ PrintWide]_vars

-----------------------------------------------------------------------------
(* The state has its types; so has every dirty bit a cell.                  *)
TypeOK ==
  /\ active \in Buffer
  /\ screen \in [Buffer -> Screen]
  /\ window \in [Grid -> Glyph \union {Half}]
  /\ reversed \in SUBSET Grid
  /\ shows \in {"painted", "stale", "history"}

\* Between two updates, whatever the handlers did and wherever the cursor was
\* drawn: a cell of the active buffer without its dirty bit is on the window as
\* it is in the buffer, and not reversed, so an update may skip it.  (With
\* characters one column wide.)
DirtyIsSound ==
  shows # "history" =>
    \A p \in Grid \ Active.dirty :
      window[p] = Active.cells[p] /\ p \notin reversed

\* vtty_wnd_update leaves the window showing every cell of the active buffer
\* that no wide character covers, however few of them it painted (vtty.h:622).
PaintIsComplete ==
  shows = "painted" =>
    \A p \in Grid : \/ window[p] = Active.cells[p]
                    \/ Shadowed(Active.cells, p)
                    \/ Active.cells[p] \in Wide /\ p[2] = Cols - 1

\* However the cursor wandered, was hidden or changed buffers, it is drawn on
\* one cell at most (vtty_wnd.c:253-256).
OneCursor == \A p, q \in reversed : p = q
=============================================================================
