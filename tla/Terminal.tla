------------------------------ MODULE Terminal ------------------------------
(***************************************************************************)
(* The control state of a vtty: the standard and the alternate buffer with *)
(* their geometry, cursor, saved cursor, margins and modes, the switch     *)
(* between them, and every sequence, character and host call that moves    *)
(* any of these.  What the cells hold never decides what happens here, so  *)
(* the cells are left to the module Paint.                                 *)
(***************************************************************************)
EXTENDS Integers

CONSTANTS
  InitSize,      \* the <<columns, rows>> vtty_init is given
  HostSizes,     \* the sizes the host asks of vtty_resize
  ChildSizes,    \* the sizes a child sets on its own terminal (TIOCSWINSZ)
  Counts,        \* the counts of CUU, CUD, CUF, CUB, CNL and CPL
  RepCounts,     \* the counts of REP
  TabCounts,     \* the counts of CBT
  GlyphWidths,   \* the display widths of the characters printed, 1 or 2
  Modes,         \* the DEC private modes set and reset
  MaxParams,     \* how many parameters one mode sequence carries, at most
  Overshoot,     \* how far past an edge the bounded runs let a column drift
  TabSize,       \* distance of two tab stops
  NoPty,         \* VTTY_FLAG_NOPTY: no child, and pty_fd stays 0
  Rxvt,          \* VTTY_FLAG_RXVT: the scanner for RXVT_RS1 is installed
  StdinSize,     \* the size of the terminal on descriptor 0
  AllocMayFail   \* whether calloc may return NULL inside a realloc

Size == (Nat \ {0}) \X (Nat \ {0})

ASSUME TerminalAssumption ==
  /\ InitSize \in Size
  /\ HostSizes \subseteq Size
  /\ ChildSizes \subseteq Size
  /\ Counts \subseteq Nat \ {0}
  /\ RepCounts \subseteq Nat
  /\ TabCounts \subseteq Nat
  /\ GlyphWidths \subseteq {1, 2}
  /\ Modes \subseteq {3, 6, 7, 20, 25, 47, 1034, 1049}
  /\ MaxParams \in Nat
  /\ Overshoot \in Nat
  /\ TabSize \in Nat \ {0}
  /\ NoPty \in BOOLEAN
  /\ Rxvt \in BOOLEAN
  /\ StdinSize \in Size
  /\ NoPty => ChildSizes = {}
  /\ AllocMayFail \in BOOLEAN

STD == "VTTY_BUF_STANDARD"
ALT == "VTTY_BUF_ALTERNATE"
Buffer == {STD, ALT}

Flag == {"SCROLL_SHORT", "ORIGIN_MODE", "NO_WRAP", "AUTOMATIC_LF", "CURSOR_INVIS"}

VARIABLES
  active,    \* vtty_desc_idx
  rows,      \* per buffer: height
  cols,      \* per buffer: width
  crow,      \* per buffer: row of the cursor
  ccol,      \* per buffer: column of the cursor
  saved_y,   \* per buffer: saved cursor row
  saved_x,   \* per buffer: saved cursor column
  scroll_min, \* per buffer: top margin
  scroll_max, \* per buffer: bottom margin
  state,     \* per buffer: the set flags of buffer_state
  histCols,  \* width of the scrollback buffer
  winsize,   \* <<columns, rows>> that TIOCGWINSZ reports for pty_fd
  pending    \* the mode sequence being interpreted, or Idle

geometry == <<active, rows, cols, histCols, winsize>>
cursor == <<crow, ccol>>
saved == <<saved_y, saved_x>>
margins == <<scroll_min, scroll_max>>
vars == <<geometry, cursor, saved, margins, state, pending>>

\* interpret_dec_SM and interpret_dec_RM read the active buffer once, before
\* the loop over their parameters.
Idle == [verb |-> "none", idx |-> STD, left |-> 0]
Pending == [verb : {"set", "reset"}, idx : Buffer, left : 1 .. MaxParams]

-----------------------------------------------------------------------------
(* vtty_init.  The alternate buffer has no cells until it is first used. *)

PerBuffer(std, alt) == [b \in Buffer |-> IF b = STD THEN std ELSE alt]

Init ==
  /\ active = STD
  /\ cols = PerBuffer(InitSize[1], 0)
  /\ rows = PerBuffer(InitSize[2], 0)
  /\ crow = PerBuffer(0, 0) /\ ccol = PerBuffer(0, 0)
  /\ saved_y = PerBuffer(0, 0) /\ saved_x = PerBuffer(0, 0)
  /\ scroll_min = PerBuffer(0, 0)
  /\ scroll_max = PerBuffer(InitSize[2] - 1, 0)
  /\ state = PerBuffer({}, {})
  /\ histCols = InitSize[1]
  /\ winsize = IF NoPty THEN StdinSize ELSE InitSize
  /\ pending = Idle

-----------------------------------------------------------------------------
(* Cursor movement *)

\* The remainder of C: it has the sign of the dividend.
Rem(v, d) == IF v >= 0 THEN v % d ELSE -((-v) % d)

\* clamp_cursor_to_bounds, one coordinate.
Clamp(v, size) == IF v < 0 THEN 0 ELSE IF v >= size THEN size - 1 ELSE v

\* Only the cursor of the active buffer moves.
CursorTo(r, c) ==
  /\ crow' = [crow EXCEPT ![active] = r]
  /\ ccol' = [ccol EXCEPT ![active] = c]
  /\ UNCHANGED <<geometry, saved, margins, state, pending>>

Row == crow[active]
Col == ccol[active]
Top == scroll_min[active]
Bottom == scroll_max[active]
Width == cols[active]
Has(f) == f \in state[active]

\* Fault: the cursor leaves the region it scrolls.
RowDownUnpinned(r) == r + 1

\* vtty_scroll_up: the row the cursor lands on.  A cursor at or below the
\* bottom margin is pinned to it.
RowDown(r) == IF r + 1 <= Bottom THEN r + 1 ELSE Bottom

\* vtty_scroll_down, and RI, which calls it at or above the top margin.
RowUp(r) == IF r - 1 >= Top THEN r - 1 ELSE Top

Idling == pending = Idle

\* Fault: the wrap comes one column late.
WrapsFirstLate == Col > Width

\* vtty_put_char.  The pending wrap comes first, then a wide glyph that does
\* not fit the last column wraps again.
WrapsFirst == Col >= Width
RowAfterWrap == IF WrapsFirst /\ ~Has("NO_WRAP") THEN RowDown(Row) ELSE Row
ColAfterWrap == IF WrapsFirst THEN 0 ELSE Col
WrapsAgain(w) == w = 2 /\ ColAfterWrap = Width - 1

PutChar(w) ==
  /\ Idling
  /\ CursorTo(IF WrapsAgain(w) /\ ~Has("NO_WRAP") THEN RowDown(RowAfterWrap)
                                                   ELSE RowAfterWrap,
              (IF WrapsAgain(w) THEN 0 ELSE ColAfterWrap) + w)

CarriageReturn == Idling /\ CursorTo(Row, 0)

\* LF, IND and the host's vtty_scroll_up.
LineFeed == Idling /\ CursorTo(RowDown(Row), Col)

VerticalTab ==
  Idling /\ CursorTo(RowDown(Row), IF Has("AUTOMATIC_LF") THEN 0 ELSE Col)

\* NEL tests the margin itself and scrolls from there.
NextLine == Idling /\ CursorTo(RowDown(Row), 0)

\* RI and the host's vtty_scroll_down.
ReverseIndex == Idling /\ CursorTo(RowUp(Row), Col)

\* BS at the left margin goes to the end of the row above, if there is one.
Backspace ==
  LET first == IF Has("ORIGIN_MODE") THEN Top ELSE 0 IN
  /\ Idling
  /\ IF Col > 0 THEN CursorTo(Row, Col - 1)
     ELSE IF Row > first THEN CursorTo(Row - 1, Width - 1)
     ELSE UNCHANGED vars

Tab ==
  /\ Idling
  /\ IF Col = Width - 1 THEN CursorTo(RowDown(Row), 0)
     ELSE IF Width - Col < TabSize THEN CursorTo(Row, Width - 1)
     ELSE CursorTo(Row, Col + TabSize - Rem(Col, TabSize))

\* CUU, CUD, CUF, CUB, CNL and CPL: relative moves, clamped to the buffer.
MoveBy(dr, dc) ==
  Idling /\ CursorTo(Clamp(Row + dr, rows[active]), Clamp(Col + dc, Width))
MoveLines(dr) ==
  Idling /\ CursorTo(Clamp(Row + dr, rows[active]), 0)

\* HVP/CUP, CHA and VPA: absolute moves.  A zero parameter is -1 before the
\* clamp, and positions beyond the buffer clamp to its last cell.
MoveTo(r, c) ==
  Idling /\ CursorTo(Clamp(r, rows[active]), Clamp(c, Width))
MoveToColumn(c) == MoveTo(Row, c)
MoveToRow(r) == MoveTo(r, Col)

\* CBT moves without a clamp and at least once.
BackTab(n) ==
  LET stride == Rem(Col, TabSize)
      first == IF stride = 0 THEN TabSize ELSE stride
      more == IF n > 1 THEN n - 1 ELSE 0
  IN /\ Idling
     /\ Col - first - more * TabSize >= -(Overshoot * TabSize)
     /\ CursorTo(Row, Col - first - more * TabSize)

\* REP clamps the cells it writes but not the cursor.
Repeat(n) ==
  /\ Idling
  /\ Col + n <= Width + Overshoot
  /\ CursorTo(Row, Col + n)

SaveCursor ==
  /\ Idling
  /\ saved_y' = [saved_y EXCEPT ![active] = Row]
  /\ saved_x' = [saved_x EXCEPT ![active] = Col]
  /\ UNCHANGED <<geometry, cursor, margins, state, pending>>

RestoreCursor == Idling /\ CursorTo(saved_y[active], saved_x[active])

-----------------------------------------------------------------------------
(* Margins *)

\* Fault: a region that starts at the first row counts as the whole buffer.
ShortIfTopOnly(flags, t, b, h) ==
  IF t = 0 THEN flags \ {"SCROLL_SHORT"} ELSE flags \union {"SCROLL_SHORT"}

\* The flags of a buffer of h rows that gets these margins.
ShortIf(flags, t, b, h) ==
  IF t = 0 /\ b = h - 1 THEN flags \ {"SCROLL_SHORT"}
                        ELSE flags \union {"SCROLL_SHORT"}

\* DECSTBM with the margins clamped to the buffer; without parameters the
\* whole buffer.  The cursor stays where it is.
SetMargins(t, b) ==
  /\ Idling
  /\ IF t <= b
     THEN /\ scroll_min' = [scroll_min EXCEPT ![active] = t]
          /\ scroll_max' = [scroll_max EXCEPT ![active] = b]
          /\ state' = [state EXCEPT ![active] = ShortIf(@, t, b, rows[active])]
          /\ UNCHANGED <<geometry, cursor, saved, pending>>
     ELSE UNCHANGED vars

-----------------------------------------------------------------------------
(* Buffers *)

AllocOutcome == IF AllocMayFail THEN BOOLEAN ELSE {TRUE}

\* vtty_buffer_realloc brings the margins of a buffer of h rows back into
\* range: the bottom is the last row, a top that no longer fits is dropped.
TopFits(t, h) == t <= h - 1
\* Fault: the top margin is left as it was (as before vtty_buffer.c:224-233).
ReallocTopStale(mins, b, h) == mins

ReallocTop(mins, b, h) ==
  IF TopFits(mins[b], h) THEN mins ELSE [mins EXCEPT ![b] = 0]
ReallocState(flags, mins, b, h) ==
  IF TopFits(mins[b], h) THEN flags
  ELSE [flags EXCEPT ![b] = @ \ {"SCROLL_SHORT"}]

\* vtty_buffer_set_active(ALT): a new buffer of the kernel's size.  Its
\* cursor, saved cursor and flags are those of its last use.
EnterAlt ==
  IF active = ALT THEN UNCHANGED <<geometry, margins, state>>
  ELSE /\ active' = ALT
       /\ cols' = [cols EXCEPT ![ALT] = winsize[1]]
       /\ rows' = [rows EXCEPT ![ALT] = winsize[2]]
       /\ scroll_min' = [scroll_min EXCEPT ![ALT] = 0]
       /\ scroll_max' = [scroll_max EXCEPT ![ALT] = winsize[2] - 1]
       /\ UNCHANGED <<histCols, winsize, state>>

\* Fault: a resize made in the alternate buffer is forgotten (CHANGELOG 3.4).
LeaveAltKeepsSize(mins, maxs, flags) ==
  /\ active' = STD
  /\ scroll_min' = mins /\ scroll_max' = maxs
  /\ state' = [flags EXCEPT ![STD] = @ \ {"CURSOR_INVIS"}]
  /\ UNCHANGED <<rows, cols, histCols, winsize>>

\* vtty_buffer_set_active(STD): if the size changed meanwhile, the standard
\* buffer is reallocated to it; then its cursor is shown.  The margins and
\* flags passed in are those the sequence has already established.
LeaveAlt(mins, maxs, flags) ==
  IF active = STD
  THEN /\ scroll_min' = mins /\ scroll_max' = maxs /\ state' = flags
       /\ UNCHANGED geometry
  ELSE LET h == rows[ALT]
           resized == rows[STD] # h \/ cols[STD] # cols[ALT]
           shown(f) == [f EXCEPT ![STD] = @ \ {"CURSOR_INVIS"}]
       IN /\ active' = STD
          /\ UNCHANGED <<histCols, winsize>>
          /\ \E ok \in AllocOutcome :
               IF resized /\ ok
               THEN /\ rows' = [rows EXCEPT ![STD] = h]
                    /\ cols' = [cols EXCEPT ![STD] = cols[ALT]]
                    /\ scroll_max' = [maxs EXCEPT ![STD] = h - 1]
                    /\ scroll_min' = ReallocTop(mins, STD, h)
                    /\ state' = shown(ReallocState(flags, mins, STD, h))
               ELSE /\ scroll_min' = mins /\ scroll_max' = maxs
                    /\ state' = shown(flags)
                    /\ UNCHANGED <<rows, cols>>

\* vtty_resize_full on the active buffer; the scrollback gets the new width.
\* The standard buffer is not touched while the alternate one is active.
Resize(size) ==
  LET w == size[1]  h == size[2] IN
  /\ Idling
  /\ winsize' = IF NoPty THEN winsize ELSE size
  /\ \E ok, okHist \in AllocOutcome :
       /\ histCols' = IF okHist THEN w ELSE histCols
       /\ IF ok
          THEN /\ rows' = [rows EXCEPT ![active] = h]
               /\ cols' = [cols EXCEPT ![active] = w]
               /\ scroll_min' = ReallocTop(scroll_min, active, h)
               /\ scroll_max' = [scroll_max EXCEPT ![active] = h - 1]
               /\ state' = ReallocState(state, scroll_min, active, h)
          ELSE /\ scroll_max' = IF Has("SCROLL_SHORT") THEN scroll_max
                                ELSE [scroll_max EXCEPT ![active] = h - 1]
               /\ UNCHANGED <<rows, cols, scroll_min, state>>
  /\ crow' = [crow EXCEPT ![active] = Clamp(@, rows'[active])]
  /\ ccol' = [ccol EXCEPT ![active] = Clamp(@, cols'[active])]
  /\ UNCHANGED <<active, saved, pending>>

\* The child changes the size of its own terminal; the vtty is not told.
ChildResize(size) ==
  /\ Idling
  /\ winsize' = size
  /\ UNCHANGED <<active, rows, cols, histCols, cursor, saved, margins, state, pending>>

-----------------------------------------------------------------------------
(* DEC private modes: one step per parameter of the sequence *)

\* A sequence with n parameters arrives; the active buffer is read once.
ModeSequence(verb, n) ==
  /\ Idling
  /\ pending' = [verb |-> verb, idx |-> active, left |-> n]
  /\ UNCHANGED <<geometry, cursor, saved, margins, state>>

\* Fault: the loop over the parameters runs once more.
ConsumePastEnd ==
  /\ ~Idling
  /\ pending' = IF pending.left = 0 THEN Idle
                ELSE [pending EXCEPT !.left = @ - 1]

Consume ==
  /\ ~Idling
  /\ pending' = IF pending.left = 1 THEN Idle
                ELSE [pending EXCEPT !.left = @ - 1]

Setting == pending.verb = "set"

\* The flag of the buffer the sequence started on is set or cleared.
WithFlag(f, on) ==
  [state EXCEPT ![pending.idx] = IF on THEN @ \union {f} ELSE @ \ {f}]

\* Fault: the standard buffer is erased, whichever is in use.
ModeColumnOnStandard ==
  /\ 3 \in Modes /\ Consume
  /\ crow' = [crow EXCEPT ![STD] = 0]
  /\ ccol' = [ccol EXCEPT ![STD] = 0]
  /\ UNCHANGED <<geometry, saved, margins, state>>

\* 3, DECCOLM: erase that buffer and home its cursor.
ModeColumn ==
  /\ 3 \in Modes /\ Consume
  /\ crow' = [crow EXCEPT ![pending.idx] = 0]
  /\ ccol' = [ccol EXCEPT ![pending.idx] = 0]
  /\ UNCHANGED <<geometry, saved, margins, state>>

\* 6, DECOM: the flag of that buffer, and the active cursor goes home.
ModeOrigin ==
  /\ 6 \in Modes /\ Consume
  /\ state' = WithFlag("ORIGIN_MODE", Setting)
  /\ crow' = [crow EXCEPT ![active] =
                IF "ORIGIN_MODE" \in state'[active] THEN Top ELSE 0]
  /\ ccol' = [ccol EXCEPT ![active] = 0]
  /\ UNCHANGED <<geometry, saved, margins>>

\* 7, DECAWM: setting it clears NO_WRAP.
ModeWrap ==
  /\ 7 \in Modes /\ Consume
  /\ state' = WithFlag("NO_WRAP", ~Setting)
  /\ UNCHANGED <<geometry, cursor, saved, margins>>

\* 20, LNM: setting it is written as an AND with the flag.
ModeLinefeed ==
  /\ 20 \in Modes /\ Consume
  /\ state' = IF Setting
              THEN [state EXCEPT ![pending.idx] = @ \intersect {"AUTOMATIC_LF"}]
              ELSE WithFlag("AUTOMATIC_LF", FALSE)
  /\ UNCHANGED <<geometry, cursor, saved, margins>>

\* 25, DECTCEM.
ModeCursor ==
  /\ 25 \in Modes /\ Consume
  /\ state' = WithFlag("CURSOR_INVIS", ~Setting)
  /\ UNCHANGED <<geometry, cursor, saved, margins>>

\* 47: switch buffers, unless the sequence started on the one asked for.
ModeAlt ==
  /\ 47 \in Modes /\ Consume
  /\ IF Setting
     THEN IF pending.idx = ALT THEN UNCHANGED <<geometry, margins, state>>
                               ELSE EnterAlt
     ELSE IF pending.idx = STD THEN UNCHANGED <<geometry, margins, state>>
                               ELSE LeaveAlt(scroll_min, scroll_max, state)
  /\ UNCHANGED <<cursor, saved>>

\* 1049 set: save the active cursor, then switch.
ModeSaveAlt ==
  /\ 1049 \in Modes /\ Consume /\ Setting
  /\ saved_y' = [saved_y EXCEPT ![active] = Row]
  /\ saved_x' = [saved_x EXCEPT ![active] = Col]
  /\ IF pending.idx = ALT THEN UNCHANGED <<geometry, margins, state>>
                          ELSE EnterAlt
  /\ UNCHANGED cursor

\* 1049 reset: switch back, then restore the cursor of the buffer now active.
ModeRestoreAlt ==
  /\ 1049 \in Modes /\ Consume /\ ~Setting
  /\ IF pending.idx = STD THEN UNCHANGED <<geometry, margins, state>>
                          ELSE LeaveAlt(scroll_min, scroll_max, state)
  /\ crow' = [crow EXCEPT ![active'] = saved_y[active']]
  /\ ccol' = [ccol EXCEPT ![active'] = saved_x[active']]
  /\ UNCHANGED saved

\* 1034 returns: the parameters after it are ignored.
ModeMeta ==
  /\ 1034 \in Modes /\ ~Idling
  /\ pending' = Idle
  /\ UNCHANGED <<geometry, cursor, saved, margins, state>>

-----------------------------------------------------------------------------
(* Resets *)

\* RXVT_RS1, the string both resets render on the active buffer: mode 7 set,
\* whole-buffer margins, the screen erased, the cursor home.  Its 3 and 6 come
\* without the private marker, so they reach IRM, which keeps no state here.
ResetCursor(b) ==
  /\ crow' = [crow EXCEPT ![b] = 0]
  /\ ccol' = [ccol EXCEPT ![b] = 0]
ResetMins == [scroll_min EXCEPT ![active] = 0]
ResetMaxs == [scroll_max EXCEPT ![active] = rows[active] - 1]
ResetState == [state EXCEPT ![active] = @ \ {"NO_WRAP", "SCROLL_SHORT"}]

\* DECSTR.
SoftReset ==
  /\ Idling /\ ~Rxvt
  /\ ResetCursor(active)
  /\ scroll_min' = ResetMins /\ scroll_max' = ResetMaxs /\ state' = ResetState
  /\ UNCHANGED <<geometry, saved, pending>>

\* RIS: the same string, then the standard buffer with its cursor shown.  The
\* scanner of an rxvt makes that switch at the last byte of the string, before
\* it homes the cursor, wherever the string comes from: DECSTR is RIS there.
HardReset ==
  /\ Idling
  /\ ResetCursor(IF Rxvt THEN STD ELSE active)
  /\ LeaveAlt(ResetMins, ResetMaxs,
              [ResetState EXCEPT ![STD] = @ \ {"CURSOR_INVIS"}])
  /\ UNCHANGED <<saved, pending>>

-----------------------------------------------------------------------------
(* Specification *)

Characters ==
  \/ \E w \in GlyphWidths : PutChar(w)
  \/ CarriageReturn \/ LineFeed \/ VerticalTab \/ Backspace \/ Tab
  \/ NextLine \/ ReverseIndex

Moves ==
  \/ \E n \in Counts : \/ MoveBy(n, 0) \/ MoveBy(-n, 0)
                       \/ MoveBy(0, n) \/ MoveBy(0, -n)
                       \/ MoveLines(n) \/ MoveLines(-n)
  \/ \E r \in 0 .. rows[active] - 1, c \in 0 .. Width - 1 :
       MoveTo(r, c) \/ MoveToColumn(c) \/ MoveToRow(r)
  \/ \E n \in TabCounts : BackTab(n)
  \/ \E n \in RepCounts : Repeat(n)
  \/ SaveCursor \/ RestoreCursor

ModeParams ==
  \/ \E verb \in {"set", "reset"}, n \in 1 .. MaxParams : ModeSequence(verb, n)
  \/ ModeColumn \/ ModeOrigin \/ ModeWrap \/ ModeLinefeed \/ ModeCursor
  \/ ModeAlt \/ ModeSaveAlt \/ ModeRestoreAlt \/ ModeMeta

Sizes ==
  \/ \E t, b \in 0 .. rows[active] - 1 : SetMargins(t, b)
  \/ \E size \in HostSizes : Resize(size)
  \/ \E size \in ChildSizes : ChildResize(size)
  \/ SoftReset \/ HardReset

Next == Characters \/ Moves \/ ModeParams \/ Sizes

Spec == Init /\ [][Next]_vars

-----------------------------------------------------------------------------
(* Properties *)

TypeOK ==
  /\ active \in Buffer
  /\ rows \in [Buffer -> Nat] /\ cols \in [Buffer -> Nat]
  /\ crow \in [Buffer -> Int] /\ ccol \in [Buffer -> Int]
  /\ saved_y \in [Buffer -> Int] /\ saved_x \in [Buffer -> Int]
  /\ scroll_min \in [Buffer -> Int] /\ scroll_max \in [Buffer -> Int]
  /\ state \in [Buffer -> SUBSET Flag]
  /\ histCols \in Nat
  /\ winsize \in Size
  /\ pending \in Pending \union {Idle}

\* The buffers that have cells: the alternate one only while it is active.
Live == {STD, active}

\* The margins of every buffer that has cells are rows of it, top above
\* bottom: SD's clear loop, origin-mode home and the scrolls index cells[] by
\* them.  Growing, shrinking and switching buffers with a region set must
\* each keep it so (vtty_buffer.c:224-233).
MarginsFit ==
  \A b \in Live : /\ 0 <= scroll_min[b] /\ scroll_min[b] <= scroll_max[b]
                  /\ scroll_max[b] < rows[b]

\* Without SCROLL_SHORT the region is the whole buffer: vtty_resize_full
\* moves the bottom margin on the strength of that flag alone.
UnshortIsWhole ==
  \A b \in Live : "SCROLL_SHORT" \notin state[b] =>
                    scroll_min[b] = 0 /\ scroll_max[b] = rows[b] - 1

\* Unless the child gave its terminal a size of its own last, the active
\* buffer, the scrollback and the terminal agree on the size, also after a
\* resize made while the other buffer was active or one that undoes the
\* child's: the scrollback view composes both, and an application draws for
\* winsize (vtty_resize.c:54-81, vtty_buffer.c:332-346).
GeometryAgreement ==
  winsize \notin ChildSizes => /\ <<cols[active], rows[active]>> = winsize
                               /\ histCols = cols[active]

\* The cursor's row and the saved row are rows of the buffer: every store of
\* a glyph and every IL, DL, EL and ECH indexes cells[] by the cursor row
\* unchecked.
RowOnGrid ==
  \A b \in Live : crow[b] \in 0 .. rows[b] - 1 /\ saved_y[b] \in 0 .. rows[b] - 1

\* The cursor rests on a column of the buffer or, pending a wrap, just past
\* the last one.
ColOnGrid ==
  \A b \in Live : ccol[b] \in 0 .. cols[b] /\ saved_x[b] \in 0 .. cols[b]

\* Whatever a full-screen program does inside the alternate buffer, the
\* standard buffer's cursor, saved cursor, margins and flags wait unchanged.
AltIsolation ==
  [][active = ALT /\ active' = ALT =>
       UNCHANGED <<crow[STD], ccol[STD], saved_y[STD], saved_x[STD],
                   scroll_min[STD], scroll_max[STD], state[STD]>>]_vars
=============================================================================
