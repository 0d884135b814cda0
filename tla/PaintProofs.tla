----------------------------- MODULE PaintProofs -----------------------------
(***************************************************************************)
(* For every size of the screen and every set of narrow characters: what   *)
(* the handlers do to cells and dirty bits, and what the painter makes of  *)
(* them, keep the window in step with the buffer.  Each handler is a       *)
(* composition of the stores and moves of Paint, and of each of those it   *)
(* is enough to know that it marks what it changes.                        *)
(***************************************************************************)
EXTENDS Paint, TLAPS

\* Buffer t comes from s with every cell that differs marked.
Marks(s, t) ==
  /\ s.dirty \subseteq t.dirty
  /\ \A p \in Grid \ t.dirty : t.cells[p] = s.cells[p]

Reaches(s, t) == t \in Screen /\ Marks(s, t)

\* The inductive invariant.  While the history is shown no cell is reversed,
\* which is what OneCursor needs once the buffer is painted again.
PaintInv ==
  /\ TypeOK
  /\ DirtyIsSound
  /\ PaintIsComplete
  /\ shows = "history" => reversed = {}

-----------------------------------------------------------------------------
(* The primitives mark what they change                                     *)

\* Two primitives one after the other mark what both change.
LEMMA ReachesTransitive ==
  ASSUME NEW s, NEW t, NEW u, Reaches(s, t), Reaches(t, u)
  PROVE  Reaches(s, u)
BY DEF Reaches, Marks

\* A handler that changes nothing marks all it changes.
LEMMA ReachesItself ==
  ASSUME NEW s \in Screen
  PROVE  Reaches(s, s)
BY DEF Reaches, Marks

\* A span keeps to the buffer whatever columns it is given.
LEMMA SpanInGrid ==
  ASSUME NEW r, NEW first, NEW last
  PROVE  Span(r, first, last) \subseteq Grid
BY DEF Span

\* A store marks its cells (VCELL_SET_ALL and the others).
LEMMA StoreReaches ==
  ASSUME NEW s \in Screen, NEW ps \in SUBSET Grid, NEW g \in Glyph
  PROVE  Reaches(s, Store(s, ps, g))
BY DEF Store, Reaches, Marks, Screen

\* A move of cells marks those it writes.
LEMMA MoveReaches ==
  ASSUME NEW s \in Screen, NEW ps \in SUBSET Grid, NEW down, NEW right,
         \A p \in ps : <<p[1] + down, p[2] + right>> \in Grid
  PROVE  Reaches(s, Move(s, ps, down, right))
BY DEF Move, Reaches, Marks, Screen

\* So does vtty_fill_span,
LEMMA FillSpanReaches ==
  ASSUME NEW s \in Screen, NEW r, NEW first, NEW last, NEW g \in Glyph
  PROVE  Reaches(s, FillSpan(s, r, first, last, g))
BY StoreReaches, SpanInGrid DEF FillSpan

\* ... the erasing of whole rows,
LEMMA FillRowsReaches ==
  ASSUME NEW s \in Screen, NEW rs, NEW g \in Glyph
  PROVE  Reaches(s, FillRows(s, rs, g))
<1>1. {p \in Grid : p[1] \in rs} \in SUBSET Grid
  OBVIOUS
<1>. QED  BY <1>1, StoreReaches DEF FillRows

\* ... the copying of rows within a region,
LEMMA CopyRowsReaches ==
  ASSUME NEW s \in Screen, NEW top \in RowSet, NEW bottom \in RowSet, NEW by \in Int
  PROVE  Reaches(s, CopyRows(s, top, bottom, by))
<1> DEFINE moved ==
      {p \in Grid : p[1] \in top .. bottom /\ p[1] + by \in top .. bottom}
<1>1. moved \in SUBSET Grid
  OBVIOUS
<1>2. \A p \in moved : <<p[1] + by, p[2] + 0>> \in Grid
  BY PaintAssumption DEF Grid, RowSet, ColSet
<1>. QED  BY <1>1, <1>2, MoveReaches DEF CopyRows

\* ... and VCELL_ALL_SET_DIRTY, which changes none.
LEMMA AllDirtyReaches ==
  ASSUME NEW s \in Screen
  PROVE  Reaches(s, AllDirty(s))
BY DEF AllDirty, Reaches, Marks, Screen

\* A blank is a character a cell can hold.
LEMMA BlankIsGlyph == Blank \in Glyph
BY DEF Glyph

\* A shift marks every row, also those outside the region.
LEMMA ShiftReaches ==
  ASSUME NEW s \in Screen, NEW t \in RowSet, NEW b \in RowSet
  PROVE  Reaches(s, ShiftUp(s, t, b)) /\ Reaches(s, ShiftDown(s, t, b))
<1>1. ASSUME NEW by \in Int
      PROVE  Reaches(s, AllDirty(CopyRows(s, t, b, by)))
  <2>1. Reaches(s, CopyRows(s, t, b, by))
    BY CopyRowsReaches
  <2>2. Reaches(CopyRows(s, t, b, by), AllDirty(CopyRows(s, t, b, by)))
    BY <2>1, AllDirtyReaches DEF Reaches
  <2>. QED  BY <2>1, <2>2, ReachesTransitive
<1>. QED  BY <1>1, ReachesItself DEF ShiftUp, ShiftDown

\* Scrolling by a line marks what it changes, at the margin or not.
LEMMA ScrollReaches ==
  ASSUME NEW s \in Screen, NEW r \in RowSet, NEW t \in RowSet, NEW b \in RowSet
  PROVE  Reaches(s, ScrollUp(s, r, t, b)) /\ Reaches(s, ScrollDown(s, r, t, b))
<1> DEFINE up == ShiftUp(s, t, b)
           down == ShiftDown(s, t, b)
           cleared == FillSpan(down, t, 0, Cols - 1, Blank)
<1>1. Reaches(s, up) /\ Reaches(s, down)
  BY ShiftReaches
<1>2. Reaches(up, FillSpan(up, b, 0, Cols - 1, Blank))
  BY <1>1, FillSpanReaches, BlankIsGlyph DEF Reaches
<1>3. Reaches(down, cleared)
  BY <1>1, FillSpanReaches, BlankIsGlyph DEF Reaches
<1>4. Reaches(cleared, AllDirty(cleared))
  BY <1>3, AllDirtyReaches DEF Reaches
<1>5. Reaches(s, FillSpan(up, b, 0, Cols - 1, Blank))
  BY <1>1, <1>2, ReachesTransitive
<1>6. Reaches(s, AllDirty(cleared))
  BY <1>1, <1>3, <1>4, ReachesTransitive
<1>. QED  BY <1>5, <1>6, ReachesItself DEF ScrollUp, ScrollDown

-----------------------------------------------------------------------------
(* The handlers keep the invariant                                          *)

\* The active buffer is a buffer.
LEMMA ActiveIsScreen ==
  ASSUME TypeOK
  PROVE  Active \in Screen
BY DEF TypeOK, Active

\* A handler that leaves the active buffer with what it changed marked keeps
\* the invariant: the window still agrees on the cells that are not marked.
LEMMA BecomesKeeps ==
  ASSUME PaintInv, NEW s, Reaches(Active, s), Becomes(s)
  PROVE  PaintInv'
<1>1. /\ s \in Screen /\ active \in Buffer /\ active' = active
      /\ window' = window /\ reversed' = reversed
      /\ screen \in [Buffer -> Screen]
      /\ screen' = [screen EXCEPT ![active] = s]
      /\ shows' = IF shows = "painted" THEN "stale" ELSE shows
      /\ shows \in {"painted", "stale", "history"}
  BY DEF PaintInv, TypeOK, Reaches, Becomes, Ages
<1>2. TypeOK'
  BY <1>1 DEF PaintInv, TypeOK
<1>3. screen'[active'] = s
  BY <1>1
<1>4. Active' = s
  BY <1>3 DEF Active
<1>5. DirtyIsSound'
  BY <1>1, <1>4 DEF PaintInv, DirtyIsSound, Reaches, Marks
<1>6. PaintIsComplete'
  BY <1>1 DEF PaintIsComplete
<1>7. (shows = "history" => reversed = {})'
  BY <1>1 DEF PaintInv
<1>. QED  BY <1>2, <1>5, <1>6, <1>7 DEF PaintInv

\* Least is one of its arguments, and neither is less.
LEMMA LeastIn ==
  ASSUME NEW a \in Int, NEW b \in Int
  PROVE  /\ Least(a, b) \in Int /\ Least(a, b) \in {a, b}
         /\ Least(a, b) <= a /\ Least(a, b) <= b
BY DEF Least

\* A wrap stays on the rows of the buffer.
LEMMA RowBelowIsRow ==
  ASSUME NEW r \in RowSet, NEW b \in RowSet
  PROVE  RowBelow(r, b) \in RowSet
BY PaintAssumption DEF RowBelow, Least, RowSet

\* vtty_put_char keeps the invariant, also when it wraps and scrolls,
LEMMA PrintKeeps ==
  ASSUME PaintInv, PrintNarrow
  PROVE  PaintInv'
<1>1. PICK r \in RowSet, c \in Columns, wraps \in BOOLEAN, m \in RowSet \X RowSet,
           g \in Narrow \union {Blank} : PutNarrow(r, c, g, m[1], m[2], wraps)
  <2>1. <<0, Rows - 1>> \in RowSet \X RowSet
    BY PaintAssumption DEF RowSet
  <2>. QED  BY <2>1 DEF PrintNarrow, Region
<1> DEFINE wrapped == c >= Cols
           s == IF wrapped /\ wraps THEN ScrollUp(Active, r, m[1], m[2]) ELSE Active
           row == IF wrapped /\ wraps THEN RowBelow(r, m[2]) ELSE r
           t == SetCell(s, row, IF wrapped THEN 0 ELSE c, g)
<1>2. Active \in Screen
  BY ActiveIsScreen DEF PaintInv
<1>3. m[1] \in RowSet /\ m[2] \in RowSet
  OBVIOUS
<1>4. Reaches(Active, s)
  BY <1>2, <1>3, ReachesItself, ScrollReaches
<1>5. Reaches(s, t)
  <2>1. s \in Screen
    BY <1>4 DEF Reaches
  <2>2. g \in Glyph
    BY DEF Glyph
  <2>. HIDE DEF s, row
  <2>. QED  BY <2>1, <2>2, FillSpanReaches DEF SetCell
<1>6. Reaches(Active, t)
  BY <1>4, <1>5, ReachesTransitive
<1>7. Becomes(t)
  BY <1>1 DEF PutNarrow
<1>. QED  BY <1>6, <1>7, BecomesKeeps

\* ... and so do the line feeds, SU, SD, IL and DL,
LEMMA ScrollKeeps ==
  ASSUME PaintInv, Scroll
  PROVE  PaintInv'
<1>1. Active \in Screen
  BY ActiveIsScreen DEF PaintInv
\* Rows copied, then rows blanked: SU, SD, IL and DL.
<1>2. ASSUME NEW top \in RowSet, NEW bottom \in RowSet, NEW by \in Int, NEW rs,
             Becomes(FillRows(CopyRows(Active, top, bottom, by), rs, Blank))
      PROVE  PaintInv'
  <2>1. Reaches(Active, CopyRows(Active, top, bottom, by))
    BY <1>1, CopyRowsReaches
  <2>2. Reaches(CopyRows(Active, top, bottom, by),
                FillRows(CopyRows(Active, top, bottom, by), rs, Blank))
    BY <2>1, FillRowsReaches, BlankIsGlyph DEF Reaches
  <2>. QED  BY <1>2, <2>1, <2>2, ReachesTransitive, BecomesKeeps
<1>3. PICK m \in Region :
        \/ \E r \in RowSet : LineDown(r, m[1], m[2]) \/ LineUp(r, m[1], m[2])
        \/ \E n \in Counts : SU(m[1], m[2], n) \/ SD(m[1], m[2], n)
        \/ \E r \in RowSet, n \in Counts :
             r <= m[2] /\ (IL(r, m[2], n) \/ DL(r, m[2], n))
  BY DEF Scroll
<1>4. m[1] \in RowSet /\ m[2] \in RowSet
  BY DEF Region
<1>5. ASSUME NEW r \in RowSet, LineDown(r, m[1], m[2]) \/ LineUp(r, m[1], m[2])
      PROVE  PaintInv'
  BY <1>1, <1>4, <1>5, ScrollReaches, BecomesKeeps DEF LineDown, LineUp
<1>6. ASSUME NEW n \in Counts, SU(m[1], m[2], n) \/ SD(m[1], m[2], n)
      PROVE  PaintInv'
  <2> DEFINE k == Least(n, m[2] - m[1] + 1)
  <2>1. k \in Int /\ -k \in Int
    <3>1. n \in Int /\ m[2] - m[1] + 1 \in Int
      BY <1>4, PaintAssumption DEF RowSet
    <3>. QED  BY <3>1 DEF Least
  <2>2. CASE SU(m[1], m[2], n)
    <3>1. Becomes(FillRows(CopyRows(Active, m[1], m[2], k), m[2] - k + 1 .. m[2], Blank))
      BY <2>2 DEF SU
    <3>. HIDE DEF k
    <3>. QED  BY <1>2, <1>4, <2>1, <3>1
  <2>3. CASE SD(m[1], m[2], n)
    <3>1. Becomes(FillRows(CopyRows(Active, m[1], m[2], -k), m[1] .. m[1] + k - 1, Blank))
      BY <2>3 DEF SD
    <3>. HIDE DEF k
    <3>. QED  BY <1>2, <1>4, <2>1, <3>1
  <2>. QED  BY <1>6, <2>2, <2>3
<1>7. ASSUME NEW r \in RowSet, NEW n \in Counts, IL(r, m[2], n) \/ DL(r, m[2], n)
      PROVE  PaintInv'
  <2>1. n \in Int /\ -n \in Int
    BY PaintAssumption
  <2>2. CASE IL(r, m[2], n)
    BY <1>2, <1>4, <2>1, <2>2 DEF IL
  <2>3. CASE DL(r, m[2], n)
    BY <1>2, <1>4, <2>1, <2>3 DEF DL
  <2>. QED  BY <1>7, <2>2, <2>3
<1>. QED  BY <1>3, <1>5, <1>6, <1>7

\* ... EL, ED, ECH, ICH, DCH and REP,
LEMMA EditKeeps ==
  ASSUME PaintInv, Edit
  PROVE  PaintInv'
<1>1. Active \in Screen
  BY ActiveIsScreen DEF PaintInv
<1>2. ASSUME NEW r, NEW first, NEW last, NEW g \in Glyph
      PROVE  Reaches(Active, FillSpan(Active, r, first, last, g))
  BY <1>1, FillSpanReaches
<1>3. PICK r \in RowSet, c \in Columns :
        \/ \E how \in 0 .. 2 : EL(r, c, how) \/ ED(r, c, how)
        \/ \E n \in Counts :
             \/ ECH(r, c, n) \/ ICH(r, c, n) \/ DCH(r, c, n) \/ REP(r, c, n)
  BY DEF Edit
<1>4. ASSUME NEW how \in 0 .. 2, EL(r, c, how)
      PROVE  PaintInv'
  BY <1>2, <1>4, BlankIsGlyph, BecomesKeeps DEF EL, ErasedLine
<1>5. ASSUME NEW how \in 0 .. 2, ED(r, c, how)
      PROVE  PaintInv'
  <2>1. ASSUME NEW s, NEW rs, Reaches(Active, s), Becomes(FillRows(s, rs, Blank))
        PROVE  PaintInv'
    <3>1. Reaches(s, FillRows(s, rs, Blank))
      BY <2>1, FillRowsReaches, BlankIsGlyph DEF Reaches
    <3>. QED  BY <2>1, <3>1, ReachesTransitive, BecomesKeeps
  <2>2. PICK s, rs : Reaches(Active, s) /\ Becomes(FillRows(s, rs, Blank))
    <3>1. Reaches(Active, Active) /\ Reaches(Active, ErasedLine(Active, r, c, 0))
                                  /\ Reaches(Active, ErasedLine(Active, r, c, 1))
      BY <1>1, <1>2, ReachesItself, BlankIsGlyph DEF ErasedLine
    <3>. QED  BY <1>5, <3>1 DEF ED
  <2>. QED  BY <2>1, <2>2
<1>6. ASSUME NEW n \in Counts, ECH(r, c, n)
      PROVE  PaintInv'
  BY <1>2, <1>6, BlankIsGlyph, BecomesKeeps DEF ECH
\* Cells moved along the row, then cells blanked: ICH and DCH.
<1>7. ASSUME NEW ps \in SUBSET Grid, NEW right,
             \A p \in ps : <<p[1] + 0, p[2] + right>> \in Grid,
             NEW first, NEW last,
             Becomes(FillSpan(Move(Active, ps, 0, right), r, first, last, Blank))
      PROVE  PaintInv'
  <2>1. Reaches(Active, Move(Active, ps, 0, right))
    BY <1>1, <1>7, MoveReaches
  <2>2. Reaches(Move(Active, ps, 0, right),
                FillSpan(Move(Active, ps, 0, right), r, first, last, Blank))
    BY <2>1, FillSpanReaches, BlankIsGlyph DEF Reaches
  <2>. QED  BY <1>7, <2>1, <2>2, ReachesTransitive, BecomesKeeps
<1>8. ASSUME NEW n \in Counts, ICH(r, c, n) \/ DCH(r, c, n)
      PROVE  PaintInv'
  <2> DEFINE k == Least(n, Cols - c)
  <2>1. k \in Nat /\ n \in Nat /\ c \in Nat
    BY PaintAssumption DEF Columns, Least
  <2>2. \A first, last : Span(r, first, last) \in SUBSET Grid
    BY SpanInGrid
  <2>3. CASE ICH(r, c, n)
    <3>1. Becomes(FillSpan(Move(Active, Span(r, c + k, Cols - 1), 0, -k),
                           r, c, c + k - 1, Blank))
      BY <2>3 DEF ICH
    <3>2. \A p \in Span(r, c + k, Cols - 1) : <<p[1] + 0, p[2] + (-k)>> \in Grid
      <4>. HIDE DEF k
      <4>. QED  BY <2>1, PaintAssumption DEF Span, Grid, RowSet, ColSet
    <3>. HIDE DEF k
    <3>. QED  BY <1>7, <2>2, <3>1, <3>2
  <2>4. CASE DCH(r, c, n)
    <3> DEFINE mv == Move(Active, Span(r, c, Cols - 1 - k), 0, k)
               s == FillSpan(mv, r, Cols - k, Cols - 1, Blank)
               t == [s EXCEPT !.cells = [p \in Grid |->
                       IF p \in Span(r, c, Cols - 1)
                       THEN WithChar(Active.cells[p], s.cells[p]) ELSE s.cells[p]]]
    <3>1. Becomes(t)
      BY <2>4, Zenon DEF DCH
    <3>2. \A p \in Span(r, c, Cols - 1 - k) : <<p[1] + 0, p[2] + k>> \in Grid
      <4>. HIDE DEF k
      <4>. QED  BY <2>1, PaintAssumption DEF Span, Grid, RowSet, ColSet
    <3>3. Span(r, c, Cols - 1)
            = Span(r, c, Cols - 1 - k) \union Span(r, Cols - k, Cols - 1)
      <4>1. k = Least(n, Cols - c)
        OBVIOUS
      <4>. HIDE DEF k
      <4>. QED  BY <2>1, <4>1, PaintAssumption DEF Span, Grid, RowSet, ColSet, Columns, Least
    <3>. HIDE DEF k
    <3>4. Reaches(Active, mv)
      BY <1>1, <2>2, <3>2, MoveReaches
    <3>5. Reaches(mv, s)
      BY <3>4, FillSpanReaches, BlankIsGlyph DEF Reaches
    <3>6. Reaches(Active, s)
      BY <3>4, <3>5, ReachesTransitive
    <3>7. Span(r, c, Cols - 1) \subseteq s.dirty
      <4>1. mv.dirty = Active.dirty \union Span(r, c, Cols - 1 - k)
        BY DEF Move
      <4>2. s.dirty = mv.dirty \union Span(r, Cols - k, Cols - 1)
        BY DEF FillSpan, Store
      <4>. HIDE DEF mv, s
      <4>. QED  BY <3>3, <4>1, <4>2
    <3>. HIDE DEF mv, s
    <3>8. s \in Screen /\ s.cells \in [Grid -> Glyph] /\ Active.cells \in [Grid -> Glyph]
      BY <1>1, <3>6 DEF Reaches, Screen
    <3>9. t \in Screen /\ t.dirty = s.dirty
          /\ \A p \in Grid \ Span(r, c, Cols - 1) : t.cells[p] = s.cells[p]
      BY <3>8, PaintAssumption DEF Screen
    <3>. HIDE DEF t
    <3>10. Reaches(Active, t)
      BY <3>6, <3>7, <3>9 DEF Reaches, Marks
    <3>. QED  BY <3>1, <3>10, BecomesKeeps
  <2>. QED  BY <1>8, <2>3, <2>4
<1>9. ASSUME NEW n \in Counts, REP(r, c, n)
      PROVE  PaintInv'
  <2>1. PICK g \in IF c = 0 THEN Glyph ELSE {Active.cells[<<r, c - 1>>]} :
          Becomes(FillSpan(Active, r, c, Least(c + n, Cols) - 1, g))
    BY <1>9 DEF REP
  <2>2. g \in Glyph
    <3>1. c # 0 => <<r, c - 1>> \in Grid
      BY PaintAssumption DEF Columns, Grid, ColSet
    <3>. QED  BY <1>1, <2>1, <3>1 DEF Screen
  <2>. QED  BY <1>2, <2>1, <2>2, BecomesKeeps
<1>. QED  BY <1>3, <1>4, <1>5, <1>6, <1>8, <1>9

\* ... DECALN and the host's erase calls,
LEMMA EraseKeeps ==
  ASSUME PaintInv, Erase
  PROVE  PaintInv'
<1>1. Active \in Screen
  BY ActiveIsScreen DEF PaintInv
<1>2. ASSUME NEW ps \in SUBSET Grid, NEW g \in Glyph, Becomes(Store(Active, ps, g))
      PROVE  PaintInv'
  BY <1>1, <1>2, StoreReaches, BecomesKeeps
<1>3. Narrow \union {Blank} \subseteq Glyph
  BY DEF Glyph
<1>4. \A rs : {p \in Grid : p[1] \in rs} \in SUBSET Grid
  OBVIOUS
<1>5. \A cs : {p \in Grid : p[2] \in cs} \in SUBSET Grid
  OBVIOUS
<1>6. ASSUME NEW g \in Narrow \union {Blank}, EraseWith(g)
      PROVE  PaintInv'
  BY <1>2, <1>3, <1>4, <1>6 DEF EraseWith, FillRows
<1>7. ASSUME NEW first, NEW last, EraseRows(first, last)
      PROVE  PaintInv'
  BY <1>2, <1>4, <1>7, BlankIsGlyph DEF EraseRows, FillRows
<1>8. ASSUME NEW first, NEW last, EraseCols(first, last)
      PROVE  PaintInv'
  BY <1>2, <1>5, <1>8, BlankIsGlyph DEF EraseCols
<1>. QED  BY <1>6, <1>7, <1>8 DEF Erase

\* ... and both switches, since the buffer that becomes active is marked whole.
LEMMA FlipKeeps ==
  ASSUME PaintInv, FlipToAlt \/ FlipToStd
  PROVE  PaintInv'
<1>1. Fresh \in Screen
  BY BlankIsGlyph DEF Fresh, Screen
<1>2. AllDirty(screen[STD]) \in Screen /\ AllDirty(screen[STD]).dirty = Grid
  <2>1. screen[STD] \in Screen
    BY DEF PaintInv, TypeOK, Buffer
  <2>2. Reaches(screen[STD], AllDirty(screen[STD]))
    BY <2>1, AllDirtyReaches
  <2>. QED  BY <2>1, <2>2 DEF Reaches, Screen, AllDirty
<1>3. active' \in Buffer /\ screen' \in [Buffer -> Screen] /\ Active'.dirty = Grid
  <2>1. CASE FlipToAlt
    <3>1. screen' = [screen EXCEPT ![ALT] = Fresh] /\ active' = ALT
      BY <2>1 DEF FlipToAlt
    <3>2. Fresh.dirty = Grid
      BY DEF Fresh
    <3>. QED  BY <1>1, <3>1, <3>2 DEF PaintInv, TypeOK, Buffer, Active
  <2>2. CASE FlipToStd
    <3>1. /\ active' = STD
          /\ screen' = [screen EXCEPT ![STD] = AllDirty(screen[STD]), ![ALT] = Fresh]
      BY <2>2 DEF FlipToStd
    <3>2. STD # ALT
      BY DEF STD, ALT
    <3>. QED  BY <1>1, <1>2, <3>1, <3>2 DEF PaintInv, TypeOK, Buffer, Active
  <2>. QED  BY <2>1, <2>2
<1>4. /\ window' = window /\ reversed' = reversed
      /\ shows' = IF shows = "painted" THEN "stale" ELSE shows
  BY DEF FlipToAlt, FlipToStd, Ages
<1>5. TypeOK'
  BY <1>3, <1>4 DEF PaintInv, TypeOK
<1>6. DirtyIsSound'
  BY <1>3 DEF DirtyIsSound
<1>7. PaintIsComplete' /\ (shows = "history" => reversed = {})'
  BY <1>4 DEF PaintIsComplete, PaintInv, TypeOK
<1>. QED  BY <1>5, <1>6, <1>7 DEF PaintInv

-----------------------------------------------------------------------------
(* Painting.  Without wide characters no cell is skipped, so an update hands *)
(* curses every marked cell; the others are right already.                  *)

\* The cursor is drawn on one cell of the buffer, or on none.
LEMMA CursorsAreCells ==
  ASSUME NEW cursor \in Cursors
  PROVE  cursor \subseteq Grid /\ \A p, q \in cursor : p = q
<1>1. \A r \in RowSet, c \in 0 .. Cols : CursorCell(r, c) \in Grid
  BY PaintAssumption DEF CursorCell, Least, Grid, RowSet, ColSet
<1>. QED  BY <1>1 DEF Cursors

\* Without wide characters the painter skips no cell it was asked for.
LEMMA NothingSkipped ==
  ASSUME Wide = {}, NEW s \in Screen, NEW all \in BOOLEAN
  PROVE  /\ Handed(s, all) = {p \in Grid : all \/ p \in s.dirty}
         /\ \A given : Halves(s, given) = {}
<1>1. ASSUME NEW p \in Grid
      PROVE  ~Shadowed(s.cells, p)
  <2>1. \A k \in 1 .. p[2] : 1 \in 1 .. k
    BY DEF Grid, ColSet
  <2>. QED  BY <2>1 DEF Shadowed
<1>. QED  BY <1>1 DEF Handed, Halves

\* vtty_wnd_update clears bits, and of no cell it did not paint.
LEMMA PaintKeeps ==
  ASSUME Wide = {}, PaintInv, NEW all \in BOOLEAN, NEW cursor \in Cursors,
         NEW leave \in BOOLEAN, Paint(all, cursor, leave), all \/ shows # "history"
  PROVE  PaintInv' /\ OneCursor'
<1> DEFINE s == Active
           given == Handed(s, all)
<1>1. s \in Screen /\ active \in Buffer
  BY ActiveIsScreen DEF PaintInv, TypeOK
<1>2. given = {p \in Grid : all \/ p \in s.dirty} /\ Halves(s, given) = {}
  BY <1>1, NothingSkipped
<1>3. \A p \in Grid : p \notin given => window[p] = s.cells[p] /\ p \notin reversed
  BY <1>2 DEF PaintInv, DirtyIsSound
<1>4. s.cells \in [Grid -> Glyph] /\ s.dirty \subseteq Grid
  BY <1>1 DEF Screen
\* A cell that is not painted keeps what it shows: it is no half of a pair.
<1>5. Shown(s, given) = s.cells
  <2>1. ASSUME NEW p \in Grid
        PROVE  Shown(s, given)[p] = s.cells[p]
    <3>1. CASE p \in given
      BY <3>1 DEF Shown
    <3>2. CASE p \notin given
      <4>1. window[p] = s.cells[p] /\ window[p] # Half /\ window[p] \notin Wide
        BY <1>3, <1>4, <3>2, PaintAssumption
      <4>. QED  BY <1>2, <3>2, <4>1 DEF Shown
    <3>. QED  BY <3>1, <3>2
  <2>2. Shown(s, given) = [p \in Grid |-> Shown(s, given)[p]]
    BY DEF Shown
  <2>. QED  BY <1>4, <2>1, <2>2
<1>6. reversed \ (given \union Halves(s, given)) = {}
  BY <1>3 DEF PaintInv, TypeOK
<1>7. /\ window' = s.cells
      /\ reversed' = cursor
      /\ screen' = [screen EXCEPT ![active].dirty = BitsLeft(s, cursor, leave)]
      /\ shows' = "painted" /\ active' = active
  BY <1>5, <1>6 DEF Paint
<1>8. cursor \subseteq Grid /\ \A p, q \in cursor : p = q
  BY CursorsAreCells
<1>9. BitsLeft(s, cursor, leave) \subseteq Grid /\ cursor \subseteq BitsLeft(s, cursor, leave)
  BY <1>4, <1>8 DEF BitsLeft
<1>10. /\ screen' \in [Buffer -> Screen]
       /\ Active'.cells = s.cells /\ Active'.dirty = BitsLeft(s, cursor, leave)
  <2> DEFINE t == [screen[active] EXCEPT !.dirty = BitsLeft(s, cursor, leave)]
  <2>1. screen \in [Buffer -> Screen]
    BY DEF PaintInv, TypeOK
  <2>2. screen' = [screen EXCEPT ![active] = t]
    BY <1>7
  <2>3. t \in Screen /\ t.cells = s.cells /\ t.dirty = BitsLeft(s, cursor, leave)
    BY <1>1, <1>9 DEF Screen, Active
  <2>. HIDE DEF t
  <2>4. screen' \in [Buffer -> Screen] /\ Active' = t
    BY <1>1, <1>7, <2>1, <2>2, <2>3 DEF Active
  <2>. QED  BY <2>3, <2>4
<1>. HIDE DEF s, given
<1>11. TypeOK'
  <2>1. window' \in [Grid -> Glyph \union {Half}]
    BY <1>4, <1>7
  <2>. QED  BY <1>1, <1>7, <1>8, <1>10, <2>1 DEF TypeOK
<1>12. DirtyIsSound'
  BY <1>7, <1>9, <1>10 DEF DirtyIsSound
<1>13. PaintIsComplete'
  BY <1>7, <1>10 DEF PaintIsComplete
<1>14. OneCursor' /\ (shows = "history" => reversed = {})'
  BY <1>7, <1>8 DEF OneCursor
<1>. QED  BY <1>11, <1>12, <1>13, <1>14 DEF PaintInv

\* The history on the window leaves the bits alone, and no cursor.
LEMMA ScrollbackKeeps ==
  ASSUME PaintInv, NEW g \in Narrow, Scrollback(g)
  PROVE  PaintInv' /\ OneCursor'
<1>1. /\ window' = [p \in Grid |-> g] /\ reversed' = {} /\ shows' = "history"
      /\ active' = active /\ screen' = screen
  BY DEF Scrollback
<1>2. TypeOK'
  BY <1>1 DEF PaintInv, TypeOK, Glyph
<1>. QED  BY <1>1, <1>2 DEF PaintInv, DirtyIsSound, PaintIsComplete, OneCursor

-----------------------------------------------------------------------------
\* Both buffers start marked whole.
LEMMA PaintInit == Init => PaintInv /\ OneCursor
<1>1. Init => TypeOK
  BY BlankIsGlyph DEF Init, TypeOK, Screen, Buffer
<1>2. Init => Active.dirty = Grid
  BY DEF Init, Active, Buffer
<1>. QED  BY <1>1, <1>2 DEF Init, PaintInv, DirtyIsSound, PaintIsComplete, OneCursor

\* Every step keeps the invariant and the one cursor,
LEMMA PaintStep ==
  ASSUME Wide = {}, PaintInv, OneCursor, [Next]_vars
  PROVE  PaintInv' /\ OneCursor'
<1>1. CASE PrintNarrow \/ Scroll \/ Edit \/ Erase
  <2>1. PaintInv'
    BY <1>1, PrintKeeps, ScrollKeeps, EditKeeps, EraseKeeps
  <2>2. reversed' = reversed
    <3>1. \A s : Becomes(s) => reversed' = reversed
      BY DEF Becomes
    <3>2. ASSUME NEW r, NEW c, NEW n, DCH(r, c, n) PROVE reversed' = reversed
      BY <3>1, <3>2, Zenon DEF DCH
    <3>. QED  BY <1>1, <3>1, <3>2 DEF PrintNarrow, Scroll, Edit, Erase, PutNarrow, LineDown,
                  LineUp, SU, SD, IL, DL, EL, ED, ECH, ICH, REP, EraseWith, EraseRows, EraseCols
  <2>. QED  BY <2>1, <2>2 DEF OneCursor
<1>2. CASE FlipToAlt \/ FlipToStd
  <2>1. reversed' = reversed
    BY <1>2 DEF FlipToAlt, FlipToStd
  <2>. QED  BY <1>2, <2>1, FlipKeeps DEF OneCursor
<1>3. ASSUME NEW cursor \in Cursors, Update(cursor)
      PROVE  PaintInv' /\ OneCursor'
  BY <1>3, PaintKeeps DEF Update
<1>4. ASSUME NEW cursor \in Cursors, RenderAll(cursor)
      PROVE  PaintInv' /\ OneCursor'
  BY <1>4, PaintKeeps DEF RenderAll
<1>5. ASSUME NEW g \in Narrow, Scrollback(g)
      PROVE  PaintInv' /\ OneCursor'
  BY <1>5, ScrollbackKeeps
<1>6. CASE UNCHANGED vars
  BY <1>6 DEF vars, PaintInv, TypeOK, DirtyIsSound, PaintIsComplete, OneCursor, Active
<1>. QED  BY <1>1, <1>2, <1>3, <1>4, <1>5, <1>6 DEF Next

\* ... so every behavior does.
LEMMA PaintAlways ==
  ASSUME Wide = {}
  PROVE  Spec => [](PaintInv /\ OneCursor)
<1>. QED  BY PaintInit, PaintStep, PTL DEF Spec

\* For every screen, whatever narrow characters the child prints and however it
\* moves and erases them: a cell whose bit is clear is on the window as it is
\* (the store macros and shifts of vtty_buffer.h and vtty_buffer.c, and the
\* cursor's bit in vtty_wnd.c:256).
THEOREM CleanCellsAreShown ==
  ASSUME Wide = {}
  PROVE  Spec => []DirtyIsSound
BY PaintAlways, PTL DEF PaintInv

\* So painting only the marked cells leaves the whole screen on the window
\* (vtty_wnd.c:172-183).
THEOREM UpdateShowsScreen ==
  ASSUME Wide = {}
  PROVE  Spec => []PaintIsComplete
BY PaintAlways, PTL DEF PaintInv

\* And the window never has two cursors (vtty_wnd.c:253-256).
THEOREM CursorIsAlone ==
  ASSUME Wide = {}
  PROVE  Spec => []OneCursor
BY PaintAlways, PTL
=============================================================================
