-------------------------- MODULE HistoryRingProofs --------------------------
(* Theorems about HistoryRing, for every set of lines and of capacities,   *)
(* as long as no allocation fails; and about Screen, for every size of the *)
(* terminal and of its history.                                            *)
EXTENDS HistoryRing, Screen, SequenceTheorems, TLAPS

\* The inductive invariant: every later fact indexes cells by the head.
RingInv == TypeOK /\ HeadInRange

\* vtty_init leaves a well-formed, empty ring.
LEMMA InitRing == Init => RingInv
BY RingAssumption DEF Init, RingInv, TypeOK, HeadInRange

\* A logical row of the ring is a physical row of the block, and its
\* content is a line or blank.
LEMMA PhysInRange ==
  ASSUME RingInv, NEW r \in 0 .. rows - 1, NEW h \in 0 .. rows - 1
  PROVE  PhysFrom(h, r) \in 0 .. rows - 1
BY RingAssumption DEF RingInv, TypeOK, HeadInRange, PhysFrom

\* vtty_buffer_realloc leaves a well-formed block.
LEMMA LinearType ==
  ASSUME RingInv, NEW n \in Capacities, NEW h \in 0 .. rows - 1
  PROVE  Linear(h, n) \in [0 .. n - 1 -> Line \union {Blank}]
<1>1. ASSUME NEW r \in 0 .. n - 1, r < rows
      PROVE  cells[PhysFrom(h, r)] \in Line \union {Blank}
  <2>1. r \in 0 .. rows - 1
    BY <1>1, RingAssumption DEF RingInv, TypeOK
  <2>2. PhysFrom(h, r) \in 0 .. rows - 1
    BY <2>1, PhysInRange
  <2> QED BY <2>2 DEF RingInv, TypeOK
<1> QED BY <1>1 DEF Linear

\* The rotation a shrink computes before it reallocates.
LEMMA ShrinkHead ==
  ASSUME RingInv, NEW n \in Capacities, n < rows
  PROVE  /\ (head + rows - n) % rows =
              (IF head + (rows - n) >= rows THEN head - n ELSE head + (rows - n))
         /\ (head + rows - n) % rows \in 0 .. rows - 1
<1>1. rows \in Nat \ {0} /\ n \in Nat \ {0} /\ head \in Nat /\ head < rows
  BY RingAssumption DEF RingInv, TypeOK, HeadInRange
<1> QED BY <1>1

\* The descriptor stays well formed: no operation leaves a head, a fill or a
\* block that the next one could not use.
THEOREM RingTyping == ASSUME AllocMayFail = FALSE PROVE Spec => []RingInv
<1>1. ASSUME RingInv, [Next]_ringVars PROVE RingInv'
  <2> USE <1>1
  <2>0. rows \in Nat \ {0} /\ head \in 0 .. rows - 1
    BY RingAssumption DEF RingInv, TypeOK, HeadInRange
  <2>1. ASSUME NEW l \in Line, HistoryAppend(l) PROVE RingInv'
    BY <2>0, <2>1 DEF HistoryAppend, RingInv, TypeOK, HeadInRange
  <2>2. ASSUME NEW n \in Capacities, ShrinkHistory(n) PROVE RingInv'
    <3> DEFINE h == (head + rows - n) % rows
    <3>1. h \in 0 .. rows - 1
      BY <2>2, ShrinkHead DEF ShrinkHistory
    <3>2. cells' = Linear(h, n) /\ rows' = n /\ head' = 0
      BY <2>2 DEF ShrinkHistory
    <3>3. cells' \in [0 .. rows' - 1 -> Line \union {Blank}]
      BY <3>1, <3>2, LinearType
    <3>4. fill' \in 0 .. rows'
      BY <2>2, <3>2, RingAssumption DEF ShrinkHistory, RingInv, TypeOK
    <3> QED BY <3>2, <3>3, <3>4, RingAssumption DEF RingInv, TypeOK, HeadInRange
  <2>3. ASSUME NEW n \in Capacities, GrowHistory(n) PROVE RingInv'
    <3>1. cells' = Linear(head, n) /\ rows' = n /\ head' = rows /\ rows < n
      BY <2>3, <2>0, RingAssumption DEF GrowHistory
    <3>2. cells' \in [0 .. rows' - 1 -> Line \union {Blank}]
      BY <2>0, <3>1, LinearType
    <3>3. fill' \in 0 .. rows'
      BY <2>3, <3>1, <2>0, RingAssumption DEF GrowHistory, RingInv, TypeOK
    <3> QED BY <2>0, <3>1, <3>2, <3>3 DEF RingInv, TypeOK, HeadInRange
  <2>4. CASE Relinearise
    <3>1. cells' = Linear(head, rows) /\ rows' = rows /\ head' = 0 /\ fill' = fill
      BY <2>4 DEF Relinearise
    <3>2. cells' \in [0 .. rows' - 1 -> Line \union {Blank}]
      BY <2>0, <3>1, LinearType DEF RingInv, TypeOK
    <3> QED BY <2>0, <3>1, <3>2 DEF RingInv, TypeOK, HeadInRange
  <2>5. CASE UNCHANGED ringVars
    BY <2>5 DEF ringVars, RingInv, TypeOK, HeadInRange
  <2> QED BY <2>1, <2>2, <2>3, <2>4, <2>5 DEF Next
<1> QED BY <1>1, InitRing, PTL DEF Spec

\* The rotation is a row of the block whenever a reader or the next append
\* indexes by it (vtty_buffer.c:158-159): the head a shrink or a growth sets
\* before it knows the new block is the head of that block afterwards.
THEOREM HeadStaysInBlock ==
  ASSUME AllocMayFail = FALSE PROVE Spec => []HeadInRange
<1>1. RingInv => HeadInRange
  BY DEF RingInv
<1> QED BY <1>1, RingTyping, PTL

-----------------------------------------------------------------------------
(* How each operation moves the logical rows *)

\* Capturing a line moves every logical row up by one and puts the line last.
LEMMA AppendMovesRows ==
  ASSUME RingInv, NEW l \in Line, HistoryAppend(l), NEW r \in 0 .. rows - 1
  PROVE  Row(r)' = IF r = rows - 1 THEN l ELSE Row(r + 1)
<1>1. /\ rows \in Nat \ {0} /\ head \in 0 .. rows - 1
      /\ cells \in [0 .. rows - 1 -> Line \union {Blank}]
  BY RingAssumption DEF RingInv, TypeOK, HeadInRange
<1>2. /\ cells' = [cells EXCEPT ![head] = l] /\ rows' = rows
      /\ head' = IF head + 1 = rows THEN 0 ELSE head + 1
  BY DEF HistoryAppend
<1> QED BY <1>1, <1>2 DEF Row, PhysFrom

\* Shrinking drops logical rows at the top only.
LEMMA ShrinkMovesRows ==
  ASSUME AllocMayFail = FALSE, RingInv, NEW n \in Capacities,
         ShrinkHistory(n), NEW r \in 0 .. n - 1
  PROVE  Row(r)' = Row(r + (rows - n))
<1> DEFINE h == (head + rows - n) % rows
<1>1. /\ rows \in Nat \ {0} /\ head \in 0 .. rows - 1 /\ n \in Nat \ {0}
      /\ n < rows
  BY RingAssumption DEF RingInv, TypeOK, HeadInRange, ShrinkHistory
<1>2. h = IF head + (rows - n) >= rows THEN head - n ELSE head + (rows - n)
  BY <1>1, ShrinkHead
<1>3. cells' = Linear(h, n) /\ rows' = n /\ head' = 0
  BY DEF ShrinkHistory
<1>4. Row(r)' = cells[PhysFrom(h, r)]
  BY <1>1, <1>3 DEF Row, PhysFrom, Linear
<1>5. PhysFrom(h, r) = PhysFrom(head, r + (rows - n))
  <2> HIDE DEF h
  <2> QED BY <1>1, <1>2 DEF PhysFrom
<1> QED BY <1>4, <1>5 DEF Row

\* Growing puts blank rows above the content, which stays at the tail.
LEMMA GrowMovesRows ==
  ASSUME AllocMayFail = FALSE, RingInv, NEW n \in Capacities,
         GrowHistory(n), NEW r \in 0 .. n - 1
  PROVE  Row(r)' = IF r < n - rows THEN Blank ELSE Row(r - (n - rows))
<1>1. /\ rows \in Nat \ {0} /\ head \in 0 .. rows - 1 /\ n \in Nat \ {0}
      /\ rows < n
  BY RingAssumption DEF RingInv, TypeOK, HeadInRange, GrowHistory
<1>2. cells' = Linear(head, n) /\ rows' = n /\ head' = rows
  BY DEF GrowHistory
<1> QED BY <1>1, <1>2 DEF Row, PhysFrom, Linear

\* A resize leaves every logical row where it was.
LEMMA RelineariseKeepsRows ==
  ASSUME AllocMayFail = FALSE, RingInv, Relinearise, NEW r \in 0 .. rows - 1
  PROVE  Row(r)' = Row(r)
<1>1. rows \in Nat \ {0} /\ head \in 0 .. rows - 1
  BY RingAssumption DEF RingInv, TypeOK, HeadInRange
<1>2. cells' = Linear(head, rows) /\ rows' = rows /\ head' = 0
  BY DEF Relinearise
<1> QED BY <1>1, <1>2 DEF Row, PhysFrom, Linear

-----------------------------------------------------------------------------
(* The used rows are the logical tail *)

\* Within vtty_get_history_used a reader meets captured lines only.
THEOREM UsedTail ==
  ASSUME AllocMayFail = FALSE PROVE Spec => []UsedRowsAreTheTail
<1>1. Init => UsedRowsAreTheTail
  BY RingAssumption DEF Init, UsedRowsAreTheTail, Row, PhysFrom
<1>2. ASSUME RingInv, UsedRowsAreTheTail, [Next]_ringVars
      PROVE  UsedRowsAreTheTail'
  <2> USE <1>2
  <2>0. /\ rows \in Nat \ {0} /\ fill \in 0 .. rows
        /\ \A r \in 0 .. rows - 1 : (Row(r) = Blank) <=> (r < rows - fill)
    BY RingAssumption DEF RingInv, TypeOK, UsedRowsAreTheTail
  <2>1. ASSUME NEW l \in Line, HistoryAppend(l) PROVE UsedRowsAreTheTail'
    <3>1. rows' = rows /\ fill' = IF fill < rows THEN fill + 1 ELSE fill
      BY <2>1 DEF HistoryAppend
    <3>2. l # Blank
      BY RingAssumption
    <3>3. ASSUME NEW r \in 0 .. rows - 1
          PROVE  (Row(r)' = Blank) <=> (r < rows - fill')
      <4>1. Row(r)' = IF r = rows - 1 THEN l ELSE Row(r + 1)
        BY <2>1, AppendMovesRows
      <4> QED BY <2>0, <3>1, <3>2, <4>1
    <3> QED BY <3>1, <3>3 DEF UsedRowsAreTheTail
  <2>2. ASSUME NEW n \in Capacities, ShrinkHistory(n)
        PROVE  UsedRowsAreTheTail'
    <3>1. rows' = n /\ n < rows /\ n \in Nat /\ fill' = IF fill > n THEN n ELSE fill
      BY <2>2, RingAssumption DEF ShrinkHistory
    <3>2. ASSUME NEW r \in 0 .. n - 1
          PROVE  (Row(r)' = Blank) <=> (r < n - fill')
      <4>1. Row(r)' = Row(r + (rows - n))
        BY <2>2, ShrinkMovesRows
      <4> QED BY <2>0, <3>1, <4>1
    <3> QED BY <3>1, <3>2 DEF UsedRowsAreTheTail
  <2>3. ASSUME NEW n \in Capacities, GrowHistory(n)
        PROVE  UsedRowsAreTheTail'
    <3>1. rows' = n /\ n > rows /\ n \in Nat /\ fill' = fill
      BY <2>3, RingAssumption DEF GrowHistory
    <3>2. ASSUME NEW r \in 0 .. n - 1
          PROVE  (Row(r)' = Blank) <=> (r < n - fill')
      <4>1. Row(r)' = IF r < n - rows THEN Blank ELSE Row(r - (n - rows))
        BY <2>3, GrowMovesRows
      <4> QED BY <2>0, <3>1, <4>1
    <3> QED BY <3>1, <3>2 DEF UsedRowsAreTheTail
  <2>4. CASE Relinearise
    <3>1. rows' = rows /\ fill' = fill
      BY <2>4 DEF Relinearise
    <3>2. \A r \in 0 .. rows - 1 : Row(r)' = Row(r)
      BY <2>4, RelineariseKeepsRows
    <3> QED BY <2>0, <3>1, <3>2 DEF UsedRowsAreTheTail
  <2>5. CASE UNCHANGED ringVars
    BY <2>5 DEF ringVars, UsedRowsAreTheTail, Row, PhysFrom
  <2> QED BY <2>1, <2>2, <2>3, <2>4, <2>5 DEF Next
<1> QED BY <1>1, <1>2, RingTyping, PTL DEF Spec

-----------------------------------------------------------------------------
(* The ring implements the log *)

\* The line of every age survives each operation as the log says.
LEMMA RefineAppend ==
  ASSUME RingInv, NEW l \in Line, HistoryAppend(l)
  PROVE  Log!Capture(l)
<1>1. rows \in Nat \ {0} /\ fill \in 0 .. rows
  BY RingAssumption DEF RingInv, TypeOK
<1>2. rows' = rows /\ fill' = IF fill < rows THEN fill + 1 ELSE fill
  BY DEF HistoryAppend
<1>3. ASSUME NEW a \in 0 .. fill' - 1
      PROVE  LineOfAge(a)' = IF a = 0 THEN l
             ELSE [b \in 0 .. fill - 1 |-> LineOfAge(b)][a - 1]
  <2>1. PICK r \in 0 .. rows - 1 : r = rows - 1 - a
    BY <1>1, <1>2
  <2>2. Row(r)' = IF r = rows - 1 THEN l ELSE Row(r + 1)
    BY AppendMovesRows
  <2>3. LineOfAge(a)' = Row(r)'
    BY <1>2, <2>1 DEF LineOfAge
  <2>4. CASE a = 0
    BY <1>1, <2>1, <2>2, <2>3, <2>4
  <2>5. CASE a # 0
    <3>1. a - 1 \in 0 .. fill - 1 /\ r # rows - 1 /\ r + 1 = rows - 1 - (a - 1)
      BY <1>1, <1>2, <2>1, <2>5
    <3> QED BY <2>2, <2>3, <2>5, <3>1 DEF LineOfAge
  <2> QED BY <2>4, <2>5
<1> QED BY <1>1, <1>2, <1>3 DEF Log!Capture, Log!Lesser

\* Fewer rows: the log forgets its oldest lines.
LEMMA RefineShrink ==
  ASSUME AllocMayFail = FALSE, RingInv, NEW n \in Capacities, ShrinkHistory(n)
  PROVE  Log!Resize(n)
<1>1. rows \in Nat \ {0} /\ fill \in 0 .. rows /\ n \in Nat \ {0}
  BY RingAssumption DEF RingInv, TypeOK
<1>2. n < rows /\ rows' = n /\ fill' = IF fill > n THEN n ELSE fill
  BY DEF ShrinkHistory
<1>3. ASSUME NEW a \in 0 .. fill' - 1
      PROVE  LineOfAge(a)' = [b \in 0 .. fill - 1 |-> LineOfAge(b)][a]
  <2>1. n - 1 - a \in 0 .. n - 1 /\ a \in 0 .. fill - 1
        /\ n - 1 - a + (rows - n) = rows - 1 - a
    BY <1>1, <1>2
  <2>2. Row(n - 1 - a)' = Row(rows - 1 - a)
    BY <2>1, ShrinkMovesRows
  <2>3. LineOfAge(a)' = Row(n - 1 - a)'
    BY <1>2 DEF LineOfAge, Row, PhysFrom
  <2> QED BY <2>1, <2>2, <2>3 DEF LineOfAge
<1> QED BY <1>1, <1>2, <1>3 DEF Log!Resize, Log!Lesser

\* More rows: the log keeps every line it has.
LEMMA RefineGrow ==
  ASSUME AllocMayFail = FALSE, RingInv, NEW n \in Capacities, GrowHistory(n)
  PROVE  Log!Resize(n)
<1>1. rows \in Nat \ {0} /\ fill \in 0 .. rows /\ n \in Nat \ {0}
  BY RingAssumption DEF RingInv, TypeOK
<1>2. n > rows /\ rows' = n /\ fill' = fill
  BY DEF GrowHistory
<1>3. ASSUME NEW a \in 0 .. fill' - 1
      PROVE  LineOfAge(a)' = [b \in 0 .. fill - 1 |-> LineOfAge(b)][a]
  <2>1. n - 1 - a \in 0 .. n - 1 /\ a \in 0 .. fill - 1
        /\ ~(n - 1 - a < n - rows) /\ n - 1 - a - (n - rows) = rows - 1 - a
    BY <1>1, <1>2
  <2>2. Row(n - 1 - a)' = Row(rows - 1 - a)
    BY <2>1, GrowMovesRows
  <2>3. LineOfAge(a)' = Row(n - 1 - a)'
    BY <1>2 DEF LineOfAge, Row, PhysFrom
  <2> QED BY <2>1, <2>2, <2>3 DEF LineOfAge
<1> QED BY <1>1, <1>2, <1>3 DEF Log!Resize, Log!Lesser

\* A new width: the log does not change.
LEMMA RefineRelinearise ==
  ASSUME AllocMayFail = FALSE, RingInv, Relinearise
  PROVE  UNCHANGED Log!logVars
<1>1. rows \in Nat \ {0} /\ fill \in 0 .. rows
  BY RingAssumption DEF RingInv, TypeOK
<1>2. rows' = rows /\ fill' = fill
  BY DEF Relinearise
<1>3. ASSUME NEW a \in 0 .. fill - 1 PROVE LineOfAge(a)' = LineOfAge(a)
  <2>1. PICK r \in 0 .. rows - 1 : r = rows - 1 - a
    BY <1>1
  <2>2. Row(r)' = Row(r)
    BY RelineariseKeepsRows
  <2> QED BY <1>2, <2>1, <2>2 DEF LineOfAge
<1> QED BY <1>2, <1>3 DEF Log!logVars

\* Whatever the order of captures, capacity changes and resizes, the reader
\* of the ring sees what the log promises.
THEOREM RingImplementsLog ==
  ASSUME AllocMayFail = FALSE PROVE Spec => ImplementsLog
<1>1. Init => Log!LogInit
  BY RingAssumption DEF Init, Log!LogInit
<1>2. ASSUME RingInv, [Next]_ringVars PROVE [Log!LogNext]_(Log!logVars)
  <2> USE <1>2
  <2>1. ASSUME NEW l \in Line, HistoryAppend(l) PROVE Log!LogNext
    BY <2>1, RefineAppend DEF Log!LogNext
  <2>2. ASSUME NEW n \in Capacities, ShrinkHistory(n) PROVE Log!LogNext
    BY <2>2, RefineShrink DEF Log!LogNext
  <2>3. ASSUME NEW n \in Capacities, GrowHistory(n) PROVE Log!LogNext
    BY <2>3, RefineGrow DEF Log!LogNext
  <2>4. CASE Relinearise
    BY <2>4, RefineRelinearise
  <2>5. CASE UNCHANGED ringVars
    BY <2>5 DEF ringVars, Log!logVars, LineOfAge, Row, PhysFrom
  <2> QED BY <2>1, <2>2, <2>3, <2>4, <2>5 DEF Next
<1> QED BY <1>1, <1>2, RingTyping, PTL DEF Spec, ImplementsLog, Log!LogSpec

-----------------------------------------------------------------------------
(* Screen: rows and descriptors *)

Cell == Char \union {Space}

\* The rows of a descriptor are equally long, and some of each is visible.
Shape(b) ==
  /\ b = [cells |-> b.cells, cols |-> b.cols]
  /\ b.cells \in Seq(Seq(Cell)) /\ Rows(b) \in Positive
  /\ MaxCols(b) \in Positive /\ b.cols \in 1 .. MaxCols(b)
  /\ \A r \in 1 .. Rows(b) : Len(b.cells[r]) = MaxCols(b)

LEMMA ShapeRow ==
  ASSUME NEW b, Shape(b), NEW r \in 1 .. Rows(b)
  PROVE  /\ b.cells[r] \in Seq(Cell) /\ Len(b.cells[r]) = MaxCols(b)
         /\ DOMAIN b.cells[r] = 1 .. MaxCols(b)
         /\ \A c \in 1 .. MaxCols(b) : b.cells[r][c] \in Cell
<1>1. b.cells[r] \in Seq(Cell)
  BY ElementOfSeq DEF Shape, Rows
<1>2. Len(b.cells[r]) = MaxCols(b)
  BY DEF Shape
<1> QED BY <1>1, <1>2

\* n rows of w cells.
IsGrid(f, n, w) ==
  /\ f = [r \in 1 .. n |-> f[r]]
  /\ \A r \in 1 .. n : f[r] \in Seq(Cell) /\ Len(f[r]) = w

IsDesc(b, f, c) == b = [cells |-> f, cols |-> c]

\* A descriptor put together from such rows.
LEMMA MakeShape ==
  ASSUME NEW n \in Positive, NEW w \in Positive, NEW c \in 1 .. w,
         NEW f, IsGrid(f, n, w), NEW b, IsDesc(b, f, c)
  PROVE  Shape(b) /\ b.cells = f /\ b.cols = c /\ Rows(b) = n /\ MaxCols(b) = w
<1>1. f \in Seq(Seq(Cell)) /\ Len(f) = n
  BY DEF Positive, IsGrid
<1>2. b.cells = f /\ b.cols = c /\ b = [cells |-> f, cols |-> c]
  BY DEF IsDesc
<1>3. 1 \in 1 .. n
  BY DEF Positive
<1>4. Rows(b) = n /\ MaxCols(b) = w
  BY <1>1, <1>2, <1>3 DEF Rows, MaxCols, IsGrid
<1> QED BY <1>1, <1>2, <1>4 DEF Shape, IsGrid

LEMMA BlankRow ==
  ASSUME NEW n \in Nat
  PROVE  /\ Blanks(n) \in Seq(Cell) /\ Len(Blanks(n)) = n
         /\ \A c \in 1 .. n : Blanks(n)[c] = Space
BY DEF Blanks, Cell

\* The visible part of a row.
LEMMA VisibleRow ==
  ASSUME NEW b, Shape(b), NEW r \in 1 .. Rows(b)
  PROVE  /\ Visible(b, r) \in Seq(Cell) /\ Len(Visible(b, r)) = b.cols
         /\ \A c \in 1 .. b.cols : Visible(b, r)[c] = b.cells[r][c]
<1>1. b.cols \in 1 .. MaxCols(b) /\ MaxCols(b) \in Nat
  BY DEF Shape, Positive
<1>2. \A c \in 1 .. b.cols : b.cells[r][c] \in Cell
  BY <1>1, ShapeRow
<1> QED BY <1>1, <1>2, SubSeqProperties DEF Visible

\* What is left of a row from a column on.
LEMMA RestOfRow ==
  ASSUME NEW s \in Seq(Cell), NEW k \in 0 .. Len(s)
  PROVE  SubSeq(s, k + 1, Len(s)) \in Seq(Cell) /\ Len(SubSeq(s, k + 1, Len(s))) = Len(s) - k
<1>1. Len(s) \in Nat /\ \A c \in k + 1 .. Len(s) : s[c] \in Cell
  BY LenProperties, ElementOfSeq
<1> QED BY <1>1, SubSeqProperties

LEMMA AllocShape ==
  ASSUME NEW size \in Positive \X Positive
  PROVE  LET b == Alloc(size) IN
           /\ Shape(b) /\ Rows(b) = size[2] /\ MaxCols(b) = size[1] /\ b.cols = size[1]
<1> DEFINE f == [r \in 1 .. size[2] |-> Blanks(size[1])]
<1>1. \A r \in 1 .. size[2] : f[r] \in Seq(Cell) /\ Len(f[r]) = size[1]
  BY BlankRow DEF Positive
<1>2. IsGrid(f, size[2], size[1]) /\ IsDesc(Alloc(size), f, size[1])
  BY <1>1 DEF Alloc, IsGrid, IsDesc
<1>3. size[1] \in Positive /\ size[2] \in Positive /\ size[1] \in 1 .. size[1]
  BY DEF Positive
<1> HIDE DEF f
<1> QED BY <1>1, <1>2, <1>3, MakeShape

\* The visible part of a row is erased.
LEMMA ErasedType ==
  ASSUME NEW s \in Seq(Cell), NEW k
  PROVE  ErasedRow(s, k) \in Seq(Cell) /\ Len(ErasedRow(s, k)) = Len(s)
BY DEF ErasedRow, Cell

\* vtty_buffer_realloc keeps every cell of the rows that are left.
LEMMA ReallocShape ==
  ASSUME NEW b, Shape(b), NEW width \in Positive, NEW height \in Positive
  PROVE  LET q == Realloc(b, width, height) IN
           /\ Shape(q) /\ Rows(q) = height /\ q.cols = width
           /\ MaxCols(q) = IF width > MaxCols(b) THEN width ELSE MaxCols(b)
           /\ \A r \in 1 .. height : r <= Rows(b) =>
                \A c \in 1 .. MaxCols(b) : q.cells[r][c] = b.cells[r][c]
<1> DEFINE stride == IF width > MaxCols(b) THEN width ELSE MaxCols(b)
           f == [r \in 1 .. height |->
                   IF r <= Rows(b) THEN b.cells[r] \o Blanks(stride - MaxCols(b))
                                   ELSE Blanks(stride)]
           q == Realloc(b, width, height)
<1>1. /\ MaxCols(b) \in Positive /\ stride \in Positive /\ stride - MaxCols(b) \in Nat
      /\ width \in 1 .. stride /\ Rows(b) \in Positive
  BY DEF Shape, Positive
<1>2. q = [cells |-> f, cols |-> width] /\ f = [r \in 1 .. height |-> f[r]]
  BY DEF Realloc
<1> HIDE DEF q, stride
<1>3. ASSUME NEW r \in 1 .. height
      PROVE  /\ f[r] \in Seq(Cell) /\ Len(f[r]) = stride
             /\ r <= Rows(b) => \A c \in 1 .. MaxCols(b) : f[r][c] = b.cells[r][c]
  <2>1. CASE r <= Rows(b)
    <3>1. r \in 1 .. Rows(b)
      BY <1>1, <2>1 DEF Positive
    <3> DEFINE s == b.cells[r]
               t == Blanks(stride - MaxCols(b))
    <3>2. s \in Seq(Cell) /\ Len(s) = MaxCols(b)
      BY <3>1, ShapeRow
    <3>3. t \in Seq(Cell) /\ Len(t) = stride - MaxCols(b)
      BY <1>1, BlankRow
    <3>4. f[r] = s \o t
      BY <2>1
    <3> HIDE DEF s, t, f
    <3>5. MaxCols(b) \in Nat /\ stride \in Nat
      BY <1>1 DEF Positive
    <3>6. /\ s \o t \in Seq(Cell) /\ Len(s \o t) = Len(s) + Len(t)
          /\ \A i \in 1 .. Len(s) + Len(t) :
               (s \o t)[i] = IF i <= Len(s) THEN s[i] ELSE t[i - Len(s)]
      BY <3>2, <3>3, ConcatProperties
    <3>7. \A c \in 1 .. MaxCols(b) : f[r][c] = s[c]
      BY <3>2, <3>3, <3>4, <3>5, <3>6
    <3>8. f[r] \in Seq(Cell) /\ Len(f[r]) = stride
      BY <3>2, <3>3, <3>4, <3>5, <3>6
    <3> QED BY <3>7, <3>8 DEF s
  <2>2. CASE ~(r <= Rows(b))
    BY <1>1, <2>2, BlankRow DEF Positive
  <2> QED BY <2>1, <2>2
<1> HIDE DEF f
<1>4. Shape(q) /\ q.cells = f /\ q.cols = width /\ Rows(q) = height /\ MaxCols(q) = stride
  <2>1. IsGrid(f, height, stride) /\ IsDesc(q, f, width)
    BY <1>2, <1>3, Zenon DEF IsGrid, IsDesc
  <2> QED BY <1>1, <1>2, <2>1, MakeShape
<1> QED BY <1>3, <1>4 DEF q, stride

\* ... and so does vtty_resize_full: the rows it erases are new.
LEMMA ResizedShape ==
  ASSUME NEW b, Shape(b), NEW width \in Positive, NEW height \in Positive
  PROVE  LET q == Resized(b, width, height) IN
           /\ Shape(q) /\ Rows(q) = height /\ q.cols = width
           /\ MaxCols(q) = IF width > MaxCols(b) THEN width ELSE MaxCols(b)
           /\ \A r \in 1 .. height : r <= Rows(b) =>
                \A c \in 1 .. MaxCols(b) : q.cells[r][c] = b.cells[r][c]
<1> DEFINE p == Realloc(b, width, height)
           f == [r \in 1 .. height |->
                   IF r <= Rows(b) THEN p.cells[r] ELSE ErasedRow(p.cells[r], width)]
           q == Resized(b, width, height)
<1>1. /\ Shape(p) /\ Rows(p) = height /\ p.cols = width
      /\ MaxCols(p) = IF width > MaxCols(b) THEN width ELSE MaxCols(b)
      /\ \A r \in 1 .. height : r <= Rows(b) =>
           \A c \in 1 .. MaxCols(b) : p.cells[r][c] = b.cells[r][c]
  BY ReallocShape
<1>2. DOMAIN p.cells = 1 .. height /\ p = [cells |-> p.cells, cols |-> width]
  <2>1. p.cells \in Seq(Seq(Cell)) /\ Len(p.cells) = height
    BY <1>1, Zenon DEF Shape, Rows
  <2>2. p = [cells |-> p.cells, cols |-> width]
    BY <1>1, Zenon DEF Shape
  <2> QED BY <2>1, <2>2, LenProperties
<1>3. q = [cells |-> f, cols |-> width] /\ f = [r \in 1 .. height |-> f[r]]
  <2>1. q = [p EXCEPT !.cells = [r \in DOMAIN p.cells |->
              IF r <= Rows(b) THEN p.cells[r] ELSE ErasedRow(p.cells[r], width)]]
    BY DEF Resized
  <2>2. q = [p EXCEPT !.cells = f]
    BY <1>2, <2>1
  <2> HIDE DEF p, q, f
  <2>3. q = [cells |-> f, cols |-> width]
    BY <1>2, <2>2
  <2> QED BY <2>3 DEF f
<1> HIDE DEF p, q
<1>4. ASSUME NEW r \in 1 .. height
      PROVE  /\ f[r] \in Seq(Cell) /\ Len(f[r]) = MaxCols(p)
             /\ r <= Rows(b) => f[r] = p.cells[r]
  <2>1. p.cells[r] \in Seq(Cell) /\ Len(p.cells[r]) = MaxCols(p)
    BY <1>1, ShapeRow
  <2>2. ErasedRow(p.cells[r], width) \in Seq(Cell)
        /\ Len(ErasedRow(p.cells[r], width)) = MaxCols(p)
    BY <2>1, ErasedType
  <2> QED BY <2>1, <2>2
<1> HIDE DEF f
<1>5. MaxCols(p) \in Positive /\ width \in 1 .. MaxCols(p)
  BY <1>1 DEF Shape
<1>6. Shape(q) /\ q.cells = f /\ q.cols = width /\ Rows(q) = height /\ MaxCols(q) = MaxCols(p)
  <2>1. IsGrid(f, height, MaxCols(p)) /\ IsDesc(q, f, width)
    BY <1>3, <1>4, Zenon DEF IsGrid, IsDesc
  <2> QED BY <1>3, <1>5, <2>1, MakeShape
<1> QED BY <1>1, <1>4, <1>6 DEF q

\* A descriptor whose rows were rewritten and are as long as before.
LEMMA RewrittenShape ==
  ASSUME NEW b, Shape(b), NEW f, IsGrid(f, Rows(b), MaxCols(b)),
         NEW q, q = [b EXCEPT !.cells = f]
  PROVE  /\ Shape(q) /\ q.cells = f /\ q.cols = b.cols
         /\ Rows(q) = Rows(b) /\ MaxCols(q) = MaxCols(b)
<1>1. b = [cells |-> b.cells, cols |-> b.cols] /\ Rows(b) \in Positive
      /\ MaxCols(b) \in Positive /\ b.cols \in 1 .. MaxCols(b)
  BY DEF Shape
<1>2. IsDesc(q, f, b.cols)
  BY <1>1 DEF IsDesc
<1> QED BY <1>1, <1>2, MakeShape

\* A row that is shifted is as long as the one it goes onto.
LEMMA OntoRow ==
  ASSUME NEW b, Shape(b), NEW k \in 1 .. Rows(b), NEW r \in 1 .. Rows(b)
  PROVE  Onto(b, k, r) \in Seq(Cell) /\ Len(Onto(b, k, r)) = MaxCols(b)
<1>1. CASE b.cols = MaxCols(b)
  BY <1>1, ShapeRow DEF Onto
<1>2. CASE b.cols # MaxCols(b)
  <2> DEFINE v == Visible(b, k)
             t == SubSeq(b.cells[r], b.cols + 1, MaxCols(b))
  <2>1. Onto(b, k, r) = v \o t
    BY <1>2 DEF Onto
  <2>2. MaxCols(b) \in Nat /\ b.cols \in 1 .. MaxCols(b)
    BY DEF Shape, Positive
  <2>3. v \in Seq(Cell) /\ Len(v) = b.cols
    BY VisibleRow
  <2>4. t \in Seq(Cell) /\ Len(t) = MaxCols(b) - b.cols
    BY <2>2, ShapeRow, RestOfRow
  <2> HIDE DEF v, t
  <2>5. v \o t \in Seq(Cell) /\ Len(v \o t) = Len(v) + Len(t)
    BY <2>3, <2>4, ConcatProperties
  <2> QED BY <2>1, <2>2, <2>3, <2>4, <2>5
<1> QED BY <1>1, <1>2

LEMMA ShiftShape ==
  ASSUME NEW b, Shape(b), NEW top \in 1 .. Rows(b), NEW bottom \in 1 .. Rows(b),
         top <= bottom,
         NEW q, q = ShiftedUp(b, top, bottom) \/ q = ShiftedDown(b, top, bottom)
  PROVE  /\ Shape(q) /\ q.cols = b.cols /\ Rows(q) = Rows(b) /\ MaxCols(q) = MaxCols(b)
         /\ \A r \in 1 .. Rows(b) : r \notin top .. bottom => q.cells[r] = b.cells[r]
<1>1. Rows(b) \in Nat /\ DOMAIN b.cells = 1 .. Rows(b)
  BY LenProperties DEF Shape, Rows, Positive
<1>2. \A r \in 1 .. Rows(b) : /\ b.cells[r] \in Seq(Cell) /\ Len(b.cells[r]) = MaxCols(b)
                              /\ ErasedRow(b.cells[r], b.cols) \in Seq(Cell)
                              /\ Len(ErasedRow(b.cells[r], b.cols)) = MaxCols(b)
  BY ShapeRow, ErasedType
<1>3. \A k, r \in 1 .. Rows(b) :
        Onto(b, k, r) \in Seq(Cell) /\ Len(Onto(b, k, r)) = MaxCols(b)
  BY OntoRow
<1>4. CASE q = ShiftedUp(b, top, bottom)
  <2> DEFINE f == [r \in 1 .. Rows(b) |->
                     IF r = bottom THEN ErasedRow(b.cells[r], b.cols)
                     ELSE IF r \in top .. bottom THEN Onto(b, r + 1, r) ELSE b.cells[r]]
  <2>1. q = [b EXCEPT !.cells = f]
    BY <1>1, <1>4 DEF ShiftedUp
  <2>2. ASSUME NEW r \in 1 .. Rows(b) PROVE f[r] \in Seq(Cell) /\ Len(f[r]) = MaxCols(b)
    <3>1. r # bottom /\ r \in top .. bottom => r + 1 \in 1 .. Rows(b)
      BY <1>1
    <3> QED BY <1>2, <1>3, <3>1
  <2>3. IsGrid(f, Rows(b), MaxCols(b))
    BY <2>2 DEF IsGrid
  <2>4. \A r \in 1 .. Rows(b) : r \notin top .. bottom => f[r] = b.cells[r]
    BY <1>1
  <2> HIDE DEF f
  <2> QED BY <2>1, <2>3, <2>4, RewrittenShape
<1>5. CASE q = ShiftedDown(b, top, bottom)
  <2> DEFINE f == [r \in 1 .. Rows(b) |->
                     IF r = top THEN ErasedRow(b.cells[r], b.cols)
                     ELSE IF r \in top .. bottom THEN Onto(b, r - 1, r) ELSE b.cells[r]]
  <2>1. q = [b EXCEPT !.cells = f]
    BY <1>1, <1>5 DEF ShiftedDown
  <2>2. ASSUME NEW r \in 1 .. Rows(b) PROVE f[r] \in Seq(Cell) /\ Len(f[r]) = MaxCols(b)
    <3>1. r # top /\ r \in top .. bottom => r - 1 \in 1 .. Rows(b)
      BY <1>1
    <3> QED BY <1>2, <1>3, <3>1
  <2>3. IsGrid(f, Rows(b), MaxCols(b))
    BY <2>2 DEF IsGrid
  <2>4. \A r \in 1 .. Rows(b) : r \notin top .. bottom => f[r] = b.cells[r]
    BY <1>1
  <2> HIDE DEF f
  <2> QED BY <2>1, <2>3, <2>4, RewrittenShape
<1> QED BY <1>4, <1>5

\* A cell is stored.
LEMMA PutShape ==
  ASSUME NEW b, Shape(b), NEW r \in 1 .. Rows(b), NEW c \in 1 .. b.cols, NEW ch \in Char,
         NEW q, q = [b EXCEPT !.cells[r][c] = ch]
  PROVE  /\ Shape(q) /\ q.cols = b.cols /\ Rows(q) = Rows(b) /\ MaxCols(q) = MaxCols(b)
         /\ \A k \in 1 .. Rows(b) : k \notin {r} => q.cells[k] = b.cells[k]
<1> DEFINE f == [b.cells EXCEPT ![r] = [b.cells[r] EXCEPT ![c] = ch]]
<1>1. q = [b EXCEPT !.cells = f]
  BY Zenon
<1>2. DOMAIN b.cells = 1 .. Rows(b) /\ c \in 1 .. MaxCols(b)
  BY LenProperties DEF Shape, Rows, Positive
<1>3. \A k \in 1 .. Rows(b) : b.cells[k] \in Seq(Cell) /\ Len(b.cells[k]) = MaxCols(b)
  BY ShapeRow
<1>4. LET s == [b.cells[r] EXCEPT ![c] = ch] IN s \in Seq(Cell) /\ Len(s) = MaxCols(b)
  BY <1>2, <1>3, ExceptSeq DEF Cell
<1>5. IsGrid(f, Rows(b), MaxCols(b))
  BY <1>2, <1>3, <1>4 DEF IsGrid
<1>6. \A k \in 1 .. Rows(b) : k \notin {r} => f[k] = b.cells[k]
  BY <1>2
<1> HIDE DEF f
<1> QED BY <1>1, <1>5, <1>6, RewrittenShape

-----------------------------------------------------------------------------
(* Screen: what was seen *)

\* The rows of b begin with what was seen of them.
Shown(b, s) ==
  /\ s \in [1 .. Rows(b) -> Seq(Cell)]
  /\ \A r \in 1 .. Rows(b) :
       /\ Len(s[r]) <= MaxCols(b)
       /\ \A c \in 1 .. Len(s[r]) : b.cells[r][c] = s[r][c]

LEMMA ShownPicture ==
  ASSUME NEW b, Shape(b) PROVE Shown(b, Picture(b))
<1>1. b.cols <= MaxCols(b)
  BY DEF Shape
<1>2. Picture(b) \in [1 .. Rows(b) -> Seq(Cell)]
  BY VisibleRow DEF Picture
<1>3. \A r \in 1 .. Rows(b) : Picture(b)[r] = Visible(b, r)
  BY DEF Picture
<1> QED BY <1>1, <1>2, <1>3, VisibleRow DEF Shown

\* Of a buffer some of whose rows are stored to, those are as they appear, and
\* the others as they were seen.
LEMMA ShownStored ==
  ASSUME NEW b, NEW s, Shown(b, s), NEW q, Shape(q), NEW touched,
         Rows(q) = Rows(b), MaxCols(q) = MaxCols(b),
         \A r \in 1 .. Rows(b) : r \notin touched => q.cells[r] = b.cells[r]
  PROVE  Shown(q, [r \in DOMAIN s |-> IF r \in touched THEN Visible(q, r) ELSE s[r]])
<1> DEFINE t == [r \in DOMAIN s |-> IF r \in touched THEN Visible(q, r) ELSE s[r]]
<1>1. DOMAIN s = 1 .. Rows(q) /\ q.cols <= MaxCols(q)
  BY DEF Shown, Shape
<1>2. ASSUME NEW r \in 1 .. Rows(q)
      PROVE  /\ t[r] \in Seq(Cell) /\ Len(t[r]) <= MaxCols(q)
             /\ \A c \in 1 .. Len(t[r]) : q.cells[r][c] = t[r][c]
  <2>1. CASE r \in touched
    <3>1. t[r] = Visible(q, r)
      BY <1>1, <2>1
    <3> HIDE DEF t
    <3> QED BY <1>1, <3>1, VisibleRow
  <2>2. CASE r \notin touched
    <3>1. t[r] = s[r] /\ q.cells[r] = b.cells[r]
      BY <1>1, <2>2
    <3> HIDE DEF t
    <3> QED BY <3>1 DEF Shown
  <2> QED BY <2>1, <2>2
<1>3. DOMAIN t = 1 .. Rows(q)
  BY <1>1
<1>4. t = [r \in 1 .. Rows(q) |-> t[r]]
  BY <1>3, Zenon
<1> HIDE DEF t
<1>5. t \in [1 .. Rows(q) -> Seq(Cell)]
  BY <1>2, <1>4
<1>6. Shown(q, t)
  BY <1>2, <1>5 DEF Shown
<1> QED BY <1>6 DEF t

\* A reallocation keeps what was seen of the rows that are left.
LEMMA ShownStill ==
  ASSUME Shape(std), Shown(std, seen), NEW q, Shape(q), MaxCols(std) <= MaxCols(q),
         \A r \in 1 .. Rows(q) : r <= Rows(std) =>
           \A c \in 1 .. MaxCols(std) : q.cells[r][c] = std.cells[r][c]
  PROVE  Shown(q, StillSeen(q))
<1>0. /\ DOMAIN seen = 1 .. Rows(std) /\ Rows(std) \in Nat /\ Rows(q) \in Nat
      /\ MaxCols(std) \in Nat /\ MaxCols(q) \in Nat
  BY DEF Shape, Shown, Positive
<1> DEFINE s == StillSeen(q)
<1>1. ASSUME NEW r \in 1 .. Rows(q)
      PROVE  /\ s[r] \in Seq(Cell) /\ Len(s[r]) <= MaxCols(q)
             /\ \A c \in 1 .. Len(s[r]) : q.cells[r][c] = s[r][c]
  <2>1. CASE r \in 1 .. Rows(std)
    <3>1. s[r] = seen[r] /\ r <= Rows(std)
      BY <1>0, <2>1 DEF StillSeen
    <3>2. /\ seen[r] \in Seq(Cell) /\ Len(seen[r]) <= MaxCols(std)
          /\ \A c \in 1 .. Len(seen[r]) : std.cells[r][c] = seen[r][c]
      BY <2>1 DEF Shown
    <3>3. Len(seen[r]) \in Nat
      BY <3>2
    <3> HIDE DEF s
    <3>4. \A c \in 1 .. Len(seen[r]) : c \in 1 .. MaxCols(std)
      BY <1>0, <3>2, <3>3
    <3> QED BY <1>0, <3>1, <3>2, <3>3, <3>4
  <2>2. CASE r \notin 1 .. Rows(std)
    <3>1. s[r] = Visible(q, r)
      BY <1>0, <2>2 DEF StillSeen
    <3>2. q.cols <= MaxCols(q)
      BY DEF Shape
    <3> HIDE DEF s
    <3> QED BY <3>1, <3>2, VisibleRow
  <2> QED BY <2>1, <2>2
<1>2. s = [r \in 1 .. Rows(q) |-> s[r]]
  BY DEF StillSeen
<1> HIDE DEF s
<1>3. s \in [1 .. Rows(q) -> Seq(Cell)]
  BY <1>1, <1>2
<1>4. Shown(q, s)
  BY <1>1, <1>3 DEF Shown
<1> QED BY <1>4 DEF s

-----------------------------------------------------------------------------
(* Screen: captures *)

\* The history after a capture: its rows move up, and the rows that were
\* captured follow them.
LEMMA CapturedRows ==
  ASSUME Shape(hist), Rows(hist) = Capacity, NEW b, Shape(b),
         NEW first \in 1 .. Rows(b), NEW last \in first .. Rows(b),
         NEW i \in 1 .. Capacity
  PROVE  LET row == Captured(b, first, last)[i]
             count == last - first + 1
         IN /\ row \in Seq(Cell) /\ Len(row) = MaxCols(hist)
            /\ i + count <= Capacity => row = hist.cells[i + count]
            /\ i + count > Capacity =>
                 \A c \in 1 .. MaxCols(b) : c <= MaxCols(hist) =>
                   row[c] = b.cells[last - Capacity + i][c]
<1> DEFINE count == last - first + 1
           stride == Least(MaxCols(b), MaxCols(hist))
           k == ((i + count - 1) % Capacity) + 1
           row == Captured(b, first, last)[i]
<1>1. /\ Capacity \in Nat \ {0} /\ Rows(b) \in Nat /\ count \in Nat \ {0}
      /\ MaxCols(b) \in Nat \ {0} /\ MaxCols(hist) \in Nat \ {0}
      /\ i \in Nat \ {0} /\ first \in Nat /\ last \in Nat
  BY ScreenAssumption DEF Shape, Positive
<1>2. k \in 1 .. Capacity /\ (i + count <= Capacity => k = i + count)
  <2> HIDE DEF count
  <2>1. i + count - 1 \in Nat
    BY <1>1
  <2> DEFINE x == i + count - 1
  <2>2. x % Capacity \in 0 .. Capacity - 1 /\ (x < Capacity => x % Capacity = x)
    <3>1. x \in Nat BY <2>1
    <3> HIDE DEF x
    <3> QED BY <1>1, <3>1
  <2> QED BY <1>1, <2>1, <2>2
<1>3. row = IF i + count <= Capacity THEN hist.cells[k]
            ELSE SubSeq(b.cells[last - Capacity + i], 1, stride)
                   \o SubSeq(hist.cells[k], stride + 1, MaxCols(hist))
  BY DEF Captured
<1>4. hist.cells[k] \in Seq(Cell) /\ Len(hist.cells[k]) = MaxCols(hist)
  <2> HIDE DEF k
  <2> QED BY <1>2, ShapeRow
<1>5. CASE i + count <= Capacity
  BY <1>1, <1>2, <1>3, <1>4, <1>5
<1>6. CASE i + count > Capacity
  <2> DEFINE source == b.cells[last - Capacity + i]
             s == SubSeq(source, 1, stride)
             t == SubSeq(hist.cells[k], stride + 1, MaxCols(hist))
  <2>1. last - Capacity + i \in 1 .. Rows(b)
    BY <1>1, <1>6
  <2>2. source \in Seq(Cell) /\ Len(source) = MaxCols(b)
        /\ \A c \in 1 .. MaxCols(b) : source[c] \in Cell
    BY <2>1, ShapeRow
  <2>3. /\ stride \in Nat /\ stride <= MaxCols(b) /\ stride <= MaxCols(hist)
        /\ \A c \in 1 .. MaxCols(b) : c <= MaxCols(hist) => c <= stride
    BY <1>1 DEF Least
  <2>4. row = s \o t
    <3>1. ~(i + count <= Capacity)
      BY <1>1, <1>6
    <3> HIDE DEF row, k, stride, count
    <3> QED BY <1>3, <3>1, Zenon
  <2> HIDE DEF source, stride, k, row
  <2>5. \A c \in 1 .. stride : source[c] \in Cell
    BY <1>1, <2>2, <2>3
  <2>6. /\ s \in Seq(Cell) /\ Len(s) = stride
        /\ \A c \in 1 .. stride : s[c] = source[c]
    BY <2>3, <2>5, SubSeqProperties
  <2>7. t \in Seq(Cell) /\ Len(t) = MaxCols(hist) - stride
    <3>1. stride \in 0 .. Len(hist.cells[k])
      BY <1>1, <1>4, <2>3
    <3> QED BY <1>4, <3>1, RestOfRow
  <2> HIDE DEF s, t
  <2>8. /\ s \o t \in Seq(Cell) /\ Len(s \o t) = Len(s) + Len(t)
        /\ \A c \in 1 .. Len(s) + Len(t) :
             (s \o t)[c] = IF c <= Len(s) THEN s[c] ELSE t[c - Len(s)]
    BY <2>6, <2>7, ConcatProperties
  <2>9. row \in Seq(Cell) /\ Len(row) = MaxCols(hist)
    BY <1>1, <2>3, <2>4, <2>6, <2>7, <2>8
  <2>10. ASSUME NEW c \in 1 .. MaxCols(b), c <= MaxCols(hist) PROVE row[c] = source[c]
    <3>1. c \in 1 .. stride /\ c \in 1 .. Len(s) + Len(t) /\ c <= Len(s)
      BY <1>1, <2>3, <2>6, <2>7, <2>10
    <3> QED BY <2>4, <2>6, <2>8, <3>1
  <2> QED BY <1>1, <1>6, <2>9, <2>10 DEF source, row
<1> QED BY <1>1, <1>5, <1>6

LEMMA CaptureShape ==
  ASSUME Shape(hist), Rows(hist) = Capacity, NEW b, Shape(b),
         NEW first \in 1 .. Rows(b), NEW last \in first .. Rows(b),
         Capture(b, first, last)
  PROVE  /\ Shape(hist') /\ Rows(hist') = Capacity /\ MaxCols(hist') = MaxCols(hist)
         /\ hist'.cells = Captured(b, first, last)
<1> DEFINE f == Captured(b, first, last)
<1>1. f = [i \in 1 .. Rows(hist) |-> f[i]]
  BY DEF Captured
<1>2. \A i \in 1 .. Rows(hist) : f[i] \in Seq(Cell) /\ Len(f[i]) = MaxCols(hist)
  BY CapturedRows
<1>3. hist' = [hist EXCEPT !.cells = f]
  BY DEF Capture
<1> HIDE DEF f
<1>4. IsGrid(f, Rows(hist), MaxCols(hist))
  BY <1>1, <1>2 DEF IsGrid
<1>5. ASSUME NEW q, q = [hist EXCEPT !.cells = f]
      PROVE  Shape(q) /\ q.cells = f /\ Rows(q) = Rows(hist) /\ MaxCols(q) = MaxCols(hist)
  BY <1>4, <1>5, RewrittenShape
<1> QED BY <1>3, <1>5 DEF f

\* The newest n rows of h begin with the lines l.
LinesKept(h, l, n) ==
  /\ l \in Seq(Seq(Cell)) /\ Len(l) = n /\ n \in 0 .. Capacity
  /\ \A i \in 1 .. n :
       /\ Len(l[i]) <= MaxCols(h)
       /\ \A c \in 1 .. Len(l[i]) : h.cells[Capacity - n + i][c] = l[i][c]

\* A capture keeps the lines that stay and shows those that come, if the
\* history is as wide as what is visible of them.
LEMMA LinesCaptured ==
  ASSUME Shape(hist), Rows(hist) = Capacity, NEW b, Shape(b), b.cols <= MaxCols(hist),
         NEW first \in 1 .. Rows(b), NEW last \in first .. Rows(b),
         Capture(b, first, last), LinesKept(hist, lines, inUse)
  PROVE  LinesKept(hist', lines', inUse')
<1> DEFINE count == last - first + 1
           new == SubSeq(Picture(b), first, last)
           all == lines \o new
           m == Least(Len(all), Capacity)
<1>1. /\ Capacity \in Nat \ {0} /\ Rows(b) \in Nat /\ count \in Nat \ {0}
      /\ MaxCols(b) \in Nat \ {0} /\ MaxCols(hist) \in Nat \ {0}
      /\ first \in Nat \ {0} /\ last \in Nat /\ inUse \in Nat /\ inUse <= Capacity
      /\ b.cols \in 1 .. MaxCols(b)
  BY ScreenAssumption DEF Shape, Positive, LinesKept
<1>2. /\ new \in Seq(Seq(Cell)) /\ Len(new) = count
      /\ \A i \in 1 .. count : new[i] = Visible(b, first + i - 1)
  <2>1. \A r \in 1 .. Rows(b) : Picture(b)[r] = Visible(b, r) /\ Visible(b, r) \in Seq(Cell)
    BY VisibleRow DEF Picture
  <2>2. \A r \in first .. last : r \in 1 .. Rows(b)
    BY <1>1
  <2>3. \A r \in first .. last : Picture(b)[r] \in Seq(Cell)
    BY <2>1, <2>2
  <2>4. /\ new \in Seq(Seq(Cell)) /\ Len(new) = (IF first <= last THEN last - first + 1 ELSE 0)
        /\ \A i \in 1 .. last - first + 1 : new[i] = Picture(b)[first + i - 1]
    BY <1>1, <2>3, SubSeqProperties
  <2> HIDE DEF new
  <2>5. \A i \in 1 .. count : first + i - 1 \in first .. last
    BY <1>1
  <2>6. ASSUME NEW i \in 1 .. count PROVE new[i] = Visible(b, first + i - 1)
    <3>1. new[i] = Picture(b)[first + i - 1]
      BY <2>4
    <3> QED BY <2>1, <2>2, <2>5, <3>1
  <2>7. Len(new) = count
    BY <1>1, <2>4
  <2> QED BY <2>4, <2>6, <2>7
<1> HIDE DEF new
<1>3. /\ all \in Seq(Seq(Cell)) /\ Len(all) = inUse + count
      /\ \A j \in 1 .. inUse + count :
           all[j] = IF j <= inUse THEN lines[j] ELSE new[j - inUse]
  <2>1. lines \in Seq(Seq(Cell)) /\ Len(lines) = inUse
    BY DEF LinesKept
  <2> HIDE DEF count
  <2>2. /\ all \in Seq(Seq(Cell)) /\ Len(all) = Len(lines) + Len(new)
        /\ \A j \in 1 .. Len(lines) + Len(new) :
             all[j] = IF j <= Len(lines) THEN lines[j] ELSE new[j - Len(lines)]
    BY <1>2, <2>1, ConcatProperties
  <2> QED BY <1>2, <2>1, <2>2
<1> HIDE DEF all
<1>4. m \in 1 .. Capacity /\ m <= Len(all) /\ inUse' = m
  <2>1. inUse' = Least(inUse + last - first + 1, Capacity)
    BY DEF Capture
  <2>2. inUse + last - first + 1 = Len(all)
    BY <1>1, <1>3
  <2> QED BY <1>1, <1>3, <2>1, <2>2 DEF Least
<1>5. lines' = SubSeq(all, Len(all) - m + 1, Len(all))
  BY DEF Capture, all, new
<1> HIDE DEF m
<1>6. /\ lines' \in Seq(Seq(Cell)) /\ Len(lines') = m
      /\ \A i \in 1 .. m : lines'[i] = all[inUse + count - m + i]
  <2>1. \A j \in Len(all) - m + 1 .. Len(all) : all[j] \in Seq(Cell)
    <3>1. \A j \in Len(all) - m + 1 .. Len(all) : j \in 1 .. Len(all)
      BY <1>1, <1>3, <1>4
    <3> QED BY <1>3, <3>1, ElementOfSeq
  <2> DEFINE from == Len(all) - m + 1
             to == Len(all)
  <2>2. from \in Int /\ to \in Int /\ from <= to /\ to - from + 1 = m
        /\ \A i \in 1 .. m : from + i - 1 = inUse + count - m + i
    BY <1>1, <1>3, <1>4
  <2>3. lines' = SubSeq(all, from, to) /\ \A j \in from .. to : all[j] \in Seq(Cell)
    BY <1>5, <2>1
  <2> HIDE DEF from, to, count
  <2>4. /\ lines' \in Seq(Seq(Cell))
        /\ Len(lines') = (IF from <= to THEN to - from + 1 ELSE 0)
        /\ \A i \in 1 .. to - from + 1 : lines'[i] = all[from + i - 1]
    BY <2>2, <2>3, SubSeqProperties
  <2> QED BY <2>2, <2>4
<1>7. /\ MaxCols(hist') = MaxCols(hist) /\ hist'.cells = Captured(b, first, last)
  BY CaptureShape
<1>8. ASSUME NEW i \in 1 .. m
      PROVE  /\ Len(lines'[i]) <= MaxCols(hist)
             /\ \A c \in 1 .. Len(lines'[i]) :
                  Captured(b, first, last)[Capacity - m + i][c] = lines'[i][c]
  <2> DEFINE j == inUse + count - m + i
             k == Capacity - m + i
             row == Captured(b, first, last)[k]
  <2>1. /\ j \in 1 .. inUse + count /\ k \in 1 .. Capacity /\ k \in Nat /\ j \in Nat
        /\ j = inUse + count - Capacity + k
    <3> HIDE DEF count
    <3>1. /\ m \in Nat /\ i \in Nat /\ 1 <= i /\ i <= m /\ m <= Capacity
          /\ m <= inUse + count
      BY <1>1, <1>3, <1>4
    <3>2. j \in 1 .. inUse + count
      BY <1>1, <3>1
    <3>3. k \in 1 .. Capacity
      BY <1>1, <3>1
    <3> QED BY <1>1, <3>1, <3>2, <3>3
  <2>2. lines'[i] = all[j]
    BY <1>6
  <2>3. /\ k + count <= Capacity => row = hist.cells[k + count]
        /\ k + count > Capacity =>
             \A c \in 1 .. MaxCols(b) : c <= MaxCols(hist) =>
               row[c] = b.cells[last - Capacity + k][c]
    <3> HIDE DEF k
    <3> QED BY <2>1, CapturedRows
  <2> HIDE DEF j, k, row
  <2>4. CASE j <= inUse
    <3>1. all[j] = lines[j] /\ j \in 1 .. inUse /\ k + count = Capacity - inUse + j
          /\ k + count <= Capacity
      <4> HIDE DEF count
      <4>1. all[j] = lines[j]
        BY <1>3, <2>1, <2>4
      <4>2. j \in 1 .. inUse
        BY <1>1, <2>1, <2>4
      <4>3. k + count = Capacity - inUse + j /\ k + count <= Capacity
        BY <1>1, <2>1, <2>4
      <4> QED BY <4>1, <4>2, <4>3
    <3>2. /\ Len(lines[j]) <= MaxCols(hist)
          /\ \A c \in 1 .. Len(lines[j]) : hist.cells[Capacity - inUse + j][c] = lines[j][c]
      BY <3>1 DEF LinesKept
    <3> QED BY <2>2, <2>3, <3>1, <3>2 DEF row, k
  <2>5. CASE j > inUse
    <3> DEFINE r == last - Capacity + k
    <3>1. /\ j - inUse \in 1 .. count /\ first + (j - inUse) - 1 = r
          /\ k + count > Capacity /\ r \in 1 .. Rows(b) /\ ~(j <= inUse)
      BY <1>1, <2>1, <2>5
    <3>2. all[j] = Visible(b, r)
      BY <1>2, <1>3, <2>1, <3>1
    <3>3. /\ Len(Visible(b, r)) = b.cols
          /\ \A c \in 1 .. b.cols : Visible(b, r)[c] = b.cells[r][c]
      BY <3>1, VisibleRow
    <3> HIDE DEF r
    <3>4. \A c \in 1 .. b.cols : c \in 1 .. MaxCols(b) /\ c <= MaxCols(hist)
      BY <1>1
    <3>5. \A c \in 1 .. b.cols : row[c] = b.cells[r][c]
      BY <2>3, <3>1, <3>4 DEF r
    <3> QED BY <1>1, <2>2, <3>2, <3>3, <3>5 DEF row, k
  <2> QED BY <1>1, <2>1, <2>4, <2>5
<1>9. m \in 0 .. Capacity
  BY <1>1, <1>4
<1> QED BY <1>4, <1>6, <1>7, <1>8, <1>9 DEF LinesKept

\* A wider history shows the lines as before.
LEMMA LinesWidened ==
  ASSUME Shape(hist), Rows(hist) = Capacity, NEW width \in Positive,
         hist' = Realloc(hist, width, Capacity), UNCHANGED <<lines, inUse>>
  PROVE  /\ Shape(hist') /\ Rows(hist') = Capacity
         /\ MaxCols(hist') = IF width > MaxCols(hist) THEN width ELSE MaxCols(hist)
         /\ LinesKept(hist, lines, inUse) => LinesKept(hist', lines', inUse')
<1>1. Capacity \in Positive /\ MaxCols(hist) \in Nat /\ width \in Nat
  BY ScreenAssumption DEF Shape, Positive
<1>2. /\ Shape(hist') /\ Rows(hist') = Capacity
      /\ MaxCols(hist') = IF width > MaxCols(hist) THEN width ELSE MaxCols(hist)
      /\ \A r \in 1 .. Capacity : r <= Capacity =>
           \A c \in 1 .. MaxCols(hist) : hist'.cells[r][c] = hist.cells[r][c]
  <2>1. LET q == Realloc(hist, width, Capacity) IN
           /\ Shape(q) /\ Rows(q) = Capacity /\ q.cols = width
           /\ MaxCols(q) = IF width > MaxCols(hist) THEN width ELSE MaxCols(hist)
           /\ \A r \in 1 .. Capacity : r <= Rows(hist) =>
                \A c \in 1 .. MaxCols(hist) : q.cells[r][c] = hist.cells[r][c]
    BY <1>1, ReallocShape
  <2> QED BY <2>1
<1>3. ASSUME LinesKept(hist, lines, inUse) PROVE LinesKept(hist', lines, inUse)
  <2>1. /\ lines \in Seq(Seq(Cell)) /\ Len(lines) = inUse /\ inUse \in 0 .. Capacity
        /\ \A i \in 1 .. inUse :
             /\ Len(lines[i]) <= MaxCols(hist)
             /\ \A c \in 1 .. Len(lines[i]) :
                  hist.cells[Capacity - inUse + i][c] = lines[i][c]
    BY <1>3 DEF LinesKept
  <2>2. ASSUME NEW i \in 1 .. inUse
        PROVE  /\ Len(lines[i]) <= MaxCols(hist')
               /\ \A c \in 1 .. Len(lines[i]) :
                    hist'.cells[Capacity - inUse + i][c] = lines[i][c]
    <3>1. lines[i] \in Seq(Cell) /\ Len(lines[i]) \in Nat
      BY <2>1, ElementOfSeq, LenProperties
    <3>2. MaxCols(hist') \in Nat /\ MaxCols(hist) <= MaxCols(hist')
      BY <1>1, <1>2
    <3>3. Capacity - inUse + i \in 1 .. Capacity /\ Capacity - inUse + i <= Capacity
      BY <1>1, <2>1 DEF Positive
    <3>4. \A c \in 1 .. Len(lines[i]) : c \in 1 .. MaxCols(hist)
      BY <1>1, <2>1, <3>1
    <3> QED BY <1>1, <1>2, <2>1, <3>1, <3>2, <3>3, <3>4
  <2> QED BY <2>1, <2>2 DEF LinesKept
<1> QED BY <1>2, <1>3

-----------------------------------------------------------------------------
(* Screen: the inductive invariants *)

Sizes == Positive \X Positive

\* The buffers that exist are descriptors, and the standard one begins with
\* what was seen of it.
ScreenInv ==
  /\ Shape(std) /\ Shown(std, seen)
  /\ Shape(hist) /\ Rows(hist) = Capacity /\ inUse \in 0 .. Capacity
  /\ active \in {"std", "alt"}
  /\ IF active = "alt" THEN Shape(alt) ELSE alt = [cells |-> <<>>, cols |-> 0]
  /\ winsize \in Sizes

\* The history is as wide as anything that may be captured into it.
HistoryInv ==
  /\ LinesKept(hist, lines, inUse)
  /\ InitSize[1] <= MaxCols(hist) /\ winsize[1] <= MaxCols(hist)
  /\ std.cols <= MaxCols(hist) /\ (active = "alt" => alt.cols <= MaxCols(hist))

LEMMA ScreenInitInv == ScreenInit => ScreenInv /\ HistoryInv
<1> SUFFICES ASSUME ScreenInit PROVE ScreenInv /\ HistoryInv
  OBVIOUS
<1>1. /\ InitSize \in Sizes /\ Capacity \in Positive /\ InitSize[1] \in Positive
      /\ <<InitSize[1], Capacity>> \in Sizes
  BY ScreenAssumption DEF Sizes
<1>2. Shape(std) /\ std.cols = InitSize[1]
  BY <1>1, AllocShape DEF ScreenInit, Sizes
<1>3. Shape(hist) /\ Rows(hist) = Capacity /\ MaxCols(hist) = InitSize[1]
  <2> DEFINE size == <<InitSize[1], Capacity>>
  <2>1. size \in Positive \X Positive /\ size[1] = InitSize[1] /\ size[2] = Capacity
    BY <1>1 DEF Sizes
  <2>2. hist = Alloc(size)
    BY DEF ScreenInit
  <2> HIDE DEF size
  <2> QED BY <2>1, <2>2, AllocShape
<1>4. Shown(std, seen)
  BY <1>2, ShownPicture DEF ScreenInit
<1>5. LinesKept(hist, lines, inUse)
  BY <1>1 DEF ScreenInit, LinesKept, Positive
<1> QED BY <1>1, <1>2, <1>3, <1>4, <1>5 DEF ScreenInit, ScreenInv, HistoryInv, Positive

\* A buffer is stored to, and captured from before.
LEMMA StoreKept ==
  ASSUME ScreenInv, NEW q, Shape(q), NEW touched, Store(q, touched), q.cols = Active.cols,
         Rows(q) = Rows(Active), MaxCols(q) = MaxCols(Active),
         \A r \in 1 .. Rows(Active) : r \notin touched => q.cells[r] = Active.cells[r],
         UNCHANGED <<active, winsize>>,
         \/ UNCHANGED <<hist, inUse, lines>>
         \/ active = "std" /\ Capture(std, 1, 1)
  PROVE  /\ ScreenInv' /\ (HistoryInv => HistoryInv')
<1>1. /\ Shape(std') /\ Shown(std', seen')
      /\ IF active' = "alt" THEN Shape(alt') ELSE alt' = [cells |-> <<>>, cols |-> 0]
  <2>1. CASE active = "std"
    <3> DEFINE t == [r \in DOMAIN seen |-> IF r \in touched THEN Visible(q, r) ELSE seen[r]]
    <3>1. std' = q /\ seen' = t /\ alt' = alt
      BY <2>1, Zenon DEF Store
    <3>2. Shown(q, t)
      <4>1. Active = std /\ Shown(std, seen)
        BY <2>1 DEF Active, ScreenInv
      <4>2. /\ Rows(q) = Rows(std) /\ MaxCols(q) = MaxCols(std)
            /\ \A r \in 1 .. Rows(std) : r \notin touched => q.cells[r] = std.cells[r]
        BY <4>1
      <4> QED BY <4>1, <4>2, ShownStored
    <3> HIDE DEF t
    <3> QED BY <2>1, <3>1, <3>2 DEF ScreenInv
  <2>2. CASE active # "std"
    <3>1. alt' = q /\ std' = std /\ seen' = seen
      BY <2>2, Zenon DEF Store
    <3> QED BY <2>2, <3>1 DEF ScreenInv
  <2> QED BY <2>1, <2>2
<1>2. std'.cols = std.cols /\ (active = "alt" => alt'.cols = alt.cols)
  BY DEF Store, Active, ScreenInv
<1>3. CASE UNCHANGED <<hist, inUse, lines>>
  BY <1>1, <1>2, <1>3 DEF ScreenInv, HistoryInv
<1>4. CASE active = "std" /\ Capture(std, 1, 1)
  <2>1. 1 \in 1 .. Rows(std) /\ 1 \in 1 .. 1
    BY DEF ScreenInv, Shape, Positive
  <2>2. Shape(hist') /\ Rows(hist') = Capacity /\ MaxCols(hist') = MaxCols(hist)
    BY <1>4, <2>1, CaptureShape DEF ScreenInv
  <2>3. inUse' \in 0 .. Capacity
    BY <1>4, ScreenAssumption DEF Capture, ScreenInv, Least, Positive
  <2>4. HistoryInv => LinesKept(hist', lines', inUse')
    BY <1>4, <2>1, LinesCaptured DEF ScreenInv, HistoryInv
  <2> QED BY <1>1, <1>2, <2>2, <2>3, <2>4 DEF ScreenInv, HistoryInv
<1> QED BY <1>3, <1>4

LEMMA PutCellKept ==
  ASSUME ScreenInv, NEW r \in 1 .. Rows(Active), NEW c \in 1 .. Active.cols,
         NEW ch \in Char, PutCell(r, c, ch)
  PROVE  /\ ScreenInv' /\ (HistoryInv => HistoryInv')
<1> DEFINE q == [Active EXCEPT !.cells[r][c] = ch]
<1>1. Store(q, {r}) /\ UNCHANGED <<hist, active, winsize, inUse, lines>>
  BY DEF PutCell
<1>2. Shape(Active)
  BY DEF Active, ScreenInv
<1>3. /\ Shape(q) /\ q.cols = Active.cols
      /\ Rows(q) = Rows(Active) /\ MaxCols(q) = MaxCols(Active)
      /\ \A k \in 1 .. Rows(Active) : k \notin {r} => q.cells[k] = Active.cells[k]
  BY <1>2, PutShape
<1> HIDE DEF q
<1> QED BY <1>1, <1>3, StoreKept

LEMMA ScrollKept ==
  ASSUME ScreenInv, NEW top \in 1 .. Rows(Active), NEW bottom \in 1 .. Rows(Active),
         ScrollUp(top, bottom) \/ ScrollDown(top, bottom)
  PROVE  /\ ScreenInv' /\ (HistoryInv => HistoryInv')
<1>1. Shape(Active)
  BY DEF Active, ScreenInv
<1>2. CASE ScrollUp(top, bottom)
  <2> DEFINE q == ShiftedUp(Active, top, bottom)
  <2>0. top <= bottom
    BY <1>2 DEF ScrollUp
  <2>1. /\ Shape(q) /\ q.cols = Active.cols
        /\ Rows(q) = Rows(Active) /\ MaxCols(q) = MaxCols(Active)
        /\ \A r \in 1 .. Rows(Active) :
             r \notin top .. bottom => q.cells[r] = Active.cells[r]
    BY <1>1, <2>0, ShiftShape
  <2>2. /\ Store(q, top .. bottom) /\ UNCHANGED <<active, winsize>>
        /\ \/ UNCHANGED <<hist, inUse, lines>>
           \/ active = "std" /\ Capture(std, 1, 1)
    BY <1>2, Zenon DEF ScrollUp
  <2> HIDE DEF q
  <2> QED BY <2>1, <2>2, StoreKept
<1>3. CASE ScrollDown(top, bottom)
  <2> DEFINE q == ShiftedDown(Active, top, bottom)
  <2>0. top <= bottom
    BY <1>3 DEF ScrollDown
  <2>1. /\ Shape(q) /\ q.cols = Active.cols
        /\ Rows(q) = Rows(Active) /\ MaxCols(q) = MaxCols(Active)
        /\ \A r \in 1 .. Rows(Active) :
             r \notin top .. bottom => q.cells[r] = Active.cells[r]
    BY <1>1, <2>0, ShiftShape
  <2>2. /\ Store(q, top .. bottom)
        /\ UNCHANGED <<active, winsize>>
        /\ \/ UNCHANGED <<hist, inUse, lines>>
           \/ active = "std" /\ Capture(std, 1, 1)
    BY <1>3 DEF ScrollDown
  <2> HIDE DEF q
  <2> QED BY <2>1, <2>2, StoreKept
<1> QED BY <1>2, <1>3

LEMMA ScreenResizeKept ==
  ASSUME ScreenInv, NEW size \in HostSizes, Resize(size[1], size[2])
  PROVE  /\ ScreenInv' /\ (HistoryInv => HistoryInv')
<1> DEFINE width == size[1]
           height == size[2]
<1>1. width \in Positive /\ height \in Positive
  BY ScreenAssumption
<1> HIDE DEF width, height
<1>2. Resize(width, height)
  BY DEF width, height
<1>3. ASSUME NEW b, Shape(b)
      PROVE  /\ Shape(Resized(b, width, height)) /\ Resized(b, width, height).cols = width
             /\ Rows(Resized(b, width, height)) = height
             /\ MaxCols(b) <= MaxCols(Resized(b, width, height))
             /\ \A r \in 1 .. height : r <= Rows(b) => \A c \in 1 .. MaxCols(b) :
                  Resized(b, width, height).cells[r][c] = b.cells[r][c]
  <2>1. MaxCols(b) \in Nat /\ width \in Nat
    BY <1>1, <1>3 DEF Shape, Positive
  <2>2. LET q == Resized(b, width, height) IN
           /\ Shape(q) /\ Rows(q) = height /\ q.cols = width
           /\ MaxCols(q) = IF width > MaxCols(b) THEN width ELSE MaxCols(b)
           /\ \A r \in 1 .. height : r <= Rows(b) =>
                \A c \in 1 .. MaxCols(b) : q.cells[r][c] = b.cells[r][c]
    BY <1>1, <1>3, ResizedShape
  <2> DEFINE q == Resized(b, width, height)
  <2>3. MaxCols(q) = IF width > MaxCols(b) THEN width ELSE MaxCols(b)
    BY <2>2, Zenon
  <2> HIDE DEF q
  <2>4. MaxCols(b) <= MaxCols(q)
    BY <2>1, <2>3
  <2> QED BY <2>2, <2>4, Zenon DEF q
<1>4. /\ Shape(hist') /\ Rows(hist') = Capacity
      /\ MaxCols(hist') = IF width > MaxCols(hist) THEN width ELSE MaxCols(hist)
      /\ LinesKept(hist, lines, inUse) => LinesKept(hist', lines', inUse')
  BY <1>1, <1>2, LinesWidened DEF ScreenInv, Resize
<1>5. /\ winsize' = <<width, height>> /\ active' = active /\ inUse' = inUse
      /\ winsize' \in Sizes /\ winsize'[1] = width
  BY <1>1, <1>2 DEF Resize, Sizes
<1>6. width \in Nat /\ MaxCols(hist) \in Nat /\ InitSize[1] \in Nat
      /\ std.cols \in Nat /\ winsize[1] \in Nat
  <2>1. InitSize[1] \in Nat
    BY ScreenAssumption DEF Positive
  <2>2. winsize[1] \in Nat
    BY DEF ScreenInv, Sizes, Positive
  <2>3. MaxCols(hist) \in Nat /\ std.cols \in Nat
    BY DEF ScreenInv, Shape, Positive
  <2> QED BY <1>1, <2>1, <2>2, <2>3 DEF Positive
<1>7. MaxCols(hist) <= MaxCols(hist') /\ width <= MaxCols(hist') /\ MaxCols(hist') \in Nat
  BY <1>4, <1>6
<1>8. CASE active = "std"
  <2> DEFINE q == Resized(std, width, height)
  <2>1. std' = q /\ seen' = StillSeen(std') /\ alt' = alt
    BY <1>2, <1>8 DEF Resize
  <2>2. Shape(q) /\ q.cols = width /\ Shown(q, StillSeen(q))
    <3>1. /\ Shape(q) /\ q.cols = width /\ Rows(q) = height /\ MaxCols(std) <= MaxCols(q)
          /\ \A r \in 1 .. height : r <= Rows(std) => \A c \in 1 .. MaxCols(std) :
               q.cells[r][c] = std.cells[r][c]
      BY <1>3 DEF ScreenInv
    <3> HIDE DEF q
    <3> QED BY <3>1, ShownStill DEF ScreenInv
  <2>3. Shape(std') /\ Shown(std', seen') /\ std'.cols = width
    BY <2>1, <2>2
  <2>4. ScreenInv'
    BY <1>4, <1>5, <1>8, <2>1, <2>3 DEF ScreenInv
  <2>5. HistoryInv => HistoryInv'
    BY <1>4, <1>5, <1>6, <1>7, <1>8, <2>3 DEF HistoryInv
  <2> QED BY <2>4, <2>5
<1>9. CASE active = "alt"
  <2>1. alt' = Resized(alt, width, height) /\ std' = std /\ seen' = seen
    BY <1>2, <1>9 DEF Resize
  <2>2. Shape(alt') /\ alt'.cols = width
    BY <1>3, <1>9, <2>1 DEF ScreenInv
  <2>3. ScreenInv'
    BY <1>4, <1>5, <1>9, <2>1, <2>2 DEF ScreenInv
  <2>4. HistoryInv => HistoryInv'
    BY <1>4, <1>5, <1>6, <1>7, <2>1, <2>2 DEF HistoryInv
  <2> QED BY <2>3, <2>4
<1> QED BY <1>8, <1>9 DEF ScreenInv

LEMMA EnterAltKept ==
  ASSUME ScreenInv, EnterAlt
  PROVE  /\ ScreenInv' /\ (HistoryInv => HistoryInv')
<1>1. Shape(Alloc(winsize)) /\ Alloc(winsize).cols = winsize[1]
  BY AllocShape DEF ScreenInv, Sizes
<1>2. /\ alt' = Alloc(winsize) /\ active' = "alt"
      /\ UNCHANGED <<std, hist, winsize, inUse, lines, seen>>
  BY DEF EnterAlt
<1> QED BY <1>1, <1>2 DEF ScreenInv, HistoryInv

LEMMA LeaveAltKept ==
  ASSUME ScreenInv, LeaveAlt
  PROVE  /\ ScreenInv' /\ (HistoryInv => HistoryInv')
<1>1. /\ active = "alt" /\ Shape(alt) /\ alt' = [cells |-> <<>>, cols |-> 0]
      /\ active' = "std" /\ winsize' = winsize /\ Capture(alt, 1, Rows(alt))
      /\ std' = (IF Size(std) = Size(alt) THEN std ELSE Realloc(std, alt.cols, Rows(alt)))
      /\ seen' = StillSeen(std')
  BY DEF LeaveAlt, ScreenInv
<1>2. /\ Rows(alt) \in Positive /\ MaxCols(alt) \in Positive /\ alt.cols \in Positive
      /\ 1 \in 1 .. Rows(alt) /\ Rows(alt) \in 1 .. Rows(alt) /\ MaxCols(std) \in Nat
  BY <1>1 DEF Shape, Positive, ScreenInv
<1>3. Shape(std') /\ std'.cols = alt.cols /\ Shown(std', StillSeen(std'))
  <2>1. CASE Size(std) = Size(alt)
    <3>1. std' = std /\ std.cols = alt.cols
      BY <1>1, <2>1 DEF Size
    <3>2. MaxCols(std) <= MaxCols(std)
      BY <1>2
    <3>3. Shown(std, StillSeen(std))
      BY <3>2, ShownStill DEF ScreenInv
    <3> QED BY <3>1, <3>3 DEF ScreenInv
  <2>2. CASE Size(std) # Size(alt)
    <3> DEFINE q == Realloc(std, alt.cols, Rows(alt))
    <3>1. /\ Shape(q) /\ q.cols = alt.cols /\ Rows(q) = Rows(alt)
          /\ MaxCols(q) = IF alt.cols > MaxCols(std) THEN alt.cols ELSE MaxCols(std)
          /\ \A r \in 1 .. Rows(alt) : r <= Rows(std) => \A c \in 1 .. MaxCols(std) :
               q.cells[r][c] = std.cells[r][c]
      <4>1. Shape(std)
        BY DEF ScreenInv
      <4> DEFINE w == alt.cols
                 h == Rows(alt)
      <4>2. w \in Positive /\ h \in Positive
        BY <1>2
      <4> HIDE DEF w, h
      <4>3. LET p == Realloc(std, w, h) IN
              /\ Shape(p) /\ Rows(p) = h /\ p.cols = w
              /\ MaxCols(p) = IF w > MaxCols(std) THEN w ELSE MaxCols(std)
              /\ \A r \in 1 .. h : r <= Rows(std) =>
                   \A c \in 1 .. MaxCols(std) : p.cells[r][c] = std.cells[r][c]
        BY <4>1, <4>2, ReallocShape
      <4> QED BY <4>3 DEF w, h
    <3>2. std' = q
      BY <1>1, <2>2
    <3> HIDE DEF q
    <3>3. MaxCols(std) <= MaxCols(q)
      BY <1>2, <3>1 DEF Positive
    <3>4. Shown(q, StillSeen(q))
      BY <3>1, <3>3, ShownStill DEF ScreenInv
    <3> QED BY <3>1, <3>2, <3>4
  <2> QED BY <2>1, <2>2
<1>4. Shape(hist') /\ Rows(hist') = Capacity /\ MaxCols(hist') = MaxCols(hist)
  BY <1>1, <1>2, CaptureShape DEF ScreenInv
<1>5. inUse' \in 0 .. Capacity
  BY <1>1, <1>2, ScreenAssumption DEF Capture, ScreenInv, Least, Positive
<1>6. HistoryInv => LinesKept(hist', lines', inUse')
  BY <1>1, <1>2, LinesCaptured DEF ScreenInv, HistoryInv
<1>7. ScreenInv'
  BY <1>1, <1>3, <1>4, <1>5 DEF ScreenInv
<1>8. HistoryInv => HistoryInv'
  BY <1>1, <1>3, <1>4, <1>6 DEF HistoryInv
<1> QED BY <1>7, <1>8

\* The child makes its terminal no wider than it was created.
ChildStaysNarrow == \A size \in ChildSizes : size[1] <= InitSize[1]

LEMMA ChildResizeKept ==
  ASSUME ScreenInv, NEW size \in ChildSizes, ChildResize(size[1], size[2])
  PROVE  /\ ScreenInv' /\ (HistoryInv /\ ChildStaysNarrow => HistoryInv')
<1>1. /\ winsize' = <<size[1], size[2]>> /\ winsize' \in Sizes /\ winsize'[1] = size[1]
      /\ UNCHANGED <<std, alt, hist, active, inUse, lines, seen>>
  BY ScreenAssumption DEF ChildResize, Sizes
<1>2. size[1] \in Nat /\ InitSize[1] \in Nat /\ MaxCols(hist) \in Nat
  BY ScreenAssumption DEF Positive, ScreenInv, Shape
<1>3. ScreenInv'
  BY <1>1 DEF ScreenInv
<1>4. HistoryInv /\ ChildStaysNarrow => winsize'[1] <= MaxCols(hist)
  BY <1>1, <1>2 DEF HistoryInv, ChildStaysNarrow
<1> QED BY <1>1, <1>3, <1>4 DEF HistoryInv

LEMMA ScreenKept ==
  ASSUME ScreenInv, [ScreenNext]_screenVars
  PROVE  ScreenInv' /\ (HistoryInv /\ ChildStaysNarrow => HistoryInv')
<1>1. CASE UNCHANGED screenVars
  BY <1>1 DEF screenVars, ScreenInv, HistoryInv
<1>2. CASE ScreenNext
  BY <1>2, PutCellKept, ScrollKept, ScreenResizeKept, EnterAltKept, LeaveAltKept,
     ChildResizeKept DEF ScreenNext
<1> QED BY <1>1, <1>2

\* A descriptor is one of the type invariant's.
LEMMA ShapeTypes ==
  ASSUME NEW b, Shape(b)
  PROVE  b \in Descriptor /\ \A r \in 1 .. Rows(b) : Len(b.cells[r]) = MaxCols(b)
<1>1. /\ b = [cells |-> b.cells, cols |-> b.cols]
      /\ b.cells \in Seq(Seq(Char \union {Space})) /\ b.cols \in Nat
  BY DEF Shape, Cell, Positive
<1>2. b \in Descriptor
  BY <1>1 DEF Descriptor
<1> QED BY <1>2 DEF Shape

\* Every variable keeps its type, and the rows of a buffer stay equally long,
\* whatever the sizes and whoever sets them.
THEOREM ScreenTyping == ScreenSpec => []ScreenTypeOK
<1>1. ScreenInit => ScreenInv
  BY ScreenInitInv
<1>2. ScreenInv /\ [ScreenNext]_screenVars => ScreenInv'
  BY ScreenKept
<1>3. ScreenInv => ScreenTypeOK
  <2> SUFFICES ASSUME ScreenInv PROVE ScreenTypeOK
    OBVIOUS
  <2>1. std \in Descriptor /\ hist \in Descriptor
    BY ShapeTypes DEF ScreenInv
  <2>2. alt \in Descriptor
    <3>1. [cells |-> <<>>, cols |-> 0] \in Descriptor
      BY DEF Descriptor
    <3> QED BY <3>1, ShapeTypes DEF ScreenInv
  <2>3. \A b \in {std, hist} : \A r \in 1 .. Rows(b) : Len(b.cells[r]) = MaxCols(b)
    BY ShapeTypes DEF ScreenInv
  <2> QED BY <2>1, <2>2, <2>3 DEF ScreenInv, ScreenTypeOK
<1> QED BY <1>1, <1>2, <1>3, PTL DEF ScreenSpec

\* What a resize hides of the standard screen comes back with the columns: for
\* every size, whoever sets it, and whatever the alternate screen is used for.
THEOREM TextIsKept == ScreenSpec => []TextComesBack
<1>1. ScreenInit => ScreenInv
  BY ScreenInitInv
<1>2. ScreenInv /\ [ScreenNext]_screenVars => ScreenInv'
  BY ScreenKept
<1>3. ScreenInv => TextComesBack
  <2> SUFFICES ASSUME ScreenInv, NEW r \in 1 .. Rows(std),
                      NEW c \in 1 .. Least(std.cols, Len(seen[r]))
               PROVE  std.cells[r][c] = seen[r][c]
    BY DEF TextComesBack
  <2>1. seen[r] \in Seq(Cell) /\ Len(seen[r]) \in Nat /\ std.cols \in Nat
    <3>1. seen[r] \in Seq(Cell)
      BY DEF ScreenInv, Shown
    <3>2. std.cols \in Nat
      BY DEF ScreenInv, Shape, Positive
    <3> QED BY <3>1, <3>2, LenProperties
  <2>2. c \in 1 .. Len(seen[r])
    BY <2>1 DEF Least
  <2> QED BY <2>2 DEF ScreenInv, Shown
<1> QED BY <1>1, <1>2, <1>3, PTL DEF ScreenSpec

\* A captured line is kept as wide as it was seen, for every history and every
\* size the host sets, if the child makes its terminal no wider than it was.
THEOREM CapturedLinesAreKept ==
  ASSUME ChildStaysNarrow PROVE ScreenSpec => []LinesAreKept
<1>1. ScreenInit => ScreenInv /\ HistoryInv
  BY ScreenInitInv
<1>2. ScreenInv /\ HistoryInv /\ [ScreenNext]_screenVars => ScreenInv' /\ HistoryInv'
  BY ScreenKept
<1>3. ScreenInv /\ HistoryInv => LinesAreKept
  <2> SUFFICES ASSUME ScreenInv, HistoryInv PROVE LinesAreKept
    OBVIOUS
  <2>1. /\ lines \in Seq(Seq(Cell)) /\ Len(lines) = inUse /\ inUse \in 0 .. Capacity
        /\ \A i \in 1 .. inUse :
             /\ Len(lines[i]) <= MaxCols(hist)
             /\ \A c \in 1 .. Len(lines[i]) :
                  hist.cells[Capacity - inUse + i][c] = lines[i][c]
    BY DEF HistoryInv, LinesKept
  <2>2. ASSUME NEW i \in 1 .. inUse
        PROVE  IsPrefix(lines[i], hist.cells[Capacity - inUse + i])
    <3> DEFINE s == lines[i]
               t == hist.cells[Capacity - inUse + i]
    <3>1. s \in Seq(Cell)
      BY <2>1, ElementOfSeq
    <3>2. t \in Seq(Cell) /\ Len(t) = MaxCols(hist)
      <4>1. Capacity - inUse + i \in 1 .. Rows(hist)
        BY <2>1, ScreenAssumption DEF ScreenInv, Positive
      <4> QED BY <4>1, ShapeRow DEF ScreenInv
    <3>3. Len(s) <= Len(t) /\ \A c \in 1 .. Len(s) : s[c] = t[c]
      BY <2>1, <3>2
    <3> HIDE DEF s, t
    <3>4. Len(s) \in Nat /\ \A c \in 1 .. Len(s) : s[c] \in Cell /\ t[c] \in Cell
      BY <3>1, <3>3, ElementOfSeq
    <3> DEFINE u == SubSeq(s, 1, Len(s))
               v == SubSeq(t, 1, Len(s))
    <3>5. /\ u \in Seq(Cell) /\ Len(u) = Len(s)
          /\ v \in Seq(Cell) /\ Len(v) = Len(s)
          /\ \A c \in 1 .. Len(s) : u[c] = s[c] /\ v[c] = t[c]
      BY <3>4, SubSeqProperties
    <3> HIDE DEF u, v
    <3>6. u = v
      BY <3>3, <3>5, SeqEqual
    <3> QED BY <3>3, <3>6 DEF IsPrefix, u, v, s, t
  <2> QED BY <2>1, <2>2 DEF LinesAreKept
<1> QED BY <1>1, <1>2, <1>3, PTL DEF ScreenSpec
=============================================================================
