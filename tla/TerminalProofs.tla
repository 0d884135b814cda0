---------------------------- MODULE TerminalProofs ---------------------------
(***************************************************************************)
(* Terminal holds its safety invariants for every screen size, every       *)
(* repertoire of sequences and every bound: types without any assumption,  *)
(* margins and flags when allocation succeeds, the agreement on the size   *)
(* when only the host resizes, and the cursor's row when nobody resizes.   *)
(* Each theorem names, as its ASSUME, the part of the environment without  *)
(* which the code breaks it; the README says by what behavior for each.    *)
(***************************************************************************)
EXTENDS Terminal, TLAPS

\* The rows a glyph may be stored in.
OnGrid(r) == r \in 0 .. rows[active] - 1

-----------------------------------------------------------------------------
(* Moving the cursor *)

\* A size is a pair of positive numbers.
LEMMA SizeParts ==
  ASSUME NEW s \in Size
  PROVE  /\ s[1] \in Nat /\ s[1] >= 1 /\ s[2] \in Nat /\ s[2] >= 1
         /\ s = <<s[1], s[2]>>
BY DEF Size

\* What the handlers read of the active buffer is a number.
LEMMA ActiveTypes ==
  ASSUME TypeOK
  PROVE  /\ active \in Buffer /\ Row \in Int /\ Col \in Int
         /\ Top \in Int /\ Bottom \in Int /\ Width \in Nat
         /\ rows[active] \in Nat
BY DEF TypeOK, Row, Col, Top, Bottom, Width

\* clamp_cursor_to_bounds returns a row or column, if there is one.
LEMMA ClampInRange ==
  ASSUME NEW v \in Int, NEW size \in Nat
  PROVE  /\ Clamp(v, size) \in Int
         /\ size >= 1 => Clamp(v, size) \in 0 .. size - 1
BY DEF Clamp

\* The remainder C takes of a column is a number, of a negative one too.
LEMMA RemType ==
  ASSUME NEW v \in Int
  PROVE  Rem(v, TabSize) \in Int
<1>1. TabSize \in Nat \ {0} BY TerminalAssumption
<1>2. CASE v >= 0 BY <1>1, <1>2 DEF Rem
<1>3. CASE ~(v >= 0)
  <2>1. (-v) % TabSize \in Int BY <1>1, <1>3
  <2> QED BY <2>1, <1>3 DEF Rem
<1> QED BY <1>2, <1>3

\* A line feed and a reverse index stay on the rows of the buffer.
LEMMA RowSteps ==
  ASSUME TypeOK, NEW r \in Int
  PROVE  /\ RowDown(r) \in Int /\ RowUp(r) \in Int
         /\ MarginsFit /\ OnGrid(r) => OnGrid(RowDown(r)) /\ OnGrid(RowUp(r))
<1>1. RowDown(r) \in Int /\ RowUp(r) \in Int
  BY ActiveTypes DEF RowDown, RowUp
<1>2. ASSUME MarginsFit, OnGrid(r) PROVE OnGrid(RowDown(r)) /\ OnGrid(RowUp(r))
  <2>1. 0 <= Top /\ Top <= Bottom /\ Bottom < rows[active]
    BY <1>2 DEF MarginsFit, Live, Top, Bottom
  <2> QED BY <2>1, <1>2, ActiveTypes DEF OnGrid, RowDown, RowUp
<1> QED BY <1>1, <1>2

\* What every character and every cursor sequence does: nothing, save the
\* cursor, or move it, and never off the rows of a buffer with sound margins.
LEMMA PlainSteps ==
  ASSUME TypeOK, Characters \/ Moves
  PROVE  \/ UNCHANGED vars
         \/ SaveCursor
         \/ \E r, c \in Int : /\ CursorTo(r, c)
                              /\ MarginsFit /\ RowOnGrid => OnGrid(r)
<1> DEFINE Goal == \/ UNCHANGED vars
                   \/ SaveCursor
                   \/ \E r, c \in Int :
                        /\ CursorTo(r, c)
                        /\ MarginsFit /\ RowOnGrid => OnGrid(r)
<1>1. /\ Row \in Int /\ Col \in Int /\ Width \in Nat /\ rows[active] \in Nat
      /\ Top \in Int /\ Bottom \in Int /\ active \in Buffer
  BY ActiveTypes
<1>2. RowOnGrid => OnGrid(Row) /\ OnGrid(saved_y[active])
  BY DEF RowOnGrid, OnGrid, Row, Live
<1>3. /\ RowDown(Row) \in Int /\ RowUp(Row) \in Int
      /\ MarginsFit /\ RowOnGrid => OnGrid(RowDown(Row)) /\ OnGrid(RowUp(Row))
  BY <1>1, <1>2, RowSteps
<1>4. ASSUME NEW w \in GlyphWidths, PutChar(w) PROVE Goal
  <2> DEFINE r1 == RowAfterWrap
             r2 == IF WrapsAgain(w) /\ ~Has("NO_WRAP") THEN RowDown(r1) ELSE r1
             c2 == (IF WrapsAgain(w) THEN 0 ELSE ColAfterWrap) + w
  <2>1. r1 \in Int /\ (MarginsFit /\ RowOnGrid => OnGrid(r1))
    BY <1>1, <1>2, <1>3 DEF RowAfterWrap
  <2>2. r2 \in Int /\ (MarginsFit /\ RowOnGrid => OnGrid(r2))
    <3> HIDE DEF r1
    <3> QED BY <2>1, RowSteps
  <2>3. c2 \in Int
    <3>1. w \in Int BY TerminalAssumption
    <3> QED BY <3>1, <1>1 DEF ColAfterWrap
  <2>4. CursorTo(r2, c2) BY <1>4 DEF PutChar
  <2> HIDE DEF r2, c2
  <2> QED BY <2>2, <2>3, <2>4
<1>5. ASSUME CarriageReturn PROVE Goal BY <1>5, <1>1, <1>2 DEF CarriageReturn
<1>6. ASSUME LineFeed PROVE Goal BY <1>6, <1>1, <1>3 DEF LineFeed
<1>7. ASSUME VerticalTab PROVE Goal
  <2> DEFINE c == IF Has("AUTOMATIC_LF") THEN 0 ELSE Col
  <2>1. c \in Int BY <1>1
  <2>2. CursorTo(RowDown(Row), c) BY <1>7 DEF VerticalTab
  <2> HIDE DEF c
  <2> QED BY <2>1, <2>2, <1>3
<1>8. ASSUME Backspace PROVE Goal
  <2>1. CASE Col > 0
    <3>1. CursorTo(Row, Col - 1) BY <2>1, <1>8 DEF Backspace
    <3>2. Col - 1 \in Int BY <1>1
    <3> QED BY <3>1, <3>2, <1>1, <1>2
  <2>2. CASE ~(Col > 0)
    <3> DEFINE first == IF Has("ORIGIN_MODE") THEN Top ELSE 0
    <3>1. CASE Row > first
      <4>1. CursorTo(Row - 1, Width - 1) BY <2>2, <3>1, <1>8 DEF Backspace
      <4>2. Row - 1 \in Int /\ Width - 1 \in Int BY <1>1
      <4>3. MarginsFit => first >= 0 BY DEF MarginsFit, Live, Top
      <4>4. MarginsFit /\ RowOnGrid => OnGrid(Row - 1)
        <5>1. first \in Int BY <1>1
        <5> HIDE DEF first
        <5> QED BY <4>3, <3>1, <1>1, <1>2, <5>1 DEF OnGrid
      <4> QED BY <4>1, <4>2, <4>4
    <3>2. CASE ~(Row > first)
      BY <2>2, <3>2, <1>8 DEF Backspace
    <3> QED BY <3>1, <3>2
  <2> QED BY <2>1, <2>2
<1>9. ASSUME Tab PROVE Goal
  <2> DEFINE c == Col + TabSize - Rem(Col, TabSize)
  <2>1. c \in Int BY <1>1, RemType, TerminalAssumption
  <2>2. Width - 1 \in Int BY <1>1
  <2>3. \/ CursorTo(RowDown(Row), 0)
        \/ CursorTo(Row, Width - 1)
        \/ CursorTo(Row, c)
    BY <1>9 DEF Tab
  <2> HIDE DEF c
  <2> QED BY <2>1, <2>2, <2>3, <1>1, <1>2, <1>3
<1>10. ASSUME NextLine PROVE Goal BY <1>10, <1>3 DEF NextLine
<1>11. ASSUME ReverseIndex PROVE Goal BY <1>11, <1>1, <1>3 DEF ReverseIndex
<1>12. ASSUME NEW dr \in Int, NEW dc \in Int, MoveBy(dr, dc) PROVE Goal
  <2> DEFINE r == Clamp(Row + dr, rows[active])
             c == Clamp(Col + dc, Width)
  <2>1. /\ r \in Int /\ c \in Int /\ (rows[active] >= 1 => OnGrid(r))
    <3>1. Row + dr \in Int /\ Col + dc \in Int BY <1>1
    <3> QED BY <3>1, <1>1, ClampInRange DEF OnGrid
  <2>2. RowOnGrid => rows[active] >= 1 BY <1>1, <1>2 DEF OnGrid
  <2>3. CursorTo(r, c) BY <1>12 DEF MoveBy
  <2> HIDE DEF r, c
  <2> QED BY <2>1, <2>2, <2>3
<1>13. ASSUME NEW dr \in Int, MoveLines(dr) PROVE Goal
  <2> DEFINE r == Clamp(Row + dr, rows[active])
  <2>1. r \in Int /\ (rows[active] >= 1 => OnGrid(r))
    <3>1. Row + dr \in Int BY <1>1
    <3> QED BY <3>1, <1>1, ClampInRange DEF OnGrid
  <2>2. RowOnGrid => rows[active] >= 1 BY <1>1, <1>2 DEF OnGrid
  <2>3. CursorTo(r, 0) BY <1>13 DEF MoveLines
  <2> HIDE DEF r
  <2> QED BY <2>1, <2>2, <2>3
<1>14. ASSUME NEW r0 \in Int, NEW c0 \in Int, MoveTo(r0, c0) PROVE Goal
  <2> DEFINE r == Clamp(r0, rows[active])
             c == Clamp(c0, Width)
  <2>1. /\ r \in Int /\ c \in Int /\ (rows[active] >= 1 => OnGrid(r))
    BY <1>1, ClampInRange DEF OnGrid
  <2>2. RowOnGrid => rows[active] >= 1 BY <1>1, <1>2 DEF OnGrid
  <2>3. CursorTo(r, c) BY <1>14 DEF MoveTo
  <2> HIDE DEF r, c
  <2> QED BY <2>1, <2>2, <2>3
<1>15. ASSUME NEW n \in TabCounts, BackTab(n) PROVE Goal
  <2> DEFINE stride == Rem(Col, TabSize)
             first == IF stride = 0 THEN TabSize ELSE stride
             more == IF n > 1 THEN n - 1 ELSE 0
             c == Col - first - more * TabSize
  <2>1. c \in Int
    <3>1. first \in Int BY <1>1, RemType, TerminalAssumption
    <3>2. more \in Int /\ TabSize \in Int BY TerminalAssumption
    <3> HIDE DEF first, more
    <3>3. more * TabSize \in Int BY <3>2
    <3> QED BY <3>1, <3>3, <1>1
  <2>2. CursorTo(Row, c) BY <1>15 DEF BackTab
  <2> HIDE DEF c
  <2> QED BY <2>1, <2>2, <1>1, <1>2
<1>16. ASSUME NEW n \in RepCounts, Repeat(n) PROVE Goal
  <2>1. Col + n \in Int BY <1>1, TerminalAssumption
  <2> QED BY <2>1, <1>16, <1>1, <1>2 DEF Repeat
<1>17. ASSUME RestoreCursor PROVE Goal
  <2>1. saved_y[active] \in Int /\ saved_x[active] \in Int BY DEF TypeOK
  <2> QED BY <2>1, <1>17, <1>2 DEF RestoreCursor
<1>18. ASSUME Characters PROVE Goal
  <2> HIDE DEF Goal
  <2> QED BY <1>18, <1>4, <1>5, <1>6, <1>7, <1>8, <1>9, <1>10, <1>11
        DEF Characters
<1>19. ASSUME Moves PROVE Goal
  <2> HIDE DEF Goal
  <2>1. ASSUME NEW n \in Counts,
               \/ MoveBy(n, 0) \/ MoveBy(-n, 0) \/ MoveBy(0, n)
               \/ MoveBy(0, -n) \/ MoveLines(n) \/ MoveLines(-n)
        PROVE  Goal
    <3>1. n \in Int /\ -n \in Int BY TerminalAssumption
    <3> QED BY <2>1, <3>1, <1>12, <1>13
  <2>2. ASSUME NEW r \in 0 .. rows[active] - 1, NEW c \in 0 .. Width - 1,
               MoveTo(r, c) \/ MoveToColumn(c) \/ MoveToRow(r)
        PROVE  Goal
    <3>1. r \in Int /\ c \in Int BY <1>1
    <3> QED BY <2>2, <3>1, <1>1, <1>14 DEF MoveToColumn, MoveToRow
  <2>3. SaveCursor => Goal BY DEF Goal
  <2> QED BY <1>19, <2>1, <2>2, <2>3, <1>15, <1>16, <1>17 DEF Moves
<1> QED BY <1>18, <1>19

-----------------------------------------------------------------------------
(* Types *)

\* TypeOK in the groups the actions change.
GeometryTypes ==
  /\ active \in Buffer
  /\ rows \in [Buffer -> Nat] /\ cols \in [Buffer -> Nat]
  /\ histCols \in Nat /\ winsize \in Size
RegionTypes ==
  /\ scroll_min \in [Buffer -> Int] /\ scroll_max \in [Buffer -> Int]
  /\ state \in [Buffer -> SUBSET Flag]
CursorTypes == crow \in [Buffer -> Int] /\ ccol \in [Buffer -> Int]
SavedTypes == saved_y \in [Buffer -> Int] /\ saved_x \in [Buffer -> Int]
PendingType == pending \in Pending \union {Idle}

\* The type invariant is the conjunction of its parts.
LEMMA TypeParts ==
  /\ TypeOK <=> /\ GeometryTypes /\ RegionTypes /\ CursorTypes
                /\ SavedTypes /\ PendingType
  /\ TypeOK' <=> /\ GeometryTypes' /\ RegionTypes' /\ CursorTypes'
                 /\ SavedTypes' /\ PendingType'
BY DEF TypeOK, GeometryTypes, RegionTypes, CursorTypes, SavedTypes, PendingType

\* A part keeps its types when its variables do not change.
LEMMA TypeStutters ==
  ASSUME TypeOK
  PROVE  /\ UNCHANGED geometry => GeometryTypes'
         /\ UNCHANGED <<margins, state>> => RegionTypes'
         /\ UNCHANGED cursor => CursorTypes'
         /\ UNCHANGED saved => SavedTypes'
         /\ UNCHANGED pending => PendingType'
<1>1. /\ GeometryTypes /\ RegionTypes /\ CursorTypes /\ SavedTypes /\ PendingType
  BY TypeParts
<1>2. UNCHANGED geometry => GeometryTypes'
  BY <1>1 DEF geometry, GeometryTypes
<1>3. UNCHANGED <<margins, state>> => RegionTypes'
  BY <1>1 DEF margins, RegionTypes
<1>4. UNCHANGED cursor => CursorTypes'
  BY <1>1 DEF cursor, CursorTypes
<1>5. UNCHANGED saved => SavedTypes'
  BY <1>1 DEF saved, SavedTypes
<1>6. UNCHANGED pending => PendingType'
  BY <1>1 DEF PendingType
<1> QED BY <1>2, <1>3, <1>4, <1>5, <1>6

\* Characters and cursor sequences leave sizes, margins and modes alone.
LEMMA PlainTypes ==
  ASSUME TypeOK, Characters \/ Moves
  PROVE  TypeOK' /\ UNCHANGED <<geometry, margins, state>>
<1>1. CASE UNCHANGED vars
  BY <1>1, TypeStutters, TypeParts DEF vars
<1>2. CASE SaveCursor
  <2>1. Row \in Int /\ Col \in Int BY ActiveTypes
  <2>2. SavedTypes' BY <2>1, <1>2 DEF SaveCursor, SavedTypes, TypeOK
  <2> QED BY <1>2, <2>2, TypeStutters, TypeParts DEF SaveCursor
<1>3. ASSUME NEW r \in Int, NEW c \in Int, CursorTo(r, c)
      PROVE  TypeOK' /\ UNCHANGED <<geometry, margins, state>>
  <2>1. CursorTypes' BY <1>3 DEF CursorTo, CursorTypes, TypeOK
  <2> QED BY <1>3, <2>1, TypeStutters, TypeParts DEF CursorTo
<1> QED BY <1>1, <1>2, <1>3, PlainSteps

\* A reallocation leaves margins and flags.
LEMMA ReallocTypes ==
  ASSUME NEW mins \in [Buffer -> Int], NEW flags \in [Buffer -> SUBSET Flag],
         NEW b \in Buffer, NEW h \in Nat
  PROVE  /\ ReallocTop(mins, b, h) \in [Buffer -> Int]
         /\ ReallocState(flags, mins, b, h) \in [Buffer -> SUBSET Flag]
BY DEF ReallocTop, ReallocState

\* Entering the alternate buffer keeps the types,
LEMMA EnterAltTypes ==
  ASSUME TypeOK, EnterAlt
  PROVE  GeometryTypes' /\ RegionTypes'
<1>1. CASE active = ALT
  BY <1>1, TypeStutters DEF EnterAlt
<1>2. CASE active # ALT
  <2>1. winsize[1] \in Nat /\ winsize[2] \in Nat
    BY SizeParts DEF TypeOK
  <2> QED BY <1>2, <2>1
        DEF EnterAlt, GeometryTypes, RegionTypes, TypeOK, ALT, Buffer
<1> QED BY <1>1, <1>2

\* ... and so does leaving it, from the margins a reset may have set.
LEMMA LeaveAltTypes ==
  ASSUME TypeOK, NEW mins \in [Buffer -> Int], NEW maxs \in [Buffer -> Int],
         NEW flags \in [Buffer -> SUBSET Flag], LeaveAlt(mins, maxs, flags)
  PROVE  GeometryTypes' /\ RegionTypes'
<1>1. CASE active = STD
  BY <1>1, TypeStutters DEF LeaveAlt, RegionTypes
<1>2. CASE active # STD
  <2> DEFINE h == rows[ALT]
             resized == rows[STD] # h \/ cols[STD] # cols[ALT]
             shown(f) == [f EXCEPT ![STD] = @ \ {"CURSOR_INVIS"}]
  <2>1. /\ STD \in Buffer /\ ALT \in Buffer /\ h \in Nat /\ cols[ALT] \in Nat
    BY DEF Buffer, TypeOK
  <2>2. \A f \in [Buffer -> SUBSET Flag] : shown(f) \in [Buffer -> SUBSET Flag]
    BY <2>1
  <2>3. active' = STD /\ UNCHANGED <<histCols, winsize>>
    BY <1>2 DEF LeaveAlt
  <2>4. PICK ok \in AllocOutcome :
          IF resized /\ ok
          THEN /\ rows' = [rows EXCEPT ![STD] = h]
               /\ cols' = [cols EXCEPT ![STD] = cols[ALT]]
               /\ scroll_max' = [maxs EXCEPT ![STD] = h - 1]
               /\ scroll_min' = ReallocTop(mins, STD, h)
               /\ state' = shown(ReallocState(flags, mins, STD, h))
          ELSE /\ scroll_min' = mins /\ scroll_max' = maxs
               /\ state' = shown(flags)
               /\ UNCHANGED <<rows, cols>>
    BY <1>2 DEF LeaveAlt
  <2> HIDE DEF shown
  <2>5. CASE resized /\ ok
    <3>1. /\ ReallocTop(mins, STD, h) \in [Buffer -> Int]
          /\ ReallocState(flags, mins, STD, h) \in [Buffer -> SUBSET Flag]
      BY <2>1, ReallocTypes
    <3>2. GeometryTypes'
      BY <2>1, <2>3, <2>4, <2>5 DEF GeometryTypes, TypeOK
    <3>3. RegionTypes'
      BY <2>1, <2>2, <2>4, <2>5, <3>1 DEF RegionTypes
    <3> QED BY <3>2, <3>3
  <2>6. CASE ~(resized /\ ok)
    BY <2>1, <2>2, <2>3, <2>4, <2>6 DEF GeometryTypes, RegionTypes, TypeOK
  <2> QED BY <2>5, <2>6
<1> QED BY <1>1, <1>2

\* A parameter is taken from the sequence that is being interpreted.
LEMMA ConsumeTypes ==
  ASSUME TypeOK, Consume
  PROVE  /\ PendingType' /\ pending \in Pending
         /\ pending.idx \in Buffer
<1>1. pending \in Pending BY DEF TypeOK, Consume, Idling
<1>2. CASE pending.left = 1 BY <1>1, <1>2 DEF Consume, PendingType, Pending
<1>3. CASE pending.left # 1
  <2>1. pending' = [pending EXCEPT !.left = @ - 1] BY <1>3 DEF Consume
  <2>2. pending.left - 1 \in 1 .. MaxParams
    BY <1>1, <1>3, TerminalAssumption DEF Pending
  <2>3. pending' \in Pending BY <1>1, <2>1, <2>2 DEF Pending
  <2> QED BY <1>1, <2>3 DEF PendingType, Pending
<1> QED BY <1>2, <1>3

\* Every parameter of a mode sequence keeps the types,
LEMMA ModeTypes ==
  ASSUME TypeOK, ModeParams
  PROVE  TypeOK'
<1>0. /\ active \in Buffer /\ STD \in Buffer /\ ALT \in Buffer
      /\ crow \in [Buffer -> Int] /\ ccol \in [Buffer -> Int]
      /\ saved_y \in [Buffer -> Int] /\ saved_x \in [Buffer -> Int]
      /\ scroll_min \in [Buffer -> Int] /\ scroll_max \in [Buffer -> Int]
      /\ state \in [Buffer -> SUBSET Flag]
      /\ Row \in Int /\ Col \in Int /\ Top \in Int
  BY ActiveTypes DEF TypeOK, Buffer
<1>1. ASSUME NEW verb \in {"set", "reset"}, NEW n \in 1 .. MaxParams,
             ModeSequence(verb, n)
      PROVE  TypeOK'
  <2>1. PendingType' BY <1>0, <1>1 DEF ModeSequence, PendingType, Pending
  <2> QED BY <1>1, <2>1, TypeStutters, TypeParts DEF ModeSequence
<1>2. CASE ModeColumn
  <2> DEFINE i == pending.idx
  <2>0. i \in Buffer BY <1>2, ConsumeTypes DEF ModeColumn
  <2>1. crow' = [crow EXCEPT ![i] = 0] /\ ccol' = [ccol EXCEPT ![i] = 0]
    BY <1>2 DEF ModeColumn
  <2> HIDE DEF i
  <2>2. CursorTypes' BY <1>0, <2>0, <2>1 DEF CursorTypes
  <2> QED BY <1>2, <2>2, ConsumeTypes, TypeStutters, TypeParts DEF ModeColumn
<1>3. ASSUME NEW f \in Flag, NEW on \in BOOLEAN, Consume
      PROVE  WithFlag(f, on) \in [Buffer -> SUBSET Flag]
  BY <1>0, <1>3 DEF WithFlag
<1>4. CASE ModeOrigin
  <2>1. state' \in [Buffer -> SUBSET Flag]
    BY <1>0, <1>3, <1>4 DEF ModeOrigin, Flag, Setting
  <2>2. UNCHANGED margins BY <1>4 DEF ModeOrigin
  <2>3. RegionTypes' BY <1>0, <2>1, <2>2 DEF RegionTypes, margins
  <2>4. CursorTypes'
    <3> DEFINE home == IF "ORIGIN_MODE" \in state'[active] THEN Top ELSE 0
    <3>1. home \in Int BY <1>0
    <3>2. /\ crow' = [crow EXCEPT ![active] = home]
          /\ ccol' = [ccol EXCEPT ![active] = 0]
      BY <1>4 DEF ModeOrigin
    <3> HIDE DEF home
    <3> QED BY <1>0, <3>1, <3>2 DEF CursorTypes
  <2> QED BY <1>4, <2>3, <2>4, ConsumeTypes, TypeStutters, TypeParts
        DEF ModeOrigin
<1>5. CASE ModeWrap
  <2>1. state' \in [Buffer -> SUBSET Flag]
    BY <1>0, <1>3, <1>5 DEF ModeWrap, Flag, Setting
  <2>2. RegionTypes' BY <1>0, <2>1, <1>5 DEF RegionTypes, ModeWrap, margins
  <2> QED BY <1>5, <2>2, ConsumeTypes, TypeStutters, TypeParts DEF ModeWrap
<1>6. CASE ModeLinefeed
  <2>1. state' \in [Buffer -> SUBSET Flag]
    <3>1. CASE Setting BY <1>0, <1>6, <3>1 DEF ModeLinefeed
    <3>2. CASE ~Setting BY <1>0, <1>3, <1>6, <3>2 DEF ModeLinefeed, Flag
    <3> QED BY <3>1, <3>2
  <2>2. RegionTypes' BY <1>0, <2>1, <1>6 DEF RegionTypes, ModeLinefeed, margins
  <2> QED BY <1>6, <2>2, ConsumeTypes, TypeStutters, TypeParts DEF ModeLinefeed
<1>7. CASE ModeCursor
  <2>1. state' \in [Buffer -> SUBSET Flag]
    BY <1>0, <1>3, <1>7 DEF ModeCursor, Flag, Setting
  <2>2. RegionTypes' BY <1>0, <2>1, <1>7 DEF RegionTypes, ModeCursor, margins
  <2> QED BY <1>7, <2>2, ConsumeTypes, TypeStutters, TypeParts DEF ModeCursor
<1>8. /\ UNCHANGED <<geometry, margins, state>> => GeometryTypes' /\ RegionTypes'
      /\ EnterAlt => GeometryTypes' /\ RegionTypes'
      /\ LeaveAlt(scroll_min, scroll_max, state) => GeometryTypes' /\ RegionTypes'
  BY <1>0, TypeStutters, EnterAltTypes, LeaveAltTypes
<1>9. CASE ModeAlt
  BY <1>8, <1>9, ConsumeTypes, TypeStutters, TypeParts DEF ModeAlt
<1>10. CASE ModeSaveAlt
  <2>1. SavedTypes' BY <1>0, <1>10 DEF ModeSaveAlt, SavedTypes
  <2> QED BY <1>8, <1>10, <2>1, ConsumeTypes, TypeStutters, TypeParts
        DEF ModeSaveAlt
<1>11. CASE ModeRestoreAlt
  <2>1. GeometryTypes' /\ RegionTypes' BY <1>8, <1>11 DEF ModeRestoreAlt
  <2>2. active' \in Buffer BY <2>1 DEF GeometryTypes
  <2>3. CursorTypes' BY <1>0, <1>11, <2>2 DEF ModeRestoreAlt, CursorTypes
  <2> QED BY <1>11, <2>1, <2>3, ConsumeTypes, TypeStutters, TypeParts
        DEF ModeRestoreAlt
<1>12. CASE ModeMeta
  <2>1. PendingType' BY <1>12 DEF ModeMeta, PendingType
  <2> QED BY <1>12, <2>1, TypeStutters, TypeParts DEF ModeMeta
<1> QED BY <1>1, <1>2, <1>4, <1>5, <1>6, <1>7, <1>9, <1>10, <1>11, <1>12
      DEF ModeParams

\* ... and so does every step of vtty_resize_full,
LEMMA ResizeTypes ==
  ASSUME TypeOK, NEW size \in HostSizes, Resize(size)
  PROVE  TypeOK'
<1>0. /\ size[1] \in Nat /\ size[2] \in Nat /\ size \in Size
      /\ active \in Buffer
      /\ rows \in [Buffer -> Nat] /\ cols \in [Buffer -> Nat]
      /\ crow \in [Buffer -> Int] /\ ccol \in [Buffer -> Int]
      /\ scroll_min \in [Buffer -> Int] /\ scroll_max \in [Buffer -> Int]
      /\ state \in [Buffer -> SUBSET Flag]
      /\ histCols \in Nat /\ winsize \in Size
  BY SizeParts, TerminalAssumption DEF TypeOK
<1>1. PICK ok \in AllocOutcome, okHist \in AllocOutcome :
        /\ histCols' = IF okHist THEN size[1] ELSE histCols
        /\ IF ok
           THEN /\ rows' = [rows EXCEPT ![active] = size[2]]
                /\ cols' = [cols EXCEPT ![active] = size[1]]
                /\ scroll_min' = ReallocTop(scroll_min, active, size[2])
                /\ scroll_max' = [scroll_max EXCEPT ![active] = size[2] - 1]
                /\ state' = ReallocState(state, scroll_min, active, size[2])
           ELSE /\ scroll_max' = IF Has("SCROLL_SHORT") THEN scroll_max
                                 ELSE [scroll_max EXCEPT ![active] = size[2] - 1]
                /\ UNCHANGED <<rows, cols, scroll_min, state>>
  BY DEF Resize
<1>2. active' = active /\ winsize' = (IF NoPty THEN winsize ELSE size)
  BY DEF Resize
<1>3. GeometryTypes'
  <2>1. histCols' \in Nat BY <1>0, <1>1
  <2>2. rows' \in [Buffer -> Nat] /\ cols' \in [Buffer -> Nat] BY <1>0, <1>1
  <2> QED BY <1>0, <1>2, <2>1, <2>2 DEF GeometryTypes
<1>4. RegionTypes'
  <2>1. CASE ok
    <3>1. /\ ReallocTop(scroll_min, active, size[2]) \in [Buffer -> Int]
          /\ ReallocState(state, scroll_min, active, size[2])
               \in [Buffer -> SUBSET Flag]
      BY <1>0, ReallocTypes
    <3> QED BY <1>0, <1>1, <2>1, <3>1 DEF RegionTypes
  <2>2. CASE ~ok BY <1>0, <1>1, <2>2 DEF RegionTypes
  <2> QED BY <2>1, <2>2
<1>5. CursorTypes'
  <2>1. /\ Clamp(crow[active], rows'[active]) \in Int
        /\ Clamp(ccol[active], cols'[active]) \in Int
    BY <1>0, <1>3, ClampInRange DEF GeometryTypes
  <2>2. /\ crow' = [crow EXCEPT ![active] = Clamp(crow[active], rows'[active])]
        /\ ccol' = [ccol EXCEPT ![active] = Clamp(ccol[active], cols'[active])]
    BY DEF Resize
  <2> QED BY <1>0, <2>1, <2>2 DEF CursorTypes
<1>6. UNCHANGED saved /\ UNCHANGED pending BY DEF Resize
<1> QED BY <1>3, <1>4, <1>5, <1>6, TypeStutters, TypeParts

\* ... the state both resets set,
LEMMA ResetTypes ==
  ASSUME TypeOK
  PROVE  /\ ResetMins \in [Buffer -> Int] /\ ResetMaxs \in [Buffer -> Int]
         /\ ResetState \in [Buffer -> SUBSET Flag]
         /\ [ResetState EXCEPT ![STD] = @ \ {"CURSOR_INVIS"}]
              \in [Buffer -> SUBSET Flag]
         /\ \A b \in Buffer : ResetCursor(b) => CursorTypes'
<1>1. rows[active] - 1 \in Int BY ActiveTypes
<1>2. ResetState \in [Buffer -> SUBSET Flag] BY DEF ResetState, TypeOK
<1>3. [ResetState EXCEPT ![STD] = @ \ {"CURSOR_INVIS"}]
        \in [Buffer -> SUBSET Flag]
  BY <1>2 DEF Buffer
<1>4. ResetMins \in [Buffer -> Int] BY DEF ResetMins, TypeOK
<1>5. ResetMaxs \in [Buffer -> Int] BY <1>1 DEF ResetMaxs, TypeOK
<1>6. \A b \in Buffer : ResetCursor(b) => CursorTypes'
  BY DEF ResetCursor, TypeOK, CursorTypes
<1> QED BY <1>2, <1>3, <1>4, <1>5, <1>6

\* ... and with them every operation that changes a size or a margin.
LEMMA SizesTypes ==
  ASSUME TypeOK, Sizes
  PROVE  TypeOK'
<1>1. ASSUME NEW t \in 0 .. rows[active] - 1, NEW b \in 0 .. rows[active] - 1,
             SetMargins(t, b)
      PROVE  TypeOK'
  <2>1. CASE t <= b
    <3>1. t \in Int /\ b \in Int BY ActiveTypes
    <3>2. scroll_min' \in [Buffer -> Int] /\ scroll_max' \in [Buffer -> Int]
      BY <1>1, <2>1, <3>1 DEF SetMargins, TypeOK
    <3>3. \A flags \in SUBSET Flag :
            ShortIf(flags, t, b, rows[active]) \in SUBSET Flag
      BY DEF ShortIf, Flag
    <3>4. state' \in [Buffer -> SUBSET Flag]
      BY <1>1, <2>1, <3>3 DEF SetMargins, TypeOK
    <3>5. RegionTypes' BY <3>2, <3>4 DEF RegionTypes
    <3> QED BY <1>1, <2>1, <3>5, TypeStutters, TypeParts DEF SetMargins
  <2>2. CASE ~(t <= b)
    BY <1>1, <2>2, TypeStutters, TypeParts DEF SetMargins, vars
  <2> QED BY <2>1, <2>2
<1>2. ASSUME NEW size \in ChildSizes, ChildResize(size) PROVE TypeOK'
  BY <1>2, TerminalAssumption, TypeStutters, TypeParts
     DEF ChildResize, GeometryTypes, RegionTypes, margins, TypeOK
<1>0. active \in Buffer /\ STD \in Buffer BY DEF TypeOK, Buffer
<1>3. CASE SoftReset
  <2>1. RegionTypes' BY <1>3, ResetTypes DEF SoftReset, RegionTypes
  <2> QED BY <1>0, <1>3, <2>1, ResetTypes, TypeStutters, TypeParts DEF SoftReset
<1>4. CASE HardReset
  <2>1. GeometryTypes' /\ RegionTypes'
    BY <1>4, ResetTypes, LeaveAltTypes DEF HardReset
  <2> QED BY <1>0, <1>4, <2>1, ResetTypes, TypeStutters, TypeParts DEF HardReset
<1> QED BY <1>1, <1>2, <1>3, <1>4, ResizeTypes DEF Sizes

\* vtty_init leaves every variable typed,
LEMMA InitTypes == Init => TypeOK
<1> SUFFICES ASSUME Init PROVE TypeOK
  OBVIOUS
<1>1. /\ InitSize[1] \in Nat /\ InitSize[2] \in Nat
      /\ InitSize \in Size /\ StdinSize \in Size
  BY SizeParts, TerminalAssumption
<1>2. PendingType /\ SavedTypes /\ CursorTypes
  BY DEF Init, PendingType, SavedTypes, CursorTypes, PerBuffer
<1>3. GeometryTypes
  BY <1>1 DEF Init, GeometryTypes, PerBuffer, Buffer
<1>4. RegionTypes
  BY <1>1 DEF Init, RegionTypes, PerBuffer
<1> QED BY <1>2, <1>3, <1>4, TypeParts

\* ... and every step keeps it so.
LEMMA NextTypes == TypeOK /\ [Next]_vars => TypeOK'
<1>1. TypeOK /\ UNCHANGED vars => TypeOK'
  BY TypeStutters, TypeParts DEF vars
<1> QED BY <1>1, PlainTypes, ModeTypes, SizesTypes DEF Next

\* Every variable keeps its type, whatever the sizes and the sequences and
\* whether or not an allocation fails.
THEOREM TerminalTyping == Spec => []TypeOK
<1> QED BY InitTypes, NextTypes, PTL DEF Spec

-----------------------------------------------------------------------------
(* Margins *)

\* Margins t, b of a buffer of h rows, with or without SCROLL_SHORT.  LNM
\* clears that flag (ModeLinefeed), so it is bound only where 20 is unused.
SoundAs(t, b, short, h) ==
  /\ 0 <= t /\ t <= b /\ b < h
  /\ 20 \notin Modes /\ ~short => t = 0 /\ b = h - 1

Sound(b) ==
  SoundAs(scroll_min[b], scroll_max[b], "SCROLL_SHORT" \in state[b], rows[b])

\* The inductive invariant behind MarginsFit and UnshortIsWhole: either alone
\* is not kept, for a resize drops a top margin on the strength of one and
\* moves a bottom margin on the strength of the other.
RegionInv == \A b \in Live : Sound(b)

\* The invariant says what the properties say.
LEMMA RegionInvMeans ==
  /\ RegionInv => MarginsFit
  /\ RegionInv /\ 20 \notin Modes => UnshortIsWhole
BY DEF RegionInv, Sound, SoundAs, MarginsFit, UnshortIsWhole

\* The standard and the active buffer always have cells.
LEMMA LiveBuffers ==
  ASSUME TypeOK
  PROVE  /\ active \in Buffer /\ STD \in Buffer /\ ALT \in Buffer /\ STD # ALT
         /\ STD \in Live /\ active \in Live
         /\ (active = STD \/ active = ALT)
BY DEF TypeOK, Buffer, Live, STD, ALT

\* What leaves sizes, margins and flags alone keeps the invariant.
LEMMA RegionStutters ==
  ASSUME TypeOK, RegionInv, UNCHANGED <<geometry, margins, state>>
  PROVE  RegionInv'
BY DEF RegionInv, Sound, Live, geometry, margins

\* A change of flags other than SCROLL_SHORT.
LEMMA RegionFlags ==
  ASSUME TypeOK, RegionInv, UNCHANGED <<geometry, margins>>,
         \A b \in Buffer :
           "SCROLL_SHORT" \in state'[b] <=> "SCROLL_SHORT" \in state[b]
  PROVE  RegionInv'
<1>1. UNCHANGED <<active, rows, scroll_min, scroll_max>>
  BY DEF geometry, margins
<1>2. Live' = Live BY <1>1 DEF Live
<1>3. ASSUME NEW b \in Live PROVE Sound(b)'
  <2>1. b \in Buffer BY LiveBuffers DEF Live
  <2>2. Sound(b) BY DEF RegionInv
  <2> QED BY <1>1, <2>1, <2>2 DEF Sound
<1> QED BY <1>2, <1>3 DEF RegionInv

\* A reallocation drops a region whose top is gone, and its flag with it.
LEMMA ReallocSound ==
  ASSUME NEW mins \in [Buffer -> Int], NEW maxs \in [Buffer -> Int],
         NEW flags \in [Buffer -> SUBSET Flag], NEW b \in Buffer,
         NEW h \in Nat, NEW h0 \in Nat, h >= 1,
         SoundAs(mins[b], maxs[b], "SCROLL_SHORT" \in flags[b], h0)
  PROVE  SoundAs(ReallocTop(mins, b, h)[b], h - 1,
                 "SCROLL_SHORT" \in ReallocState(flags, mins, b, h)[b], h)
<1>1. mins[b] \in Int /\ maxs[b] \in Int OBVIOUS
<1>2. CASE TopFits(mins[b], h)
  <2>1. ReallocTop(mins, b, h)[b] = mins[b] BY <1>2 DEF ReallocTop
  <2>2. ReallocState(flags, mins, b, h)[b] = flags[b]
    BY <1>2 DEF ReallocState
  <2> QED BY <1>1, <1>2, <2>1, <2>2 DEF SoundAs, TopFits
<1>3. CASE ~TopFits(mins[b], h)
  <2>1. ReallocTop(mins, b, h)[b] = 0 BY <1>3 DEF ReallocTop
  <2> QED BY <2>1 DEF SoundAs
<1> QED BY <1>2, <1>3

\* The alternate buffer is entered with margins that fit it, also again.
LEMMA EnterAltSound ==
  ASSUME TypeOK, RegionInv, EnterAlt
  PROVE  RegionInv'
<1>1. CASE active = ALT BY <1>1, RegionStutters DEF EnterAlt
<1>2. CASE active # ALT
  <2>1. winsize[2] \in Nat /\ winsize[2] >= 1 BY SizeParts DEF TypeOK
  <2>2. /\ active' = ALT
        /\ rows' = [rows EXCEPT ![ALT] = winsize[2]]
        /\ scroll_min' = [scroll_min EXCEPT ![ALT] = 0]
        /\ scroll_max' = [scroll_max EXCEPT ![ALT] = winsize[2] - 1]
        /\ state' = state
    BY <1>2 DEF EnterAlt
  <2>3. Sound(ALT)'
    <3>1. /\ scroll_min'[ALT] = 0 /\ scroll_max'[ALT] = winsize[2] - 1
          /\ rows'[ALT] = winsize[2]
      BY <2>2, LiveBuffers DEF TypeOK
    <3> QED BY <2>1, <3>1 DEF Sound, SoundAs
  <2>4. Sound(STD)'
    <3>1. Sound(STD) BY LiveBuffers DEF RegionInv
    <3>2. /\ scroll_min'[STD] = scroll_min[STD]
          /\ scroll_max'[STD] = scroll_max[STD] /\ rows'[STD] = rows[STD]
      BY <2>2, LiveBuffers DEF TypeOK
    <3> QED BY <2>2, <3>1, <3>2 DEF Sound
  <2>5. Live' = {STD, ALT} BY <2>2 DEF Live
  <2> QED BY <2>3, <2>4, <2>5 DEF RegionInv
<1> QED BY <1>1, <1>2

\* The standard buffer is brought to the size of the alternate one.
LEMMA LeaveAltSound ==
  ASSUME TypeOK, RegionInv, AllocMayFail = FALSE,
         NEW mins \in [Buffer -> Int], NEW maxs \in [Buffer -> Int],
         NEW flags \in [Buffer -> SUBSET Flag], LeaveAlt(mins, maxs, flags),
         SoundAs(mins[STD], maxs[STD], "SCROLL_SHORT" \in flags[STD], rows[STD])
  PROVE  RegionInv'
<1>0. active' = STD BY DEF LeaveAlt, geometry
<1>1. Live' = {STD} BY <1>0 DEF Live
<1>2. SUFFICES Sound(STD)' BY <1>1 DEF RegionInv
<1>3. CASE active = STD
  BY <1>3 DEF LeaveAlt, Sound, geometry
<1>4. CASE active # STD
  <2> DEFINE h == rows[ALT]
             shown(f) == [f EXCEPT ![STD] = @ \ {"CURSOR_INVIS"}]
  <2>1. /\ h \in Nat /\ h >= 1 /\ rows[STD] \in Nat
    <3>1. ALT \in Live BY <1>4, LiveBuffers
    <3>2. Sound(ALT) BY <3>1 DEF RegionInv
    <3> QED BY <3>2, LiveBuffers DEF Sound, SoundAs, TypeOK
  <2>2. \A f \in [Buffer -> SUBSET Flag] :
          "SCROLL_SHORT" \in shown(f)[STD] <=> "SCROLL_SHORT" \in f[STD]
    BY LiveBuffers
  <2>3. \/ /\ rows' = [rows EXCEPT ![STD] = h]
           /\ scroll_max' = [maxs EXCEPT ![STD] = h - 1]
           /\ scroll_min' = ReallocTop(mins, STD, h)
           /\ state' = shown(ReallocState(flags, mins, STD, h))
        \/ /\ scroll_min' = mins /\ scroll_max' = maxs /\ rows' = rows
           /\ state' = shown(flags)
    BY <1>4 DEF LeaveAlt
  <2> HIDE DEF h, shown
  <2>4. CASE /\ rows' = [rows EXCEPT ![STD] = h]
             /\ scroll_max' = [maxs EXCEPT ![STD] = h - 1]
             /\ scroll_min' = ReallocTop(mins, STD, h)
             /\ state' = shown(ReallocState(flags, mins, STD, h))
    <3>1. SoundAs(ReallocTop(mins, STD, h)[STD], h - 1,
                  "SCROLL_SHORT" \in ReallocState(flags, mins, STD, h)[STD], h)
      BY <2>1, ReallocSound, LiveBuffers
    <3>2. ReallocState(flags, mins, STD, h) \in [Buffer -> SUBSET Flag]
      BY <2>1, ReallocTypes, LiveBuffers
    <3>3. rows'[STD] = h /\ scroll_max'[STD] = h - 1
      BY <2>4, LiveBuffers DEF TypeOK
    <3>4. "SCROLL_SHORT" \in state'[STD]
            <=> "SCROLL_SHORT" \in ReallocState(flags, mins, STD, h)[STD]
      BY <2>2, <2>4, <3>2
    <3>5. scroll_min'[STD] = ReallocTop(mins, STD, h)[STD] BY <2>4
    <3> QED BY <3>1, <3>3, <3>4, <3>5 DEF Sound, SoundAs
  <2>5. CASE /\ scroll_min' = mins /\ scroll_max' = maxs /\ rows' = rows
             /\ state' = shown(flags)
    <3>1. "SCROLL_SHORT" \in state'[STD] <=> "SCROLL_SHORT" \in flags[STD]
      BY <2>2, <2>5
    <3> QED BY <2>5, <3>1 DEF Sound, SoundAs
  <2> QED BY <2>3, <2>4, <2>5
<1> QED BY <1>3, <1>4

\* vtty_resize_full moves the margins of the active buffer along.
LEMMA ResizeSound ==
  ASSUME TypeOK, RegionInv, AllocMayFail = FALSE,
         NEW size \in HostSizes, Resize(size)
  PROVE  RegionInv'
<1> DEFINE h == size[2]
<1>1. h \in Nat /\ h >= 1 BY SizeParts, TerminalAssumption
<1>2. /\ active' = active
      /\ rows' = [rows EXCEPT ![active] = h]
      /\ scroll_min' = ReallocTop(scroll_min, active, h)
      /\ scroll_max' = [scroll_max EXCEPT ![active] = h - 1]
      /\ state' = ReallocState(state, scroll_min, active, h)
  BY DEF Resize, AllocOutcome
<1> HIDE DEF h
<1>3. ASSUME NEW b \in Live PROVE Sound(b)'
  <2>0. b \in Buffer BY LiveBuffers DEF Live
  <2>1. Sound(b) BY DEF RegionInv
  <2>2. CASE b = active
    <3>1. SoundAs(ReallocTop(scroll_min, b, h)[b], h - 1,
                  "SCROLL_SHORT" \in ReallocState(state, scroll_min, b, h)[b], h)
      <4>1. rows[b] \in Nat BY <2>0 DEF TypeOK
      <4> QED BY <1>1, <2>0, <2>1, <4>1, ReallocSound DEF Sound, TypeOK
    <3>2. rows'[b] = h /\ scroll_max'[b] = h - 1
      BY <1>2, <2>0, <2>2 DEF TypeOK
    <3> QED BY <1>2, <2>2, <3>1, <3>2 DEF Sound
  <2>3. CASE b # active
    <3>1. /\ rows'[b] = rows[b] /\ scroll_max'[b] = scroll_max[b]
          /\ scroll_min'[b] = scroll_min[b] /\ state'[b] = state[b]
      BY <1>2, <2>0, <2>3 DEF TypeOK, ReallocTop, ReallocState
    <3> QED BY <2>1, <3>1 DEF Sound
  <2> QED BY <2>2, <2>3
<1>4. Live' = Live BY <1>2 DEF Live
<1> QED BY <1>3, <1>4 DEF RegionInv

\* DECSTBM refuses a region that is none.
LEMMA SetMarginsSound ==
  ASSUME TypeOK, RegionInv, NEW t \in 0 .. rows[active] - 1,
         NEW m \in 0 .. rows[active] - 1, SetMargins(t, m)
  PROVE  RegionInv'
<1>1. CASE ~(t <= m)
  BY <1>1, RegionStutters DEF SetMargins, vars
<1>2. CASE t <= m
  <2>1. /\ UNCHANGED <<active, rows>>
        /\ scroll_min' = [scroll_min EXCEPT ![active] = t]
        /\ scroll_max' = [scroll_max EXCEPT ![active] = m]
        /\ state' = [state EXCEPT ![active] =
                       ShortIf(state[active], t, m, rows[active])]
    BY <1>2 DEF SetMargins, geometry
  <2>2. Live' = Live BY <2>1 DEF Live
  <2>3. ASSUME NEW b \in Live PROVE Sound(b)'
    <3>0. b \in Buffer BY LiveBuffers DEF Live
    <3>1. Sound(b) BY DEF RegionInv
    <3>2. CASE b = active
      <4>1. /\ scroll_min'[b] = t /\ scroll_max'[b] = m /\ rows'[b] = rows[b]
            /\ state'[b] = ShortIf(state[b], t, m, rows[b])
        BY <2>1, <3>0, <3>2 DEF TypeOK
      <4>2. rows[b] \in Nat BY <3>0 DEF TypeOK
      <4> QED BY <1>2, <3>2, <4>1, <4>2 DEF Sound, SoundAs, ShortIf
    <3>3. CASE b # active
      <4>1. /\ rows'[b] = rows[b] /\ scroll_max'[b] = scroll_max[b]
            /\ scroll_min'[b] = scroll_min[b] /\ state'[b] = state[b]
        BY <2>1, <3>0, <3>3 DEF TypeOK
      <4> QED BY <3>1, <4>1 DEF Sound
    <3> QED BY <3>2, <3>3
  <2> QED BY <2>2, <2>3 DEF RegionInv
<1> QED BY <1>1, <1>2

\* Both resets leave the active buffer with margins around all of it.
LEMMA ResetSound ==
  ASSUME TypeOK, RegionInv, NEW b \in Live
  PROVE  /\ SoundAs(ResetMins[b], ResetMaxs[b],
                    "SCROLL_SHORT" \in ResetState[b], rows[b])
         /\ "SCROLL_SHORT" \in [ResetState EXCEPT ![STD] = @ \ {"CURSOR_INVIS"}][b]
              <=> "SCROLL_SHORT" \in ResetState[b]
<1>0. b \in Buffer /\ rows[b] \in Nat BY LiveBuffers DEF Live, TypeOK
<1>1. Sound(b) BY DEF RegionInv
<1>2. rows[b] >= 1
  BY <1>0, <1>1 DEF Sound, SoundAs, TypeOK
<1>3. CASE b = active
  <2>1. ResetMins[b] = 0 /\ ResetMaxs[b] = rows[b] - 1
    BY <1>0, <1>3 DEF ResetMins, ResetMaxs, TypeOK
  <2> QED BY <1>0, <1>2, <2>1, ResetTypes DEF SoundAs
<1>4. CASE b # active
  <2>1. /\ ResetMins[b] = scroll_min[b] /\ ResetMaxs[b] = scroll_max[b]
        /\ ResetState[b] = state[b]
    BY <1>0, <1>4 DEF ResetMins, ResetMaxs, ResetState, TypeOK
  <2> QED BY <1>0, <1>1, <2>1, ResetTypes DEF Sound
<1> QED BY <1>3, <1>4

\* So every operation on sizes and margins keeps the invariant,
LEMMA SizesSound ==
  ASSUME TypeOK, RegionInv, AllocMayFail = FALSE, Sizes
  PROVE  RegionInv'
<1>1. ASSUME NEW size \in ChildSizes, ChildResize(size) PROVE RegionInv'
  BY <1>1 DEF ChildResize, RegionInv, Sound, Live, margins
<1>2. CASE SoftReset
  <2>1. /\ scroll_min' = ResetMins /\ scroll_max' = ResetMaxs
        /\ state' = ResetState /\ rows' = rows /\ active' = active
    BY <1>2 DEF SoftReset, geometry
  <2>2. ASSUME NEW b \in Live PROVE Sound(b)'
    BY <2>1, ResetSound DEF Sound
  <2>3. Live' = Live BY <2>1 DEF Live
  <2> QED BY <2>2, <2>3 DEF RegionInv
<1>3. CASE HardReset
  <2> DEFINE flags == [ResetState EXCEPT ![STD] = @ \ {"CURSOR_INVIS"}]
  <2>1. LeaveAlt(ResetMins, ResetMaxs, flags) BY <1>3 DEF HardReset
  <2>2. flags \in [Buffer -> SUBSET Flag] BY ResetTypes
  <2>3. /\ SoundAs(ResetMins[STD], ResetMaxs[STD],
                   "SCROLL_SHORT" \in ResetState[STD], rows[STD])
        /\ "SCROLL_SHORT" \in flags[STD] <=> "SCROLL_SHORT" \in ResetState[STD]
    BY LiveBuffers, ResetSound
  <2>4. SoundAs(ResetMins[STD], ResetMaxs[STD],
                "SCROLL_SHORT" \in flags[STD], rows[STD])
    BY <2>3 DEF SoundAs
  <2> HIDE DEF flags
  <2> QED BY <2>1, <2>2, <2>4, ResetTypes, LeaveAltSound
<1> QED BY <1>1, <1>2, <1>3, ResizeSound, SetMarginsSound DEF Sizes

\* ... and so does every parameter of a mode sequence,
LEMMA ModesSound ==
  ASSUME TypeOK, RegionInv, AllocMayFail = FALSE, ModeParams
  PROVE  RegionInv'
<1>0. state \in [Buffer -> SUBSET Flag] BY DEF TypeOK
<1>1. CASE UNCHANGED <<geometry, margins, state>>
  BY <1>1, RegionStutters
<1>2. CASE ModeOrigin \/ ModeWrap \/ ModeCursor
  <2>1. UNCHANGED <<geometry, margins>>
    BY <1>2 DEF ModeOrigin, ModeWrap, ModeCursor
  <2>2. PICK f \in Flag \ {"SCROLL_SHORT"}, on \in BOOLEAN :
          state' = WithFlag(f, on)
    BY <1>2 DEF ModeOrigin, ModeWrap, ModeCursor, Flag, Setting
  <2>3. ASSUME NEW b \in Buffer
        PROVE  "SCROLL_SHORT" \in state'[b] <=> "SCROLL_SHORT" \in state[b]
    <3> DEFINE i == pending.idx
    <3>1. state' = [state EXCEPT ![i] = IF on THEN state[i] \union {f}
                                        ELSE state[i] \ {f}]
      BY <2>2 DEF WithFlag
    <3> HIDE DEF i
    <3>2. CASE i = b BY <1>0, <2>2, <3>1, <3>2
    <3>3. CASE i # b BY <1>0, <3>1, <3>3
    <3> QED BY <3>2, <3>3
  <2> QED BY <2>1, <2>3, RegionFlags
<1>3. CASE ModeLinefeed
  <2>1. 20 \in Modes /\ UNCHANGED <<geometry, margins>>
    BY <1>3 DEF ModeLinefeed
  <2> QED BY <2>1 DEF RegionInv, Sound, SoundAs, Live, geometry, margins
<1>4. SoundAs(scroll_min[STD], scroll_max[STD],
              "SCROLL_SHORT" \in state[STD], rows[STD])
  BY LiveBuffers DEF RegionInv, Sound
<1>5. LeaveAlt(scroll_min, scroll_max, state) => RegionInv'
  BY <1>4, LeaveAltSound DEF TypeOK
<1>6. CASE ModeAlt \/ ModeSaveAlt \/ ModeRestoreAlt
  BY <1>5, <1>6, RegionStutters, EnterAltSound
     DEF ModeAlt, ModeSaveAlt, ModeRestoreAlt
<1>7. CASE \/ \E verb \in {"set", "reset"}, n \in 1 .. MaxParams :
                ModeSequence(verb, n)
           \/ ModeColumn \/ ModeMeta
  BY <1>1, <1>7 DEF ModeSequence, ModeColumn, ModeMeta
<1> QED BY <1>2, <1>3, <1>6, <1>7 DEF ModeParams

\* ... and with them every step.
LEMMA RegionNext ==
  AllocMayFail = FALSE /\ TypeOK /\ RegionInv /\ [Next]_vars => RegionInv'
<1>1. TypeOK /\ RegionInv /\ UNCHANGED vars => RegionInv'
  BY RegionStutters DEF vars
<1>2. TypeOK /\ RegionInv /\ (Characters \/ Moves) => RegionInv'
  BY PlainTypes, RegionStutters
<1> QED BY <1>1, <1>2, ModesSound, SizesSound DEF Next

\* vtty_init leaves both buffers whole.
LEMMA RegionInit == Init => RegionInv
<1> SUFFICES ASSUME Init PROVE RegionInv
  OBVIOUS
<1>1. InitSize[2] \in Nat /\ InitSize[2] >= 1 BY SizeParts, TerminalAssumption
<1>2. Live = {STD} BY DEF Init, Live
<1>3. scroll_min[STD] = 0 /\ scroll_max[STD] = InitSize[2] - 1
      /\ rows[STD] = InitSize[2]
  BY DEF Init, PerBuffer, Buffer
<1> QED BY <1>1, <1>2, <1>3 DEF RegionInv, Sound, SoundAs

\* Every state has its types and sound margins.
LEMMA RegionAlways ==
  ASSUME AllocMayFail = FALSE
  PROVE  Spec => [](TypeOK /\ RegionInv)
<1>1. Init => TypeOK /\ RegionInv BY InitTypes, RegionInit
<1>2. (TypeOK /\ RegionInv) /\ [Next]_vars => (TypeOK /\ RegionInv)'
  BY NextTypes, RegionNext
<1> QED BY <1>1, <1>2, PTL DEF Spec

\* Unless an allocation fails, the margins of every buffer with cells are
\* rows of it, top above bottom, whoever resizes what and when.
THEOREM MarginsAlwaysFit ==
  ASSUME AllocMayFail = FALSE
  PROVE  Spec => []MarginsFit
<1>1. RegionInv => MarginsFit BY RegionInvMeans
<1> QED BY <1>1, RegionAlways, PTL

\* ... and where LNM is not used, a buffer without SCROLL_SHORT scrolls as a
\* whole.
THEOREM ShortFlagIsRight ==
  ASSUME AllocMayFail = FALSE, 20 \notin Modes
  PROVE  Spec => []UnshortIsWhole
<1>1. RegionInv => UnshortIsWhole BY RegionInvMeans
<1> QED BY <1>1, RegionAlways, PTL

-----------------------------------------------------------------------------
(* The size *)

\* The alternate buffer takes the size of the child's terminal,
LEMMA AgreementEnterAlt ==
  ASSUME TypeOK, GeometryAgreement, EnterAlt
  PROVE  GeometryAgreement' /\ UNCHANGED winsize
<1>1. CASE active = ALT
  BY <1>1 DEF EnterAlt, GeometryAgreement, geometry
<1>2. CASE active # ALT
  <2>1. /\ active' = ALT
        /\ cols' = [cols EXCEPT ![ALT] = winsize[1]]
        /\ rows' = [rows EXCEPT ![ALT] = winsize[2]]
        /\ UNCHANGED <<histCols, winsize>>
    BY <1>2 DEF EnterAlt
  <2>2. cols'[ALT] = winsize[1] /\ rows'[ALT] = winsize[2]
    BY <2>1, LiveBuffers DEF TypeOK
  <2>3. winsize = <<winsize[1], winsize[2]>> BY SizeParts DEF TypeOK
  <2>4. winsize \notin ChildSizes => histCols = winsize[1]
    BY DEF GeometryAgreement
  <2> QED BY <2>1, <2>2, <2>3, <2>4 DEF GeometryAgreement
<1> QED BY <1>1, <1>2

\* ... and hands it to the standard buffer.
LEMMA AgreementLeaveAlt ==
  ASSUME TypeOK, GeometryAgreement, AllocMayFail = FALSE,
         NEW mins, NEW maxs, NEW flags, LeaveAlt(mins, maxs, flags)
  PROVE  GeometryAgreement' /\ UNCHANGED winsize
<1>1. CASE active = STD
  BY <1>1 DEF LeaveAlt, GeometryAgreement, geometry
<1>2. CASE active # STD
  <2>0. active = ALT BY <1>2, LiveBuffers
  <2>1. /\ active' = STD /\ UNCHANGED <<histCols, winsize>>
    BY <1>2 DEF LeaveAlt
  <2>2. rows'[STD] = rows[ALT] /\ cols'[STD] = cols[ALT]
    <3>1. \/ /\ rows' = [rows EXCEPT ![STD] = rows[ALT]]
             /\ cols' = [cols EXCEPT ![STD] = cols[ALT]]
          \/ /\ rows[STD] = rows[ALT] /\ cols[STD] = cols[ALT]
             /\ rows' = rows /\ cols' = cols
      BY <1>2 DEF LeaveAlt, AllocOutcome
    <3> QED BY <3>1, LiveBuffers DEF TypeOK
  <2> QED BY <2>0, <2>1, <2>2 DEF GeometryAgreement
<1> QED BY <1>1, <1>2

\* Every step keeps the sizes equal; only the host and the child change them.
LEMMA AgreementNext ==
  /\ AllocMayFail = FALSE /\ NoPty = FALSE
  /\ TypeOK /\ GeometryAgreement /\ [Next]_vars
  => /\ GeometryAgreement'
     /\ HostSizes = {} /\ ChildSizes = {} => UNCHANGED winsize
<1> SUFFICES ASSUME AllocMayFail = FALSE, NoPty = FALSE,
                    TypeOK, GeometryAgreement, [Next]_vars
             PROVE  /\ GeometryAgreement'
                    /\ HostSizes = {} /\ ChildSizes = {} => UNCHANGED winsize
  OBVIOUS
<1>1. CASE UNCHANGED geometry
  BY <1>1 DEF GeometryAgreement, geometry
<1>2. CASE ModeAlt \/ ModeSaveAlt \/ ModeRestoreAlt
  BY <1>1, <1>2, AgreementEnterAlt, AgreementLeaveAlt
     DEF ModeAlt, ModeSaveAlt, ModeRestoreAlt
<1>3. ASSUME NEW size \in HostSizes, Resize(size) PROVE GeometryAgreement'
  <2>1. /\ active' = active /\ winsize' = size /\ histCols' = size[1]
        /\ rows' = [rows EXCEPT ![active] = size[2]]
        /\ cols' = [cols EXCEPT ![active] = size[1]]
    BY <1>3 DEF Resize, AllocOutcome
  <2>2. rows'[active] = size[2] /\ cols'[active] = size[1]
    BY <2>1 DEF TypeOK
  <2>3. size = <<size[1], size[2]>> BY SizeParts, TerminalAssumption
  <2> QED BY <2>1, <2>2, <2>3 DEF GeometryAgreement
<1>4. CASE HardReset
  BY <1>4, AgreementLeaveAlt DEF HardReset
<1>5. CASE Characters \/ Moves BY <1>1, <1>5, PlainTypes
<1>6. CASE SoftReset \/ \E t, b \in 0 .. rows[active] - 1 : SetMargins(t, b)
  BY <1>1, <1>6 DEF SoftReset, SetMargins, vars
<1>7. CASE \/ \E verb \in {"set", "reset"}, n \in 1 .. MaxParams :
                ModeSequence(verb, n)
           \/ ModeColumn \/ ModeOrigin \/ ModeWrap \/ ModeLinefeed
           \/ ModeCursor \/ ModeMeta
  BY <1>1, <1>7 DEF ModeSequence, ModeColumn, ModeOrigin, ModeWrap,
                    ModeLinefeed, ModeCursor, ModeMeta
<1>8. CASE UNCHANGED vars BY <1>1, <1>8 DEF vars
<1>9. ASSUME NEW size \in ChildSizes, ChildResize(size) PROVE GeometryAgreement'
  BY <1>9 DEF ChildResize, GeometryAgreement
<1> QED BY <1>2, <1>3, <1>4, <1>5, <1>6, <1>7, <1>8, <1>9
        DEF Next, ModeParams, Sizes

\* The kernel is told the size both buffers have.
LEMMA AgreementInit == NoPty = FALSE /\ Init => GeometryAgreement
<1>1. InitSize = <<InitSize[1], InitSize[2]>> BY SizeParts, TerminalAssumption
<1> QED BY <1>1 DEF Init, GeometryAgreement, PerBuffer, Buffer

\* If no allocation fails, the active buffer, the scrollback and the child's
\* terminal have one size unless the child's own request is the last, across
\* any interleaving of resizes of both and buffer switches.
THEOREM SizesAgree ==
  ASSUME AllocMayFail = FALSE, NoPty = FALSE
  PROVE  Spec => []GeometryAgreement
<1>1. Init => TypeOK /\ GeometryAgreement BY InitTypes, AgreementInit
<1>2. (TypeOK /\ GeometryAgreement) /\ [Next]_vars
        => (TypeOK /\ GeometryAgreement)'
  BY NextTypes, AgreementNext
<1> QED BY <1>1, <1>2, PTL DEF Spec

-----------------------------------------------------------------------------
(* The cursor's row, on a screen nobody resizes *)

Height == InitSize[2]

\* The rows of both buffers, the alternate one's included while it has no
\* cells: the next entry finds its old cursor.
GridInv ==
  /\ winsize = InitSize /\ rows[STD] = Height
  /\ crow \in [Buffer -> 0 .. Height - 1]
  /\ saved_y \in [Buffer -> 0 .. Height - 1]

FullInv ==
  TypeOK /\ RegionInv /\ GeometryAgreement /\ GridInv /\ winsize \notin ChildSizes

\* With one size for all, the invariant says what the properties say.
LEMMA GridMeans ==
  ASSUME FullInv
  PROVE  /\ Height \in Nat /\ Height >= 1
         /\ \A b \in Live : rows[b] = Height
         /\ RowOnGrid /\ MarginsFit
<1>1. Height \in Nat /\ Height >= 1
  BY SizeParts, TerminalAssumption DEF Height
<1>2. rows[active] = Height
  BY TerminalAssumption DEF FullInv, GeometryAgreement, GridInv, Height
<1>3. \A b \in Live : rows[b] = Height
  BY <1>2 DEF FullInv, GridInv, Live
<1>4. RowOnGrid
  <2>1. \A b \in Live : b \in Buffer BY LiveBuffers DEF Live, FullInv
  <2> QED BY <1>1, <1>3, <2>1 DEF RowOnGrid, FullInv, GridInv
<1> QED BY <1>1, <1>3, <1>4, RegionInvMeans DEF FullInv

\* The size of the standard buffer waits while the other one is active.
LEMMA HiddenSize ==
  ASSUME HostSizes = {}, TypeOK, [Next]_vars, active' # STD
  PROVE  rows'[STD] = rows[STD] /\ cols'[STD] = cols[STD]
<1> DEFINE Same == rows'[STD] = rows[STD] /\ cols'[STD] = cols[STD]
<1>1. UNCHANGED geometry => Same BY DEF geometry
<1>2. EnterAlt => Same
  BY <1>1, LiveBuffers DEF EnterAlt, TypeOK
<1>3. \A mins, maxs, flags : LeaveAlt(mins, maxs, flags) => active' = STD
  BY DEF LeaveAlt, geometry
<1>4. Characters \/ Moves => UNCHANGED geometry BY PlainTypes
<1> HIDE DEF Same
<1>5. ModeParams => Same
  BY <1>1, <1>2, <1>3
     DEF ModeParams, ModeSequence, ModeColumn, ModeOrigin, ModeWrap, ModeLinefeed,
         ModeCursor, ModeMeta, ModeAlt, ModeSaveAlt, ModeRestoreAlt
<1>6. Sizes => Same
  <2>1. \A size : ChildResize(size) => Same BY DEF ChildResize, Same
  <2> QED BY <1>1, <1>3, <2>1 DEF Sizes, SetMargins, SoftReset, HardReset, vars
<1> QED BY <1>1, <1>4, <1>5, <1>6 DEF Next, vars, Same

\* Every step keeps the rows of both cursors on the screen.
LEMMA GridNext ==
  ASSUME AllocMayFail = FALSE, ChildSizes = {}, HostSizes = {}, NoPty = FALSE,
         FullInv, [Next]_vars
  PROVE  GridInv'
<1> DEFINE Rows == 0 .. Height - 1
<1>0. /\ active \in Buffer /\ STD \in Buffer /\ Height \in Nat /\ Height >= 1
      /\ rows[STD] = Height /\ rows[active] = Height
      /\ crow \in [Buffer -> Rows] /\ saved_y \in [Buffer -> Rows]
      /\ TypeOK /\ RegionInv /\ GeometryAgreement /\ RowOnGrid /\ MarginsFit
  BY GridMeans, LiveBuffers DEF FullInv, GridInv
<1>1. winsize' = InitSize
  BY AgreementNext, <1>0 DEF FullInv, GridInv
<1>2. TypeOK' /\ GeometryAgreement' BY NextTypes, AgreementNext, <1>0
<1>3. rows'[STD] = Height
  <2>1. rows'[active'] = Height
    BY <1>1, <1>2, TerminalAssumption DEF GeometryAgreement, Height
  <2>2. active' # STD => rows'[STD] = rows[STD]
    BY <1>0, HiddenSize
  <2> QED BY <1>0, <2>1, <2>2
<1>4. crow' \in [Buffer -> Rows] /\ saved_y' \in [Buffer -> Rows]
  <2> HIDE DEF Rows
  <2>0. 0 \in Rows /\ Row \in Rows /\ saved_y[active] \in Rows
    BY <1>0 DEF Rows, Row
  <2>1. CASE UNCHANGED <<crow, saved_y>> BY <1>0, <2>1
  <2>2. CASE Characters \/ Moves
    <3>1. CASE SaveCursor
      <4>1. saved_y' = [saved_y EXCEPT ![active] = Row] /\ crow' = crow
        BY <3>1 DEF SaveCursor, cursor
      <4> QED BY <1>0, <2>0, <4>1
    <3>2. ASSUME NEW r \in Int, NEW c \in Int, CursorTo(r, c), OnGrid(r)
          PROVE  crow' \in [Buffer -> Rows] /\ saved_y' \in [Buffer -> Rows]
      <4>1. r \in Rows BY <1>0, <3>2 DEF OnGrid, Rows
      <4>2. crow' = [crow EXCEPT ![active] = r] /\ saved_y' = saved_y
        BY <3>2 DEF CursorTo, saved
      <4> QED BY <1>0, <4>1, <4>2
    <3>3. UNCHANGED vars => UNCHANGED <<crow, saved_y>>
      BY DEF vars, cursor, saved
    <3> QED BY <1>0, <2>1, <2>2, <3>1, <3>2, <3>3, PlainSteps
  <2>3. CASE ModeColumn
    <3> DEFINE i == pending.idx
    <3>1. crow' = [crow EXCEPT ![i] = 0] /\ saved_y' = saved_y
      BY <2>3 DEF ModeColumn, saved
    <3> HIDE DEF i
    <3> QED BY <1>0, <2>0, <3>1
  <2>4. CASE ModeOrigin
    <3> DEFINE home == IF "ORIGIN_MODE" \in state'[active] THEN Top ELSE 0
    <3>1. crow' = [crow EXCEPT ![active] = home] /\ saved_y' = saved_y
      BY <2>4 DEF ModeOrigin, saved
    <3>2. Top \in Rows
      <4>1. /\ 0 <= Top /\ Top <= Bottom /\ Bottom < rows[active]
            /\ Top \in Int /\ Bottom \in Int
        BY <1>0, ActiveTypes DEF MarginsFit, Live, Top, Bottom
      <4> QED BY <1>0, <4>1 DEF Rows
    <3>3. home \in Rows BY <2>0, <3>2
    <3> HIDE DEF home
    <3> QED BY <1>0, <3>1, <3>3
  <2>5. CASE ModeSaveAlt
    <3>1. saved_y' = [saved_y EXCEPT ![active] = Row] /\ crow' = crow
      BY <2>5 DEF ModeSaveAlt, cursor
    <3> QED BY <1>0, <2>0, <3>1
  <2>6. CASE ModeRestoreAlt
    <3>1. crow' = [crow EXCEPT ![active'] = saved_y[active']] /\ saved_y' = saved_y
      BY <2>6 DEF ModeRestoreAlt, saved
    <3>2. active' \in Buffer BY <1>2 DEF TypeOK
    <3> QED BY <1>0, <3>1, <3>2
  <2>7. CASE SoftReset \/ HardReset
    <3>1. /\ \E b \in Buffer : crow' = [crow EXCEPT ![b] = 0]
          /\ saved_y' = saved_y
      BY <1>0, <2>7 DEF SoftReset, HardReset, ResetCursor, saved
    <3> QED BY <1>0, <2>0, <3>1
  <2>8. CASE \/ \E verb \in {"set", "reset"}, n \in 1 .. MaxParams :
                  ModeSequence(verb, n)
             \/ ModeWrap \/ ModeLinefeed \/ ModeCursor \/ ModeMeta \/ ModeAlt
    BY <2>1, <2>8 DEF ModeSequence, ModeWrap, ModeLinefeed, ModeCursor,
                      ModeMeta, ModeAlt, cursor, saved
  <2>9. CASE \E t, b \in 0 .. rows[active] - 1 : SetMargins(t, b)
    BY <2>1, <2>9 DEF SetMargins, vars, cursor, saved
  <2>10. CASE UNCHANGED vars BY <2>1, <2>10 DEF vars, cursor, saved
  <2> QED BY <2>2, <2>3, <2>4, <2>5, <2>6, <2>7, <2>8, <2>9, <2>10
          DEF Next, ModeParams, Sizes
<1> QED BY <1>1, <1>3, <1>4 DEF GridInv

\* vtty_init puts both cursors in the corner.
LEMMA GridStart ==
  ASSUME NoPty = FALSE, ChildSizes = {}, Init
  PROVE  FullInv
<1>1. Height \in Nat /\ Height >= 1
  BY SizeParts, TerminalAssumption DEF Height
<1>2. GridInv
  BY <1>1 DEF Init, GridInv, PerBuffer, Height, Buffer
<1> QED BY <1>2, InitTypes, RegionInit, AgreementInit DEF FullInv

\* All parts of the invariant together are inductive.
LEMMA FullNext ==
  ASSUME AllocMayFail = FALSE, ChildSizes = {}, HostSizes = {}, NoPty = FALSE,
         FullInv, [Next]_vars
  PROVE  FullInv'
BY NextTypes, RegionNext, AgreementNext, GridNext DEF FullInv

\* On a screen nobody resizes, no sequence of characters, cursor and margin
\* sequences, saves, restores, buffer switches and resets takes the cursor or
\* the saved cursor of a buffer off its rows.
THEOREM CursorRowStays ==
  ASSUME AllocMayFail = FALSE, ChildSizes = {}, HostSizes = {}, NoPty = FALSE
  PROVE  Spec => []RowOnGrid
<1>1. Init => FullInv BY GridStart
<1>2. FullInv /\ [Next]_vars => FullInv' BY FullNext
<1>3. FullInv => RowOnGrid BY GridMeans
<1> QED BY <1>1, <1>2, <1>3, PTL DEF Spec

-----------------------------------------------------------------------------
(* The standard buffer behind the alternate one *)

\* A sequence of one parameter is interpreted on the buffer that is active.
OneParam == pending # Idle => pending.idx = active /\ pending.left = 1

Waits == UNCHANGED <<crow[STD], ccol[STD], saved_y[STD], saved_x[STD],
                     scroll_min[STD], scroll_max[STD], state[STD]>>

\* A sequence is read and interpreted before anything else can switch.
LEMMA OneParamNext ==
  ASSUME MaxParams <= 1, TypeOK, OneParam, [Next]_vars PROVE OneParam'
<1>1. ASSUME NEW verb \in {"set", "reset"}, NEW n \in 1 .. MaxParams,
             ModeSequence(verb, n)
      PROVE  OneParam'
  <2>1. n = 1 BY <1>1, TerminalAssumption
  <2>2. pending' = [verb |-> verb, idx |-> active, left |-> 1] /\ active' = active
    BY <1>1, <2>1 DEF ModeSequence, geometry
  <2> QED BY <2>2 DEF OneParam
<1>2. ASSUME Consume PROVE OneParam'
  BY <1>2 DEF Consume, Idling, OneParam
<1>3. ASSUME ModeMeta PROVE OneParam'
  BY <1>3 DEF ModeMeta, OneParam
<1>4. ASSUME Idling, pending' = pending PROVE OneParam'
  BY <1>4 DEF Idling, OneParam
<1>5. CASE UNCHANGED vars BY <1>5 DEF vars, geometry, OneParam
<1>6. CASE Characters \/ Moves
  <2>1. Idling
    BY <1>6 DEF Characters, Moves, PutChar, CarriageReturn, LineFeed, VerticalTab,
       Backspace, Tab, NextLine, ReverseIndex, MoveBy, MoveLines, MoveTo,
       MoveToColumn, MoveToRow, BackTab, Repeat, SaveCursor, RestoreCursor
  <2>2. pending' = pending
    BY <1>6, PlainSteps DEF vars, SaveCursor, CursorTo
  <2> QED BY <2>1, <2>2, <1>4
<1>7. CASE ModeParams
  BY <1>1, <1>2, <1>3, <1>7 DEF ModeParams, ModeColumn, ModeOrigin, ModeWrap,
     ModeLinefeed, ModeCursor, ModeAlt, ModeSaveAlt, ModeRestoreAlt
<1>8. CASE Sizes
  BY <1>4, <1>8 DEF Sizes, SetMargins, Resize, ChildResize, SoftReset, HardReset, vars
<1> QED BY <1>5, <1>6, <1>7, <1>8 DEF Next

\* While the alternate buffer is active every handler acts on that one.
LEMMA StandardWaits ==
  ASSUME TypeOK, OneParam, Next, active = ALT, active' = ALT PROVE Waits
<1>0. /\ STD # ALT /\ STD \in Buffer /\ ALT \in Buffer
      /\ \A f : \A v : STD \in DOMAIN f => [f EXCEPT ![ALT] = v][STD] = f[STD]
      /\ STD \in DOMAIN crow /\ STD \in DOMAIN ccol /\ STD \in DOMAIN saved_y
      /\ STD \in DOMAIN saved_x /\ STD \in DOMAIN scroll_min
      /\ STD \in DOMAIN scroll_max /\ STD \in DOMAIN state
  BY DEF STD, ALT, Buffer, TypeOK
<1>1. UNCHANGED <<cursor, saved, margins, state>> => Waits
  BY DEF cursor, saved, margins, Waits
<1>2. CASE UNCHANGED vars BY <1>1, <1>2 DEF vars
<1>3. ASSUME NEW r, NEW c, CursorTo(r, c) PROVE Waits
  BY <1>0, <1>3 DEF CursorTo, saved, margins, Waits
<1>4. CASE SaveCursor
  BY <1>0, <1>4 DEF SaveCursor, cursor, margins, Waits
<1>5. CASE Characters \/ Moves
  BY <1>2, <1>3, <1>4, <1>5, PlainSteps
<1>6. ASSUME NEW mins, NEW maxs, NEW flags PROVE ~LeaveAlt(mins, maxs, flags)
  BY <1>0, LiveBuffers DEF LeaveAlt
<1>7. CASE ModeParams
  <2>1. ASSUME ~Idling PROVE pending.idx = ALT
    BY <2>1 DEF OneParam, Idling
  <2>2. ASSUME NEW verb \in {"set", "reset"}, NEW n \in 1 .. MaxParams,
               ModeSequence(verb, n)
        PROVE  Waits
    BY <2>2, <1>1 DEF ModeSequence
  <2>3. CASE ModeColumn
    BY <1>0, <2>1, <2>3 DEF ModeColumn, Consume, saved, margins, Waits
  <2>4. CASE ModeOrigin \/ ModeWrap \/ ModeLinefeed \/ ModeCursor
    <3>1. \A f : ~Idling => WithFlag(f, FALSE)[STD] = state[STD]
      BY <1>0, <2>1 DEF WithFlag
    <3>2. ~Idling BY <2>4 DEF ModeOrigin, ModeWrap, ModeLinefeed, ModeCursor, Consume
    <3>3. state'[STD] = state[STD]
      <4>1. \A v : [state EXCEPT ![pending.idx] = v][STD] = state[STD]
        BY <1>0, <2>1, <3>2
      <4>2. CASE ModeLinefeed
        <5>1. CASE Setting BY <4>1, <4>2, <5>1 DEF ModeLinefeed
        <5>2. CASE ~Setting BY <3>1, <3>2, <4>2, <5>2 DEF ModeLinefeed
        <5> QED BY <5>1, <5>2
      <4>3. CASE ModeOrigin \/ ModeWrap \/ ModeCursor
        <5>1. PICK f : \/ state' = [state EXCEPT ![pending.idx] =
                              IF Setting THEN @ \union {f} ELSE @ \ {f}]
                     \/ state' = [state EXCEPT ![pending.idx] =
                              IF ~Setting THEN @ \union {f} ELSE @ \ {f}]
          BY <4>3 DEF ModeOrigin, ModeWrap, ModeCursor, WithFlag
        <5> QED BY <4>1, <5>1
      <4> QED BY <2>4, <4>2, <4>3
    <3>4. crow'[STD] = crow[STD] /\ ccol'[STD] = ccol[STD]
      BY <1>0, <2>4 DEF ModeOrigin, ModeWrap, ModeLinefeed, ModeCursor, cursor
    <3>5. UNCHANGED <<saved, margins>>
      BY <2>4 DEF ModeOrigin, ModeWrap, ModeLinefeed, ModeCursor
    <3> QED BY <3>3, <3>4, <3>5 DEF saved, margins, Waits
  <2>5. CASE ModeAlt
    BY <1>1, <1>6, <2>1, <2>5 DEF ModeAlt, Consume
  <2>6. CASE ModeSaveAlt
    <3>1. /\ UNCHANGED <<cursor, margins, state>>
          /\ saved_y' = [saved_y EXCEPT ![ALT] = Row]
          /\ saved_x' = [saved_x EXCEPT ![ALT] = Col]
      BY <2>1, <2>6 DEF ModeSaveAlt, Consume
    <3> QED BY <1>0, <3>1 DEF cursor, margins, Waits
  <2>7. CASE ModeRestoreAlt
    <3>1. FALSE \/ UNCHANGED <<geometry, margins, state>>
      BY <1>6, <2>1, <2>7 DEF ModeRestoreAlt, Consume
    <3>2. /\ UNCHANGED saved
          /\ crow' = [crow EXCEPT ![ALT] = saved_y[ALT]]
          /\ ccol' = [ccol EXCEPT ![ALT] = saved_x[ALT]]
      BY <2>7 DEF ModeRestoreAlt
    <3> QED BY <1>0, <3>1, <3>2 DEF saved, margins, Waits
  <2>8. CASE ModeMeta
    BY <2>8, <1>1 DEF ModeMeta
  <2> QED BY <1>7, <2>2, <2>3, <2>4, <2>5, <2>6, <2>7, <2>8 DEF ModeParams
<1>8. CASE Sizes
  <2>1. ASSUME NEW t \in Int, NEW b \in Int, SetMargins(t, b) PROVE Waits
    BY <1>0, <1>2, <2>1 DEF SetMargins, cursor, saved, Waits
  <2>2. ASSUME NEW size \in HostSizes, Resize(size) PROVE Waits
    <3>1. /\ crow'[STD] = crow[STD] /\ ccol'[STD] = ccol[STD] /\ UNCHANGED saved
      BY <1>0, <2>2 DEF Resize
    <3>2. /\ scroll_min'[STD] = scroll_min[STD] /\ scroll_max'[STD] = scroll_max[STD]
          /\ state'[STD] = state[STD]
      BY <1>0, <2>2 DEF Resize, ReallocTop, ReallocState
    <3> QED BY <3>1, <3>2 DEF saved, Waits
  <2>3. ASSUME NEW size \in ChildSizes, ChildResize(size) PROVE Waits
    BY <1>1, <2>3 DEF ChildResize
  <2>4. CASE SoftReset
    BY <1>0, <2>4 DEF SoftReset, ResetCursor, ResetMins, ResetMaxs, ResetState, saved,
       Waits
  <2>5. ~HardReset BY <1>6 DEF HardReset
  <2>6. \A t \in 0 .. rows[active] - 1 : t \in Int OBVIOUS
  <2> QED BY <1>8, <2>1, <2>2, <2>3, <2>4, <2>5, <2>6 DEF Sizes
<1> QED BY <1>5, <1>7, <1>8 DEF Next

\* Where every mode sequence carries one parameter, nothing that happens inside
\* the alternate buffer touches the standard one's cursor, saved cursor, margins
\* or flags: for every size, resize, reset, failed allocation and mode.
THEOREM StandardIsIsolated == ASSUME MaxParams <= 1 PROVE Spec => AltIsolation
<1>1. Init => OneParam BY DEF Init, OneParam
<1>2. TypeOK /\ OneParam /\ [Next]_vars => TypeOK' /\ OneParam'
  BY NextTypes, OneParamNext
<1>3. TypeOK /\ OneParam /\ [Next]_vars =>
        [active = ALT /\ active' = ALT => Waits]_vars
  BY StandardWaits
<1> QED BY <1>1, <1>2, <1>3, InitTypes, PTL DEF Spec, AltIsolation, Waits

-----------------------------------------------------------------------------
(* The cursor's column, on a screen nobody resizes *)

\* The columns a cursor may rest in, the pending wrap included.
InWidth(c) == c \in 0 .. Width

\* Every character and every move but CBT and REP keeps the column, on a screen
\* that has room for the characters.
LEMMA ColumnSteps ==
  ASSUME TypeOK, Characters \/ Moves, ColOnGrid, RepCounts = {}, TabCounts = {},
         Width >= 1, 2 \in GlyphWidths => Width >= 2
  PROVE  \/ UNCHANGED vars
         \/ SaveCursor
         \/ \E r, c \in Int : CursorTo(r, c) /\ InWidth(c)
<1> DEFINE Goal == \/ UNCHANGED vars
                   \/ SaveCursor
                   \/ \E r, c \in Int : CursorTo(r, c) /\ InWidth(c)
<1>1. /\ Row \in Int /\ Col \in Int /\ Width \in Nat /\ rows[active] \in Nat
      /\ active \in Buffer /\ TabSize \in Nat \ {0}
  BY ActiveTypes, TerminalAssumption
<1>2. /\ Col \in 0 .. Width /\ saved_x[active] \in 0 .. Width
      /\ InWidth(0) /\ InWidth(Col) /\ InWidth(Width - 1) /\ InWidth(saved_x[active])
  BY <1>1 DEF ColOnGrid, InWidth, Col, Live, Width
<1>3. ASSUME NEW r \in Int, NEW c \in Int, CursorTo(r, c), InWidth(c) PROVE Goal
  BY <1>3
<1>4. RowDown(Row) \in Int /\ RowUp(Row) \in Int
  BY <1>1, RowSteps
<1>5. ASSUME NEW v \in Int PROVE Clamp(v, Width) \in Int /\ InWidth(Clamp(v, Width))
  <2>1. Clamp(v, Width) \in Int /\ Clamp(v, Width) \in 0 .. Width - 1
    BY <1>1, ClampInRange
  <2> QED BY <1>1, <2>1 DEF InWidth
<1>6. ASSUME NEW w \in GlyphWidths, PutChar(w) PROVE Goal
  <2> DEFINE r1 == RowAfterWrap
             r2 == IF WrapsAgain(w) /\ ~Has("NO_WRAP") THEN RowDown(r1) ELSE r1
             c2 == (IF WrapsAgain(w) THEN 0 ELSE ColAfterWrap) + w
  <2>1. r1 \in Int
    BY <1>1, <1>4 DEF RowAfterWrap
  <2>2. r2 \in Int
    <3> HIDE DEF r1
    <3> QED BY <2>1, RowSteps
  <2>3. c2 \in Int /\ InWidth(c2)
    <3>1. w \in {1, 2} /\ (w = 2 => Width >= 2) BY TerminalAssumption
    <3>2. ColAfterWrap \in 0 .. Width - 1
      BY <1>1, <1>2 DEF ColAfterWrap, WrapsFirst
    <3> QED BY <1>1, <3>1, <3>2 DEF WrapsAgain, InWidth
  <2>4. CursorTo(r2, c2) BY <1>6 DEF PutChar
  <2> HIDE DEF r2, c2, Goal
  <2> QED BY <1>3, <2>2, <2>3, <2>4
<1>7. ASSUME CarriageReturn \/ LineFeed \/ VerticalTab \/ NextLine \/ ReverseIndex
      PROVE  Goal
  BY <1>1, <1>2, <1>3, <1>4, <1>7
     DEF CarriageReturn, LineFeed, VerticalTab, NextLine, ReverseIndex
<1>8. ASSUME Backspace PROVE Goal
  <2>1. Col > 0 => InWidth(Col - 1) /\ Col - 1 \in Int BY <1>1, <1>2 DEF InWidth
  <2>2. Row - 1 \in Int /\ Width - 1 \in Int BY <1>1
  <2> HIDE DEF Goal
  <2>3. UNCHANGED vars => Goal BY DEF Goal
  <2> QED BY <1>1, <1>2, <1>3, <1>8, <2>1, <2>2, <2>3 DEF Backspace
<1>9. ASSUME Tab PROVE Goal
  <2> DEFINE c == Col + TabSize - Rem(Col, TabSize)
  <2>1. ~(Width - Col < TabSize) => c \in Int /\ InWidth(c)
    <3>1. Rem(Col, TabSize) \in 0 .. TabSize - 1
      BY <1>1, <1>2 DEF Rem
    <3> QED BY <1>1, <1>2, <3>1 DEF InWidth
  <2>2. Width - 1 \in Int BY <1>1
  <2> HIDE DEF Goal, c
  <2>3. \/ CursorTo(RowDown(Row), 0)
        \/ CursorTo(Row, Width - 1)
        \/ ~(Width - Col < TabSize) /\ CursorTo(Row, c)
    BY <1>9 DEF Tab, c
  <2> QED BY <1>1, <1>2, <1>3, <1>4, <2>1, <2>2, <2>3
<1>10. ASSUME NEW dr \in Int, NEW dc \in Int, MoveBy(dr, dc) PROVE Goal
  <2>1. Row + dr \in Int /\ Col + dc \in Int BY <1>1
  <2>2. Clamp(Row + dr, rows[active]) \in Int BY <1>1, <2>1, ClampInRange
  <2> HIDE DEF Goal
  <2> QED BY <1>3, <1>5, <1>10, <2>1, <2>2 DEF MoveBy
<1>11. ASSUME NEW dr \in Int, MoveLines(dr) PROVE Goal
  <2>1. Row + dr \in Int BY <1>1
  <2>2. Clamp(Row + dr, rows[active]) \in Int BY <1>1, <2>1, ClampInRange
  <2> HIDE DEF Goal
  <2> QED BY <1>2, <1>3, <1>11, <2>2 DEF MoveLines
<1>12. ASSUME NEW r \in Int, NEW c \in Int, MoveTo(r, c) PROVE Goal
  <2>1. Clamp(r, rows[active]) \in Int BY <1>1, ClampInRange
  <2> HIDE DEF Goal
  <2> QED BY <1>3, <1>5, <1>12, <2>1 DEF MoveTo
<1>13. ASSUME RestoreCursor PROVE Goal
  <2>1. saved_y[active] \in Int /\ saved_x[active] \in Int BY DEF TypeOK
  <2> HIDE DEF Goal
  <2> QED BY <1>2, <1>3, <1>13, <2>1 DEF RestoreCursor
<1>14. ASSUME SaveCursor PROVE Goal BY <1>14
<1>15. ASSUME Characters PROVE Goal
  <2> HIDE DEF Goal
  <2>1. (\E w \in GlyphWidths : PutChar(w)) => Goal BY <1>6
  <2> QED BY <1>7, <1>8, <1>9, <1>15, <2>1 DEF Characters
<1>16. ASSUME Moves PROVE Goal
  <2> HIDE DEF Goal
  <2>1. ASSUME NEW n \in Counts,
               \/ MoveBy(n, 0) \/ MoveBy(-n, 0) \/ MoveBy(0, n)
               \/ MoveBy(0, -n) \/ MoveLines(n) \/ MoveLines(-n)
        PROVE  Goal
    <3>1. n \in Int /\ -n \in Int BY TerminalAssumption
    <3> QED BY <1>10, <1>11, <2>1, <3>1
  <2>2. ASSUME NEW r \in 0 .. rows[active] - 1, NEW c \in 0 .. Width - 1,
               MoveTo(r, c) \/ MoveToColumn(c) \/ MoveToRow(r)
        PROVE  Goal
    <3>1. r \in Int /\ c \in Int BY <1>1
    <3> QED BY <1>1, <1>12, <2>2, <3>1 DEF MoveToColumn, MoveToRow
  <2>3. SaveCursor => Goal BY <1>14
  <2>4. RestoreCursor => Goal BY <1>13
  <2> QED BY <1>16, <2>1, <2>2, <2>3, <2>4 DEF Moves
<1> QED BY <1>15, <1>16

\* The columns of both buffers, like GridInv for the rows.
Breadth == InitSize[1]
ColumnInv ==
  /\ cols[STD] = Breadth
  /\ ccol \in [Buffer -> 0 .. Breadth]
  /\ saved_x \in [Buffer -> 0 .. Breadth]

\* With one size for all, that is the property.
LEMMA ColumnMeans ==
  ASSUME FullInv, ColumnInv
  PROVE  /\ Breadth \in Nat /\ Breadth >= 1 /\ Width = Breadth
         /\ ColOnGrid
<1>1. Breadth \in Nat /\ Breadth >= 1
  BY SizeParts, TerminalAssumption DEF Breadth
<1>2. cols[active] = Breadth
  BY TerminalAssumption DEF FullInv, GeometryAgreement, GridInv, Breadth
<1>3. \A b \in Live : cols[b] = Breadth /\ b \in Buffer
  BY <1>2, LiveBuffers DEF FullInv, ColumnInv, Live
<1> QED BY <1>1, <1>2, <1>3 DEF ColOnGrid, ColumnInv, Width

\* Every step keeps the columns of both cursors on the screen.
LEMMA ColumnNext ==
  ASSUME AllocMayFail = FALSE, ChildSizes = {}, HostSizes = {}, NoPty = FALSE,
         RepCounts = {}, TabCounts = {}, 2 \in GlyphWidths => InitSize[1] >= 2,
         FullInv, FullInv', ColumnInv, [Next]_vars
  PROVE  ColumnInv'
<1> DEFINE Columns == 0 .. Breadth
<1>0. /\ active \in Buffer /\ STD \in Buffer /\ Breadth \in Nat /\ Breadth >= 1
      /\ cols[STD] = Breadth /\ Width = Breadth
      /\ ccol \in [Buffer -> Columns] /\ saved_x \in [Buffer -> Columns]
      /\ TypeOK /\ ColOnGrid
  BY ColumnMeans, LiveBuffers DEF FullInv, ColumnInv
<1>1. cols'[STD] = Breadth
  <2>1. cols'[active'] = Breadth
    BY TerminalAssumption DEF FullInv, GeometryAgreement, GridInv, Breadth
  <2>2. active' # STD => cols'[STD] = cols[STD]
    BY <1>0, HiddenSize
  <2> QED BY <1>0, <2>1, <2>2
<1>2. ccol' \in [Buffer -> Columns] /\ saved_x' \in [Buffer -> Columns]
  <2> HIDE DEF Columns
  <2>0. 0 \in Columns /\ Col \in Columns /\ saved_x[active] \in Columns
    BY <1>0 DEF Columns, Col
  <2>1. CASE UNCHANGED <<ccol, saved_x>> BY <1>0, <2>1
  <2>2. CASE Characters \/ Moves
    <3>1. CASE SaveCursor
      <4>1. saved_x' = [saved_x EXCEPT ![active] = Col] /\ ccol' = ccol
        BY <3>1 DEF SaveCursor, cursor
      <4> QED BY <1>0, <2>0, <4>1
    <3>2. ASSUME NEW r \in Int, NEW c \in Int, CursorTo(r, c), InWidth(c)
          PROVE  ccol' \in [Buffer -> Columns] /\ saved_x' \in [Buffer -> Columns]
      <4>1. c \in Columns BY <1>0, <3>2 DEF InWidth, Columns
      <4>2. ccol' = [ccol EXCEPT ![active] = c] /\ saved_x' = saved_x
        BY <3>2 DEF CursorTo, saved
      <4> QED BY <1>0, <4>1, <4>2
    <3>3. UNCHANGED vars => UNCHANGED <<ccol, saved_x>>
      BY DEF vars, cursor, saved
    <3>4. Width >= 1 /\ (2 \in GlyphWidths => Width >= 2)
      BY <1>0 DEF Breadth
    <3> QED BY <1>0, <2>1, <2>2, <3>1, <3>2, <3>3, <3>4, ColumnSteps
  <2>3. CASE ModeColumn
    <3> DEFINE i == pending.idx
    <3>1. ccol' = [ccol EXCEPT ![i] = 0] /\ saved_x' = saved_x
      BY <2>3 DEF ModeColumn, saved
    <3> HIDE DEF i
    <3> QED BY <1>0, <2>0, <3>1
  <2>4. CASE ModeOrigin
    <3>1. ccol' = [ccol EXCEPT ![active] = 0] /\ saved_x' = saved_x
      BY <2>4 DEF ModeOrigin, saved
    <3> QED BY <1>0, <2>0, <3>1
  <2>5. CASE ModeSaveAlt
    <3>1. saved_x' = [saved_x EXCEPT ![active] = Col] /\ ccol' = ccol
      BY <2>5 DEF ModeSaveAlt, cursor
    <3> QED BY <1>0, <2>0, <3>1
  <2>6. CASE ModeRestoreAlt
    <3>1. ccol' = [ccol EXCEPT ![active'] = saved_x[active']] /\ saved_x' = saved_x
      BY <2>6 DEF ModeRestoreAlt, saved
    <3>2. active' \in Buffer BY DEF FullInv, TypeOK
    <3> QED BY <1>0, <3>1, <3>2
  <2>7. CASE SoftReset \/ HardReset
    <3>1. /\ \E b \in Buffer : ccol' = [ccol EXCEPT ![b] = 0]
          /\ saved_x' = saved_x
      BY <1>0, <2>7 DEF SoftReset, HardReset, ResetCursor, saved
    <3> QED BY <1>0, <2>0, <3>1
  <2>8. CASE \/ \E verb \in {"set", "reset"}, n \in 1 .. MaxParams :
                  ModeSequence(verb, n)
             \/ ModeWrap \/ ModeLinefeed \/ ModeCursor \/ ModeMeta \/ ModeAlt
    BY <2>1, <2>8 DEF ModeSequence, ModeWrap, ModeLinefeed, ModeCursor,
                      ModeMeta, ModeAlt, cursor, saved
  <2>9. CASE \E t, b \in 0 .. rows[active] - 1 : SetMargins(t, b)
    BY <2>1, <2>9 DEF SetMargins, vars, cursor, saved
  <2>10. CASE UNCHANGED vars BY <2>1, <2>10 DEF vars, cursor, saved
  <2> QED BY <2>2, <2>3, <2>4, <2>5, <2>6, <2>7, <2>8, <2>9, <2>10
          DEF Next, ModeParams, Sizes
<1> QED BY <1>1, <1>2 DEF ColumnInv

\* On a screen nobody resizes, with room for the characters, every sequence of
\* characters, moves, saves, restores, buffer switches and resets that has no
\* CBT and no REP leaves the cursor in a column or just past the last one.
THEOREM CursorColumnStays ==
  ASSUME AllocMayFail = FALSE, ChildSizes = {}, HostSizes = {}, NoPty = FALSE,
         RepCounts = {}, TabCounts = {}, 2 \in GlyphWidths => InitSize[1] >= 2
  PROVE  Spec => []ColOnGrid
<1>1. Init => FullInv /\ ColumnInv
  <2> SUFFICES ASSUME Init PROVE FullInv /\ ColumnInv
    OBVIOUS
  <2>1. FullInv BY GridStart
  <2>2. Breadth \in Nat /\ Breadth >= 1
    BY SizeParts, TerminalAssumption DEF Breadth
  <2>3. ColumnInv
    BY <2>2 DEF Init, ColumnInv, PerBuffer, Breadth, Buffer
  <2> QED BY <2>1, <2>3
<1>2. FullInv /\ ColumnInv /\ [Next]_vars => FullInv' /\ ColumnInv'
  BY FullNext, ColumnNext
<1>3. FullInv /\ ColumnInv => ColOnGrid BY ColumnMeans
<1> QED BY <1>1, <1>2, <1>3, PTL DEF Spec
=============================================================================
