--------------------------- MODULE RowMoveProofs ----------------------------
(* Theorems about RowMove, for every height and every count.               *)
EXTENDS RowMove, TLAPS

MoveInv == MoveTypeOK /\ LoopInv

\* Before a call every row is a row of the screen.
LEMMA InitMove == MoveInit => MoveInv
BY RowMoveAssumption DEF MoveInit, MoveInv, MoveTypeOK, LoopInv, AllRows, Verbs

\* Each handler enters its copy loop with its indices in place.
LEMMA StartKeeps ==
  ASSUME MoveInv, NEW t \in AllRows, NEW b \in AllRows, NEW k \in Counts,
         Start(t, b, k)
  PROVE  MoveInv'
<1>0. /\ loop = "idle" /\ top' = t /\ bot' = b /\ start' = grid /\ grid' = grid
      /\ Height \in Nat \ {0} /\ k \in Nat \ {0} /\ t \in Nat /\ b \in Nat
      /\ grid \in [AllRows -> RowText \union {BlankRow}]
  BY RowMoveAssumption DEF Start, MoveInv, MoveTypeOK, AllRows
<1>1. CASE StartSU(t, b, k)
  <2>1. verb' = "SU" /\ loop' = "up" /\ r' = t /\ t <= b
        /\ n' = (IF k > b - t + 1 THEN b - t + 1 ELSE k)
    BY <1>1 DEF StartSU, Clamped
  <2>2. n' \in Counts /\ n' \in Nat \ {0} /\ n' <= b - t + 1
    BY <1>0, <2>1, RowMoveAssumption
  <2> QED BY <1>0, <2>1, <2>2 DEF MoveInv, MoveTypeOK, LoopInv, UpSoFar,
                                  AllRows, Verbs
<1>2. CASE StartSD(t, b, k)
  <2>1. verb' = "SD" /\ loop' = "down" /\ r' = b /\ t <= b
        /\ n' = (IF k > b - t + 1 THEN b - t + 1 ELSE k)
    BY <1>2 DEF StartSD, Clamped
  <2>2. n' \in Counts /\ n' \in Nat \ {0} /\ n' <= b - t + 1
    BY <1>0, <2>1, RowMoveAssumption
  <2> QED BY <1>0, <2>1, <2>2 DEF MoveInv, MoveTypeOK, LoopInv, DownSoFar,
                                  AllRows, Verbs
<1>3. CASE StartIL(t, b, k)
  BY <1>0, <1>3 DEF StartIL, MoveInv, MoveTypeOK, LoopInv, DownSoFar, AllRows,
                    Verbs
<1>4. CASE StartDL(t, b, k)
  BY <1>0, <1>4 DEF StartDL, MoveInv, MoveTypeOK, LoopInv, UpSoFar, AllRows,
                    Verbs
<1> QED BY <1>1, <1>2, <1>3, <1>4 DEF Start

\* A copy towards the top reads a row that was not written yet.
LEMMA CopyUpKeeps == MoveInv /\ CopyUp => MoveInv'
<1> SUFFICES ASSUME MoveInv, CopyUp PROVE MoveInv'
  OBVIOUS
<1>1. /\ loop = "up" /\ r <= bot - n /\ r >= top /\ n \in Counts /\ n \in Nat \ {0}
      /\ top \in AllRows /\ bot \in AllRows /\ r \in Int /\ Height \in Nat \ {0}
      /\ verb \in {"SU", "DL"} /\ (verb = "SU" => top <= bot /\ n <= bot - top + 1)
      /\ \A i \in AllRows : grid[i] = UpSoFar(i)
      /\ grid \in [AllRows -> RowText \union {BlankRow}]
      /\ start \in [AllRows -> RowText \union {BlankRow}]
  BY RowMoveAssumption DEF MoveInv, MoveTypeOK, LoopInv, CopyUp
<1>2. /\ grid' = [grid EXCEPT ![r] = grid[r + n]] /\ r' = r + 1
      /\ UNCHANGED <<start, loop, verb, top, bot, n>>
  BY DEF CopyUp
<1>3. r \in AllRows /\ r + n \in AllRows /\ grid[r + n] = start[r + n]
  BY <1>1 DEF AllRows, UpSoFar
<1>4. \A i \in AllRows : grid'[i] = UpSoFar(i)'
  BY <1>1, <1>2, <1>3 DEF UpSoFar, AllRows
<1>5. grid' \in [AllRows -> RowText \union {BlankRow}]
  BY <1>1, <1>2, <1>3
<1> QED BY <1>1, <1>2, <1>4, <1>5 DEF MoveInv, MoveTypeOK, LoopInv, Verbs,
                                      AllRows

\* So does a copy towards the bottom, which runs from the other end.
LEMMA CopyDownKeeps == MoveInv /\ CopyDown => MoveInv'
<1> SUFFICES ASSUME MoveInv, CopyDown PROVE MoveInv'
  OBVIOUS
<1>1. /\ loop = "down" /\ r <= bot /\ r >= top + n /\ n \in Counts /\ n \in Nat \ {0}
      /\ top \in AllRows /\ bot \in AllRows /\ r \in Int /\ Height \in Nat \ {0}
      /\ verb \in {"SD", "IL"} /\ (verb = "SD" => top <= bot /\ n <= bot - top + 1)
      /\ \A i \in AllRows : grid[i] = DownSoFar(i)
      /\ grid \in [AllRows -> RowText \union {BlankRow}]
      /\ start \in [AllRows -> RowText \union {BlankRow}]
  BY RowMoveAssumption DEF MoveInv, MoveTypeOK, LoopInv, CopyDown
<1>2. /\ grid' = [grid EXCEPT ![r] = grid[r - n]] /\ r' = r - 1
      /\ UNCHANGED <<start, loop, verb, top, bot, n>>
  BY DEF CopyDown
<1>3. r \in AllRows /\ r - n \in AllRows /\ grid[r - n] = start[r - n]
  BY <1>1 DEF AllRows, DownSoFar
<1>4. \A i \in AllRows : grid'[i] = DownSoFar(i)'
  BY <1>1, <1>2, <1>3 DEF DownSoFar, AllRows
<1>5. grid' \in [AllRows -> RowText \union {BlankRow}]
  BY <1>1, <1>2, <1>3
<1> QED BY <1>1, <1>2, <1>4, <1>5 DEF MoveInv, MoveTypeOK, LoopInv, Verbs,
                                      AllRows

\* When the copies end, the rows to clear are those none was copied to.
LEMMA BeginClearKeeps == MoveInv /\ BeginClear => MoveInv'
<1> SUFFICES ASSUME MoveInv, BeginClear PROVE MoveInv'
  OBVIOUS
<1>0. /\ n \in Counts /\ n \in Nat \ {0} /\ top \in Nat /\ bot \in Nat /\ r \in Int
      /\ loop \in {"up", "down"} /\ AllRows \subseteq Nat
      /\ (verb \in {"SU", "SD"} => top <= bot /\ n <= bot - top + 1)
  BY RowMoveAssumption DEF MoveInv, MoveTypeOK, LoopInv, BeginClear, AllRows
<1>1. /\ loop' = "clear" /\ UNCHANGED <<grid, start, verb, top, bot, n>>
      /\ r' = CASE verb = "SU" -> bot - (n - 1) [] verb = "DL" -> r [] OTHER -> top
  BY DEF BeginClear
<1>2. CASE loop = "up"
  <2>1. /\ r > bot - n /\ r >= top /\ (r <= bot - n + 1 \/ r = top)
        /\ verb \in {"SU", "DL"} /\ \A i \in AllRows : grid[i] = UpSoFar(i)
    BY <1>2 DEF MoveInv, LoopInv, BeginClear
  <2>2. r' = r
    BY <1>0, <1>1, <2>1
  <2>3. \A i \in AllRows : grid[i] = ClearedSoFar(i, i + n <= bot, i + n)
    BY <1>0, <2>1 DEF UpSoFar, ClearedSoFar
  <2>4. \A i \in AllRows : grid'[i] = ClearedSoFar(i, i + n <= bot, i + n)'
    BY <1>1, <2>2, <2>3 DEF ClearedSoFar
  <2> QED BY <1>0, <1>1, <2>1, <2>2, <2>4 DEF MoveInv, MoveTypeOK, LoopInv
<1>3. CASE loop = "down"
  <2>1. /\ r < top + n /\ r <= bot /\ (r >= top + n - 1 \/ r = bot)
        /\ verb \in {"SD", "IL"} /\ \A i \in AllRows : grid[i] = DownSoFar(i)
    BY <1>3 DEF MoveInv, LoopInv, BeginClear
  <2>2. r' = top
    BY <1>1, <2>1
  <2>3. \A i \in AllRows : grid'[i] = ClearedSoFar(i, i - n >= top, i - n)'
    BY <1>0, <1>1, <2>1, <2>2 DEF DownSoFar, ClearedSoFar
  <2> QED BY <1>0, <1>1, <2>1, <2>2, <2>3 DEF MoveInv, MoveTypeOK, LoopInv
<1> QED BY <1>0, <1>2, <1>3

\* Clearing goes row by row through exactly these.
LEMMA ClearKeeps == MoveInv /\ Clear => MoveInv'
<1> SUFFICES ASSUME MoveInv, Clear PROVE MoveInv'
  OBVIOUS
<1>0. /\ n \in Counts /\ n \in Nat \ {0} /\ top \in AllRows /\ bot \in AllRows
      /\ AllRows \subseteq Nat /\ r \in Int /\ r >= top /\ r <= ClearLast
      /\ loop = "clear" /\ verb \in Verbs /\ Height \in Nat
      /\ (verb \in {"SU", "SD"} => top <= bot /\ n <= bot - top + 1)
      /\ grid \in [AllRows -> RowText \union {BlankRow}]
  BY RowMoveAssumption DEF MoveInv, MoveTypeOK, LoopInv, Clear, AllRows
<1>1. /\ grid' = [grid EXCEPT ![r] = BlankRow] /\ r' = r + 1
      /\ UNCHANGED <<start, loop, verb, top, bot, n>>
  BY DEF Clear
<1>2. r <= bot /\ r \in AllRows
  BY <1>0 DEF ClearLast, AllRows, Verbs
<1>3. CASE verb \in {"SU", "DL"}
  <2>1. r >= bot - n + 1 /\ \A i \in AllRows : grid[i] = ClearedSoFar(i, i + n <= bot, i + n)
    BY <1>0, <1>3 DEF MoveInv, LoopInv
  <2>2. ASSUME NEW i \in AllRows
        PROVE  grid'[i] = ClearedSoFar(i, i + n <= bot, i + n)'
    <3>1. grid[i] = ClearedSoFar(i, i + n <= bot, i + n) /\ i \in Nat
      BY <1>0, <2>1
    <3>2. CASE i = r
      BY <1>0, <1>1, <1>2, <2>1, <3>1, <3>2 DEF ClearedSoFar
    <3>3. CASE i # r
      BY <1>0, <1>1, <1>2, <3>1, <3>3 DEF ClearedSoFar
    <3> QED BY <3>2, <3>3
  <2> QED BY <1>0, <1>1, <1>2, <1>3, <2>1, <2>2 DEF MoveInv, MoveTypeOK, LoopInv
<1>4. CASE verb \in {"SD", "IL"}
  <2>1. r <= top + n - 1
    BY <1>0, <1>4 DEF ClearLast
  <2>2. \A i \in AllRows : grid[i] = ClearedSoFar(i, i - n >= top, i - n)
    BY <1>0, <1>4 DEF MoveInv, LoopInv
  <2>3. \A i \in AllRows : grid'[i] = ClearedSoFar(i, i - n >= top, i - n)'
    BY <1>0, <1>1, <1>2, <2>1, <2>2 DEF ClearedSoFar
  <2> QED BY <1>0, <1>1, <1>2, <1>4, <2>3 DEF MoveInv, MoveTypeOK, LoopInv
<1> QED BY <1>0, <1>3, <1>4 DEF Verbs

\* The loops stay within the buffer and their invariant holds throughout.
THEOREM MoveTyping == MoveSpec => []MoveInv
<1>1. ASSUME MoveInv, [MoveNext]_moveVars PROVE MoveInv'
  <2>1. CASE Return
    BY <1>1, <2>1 DEF Return, MoveInv, MoveTypeOK, LoopInv
  <2>2. CASE UNCHANGED moveVars
    BY <1>1, <2>2 DEF moveVars, MoveInv, MoveTypeOK, LoopInv, UpSoFar,
                      DownSoFar,
       ClearedSoFar
  <2> QED BY <1>1, <2>1, <2>2, StartKeeps, CopyUpKeeps, CopyDownKeeps,
             BeginClearKeeps, ClearKeeps DEF MoveNext
<1> QED BY <1>1, InitMove, PTL DEF MoveSpec

\* At every turn each row holds what the loop should have put there by then,
\* for every region and count: no loop reads a row it has overwritten.
THEOREM LoopsReadIntactRows == MoveSpec => []LoopInv
<1>1. MoveInv => LoopInv BY DEF MoveInv
<1> QED BY <1>1, MoveTyping, PTL

\* No loop touches memory outside the rows of the buffer, whatever the region,
\* the cursor row and the count.
THEOREM MoveInBounds == MoveSpec => []AccessInBounds
<1>1. MoveInv => AccessInBounds
  BY RowMoveAssumption DEF MoveInv, MoveTypeOK, LoopInv, AccessInBounds,
                           ClearLast,
     AllRows, Verbs
<1> QED BY <1>1, MoveTyping, PTL

-----------------------------------------------------------------------------
(* The row loops implement scrolling a region *)

\* When the clear loop ends, every row is where the region operation puts it.
LEMMA ReturnRefines ==
  ASSUME MoveInv, Return PROVE Whole!RegionNext
<1>0. /\ n \in Counts /\ n \in Nat \ {0} /\ top \in AllRows /\ bot \in AllRows
      /\ AllRows \subseteq Nat /\ r \in Int /\ r >= top /\ r > ClearLast
      /\ loop = "clear" /\ verb \in Verbs
      /\ (verb \in {"SU", "SD"} => top <= bot /\ n <= bot - top + 1)
      /\ grid \in [AllRows -> RowText \union {BlankRow}]
      /\ start \in [AllRows -> RowText \union {BlankRow}]
  BY RowMoveAssumption DEF MoveInv, MoveTypeOK, LoopInv, Return, AllRows
<1>1. loop' = "idle" /\ grid' = grid
  BY DEF Return
<1>2. CASE verb \in {"SU", "DL"}
  <2>1. r > bot /\ \A i \in AllRows : grid[i] = ClearedSoFar(i, i + n <= bot, i + n)
    BY <1>0, <1>2 DEF MoveInv, LoopInv, ClearLast
  <2>2. \A i \in AllRows : grid[i] = Whole!ShiftedUp(start, top, bot, n)[i]
    BY <1>0, <2>1 DEF ClearedSoFar, Whole!ShiftedUp
  <2>3. grid = Whole!ShiftedUp(start, top, bot, n)
    BY <1>0, <2>2 DEF Whole!ShiftedUp
  <2>4. Whole!ShiftUp(top, bot, n)
    BY <1>0, <1>1, <2>3 DEF Whole!ShiftUp
  <2> QED BY <1>0, <2>4 DEF Whole!RegionNext, AllRows
<1>3. CASE verb \in {"SD", "IL"}
  <2>1. /\ r > top + n - 1 \/ r > bot
        /\ \A i \in AllRows : grid[i] = ClearedSoFar(i, i - n >= top, i - n)
    BY <1>0, <1>3 DEF MoveInv, LoopInv, ClearLast
  <2>2. \A i \in AllRows : grid[i] = Whole!ShiftedDown(start, top, bot, n)[i]
    BY <1>0, <2>1 DEF ClearedSoFar, Whole!ShiftedDown
  <2>3. grid = Whole!ShiftedDown(start, top, bot, n)
    BY <1>0, <2>2 DEF Whole!ShiftedDown
  <2>4. Whole!ShiftDown(top, bot, n)
    BY <1>0, <1>1, <2>3 DEF Whole!ShiftDown
  <2> QED BY <1>0, <2>4 DEF Whole!RegionNext, AllRows
<1> QED BY <1>0, <1>2, <1>3 DEF Verbs

\* For every height, region and count the overlapping copies keep exactly the
\* lines that scrolling the region keeps.
THEOREM RowMoveImplementsRegion == MoveSpec => ImplementsRegion
<1>1. MoveInit => Whole!RegionInit
  BY DEF MoveInit, Whole!RegionInit, AllRows
<1>2. ASSUME MoveInv, [MoveNext]_moveVars
      PROVE  [Whole!RegionNext]_(IF loop = "idle" THEN grid ELSE start)
  <2>1. CASE Return
    BY <1>2, <2>1, ReturnRefines
  <2>2. ASSUME NEW t \in AllRows, NEW b \in AllRows, NEW k \in Counts, Start(t, b, k)
        PROVE  UNCHANGED (IF loop = "idle" THEN grid ELSE start)
    BY <2>2 DEF Start, StartSU, StartSD, StartIL, StartDL
  <2>3. CASE CopyUp \/ CopyDown \/ BeginClear \/ Clear
    BY <2>3 DEF CopyUp, CopyDown, BeginClear, Clear
  <2>4. CASE UNCHANGED moveVars
    BY <2>4 DEF moveVars
  <2> QED BY <1>2, <2>1, <2>2, <2>3, <2>4 DEF MoveNext
<1> QED BY <1>1, <1>2, MoveTyping, PTL DEF MoveSpec, ImplementsRegion,
                                           Whole!RegionSpec
=============================================================================
