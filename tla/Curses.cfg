SPECIFICATION CursesSpec
CONSTANTS
  Rows = 2
  Cols = 2
  Narrow <- Letter
  Wide <- NoGlyph
  Blank = " "
  Half = "half"
  WithChar <- OnlyChar
  Counts <- OnlyOne
  Term = {ta, tb}
  Cell = {near, far}
  FarCell = {far}
  Button <- MCButtons
  RefLimit = 1
INVARIANTS DirtyIsSound PaintIsComplete OneCursor
INVARIANTS CountsMatch MotionStopsWithTheLast MotionOncePerCell
PROPERTY HostKeepsItsMouse
CONSTRAINTS SettledFlip ScrollsAlone
SYMMETRY Symmetric
