SPECIFICATION Spec
CONSTANTS
  InitSize <- Small
  HostSizes <- Empty
  ChildSizes <- Empty
  Counts <- One
  RepCounts <- Empty
  TabCounts <- Empty
  GlyphWidths <- OneTwo
  Modes = {3, 6, 20, 47, 1049}
  MaxParams = 1
  Overshoot = 0
  TabSize = 8
  NoPty = FALSE
  Rxvt = FALSE
  StdinSize <- Small
  AllocMayFail = FALSE
INVARIANT RowOnGrid
INVARIANT ColOnGrid
PROPERTY AltIsolation
