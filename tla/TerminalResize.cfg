SPECIFICATION GeometrySpec
CONSTANTS
  InitSize <- Column
  HostSizes <- ThreeSizes
  ChildSizes <- Tall
  Counts <- Empty
  RepCounts <- ZeroTwo
  TabCounts <- ZeroTwo
  GlyphWidths <- Empty
  Modes = {7, 25, 47, 1034}
  MaxParams = 2
  Overshoot = 1
  TabSize = 2
  NoPty = FALSE
  Rxvt = TRUE
  StdinSize <- Small
  AllocMayFail = FALSE
INVARIANT GeometryAgreement
INVARIANT UnshortIsWhole
INVARIANT MarginsFit
