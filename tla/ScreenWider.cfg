SPECIFICATION ScreenSpec
CONSTANTS
  Char = {x}
  Space = blank
  InitSize <- MCInitSize
  HostSizes <- MCHostSizes
  ChildSizes <- Wide
  Capacity = 2
INVARIANT LinesAreKept
