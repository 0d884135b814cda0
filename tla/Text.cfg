SPECIFICATION TextSpec
CONSTANTS
  Line = {a, b}
  Blank = blank
  Capacities <- MCCapacities
  InitCapacity <- MCInitCapacity
  AllocMayFail = FALSE
  Height = 4
  RowText = {a, b}
  BlankRow = blank
  Counts <- MCCounts
  Char = {x}
  Space = blank
  InitSize <- MCInitSize
  HostSizes <- MCHostSizes
  ChildSizes <- Narrow
  Capacity = 2
INVARIANTS UsedRowsAreTheTail AccessInBounds TextComesBack LinesAreKept
PROPERTIES ImplementsLog ImplementsRegion
