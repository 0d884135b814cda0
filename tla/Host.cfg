SPECIFICATION HostSpec
CONSTANTS
  OutLimit = 3
  Queries <- MCQueries
  ReplyLen = 2
  OutRoom = 2
  InRoom = 3
  MaxRead = 2
  DataLens <- MCDataLens
  BracketLen = 1
  CallLimit = 2
  ShortReads = FALSE
  ChildMayExit = TRUE
  Term = {ta, tb}
  PrintLimit = 3
  PrintRoom = 2
  ReadLimit = 2
  PipeRoom <- MCPipeRoom
  PipeMayFail = TRUE
  Kinds <- MCKinds
  Unit <- MCUnit
  SmallSize = 12
  LargeSize = 24
  MaxParams = 6
  TitleSize = 6
CHECK_DEADLOCK FALSE
INVARIANTS BufferFits  StringsAreKept HostKnows
INVARIANTS OutputInOrder WritesAreWhole NoWakeupLost SignalsAreHandled
PROPERTIES ImplementsStream OnlyBothWaitingHangs OutputIsShown OutputIsRead
