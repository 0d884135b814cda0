SPECIFICATION Spec
CONSTANTS
  OutLimit = 3
  Queries <- MCQueries
  ReplyLen = 2
  OutRoom = 3
  InRoom = 3
  MaxRead = 2
  DataLens <- MCDataLens
  BracketLen = 1
  CallLimit = 2
  ShortReads = FALSE
  ChildMayExit = TRUE
CHECK_DEADLOCK FALSE
PROPERTY QueryAnswered
