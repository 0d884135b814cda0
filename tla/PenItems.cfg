SPECIFICATION PenSpec
CONSTANTS
  Hosts <- MCPlainHost
  Sequence <- MCSequence
  Palette <- MCPalette
  NearColor <- MCNear
  DefaultFg = 7
  DefaultBg = 0
  FirstColor = 253
PROPERTY EveryItemCounts
