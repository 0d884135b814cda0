SPECIFICATION PenSpec
CONSTANTS
  Hosts <- MCHosts
  Sequence <- MCSequence
  Palette <- MCPalette
  NearColor <- MCNear
  DefaultFg = 7
  DefaultBg = 0
  FirstColor = 253
INVARIANT DrawnColorsDiffer
