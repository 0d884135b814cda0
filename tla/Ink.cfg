SPECIFICATION InkSpec
CONSTANTS
  Term = {ta, tb}
  Color <- MCColors
  NPairs = 4
  HostTable <- MCHostTable
  HostPick <- MCHostPick
  Hosts <- MCHosts
  Sequence <- MCSequence
  Palette <- MCPalette
  NearColor <- MCNear
  DefaultFg = 7
  DefaultBg = 0
  FirstColor = 254
INVARIANTS ListIsWhole CacheMirrorsCurses NoOrphans HostPairsComeBack
INVARIANTS FittedColorsDiffer FittingIsFaithful MappedColorsAreKept
PROPERTIES OwnedPairsKeepTheirColors ToldItemsCount
SYMMETRY Symmetric
