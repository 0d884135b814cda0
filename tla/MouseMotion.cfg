SPECIFICATION MouseSpec
CONSTANTS
  Term = {ta, tb}
  Cell = {near, far}
  FarCell = {far}
  Button <- MCButtons
  RefLimit = 2
INVARIANT MotionFollowsTheChildren
SYMMETRY Symmetric
