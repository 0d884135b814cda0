------------------------------- MODULE MCPaint -------------------------------
(* TLC instances of Paint on a screen with a row and a column to move.      *)
EXTENDS Paint

OnlyOne == {1}
Letter == {"x"}
NoGlyph == {}

\* All cells have the same attributes.
OnlyChar(g, h) == h

\* The standard buffer is left with the update of its last change done, and
\* with the same character everywhere.
SettledFlip ==
  active = ALT =>
    /\ screen[STD].dirty = {}
    /\ \A p, q \in Grid : screen[STD].cells[p] = screen[STD].cells[q]
=============================================================================
