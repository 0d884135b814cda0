------------------------------- MODULE MCPen -------------------------------
(* SGR on real terminals with 8, 16 and 256 colors, with the sequences that *)
(* programs send: an attribute or a color before, after or between the      *)
(* others, and a color by red, green and blue at the end, or before another *)
(* item, where its form is misread and where it is not told at all.         *)
EXTENDS Pen

H(colors, c8, c16, full) ==
  [colors |-> colors, C8 |-> c8, C16 |-> c16, TRUECOLOR |-> full]

\* 8 colors with and without C8, 16, 256, C16, and TRUECOLOR with two to redefine
MCHosts == {H(8, TRUE, FALSE, FALSE), H(8, FALSE, FALSE, FALSE),
            H(16, FALSE, FALSE, FALSE), H(256, FALSE, FALSE, FALSE),
            H(256, FALSE, TRUE, FALSE), H(256, FALSE, FALSE, TRUE),
            H(8, FALSE, FALSE, TRUE)}

Fg(n) == <<38, 5, n>>
Bg(n) == <<48, 5, n>>
RgbFg == <<38, 2, 200, 0, 0>>
RgbBg == <<48, 2, 0, 90, 0>>

\* black, its bright form, a color of the cube and a gray next to black
Number == {0, 8, 52, 233}

MCSequence ==
  {<<>>, << <<90>> >>, << <<47>> >>, << <<38>> >>, << <<49>>, <<38, 5>> >>,
   << <<1>>, <<38, 2, 0, 200, 0, 9>> >>}
    \cup {<<Fg(n)>> : n \in Number}
    \cup {<< <<0>>, Bg(n), <<39>> >> : n \in Number}
    \cup {<< <<1>>, RgbFg>>, <<RgbFg, RgbBg>>, <<RgbBg>>,
          <<RgbBg, <<4>> >>, <<RgbFg, <<31>>, <<4>> >>,
          << <<22>>, <<30>>, <<100>> >>, << <<3>>, <<11>>, <<10>> >>}

\* A color found in the cache, or none (color_cache_find_nearest_color).
MCNear == {NoColor, 1}

\* A terminal of 256 colors alone, which shows what every one makes of the items.
MCPlainHost == {H(256, FALSE, FALSE, FALSE)}

MCPalette == {<<233, <<0, 0, 90>>>>, <<7, <<1, 2, 3>>>>,
              <<8, <<0, 0, 0>>>>}
=============================================================================
