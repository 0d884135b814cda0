-------------------------------- MODULE Pen --------------------------------
(***************************************************************************)
(* SGR: the parameters of one control sequence, taken one after the other, *)
(* and what they make of the pen of a terminal.  A color may be one of the *)
(* first eight, a bright one, a number out of 256 or red, green and blue;  *)
(* on a real terminal that has fewer it is fitted.  With TRUECOLOR, and    *)
(* for OSC 4, colors of the real terminal are redefined and remembered in  *)
(* the terminal's color map.  The pair of the two colors is in Colors.     *)
(***************************************************************************)
EXTENDS Integers, Sequences, FiniteSets, SequencesExt

CONSTANTS
  Hosts,       \* real terminals: [colors, C8, C16, TRUECOLOR]
  Sequence,    \* the SGR sequences a child may send, each a list of items
  Palette,     \* what it may define with OSC 4: pairs of a number and an rgb
  NearColor,   \* what color_cache_find_nearest_color may answer, -1 among it
  DefaultFg, DefaultBg,  \* the colors of the default pair
  FirstColor   \* the first color TRUECOLOR redefines: 16

NoColor == -1
Undefined == <<>>   \* the rgb of a color nobody redefined

Attribute == {"bold", "dim", "underline", "blink", "reverse", "invis"}

ASSUME PenAssumption ==
  /\ \A h \in Hosts : /\ h.colors \in Nat
                      /\ h.C8 \in BOOLEAN /\ h.C16 \in BOOLEAN
                      /\ h.TRUECOLOR \in BOOLEAN
  /\ \A s \in Sequence : s \in Seq(Seq(Nat))
  /\ NearColor \subseteq Nat \cup {NoColor}
  /\ DefaultFg \in 0 .. 7 /\ DefaultBg \in 0 .. 7
  /\ FirstColor \in Nat

VARIABLES
  host,     \* the real terminal and the flags the terminal got for it
  ink,      \* colors, what was asked and given for them, attributes
  wish,     \* history: the colors last asked for, and which of them in a form
            \* that is fitted to the real terminal
  map,      \* color_map: [private, rgb, global] in the order of the list
  next,     \* next_color, which all terminals share
  defined,  \* the colors of the real terminal that were redefined
  sent,     \* the sequence under way, <<>> between sequences
  arg       \* the parameter that is next

penVars == <<host, ink, wish, map, next, defined, sent, arg>>

-----------------------------------------------------------------------------
(* Colors as numbers and as red, green and blue *)

Cube == <<0, 95, 135, 175, 215, 255>>

\* The 16 ANSI colors as the linux console shows them.
Ansi == << <<0, 0, 0>>, <<170, 0, 0>>, <<0, 170, 0>>, <<170, 85, 0>>,
           <<0, 0, 170>>, <<170, 0, 170>>, <<0, 170, 170>>, <<170, 170, 170>>,
           <<85, 85, 85>>, <<255, 85, 85>>, <<85, 255, 85>>, <<255, 255, 85>>,
           <<85, 85, 255>>, <<255, 85, 255>>, <<85, 255, 255>>,
           <<255, 255, 255>> >>

Components(rgb) == {rgb[1], rgb[2], rgb[3]}

Distance(a, b) ==
  LET sq(k) == (a[k] - b[k]) * (a[k] - b[k]) IN sq(1) + sq(2) + sq(3)

\* The step of the cube nearest to one component.
CubeStep(v) ==
  IF v < 48 THEN 0 ELSE IF v < 115 THEN 1 ELSE Min({5, (v - 35) \div 40})

\* _rgb_to_xterm256: the cube, or the gray ramp when that is nearer.
XtermOf(rgb) ==
  LET step == [k \in 1 .. 3 |-> CubeStep(rgb[k])]
      cube == [k \in 1 .. 3 |-> Cube[step[k] + 1]]
      ramp == Min({23, Max({0, (rgb[1] + rgb[2] + rgb[3] - 24) \div 30})})
      gray == [k \in 1 .. 3 |-> 8 + 10 * ramp]
  IN IF Distance(rgb, gray) < Distance(rgb, cube)
     THEN 232 + ramp
     ELSE 16 + 36 * step[1] + 6 * step[2] + step[3]

\* What color number c \in 16 .. 255 looks like.
Look(c) ==
  IF c < 232
  THEN LET n == c - 16
       IN <<Cube[n \div 36 + 1], Cube[((n \div 6) % 6) + 1],
         Cube[(n % 6) + 1]>>
  ELSE [k \in 1 .. 3 |-> 8 + 10 * (c - 232)]

IsGray(rgb) == Max(Components(rgb)) - Min(Components(rgb)) <= 24

\* Fault: any color may stand for a gray.
CandidatesOfAll(rgb, limit) == 0 .. limit - 1

\* The colors one that looks like rgb may become: a gray only a gray.
Candidates(rgb, limit) ==
  {n \in 0 .. limit - 1 : IsGray(rgb) => n % 8 \in {0, 7}}

\* The nearest of them, the later one on a tie.
NearestAnsi(rgb, limit) ==
  CHOOSE n \in Candidates(rgb, limit) :
    \A k \in Candidates(rgb, limit) :
      \/ Distance(rgb, Ansi[n + 1]) < Distance(rgb, Ansi[k + 1])
      \/ Distance(rgb, Ansi[n + 1]) = Distance(rgb, Ansi[k + 1]) /\ n >= k

Limit(colors) == IF colors >= 16 THEN 16 ELSE 8

Fits(colors) == colors <= 0 \/ colors >= 256

\* Fault: a bright color of a terminal that has 8 stays bright.
FitAllButBright(c, colors) ==
  IF Fits(colors) \/ c \notin 16 .. 255 THEN c ELSE NearestAnsi(Look(c), Limit(colors))

\* vtty_fit_color
Fit(c, colors) ==
  IF Fits(colors) \/ c \notin 0 .. 255 \/ c < Limit(colors) THEN c
  ELSE IF c < 16 THEN c - 8
  ELSE NearestAnsi(Look(c), Limit(colors))

\* Black or white, whichever shows on background bg \in 0 .. 15.
Readable(bg) ==
  LET a == Ansi[bg + 1]
  IN IF (a[1] * 299 + a[2] * 587 + a[3] * 114) \div 1000 > 127 THEN 0 ELSE 7

\* What was asked for counts only while the color is what was given for it.
FgAsked(p) == IF p.fg = p.fgGiven THEN p.fgAsked ELSE p.fg
BgAsked(p) == IF p.bg = p.bgGiven THEN p.bgAsked ELSE p.bg

\* Fault: each color is fitted on its own.
FitEach(p) ==
  IF Fits(host.colors) THEN p
  ELSE LET fg == Fit(FgAsked(p), host.colors)
           bg == Fit(BgAsked(p), host.colors)
       IN [p EXCEPT !.fg = fg, !.fgAsked = FgAsked(p), !.fgGiven = fg,
                    !.bg = bg, !.bgAsked = BgAsked(p), !.bgGiven = bg]

\* _vtty_fit_colors
FitColors(p) ==
  IF Fits(host.colors) THEN p
  ELSE LET bg == Fit(BgAsked(p), host.colors)
           own == Fit(FgAsked(p), host.colors)
           fg == IF own = bg /\ FgAsked(p) # BgAsked(p) /\ bg \in 0 .. 15
                 THEN Readable(bg) ELSE own
       IN [p EXCEPT !.fg = fg, !.fgAsked = FgAsked(p), !.fgGiven = fg,
                    !.bg = bg, !.bgAsked = BgAsked(p), !.bgGiven = bg]

-----------------------------------------------------------------------------
(* The color map.  A result holds the color of the real terminal, or       *)
(* NoColor, and the new values of map, next and defined.                   *)

\* vtty_get_mapped_color
Mapped(c) ==
  LET found == {k \in DOMAIN map : map[k].private = c}
  IN IF c = NoColor \/ found = {} THEN NoColor ELSE map[Min(found)].global

\* vtty_get_mapped_rgb
MappedRgb(rgb) ==
  LET found == {k \in DOMAIN map : map[k].rgb = rgb}
  IN IF found = {} THEN NoColor ELSE map[Min(found)].global

Kept(c) == [color |-> c, map |-> map, next |-> next, defined |-> defined]

Appended(c, rgb, global) ==
  Append(map, [private |-> c, rgb |-> rgb, global |-> global])

\* Fault: the color that was redefined is not taken off the free ones.
RedefinedAgain(c, rgb) ==
  [color |-> next, map |-> Appended(c, rgb, next), next |-> next,
   defined |-> [defined EXCEPT ![next] = rgb]]

\* The next free color of the real terminal becomes this one.
Redefined(c, rgb) ==
  [color |-> next, map |-> Appended(c, rgb, next), next |-> next + 1,
   defined |-> [defined EXCEPT ![next] = rgb]]

\* vtty_add_mapped_color: its possible results.
Mappings(c, rgb) ==
  LET full == [k \in 1 .. 3 |-> Min({255, rgb[k]})]
  IN IF c \in 0 .. 7 THEN {Kept(c)}
     ELSE IF rgb = <<0, 0, 0>> THEN {Kept(0)}
     ELSE IF Mapped(c) # NoColor THEN {Kept(Mapped(c))}
     ELSE IF MappedRgb(full) # NoColor THEN {Kept(MappedRgb(full))}
     ELSE IF host.TRUECOLOR
     THEN {IF next >= host.colors THEN Kept(NoColor) ELSE Redefined(c, full)}
     ELSE {IF n = NoColor THEN Kept(n)
           ELSE [Kept(n) EXCEPT !.map = Appended(c, full, n)] : n \in NearColor}

\* The map becomes that of result m.
Remember(m) ==
  /\ map' = m.map
  /\ next' = m.next
  /\ defined' = m.defined

-----------------------------------------------------------------------------
(* The parameters *)

param == IF sent = <<>> THEN <<>> ELSE FlattenSeq(sent)

\* The parameters from the one at i on.
Rest == Len(param) - arg + 1

Code == param[arg]

On == [n \in {1, 2, 4, 5, 7, 8} |->
         CASE n = 1 -> "bold" [] n = 2 -> "dim" [] n = 4 -> "underline"
           [] n = 5 -> "blink" [] n = 7 -> "reverse" [] n = 8 -> "invis"]

Off == [n \in {22, 24, 25, 27, 28} |->
          CASE n = 22 -> {"bold", "dim"} [] n = 24 -> {"underline"}
            [] n = 25 -> {"blink"} [] n = 27 -> {"reverse"}
            [] n = 28 -> {"invis"}]

\* The loop goes on n parameters further.
Advance(n) ==
  IF arg + n > Len(param) THEN arg' = 0 /\ sent' = <<>>
  ELSE arg' = arg + n /\ UNCHANGED sent

mapVars == <<map, next, defined>>

\* A color was asked for that is drawn as it is, or one that is fitted.
WishFg(c) == [wish EXCEPT !.fg = c, !.fitted = @ \ {"fg"}]
WishBg(c) == [wish EXCEPT !.bg = c, !.fitted = @ \ {"bg"}]
WishFgFitted(c) == [wish EXCEPT !.fg = c, !.fitted = @ \cup {"fg"}]
WishBgFitted(c) == [wish EXCEPT !.bg = c, !.fitted = @ \cup {"bg"}]

Attributes ==
  /\ \/ Code \in DOMAIN On /\ ink' = [ink EXCEPT !.attr = @ \cup {On[Code]}]
     \/ Code \in DOMAIN Off /\ ink' = [ink EXCEPT !.attr = @ \ Off[Code]]
     \/ Code \in {10, 11} /\ ink' = [ink EXCEPT !.acs = Code = 11]
  /\ Advance(1)
  /\ UNCHANGED <<wish, mapVars>>

\* SGR 0, 39 and 49: the colors the default pair has, which is found: the list
\* of the cache holds every pair (ListIsWhole of Colors).
Defaults ==
  /\ \/ /\ Code = 0
        /\ ink' = [ink EXCEPT !.fg = DefaultFg, !.bg = DefaultBg, !.attr = {}]
        /\ wish' = [fg |-> DefaultFg, bg |-> DefaultBg, fitted |-> {}]
     \/ /\ Code = 39
        /\ ink' = [ink EXCEPT !.fg = DefaultFg] /\ wish' = WishFg(DefaultFg)
     \/ /\ Code = 49
        /\ ink' = [ink EXCEPT !.bg = DefaultBg] /\ wish' = WishBg(DefaultBg)
  /\ Advance(1)
  /\ UNCHANGED mapVars

\* SGR 30 - 37 and 40 - 47: set as they are.
PlainColor ==
  /\ \/ /\ Code \in 30 .. 37
        /\ ink' = [ink EXCEPT !.fg = Code - 30] /\ wish' = WishFg(Code - 30)
     \/ /\ Code \in 40 .. 47
        /\ ink' = [ink EXCEPT !.bg = Code - 40] /\ wish' = WishBg(Code - 40)
  /\ Advance(1)
  /\ UNCHANGED mapVars

\* The bright colors of a terminal with C16, which are colors of its own.
C16Color == << <<54, 54, 54>>, <<255, 192, 203>>, <<11, 218, 81>>,
               <<255, 253, 208>>, <<0, 127, 255>>, <<224, 176, 255>>,
               <<178, 255, 255>>, <<150, 150, 150>> >>

\* SGR 90 - 97 and 100 - 107
BrightColor ==
  /\ Code \in 90 .. 97 \cup 100 .. 107
  /\ LET c == Code % 10
         own == IF host.C8 THEN c ELSE c + 8
     IN \/ /\ host.C16
           /\ \E m \in Mappings(Code, C16Color[c + 1]) :
                /\ Remember(m)
                /\ ink' = IF Code < 100 THEN [ink EXCEPT !.fg = m.color]
                                        ELSE [ink EXCEPT !.bg = m.color]
                /\ wish' = IF Code < 100 THEN WishFg(m.color) ELSE WishBg(m.color)
        \/ /\ ~host.C16
           /\ ink' = FitColors(
                IF Code < 100
                THEN [ink EXCEPT !.fg = own, !.fgGiven = own, !.fgAsked = c + 8]
                ELSE [ink EXCEPT !.bg = own, !.bgGiven = own, !.bgAsked = c + 8])
           /\ wish' = IF Code < 100 THEN WishFgFitted(c + 8) ELSE WishBgFitted(c + 8)
           /\ UNCHANGED mapVars
  /\ Advance(1)

\* Where red may begin, counted from the 38 or 48.  The form is known by how
\* many parameters are left, not by what they are.
Reds == (IF Rest % 5 = 0 THEN {2} ELSE {}) \cup (IF Rest % 6 = 0 THEN {3} ELSE {})

RgbAt(k) == <<param[arg + k], param[arg + k + 1], param[arg + k + 2]>>

\* Fault: a separator more is taken than there is.
ConsumedLong(k) == k + 2

\* The parameters of an extended color whose last operand is k after its first.
Consumed(k) == k + 1

\* What the color with red at k is mapped to, on a host with TRUECOLOR.
Redefinitions(k) == {m \in Mappings(NoColor, RgbAt(k)) : m.color # NoColor}

\* interpret_custom_color: the results, each with the parameters it consumed.
\* The second form is tried where the first one has no color left.
CustomColors ==
  LET failed == [color |-> NoColor, m |-> Kept(NoColor), used |-> Rest]
      full(m, k) == [color |-> m.color, m |-> m, used |-> Consumed(k + 2)]
      able == {k \in Reds : ~host.TRUECOLOR \/ Redefinitions(k) # {}}
  IN IF Rest >= 3 /\ param[arg + 1] = 5
     THEN {[color |-> param[arg + 2], m |-> Kept(NoColor), used |-> Consumed(2)]}
     ELSE IF Rest >= 2 /\ param[arg + 1] = 2 /\ able # {}
     THEN LET k == Min(able)
          IN IF host.TRUECOLOR THEN {full(m, k) : m \in Redefinitions(k)}
             ELSE {full(Kept(XtermOf(RgbAt(k))), k)}
     ELSE {failed}

\* SGR 38 and 48
CustomColor ==
  /\ Code \in {38, 48}
  /\ \E x \in CustomColors :
       LET c == IF Mapped(x.color) = NoColor THEN x.color ELSE Mapped(x.color)
       IN /\ Advance(x.used)
          /\ Remember(x.m)
          /\ IF x.color = NoColor THEN UNCHANGED <<ink, wish>>
             ELSE /\ ink' = FitColors(
                       IF Code = 38
                       THEN [ink EXCEPT !.fg = c, !.fgAsked = c, !.fgGiven = c]
                       ELSE [ink EXCEPT !.bg = c, !.bgAsked = c, !.bgGiven = c])
                  /\ wish' = IF Code = 38 THEN WishFgFitted(c) ELSE WishBgFitted(c)

Known == DOMAIN On \cup DOMAIN Off \cup {0, 10, 11, 38, 39, 48, 49}
           \cup 30 .. 37 \cup 40 .. 47 \cup 90 .. 97 \cup 100 .. 107

\* A parameter the jump table does not know.
Unknown ==
  /\ Code \notin Known
  /\ Advance(1)
  /\ UNCHANGED <<ink, wish, mapVars>>

\* interpret_csi_SGR: one turn of its loop.
SGR ==
  /\ arg > 0
  /\ Attributes \/ Defaults \/ PlainColor \/ BrightColor \/ CustomColor \/ Unknown
  /\ UNCHANGED host

-----------------------------------------------------------------------------
(* Specification *)

NewPen == [fg |-> 0, bg |-> 0, fgAsked |-> 0, fgGiven |-> 0, bgAsked |-> 0,
           bgGiven |-> 0, attr |-> {}, acs |-> FALSE]

PenInit ==
  /\ host \in Hosts
  /\ ink = NewPen
  /\ wish = [fg |-> 0, bg |-> 0, fitted |-> {}]
  /\ map = <<>>
  /\ next = FirstColor
  /\ defined = [c \in FirstColor .. host.colors - 1 |-> Undefined]
  /\ sent = <<>>
  /\ arg = 0

\* A sequence arrives; one without parameters has the parameter 0.
Receive ==
  /\ arg = 0
  /\ \E s \in Sequence : sent' = IF s = <<>> THEN << <<0>> >> ELSE s
  /\ arg' = 1
  /\ UNCHANGED <<host, ink, wish, mapVars>>

\* OSC 4: vtty_osc_parse_xcolor
DefineColor ==
  /\ arg = 0
  /\ \E d \in Palette : \E m \in Mappings(d[1], d[2]) : Remember(m)
  /\ UNCHANGED <<host, ink, wish, sent, arg>>

\* Another terminal of this host redefines a color.
DefineElsewhere ==
  /\ host.TRUECOLOR
  /\ next < host.colors
  /\ next' = next + 1
  /\ defined' = [defined EXCEPT ![next] = <<1, 1, 1>>]
  /\ UNCHANGED <<host, ink, wish, map, sent, arg>>

PenNext == Receive \/ SGR \/ DefineColor \/ DefineElsewhere

PenSpec == PenInit /\ [][PenNext]_penVars

-----------------------------------------------------------------------------
(* Properties *)

\* Every variable has its type, and the loop ends with its sequence.
PenTypeOK ==
  /\ host \in Hosts
  /\ {ink.fg, ink.bg, ink.fgAsked, ink.fgGiven, ink.bgAsked, ink.bgGiven}
       \subseteq Int
  /\ wish.fg \in Int /\ wish.bg \in Int /\ wish.fitted \subseteq {"fg", "bg"}
  /\ ink.attr \subseteq Attribute
  /\ ink.acs \in BOOLEAN
  /\ \A k \in DOMAIN map : map[k].global \in 0 .. host.colors - 1
  /\ next \in Nat
  /\ arg \in 0 .. Len(param)
  /\ (arg = 0) <=> (sent = <<>>)

\* The positions at which an item of the sequence begins, and its end.
Starts == {1 + Len(FlattenSeq(SubSeq(sent, 1, k))) : k \in 0 .. Len(sent) - 1}

\* The loop goes from an item to the next one or, from the last, to the end.
ToNextItem ==
  \/ arg' = 0 /\ \A k \in Starts : k <= arg
  \/ arg' \in Starts /\ arg' > arg /\ \A k \in Starts : k <= arg \/ k >= arg'

\* Every item of a compound sequence is taken once: none is swallowed by the
\* color before it, none is taken for its operand (CHANGELOG:314-316).
EveryItemCounts == [][arg > 0 => ToNextItem]_arg

\* The item at arg, in a sequence that the loop has not lost its place in, is no
\* color by red, green and blue, or one whose form can be told from how many
\* parameters are left; with TRUECOLOR it also needs a color to redefine.
IsTold ==
  \E k \in DOMAIN sent :
    LET item == sent[k]
    IN /\ arg = 1 + Len(FlattenSeq(SubSeq(sent, 1, k - 1)))
       /\ Code \in {38, 48} /\ Len(item) > 3 =>
            /\ Rest % Len(item) = 0
            /\ Len(item) = 6 => Rest % 5 # 0
            /\ host.TRUECOLOR => next < host.colors

\* Where the form of a color can be told, the items are taken one after the
\* other, whatever is before, between and after (interpret_custom_color).
ToldItemsCount == [][arg > 0 /\ IsTold => ToNextItem]_arg

\* Two colors that were last asked for in forms that are fitted, in whatever
\* order and with whatever in between, are drawn as one exactly when they were
\* asked for as one (_vtty_fit_colors, CHANGELOG:35-43).
FittedColorsDiffer ==
  ~Fits(host.colors) /\ wish.fitted = {"fg", "bg"} =>
    (ink.fg = ink.bg <=> wish.fg = wish.bg)

\* Two colors asked for as different are never drawn the same (CHANGELOG:35).
DrawnColorsDiffer ==
  ~Fits(host.colors) /\ wish.fg # wish.bg => ink.fg # ink.bg

\* The real terminals on which, of all 256 colors, a gray becomes black, white
\* or one of their bright forms, and never a color (vtty_fit_color), and the
\* 24-bit form of one is matched to a color that looks like it (_rgb_to_xterm256).
Faithful ==
  {h \in Hosts :
    /\ ~Fits(h.colors) =>
         \A c \in {16, 59, 102, 145, 188, 231} \cup 232 .. 255 :
           Fit(c, h.colors) \in {0, 7, 8, 15}
    /\ \A c \in 16 .. 255 : Look(XtermOf(Look(c))) = Look(c)}

\* Whatever the real terminal, grays stay gray and a color by red, green and
\* blue looks like itself.
FittingIsFaithful == host \in Faithful

\* The color of the real terminal that stands for an rgb is defined as that,
\* whatever this terminal and the others define later (next_color).
MappedColorsAreKept ==
  host.TRUECOLOR => \A k \in DOMAIN map : defined[map[k].global] = map[k].rgb

=============================================================================
