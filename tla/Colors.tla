------------------------------- MODULE Colors -------------------------------
(***************************************************************************)
(* The color cache.  Curses has one table of color pairs; the terminals of *)
(* one host share it through a list of its pairs, ordered by use.  A       *)
(* terminal that needs a pair which is not in the list takes an unused one *)
(* and owns it until it is destroyed; a cell keeps the number of the pair, *)
(* never its colors.  Colors are those the real terminal has.              *)
(***************************************************************************)
EXTENDS Integers, FiniteSets

CONSTANTS
  Term,       \* the terminals the host may create
  Color,      \* color numbers, among them black, 0
  NPairs,     \* term_pairs: the size of curses' table
  HostTable,  \* the pairs as the host program has set them, number -> colors
  HostPick    \* the pairs the host may answer with when it chooses itself

Pair == 0 .. NPairs - 1

Black == <<0, 0>>

None == "none"   \* an origin of NULL
NoPair == -1     \* no pair is reserved

ASSUME ColorAssumption ==
  /\ NPairs \in Nat \ {0}
  /\ 0 \in Color
  /\ HostTable \in [Pair -> Color \X Color]
  /\ HostTable[0] # Black   \* pair 0 is the real terminal's own
  /\ HostPick \subseteq Pair
  /\ None \notin Term
  /\ IsFiniteSet(Term)

VARIABLES
  table,     \* the pairs as curses has them
  refs,      \* color_cache->ref_count, 0 while there is no cache
  reserved,  \* the pair kept for black on black
  entry,     \* what the cache says of each pair
  order,     \* the list, position -> pair; position 0 is the head
  pen        \* per terminal: the colors it writes with, in either buffer

cacheVars == <<refs, reserved, entry, order>>
colorVars == <<table, cacheVars, pen>>

Fresh == [alive |-> TRUE, fg |-> 0, bg |-> 0, colors |-> 0, default |-> 0]

Gone == [Fresh EXCEPT !.alive = FALSE]

-----------------------------------------------------------------------------
(* The list *)

Least(S) == CHOOSE k \in S : \A j \in S : k <= j

Greatest(S) == CHOOSE k \in S : \A j \in S : k >= j

\* Fault: the pair is linked in at the head and stays where it was.
ToHeadTwice(o, k) == [o EXCEPT ![0] = o[k]]

\* CDL_DELETE and CDL_PREPEND: the pair at position k of list o goes to its head.
ToHead(o, k) ==
  [i \in Pair |-> IF i = 0 THEN o[k] ELSE IF i <= k THEN o[i - 1] ELSE o[i]]

Position(o, p) == CHOOSE k \in Pair : o[k] = p

\* color_cache_find_pair: the positions where the colors are found, of which
\* the first is taken.
Matches(o, fg, bg) ==
  {k \in Pair : entry[o[k]].fg = fg /\ entry[o[k]].bg = bg}

\* color_cache_find_unused_pair: black on black in curses' own table, and not
\* the pair that is kept for that.  The highest one is taken.
Unused == {p \in Pair \ {0, reserved} : table[p] = Black}

-----------------------------------------------------------------------------
(* A pair for two colors.  t is the terminal, v its pen, o the list. *)

\* color_cache_find_pair, when it finds one
Find(t, v, o) ==
  /\ Matches(o, v.fg, v.bg) # {}
  /\ LET k == Least(Matches(o, v.fg, v.bg))
     IN /\ order' = ToHead(o, k)
        /\ pen' = [pen EXCEPT ![t] = [v EXCEPT !.colors = o[k]]]
  /\ UNCHANGED <<table, refs, reserved, entry>>

\* Fault: the pair is rebound in curses and the cache not told.
AddUnprofiled(t, v, o) ==
  /\ Matches(o, v.fg, v.bg) = {}
  /\ Unused # {}
  /\ LET p == Greatest(Unused)
     IN /\ table' = [table EXCEPT ![p] = <<v.fg, v.bg>>]
        /\ entry' = [entry EXCEPT ![p] = [@ EXCEPT !.origin = t,
                                                   !.custom = TRUE]]
        /\ order' = ToHead(o, Position(o, p))
        /\ pen' = [pen EXCEPT ![t] = [v EXCEPT !.colors = p]]
  /\ UNCHANGED <<refs, reserved>>

\* color_cache_add_pair, with a pair that is unused
Add(t, v, o) ==
  /\ Matches(o, v.fg, v.bg) = {}
  /\ Unused # {}
  /\ LET p == Greatest(Unused)
     IN /\ table' = [table EXCEPT ![p] = <<v.fg, v.bg>>]
        /\ entry' = [entry EXCEPT ![p] = [fg |-> v.fg, bg |-> v.bg,
                                          origin |-> t, custom |-> TRUE]]
        /\ order' = ToHead(o, Position(o, p))
        /\ pen' = [pen EXCEPT ![t] = [v EXCEPT !.colors = p]]
  /\ UNCHANGED <<refs, reserved>>

\* One of the pairs of S, as it is.
Take(t, v, o, S) ==
  /\ \E p \in S : pen' = [pen EXCEPT ![t] = [v EXCEPT !.colors = p]]
  /\ order' = o
  /\ UNCHANGED <<table, refs, reserved, entry>>

\* pair_select, the callback a host may set: it answers with a pair of its
\* choice, and the cache is not asked.
Selected(t, v, o) == Take(t, v, o, HostPick)

\* color_cache_add_pair, with none: the nearest pair, whichever that is.
Nearest(t, v, o) ==
  /\ Matches(o, v.fg, v.bg) = {}
  /\ Unused = {}
  /\ Take(t, v, o, Pair)

\* _vtty_set_color_pair_safe
SetColorPair(t, v, o) ==
  Selected(t, v, o) \/ Find(t, v, o) \/ Add(t, v, o) \/ Nearest(t, v, o)

-----------------------------------------------------------------------------
(* Operations *)

NoEntry == [fg |-> 0, bg |-> 0, origin |-> None, custom |-> FALSE]

\* No cache: what its variables hold means nothing.
Released ==
  /\ reserved' = NoPair
  /\ entry' = [p \in Pair |-> NoEntry]
  /\ order' = [k \in Pair |-> k]

Init ==
  /\ table = HostTable
  /\ refs = 0
  /\ reserved = NoPair
  /\ entry = [p \in Pair |-> NoEntry]
  /\ order = [k \in Pair |-> k]
  /\ pen = [t \in Term |-> Gone]

\* color_cache_init, the first time: every pair is profiled, and the first
\* black one is reserved.  PALETTE_ACTIVE starts as a copy of PALETTE_HOST.
Profile ==
  LET black == {p \in Pair : table[p] = Black}
  IN /\ reserved' = IF black = {} THEN NoPair ELSE Least(black)
     /\ entry' = [p \in Pair |-> [fg |-> table[p][1], bg |-> table[p][2],
                                  origin |-> None, custom |-> FALSE]]
     /\ order' = [k \in Pair |-> k]

\* color_cache_init counts the terminal, whether it finds a cache or not.
Counted == refs + 1

\* vtty_init
Create(t) ==
  /\ ~pen[t].alive
  /\ pen' = [pen EXCEPT ![t] = Fresh]
  /\ refs' = Counted
  /\ \/ refs = 0 /\ Profile
     \/ refs > 0 /\ UNCHANGED <<reserved, entry, order>>
  /\ UNCHANGED table

\* Fault: the pairs of every terminal are reset with it.
OwnedByAnyone(t) == {p \in Pair : entry[p].custom}

\* The pairs color_cache_free_pairs resets.
Owned(t) == {p \in Pair : entry[p].custom /\ entry[p].origin = t}

\* Fault: a pair that is reset stays the property of its terminal.
StillOwned(p) == [entry[p] EXCEPT !.fg = 0, !.bg = 0]

\* A pair that is reset: black on black, and nobody's.
Disowned(p) == [fg |-> 0, bg |-> 0, origin |-> None, custom |-> entry[p].custom]

\* Fault: the cache is freed and the pairs it had made stay in curses.
DestroyKeepsTable(t) ==
  /\ pen[t].alive
  /\ refs' = refs - 1
  /\ pen' = [pen EXCEPT ![t] = Gone]
  /\ \/ refs = 1 /\ Released
     \/ refs > 1 /\ UNCHANGED <<reserved, entry, order>>
  /\ UNCHANGED table

\* vtty_destroy: color_cache_free_pairs, then color_cache_release, which frees
\* the cache with the last terminal.
Destroy(t) ==
  /\ pen[t].alive
  /\ table' = [p \in Pair |-> IF p \in Owned(t) THEN Black ELSE table[p]]
  /\ refs' = refs - 1
  /\ pen' = [pen EXCEPT ![t] = Gone]
  /\ \/ refs = 1 /\ Released
     \/ /\ refs > 1
        /\ entry' = [p \in Pair |->
                       IF p \in Owned(t) THEN Disowned(p) ELSE entry[p]]
        /\ UNCHANGED <<reserved, order>>

\* SGR 30 - 37, and 38 once its color is known
SetForeground(t) ==
  /\ pen[t].alive
  /\ \E c \in Color : SetColorPair(t, [pen[t] EXCEPT !.fg = c], order)

\* SGR 40 - 47, and 48 once its color is known
SetBackground(t) ==
  /\ pen[t].alive
  /\ \E c \in Color : SetColorPair(t, [pen[t] EXCEPT !.bg = c], order)

\* color_cache_split_pair of the default pair: its colors as they are now, and
\* the list with that pair at its head.
Default(t) == entry[pen[t].default]

Split(t) == ToHead(order, Position(order, pen[t].default))

\* SGR 0: the default pair, with the colors it has now.
Reset(t) ==
  /\ pen[t].alive
  /\ order' = Split(t)
  /\ pen' = [pen EXCEPT ![t] =
               [@ EXCEPT !.fg = Default(t).fg, !.bg = Default(t).bg,
                         !.colors = pen[t].default]]
  /\ UNCHANGED <<table, refs, reserved, entry>>

\* SGR 39
ResetForeground(t) ==
  /\ pen[t].alive
  /\ SetColorPair(t, [pen[t] EXCEPT !.fg = Default(t).fg], Split(t))

\* SGR 49
ResetBackground(t) ==
  /\ pen[t].alive
  /\ SetColorPair(t, [pen[t] EXCEPT !.bg = Default(t).bg], Split(t))

\* The default pair vtty_set_colors chooses, the terminal's own if the cache
\* has no pair of these colors.
Chosen(found) == IF found = {} THEN 0 ELSE order[Least(found)]

\* vtty_set_colors: the host chooses the default pair among those there are.
SetColors(t) ==
  /\ pen[t].alive
  /\ \E fg, bg \in Color :
       LET found == Matches(order, fg, bg)
       IN /\ order' = IF found = {} THEN order ELSE ToHead(order, Least(found))
          /\ pen' = [pen EXCEPT ![t].default = Chosen(found)]
  /\ UNCHANGED <<table, refs, reserved, entry>>

\* ED 2 makes the colors it erases with the default ones.
EraseScreen(t) ==
  /\ pen[t].alive
  /\ pen' = [pen EXCEPT ![t].default = pen[t].colors]
  /\ UNCHANGED <<table, cacheVars>>

Next ==
  \E t \in Term :
    \/ Create(t) \/ Destroy(t)
    \/ SetForeground(t) \/ SetBackground(t)
    \/ Reset(t) \/ ResetForeground(t) \/ ResetBackground(t)
    \/ SetColors(t) \/ EraseScreen(t)

Spec == Init /\ [][Next]_colorVars

-----------------------------------------------------------------------------
(* Properties *)

\* Every variable has its type.
TypeOK ==
  /\ table \in [Pair -> Color \X Color]
  /\ refs \in Nat
  /\ reserved \in Pair \cup {NoPair}
  /\ entry \in [Pair -> [fg : Color, bg : Color, origin : Term \cup {None},
                         custom : BOOLEAN]]
  /\ order \in [Pair -> Pair]
  /\ pen \in [Term -> [alive : BOOLEAN, fg : Color, bg : Color,
                       colors : Pair, default : Pair]]

\* The list holds every pair, once: what is unlinked by a lookup, a split or a
\* rebinding is put back, or the pair would never be found again.
ListIsWhole == \A i, j \in Pair : order[i] = order[j] => i = j

\* What the cache says of a pair is what curses shows for it: a lookup answers
\* with a pair that has the colors asked for.
CacheMirrorsCurses ==
  refs > 0 => \A p \in Pair : table[p] = <<entry[p].fg, entry[p].bg>>

\* No pair belongs to a terminal that is gone: a terminal created at the same
\* address would own it, and it could never become unused (free_pairs).
NoOrphans ==
  \A p \in Pair : entry[p].origin # None =>
    entry[p].custom /\ pen[entry[p].origin].alive

\* The pair that is reserved stays black on black: text hidden with it stays
\* hidden, whoever asks for pairs (reserved_pair).
ReservedStaysBlack ==
  refs > 0 /\ reserved # NoPair =>
    table[reserved] = Black /\ entry[reserved].origin = None

\* A pair in use keeps its colors while its owner lives: only a pair that is
\* black on black is bound to other colors, and only the owner's end takes the
\* colors of the others.  The host's own pairs keep theirs for good.
OwnedPairsKeepTheirColors ==
  [][\A p \in Pair : table'[p] # table[p] =>
       \/ table[p] = Black /\ p # reserved
       \/ /\ entry[p].origin # None
          /\ ~pen'[entry[p].origin].alive]_colorVars

\* After the last terminal is gone curses has the pairs it had before the first
\* (color_cache_free_pairs before color_cache_release).
HostPairsComeBack == refs = 0 => table = HostTable

=============================================================================
