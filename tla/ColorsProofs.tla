---------------------------- MODULE ColorsProofs ----------------------------
(* Theorems about Colors, for every number of terminals, of colors and of   *)
(* pairs, and for every table the host has made; and about Pen, for every   *)
(* real terminal, every set of sequences and every palette.                 *)
EXTENDS Colors, Pen, FiniteSetTheorems, SequenceTheorems, WellFoundedInduction,
        TLAPS

-----------------------------------------------------------------------------
(* The list *)

\* The order of the library's theorem is that of the numbers.
LEMMA LessRel ==
  ASSUME NEW j \in Nat, NEW k \in Nat, j < k
  PROVE  <<j, k>> \in OpToRel(<, Nat)
<1>1. <<j, k>> \in Nat \X Nat /\ <<j, k>>[1] < <<j, k>>[2]
  OBVIOUS
<1> QED BY <1>1, Zenon DEF OpToRel

\* A set of pairs has a least one, as the walk of the list finds it.
LEMMA LeastExists ==
  ASSUME NEW S \in SUBSET Pair, S # {}
  PROVE  Least(S) \in S
<1>1. S \subseteq Nat
  BY ColorAssumption DEF Pair
<1>2. PICK k \in S : \A j \in S : ~(<<j, k>> \in OpToRel(<, Nat))
  BY <1>1, NatLessThanWellFounded, WFMin, Zenon
<1>3. ASSUME NEW j \in S PROVE k <= j
  <2>1. j \in Nat /\ k \in Nat /\ ~(j < k)
    BY <1>1, <1>2, LessRel, Zenon
  <2> QED BY <2>1
<1> QED BY <1>3 DEF Least

\* ... and a highest one.
LEMMA GreatestExists ==
  ASSUME NEW S \in SUBSET Pair, S # {}
  PROVE  Greatest(S) \in S
<1> DEFINE T == {j \in Nat : NPairs - 1 - j \in S}
<1>0. /\ NPairs \in Nat \ {0}
      /\ S \subseteq 0 .. NPairs - 1
  BY ColorAssumption DEF Pair
<1>1. T \subseteq Nat
  OBVIOUS
<1>2. T # {}
  <2>1. PICK p \in S : TRUE
    OBVIOUS
  <2>2. NPairs - 1 - (NPairs - 1 - p) = p /\ NPairs - 1 - p \in Nat
    BY <1>0
  <2> QED BY <2>1, <2>2
<1>3. \E k \in T : \A j \in T : ~(<<j, k>> \in OpToRel(<, Nat))
  <2> HIDE DEF T
  <2> QED BY <1>1, <1>2, NatLessThanWellFounded, WFMin, Zenon
<1>4. PICK k \in T : \A j \in T : ~(j < k)
  <2> HIDE DEF T
  <2> QED BY <1>1, <1>3, LessRel, Zenon
<1>5. \A p \in S : NPairs - 1 - k >= p
  <2> TAKE p \in S
  <2>1. p \in 0 .. NPairs - 1
    BY <1>0
  <2>2. NPairs - 1 - (NPairs - 1 - p) = p /\ NPairs - 1 - p \in Nat
    BY <1>0, <2>1
  <2>3. NPairs - 1 - p \in T
    BY <2>2
  <2> QED BY <1>0, <1>4, <2>1, <2>3
<1>6. NPairs - 1 - k \in S
  BY <1>4
<1> QED BY <1>5, <1>6 DEF Greatest

\* An order of the list that misses no pair and repeats none.
Whole(o) ==
  /\ o \in [Pair -> Pair]
  /\ \A i, j \in Pair : o[i] = o[j] => i = j
  /\ \A p \in Pair : \E k \in Pair : o[k] = p

\* Moving a pair to the head keeps the list whole.
LEMMA HeadWhole ==
  ASSUME NEW o, Whole(o), NEW k \in Pair
  PROVE  Whole(ToHead(o, k))
<1> DEFINE f == ToHead(o, k)
<1>0. NPairs \in Nat \ {0} /\ Pair = 0 .. NPairs - 1
  BY ColorAssumption DEF Pair
<1>1. f \in [Pair -> Pair]
  <2>1. \A i \in Pair : (i # 0 => i - 1 \in Pair) /\ 0 \in Pair
    BY <1>0
  <2>2. \A i \in Pair : IF i = 0 THEN o[k] \in Pair ELSE o[i] \in Pair /\ o[i - 1] \in Pair
    BY <2>1 DEF Whole
  <2> QED BY <2>2 DEF ToHead
<1>2. ASSUME NEW i \in Pair, NEW j \in Pair, f[i] = f[j] PROVE i = j
  <2> DEFINE From(n) == IF n = 0 THEN k ELSE IF n <= k THEN n - 1 ELSE n
  <2>1. ASSUME NEW n \in Pair PROVE f[n] = o[From(n)] /\ From(n) \in Pair
    BY <1>0 DEF ToHead
  <2>2. From(i) = From(j)
    <3> HIDE DEF From, f
    <3> QED BY <1>2, <2>1 DEF Whole
  <2> QED BY <1>0, <2>2
<1>3. \A p \in Pair : \E i \in Pair : f[i] = p
  <2> TAKE p \in Pair
  <2>1. PICK i \in Pair : o[i] = p
    BY DEF Whole
  <2>2. CASE i = k
    <3>1. 0 \in Pair /\ f[0] = p
      BY <1>0, <2>1, <2>2 DEF ToHead
    <3> QED BY <3>1
  <2>3. CASE i < k
    <3>1. i + 1 \in Pair /\ f[i + 1] = p
      BY <1>0, <2>1, <2>3 DEF ToHead
    <3> QED BY <3>1
  <2>4. CASE i > k
    <3>1. f[i] = p
      BY <1>0, <2>1, <2>4 DEF ToHead
    <3> QED BY <3>1
  <2> QED BY <1>0, <2>2, <2>3, <2>4
<1> QED BY <1>1, <1>2, <1>3 DEF Whole

\* A pair is somewhere in the list.
LEMMA PositionOfPair ==
  ASSUME NEW o, Whole(o), NEW p \in Pair
  PROVE  Position(o, p) \in Pair /\ o[Position(o, p)] = p
BY DEF Whole, Position

-----------------------------------------------------------------------------
(* The inductive invariant *)

Living == {t \in Term : pen[t].alive}

\* Who owns a pair took a black one from the host; the others are as the host
\* made them.
HostPairsAreKept ==
  \A p \in Pair :
    IF entry[p].origin = None THEN table[p] = HostTable[p]
                              ELSE HostTable[p] = Black

\* The cache is there while a terminal is, and HostPairsComeBack follows when
\* there is none.
CacheInv ==
  /\ TypeOK
  /\ Whole(order)
  /\ refs = Cardinality(Living)
  /\ CacheMirrorsCurses
  /\ NoOrphans
  /\ ReservedStaysBlack
  /\ HostPairsAreKept

\* Before the first terminal there is no cache, and curses has the host's pairs.
LEMMA InitCache == Init => CacheInv
<1> SUFFICES ASSUME Init PROVE CacheInv
  OBVIOUS
<1> USE ColorAssumption
<1>0. 0 \in Pair /\ Gone \in [alive : BOOLEAN, fg : Color, bg : Color,
                                colors : Pair, default : Pair]
  <2>1. 0 \in Pair
    BY DEF Pair
  <2> QED BY <2>1 DEF Gone, Fresh
<1>1. TypeOK
  BY <1>0 DEF Init, TypeOK, NoEntry
<1>2. Whole(order)
  BY DEF Init, Whole
<1>3. refs = Cardinality(Living)
  <2>1. Living = {}
    BY DEF Init, Living, Gone, Fresh
  <2> QED BY <2>1, FS_EmptySet DEF Init
<1>4. CacheMirrorsCurses /\ NoOrphans /\ ReservedStaysBlack /\ HostPairsAreKept
  BY DEF Init, CacheMirrorsCurses, NoOrphans, ReservedStaysBlack,
         HostPairsAreKept, NoEntry
<1> QED BY <1>1, <1>2, <1>3, <1>4 DEF CacheInv

\* The living terminals are counted, and a change of a pen that leaves its
\* terminal alive does not change them.
LEMMA LivingFinite == IsFiniteSet(Living) /\ Living \subseteq Term
BY ColorAssumption, FS_Subset DEF Living

\* What a terminal writes with, once its pair was found, added or approximated:
\* v is the pen with the colors asked for, o the list it is looked for in.
LEMMA SetColorPairKeepsInv ==
  ASSUME CacheInv, NEW t \in Term, pen[t].alive, NEW v, NEW o, Whole(o),
         v \in [alive : BOOLEAN, fg : Color, bg : Color,
                colors : Pair, default : Pair],
         v.alive, SetColorPair(t, v, o)
  PROVE  CacheInv'
<1>0. /\ TypeOK /\ NPairs \in Nat \ {0} /\ None \notin Term
      /\ pen \in [Term -> [alive : BOOLEAN, fg : Color, bg : Color,
                           colors : Pair, default : Pair]]
  BY ColorAssumption DEF CacheInv, TypeOK
<1>1. ASSUME NEW p \in Pair, pen' = [pen EXCEPT ![t] = [v EXCEPT !.colors = p]]
      PROVE  /\ pen' \in [Term -> [alive : BOOLEAN, fg : Color, bg : Color,
                                   colors : Pair, default : Pair]]
             /\ \A u \in Term : pen'[u].alive = pen[u].alive
             /\ Living' = Living
  BY <1>0, <1>1 DEF Living
<1>2. ASSUME NEW p \in Pair, pen' = [pen EXCEPT ![t] = [v EXCEPT !.colors = p]],
             Whole(order'), UNCHANGED <<table, refs, reserved, entry>>
      PROVE  CacheInv'
  <2>1. TypeOK'
    BY <1>0, <1>1, <1>2 DEF TypeOK, Whole
  <2>2. NoOrphans'
    BY <1>0, <1>1, <1>2 DEF CacheInv, NoOrphans, TypeOK
  <2>3. (refs = Cardinality(Living))' /\ CacheMirrorsCurses'
        /\ ReservedStaysBlack' /\ HostPairsAreKept' /\ Whole(order)'
    BY <1>1, <1>2 DEF CacheInv, CacheMirrorsCurses, ReservedStaysBlack,
                      HostPairsAreKept
  <2> QED BY <2>1, <2>2, <2>3 DEF CacheInv
<1>3. CASE Find(t, v, o)
  <2> DEFINE k == Least(Matches(o, v.fg, v.bg))
  <2>1. k \in Pair
    BY <1>3, LeastExists DEF Find, Matches
  <2>2. /\ order' = ToHead(o, k)
        /\ pen' = [pen EXCEPT ![t] = [v EXCEPT !.colors = o[k]]]
        /\ UNCHANGED <<table, refs, reserved, entry>>
    BY <1>3 DEF Find
  <2> HIDE DEF k
  <2>3. o[k] \in Pair
    BY <2>1 DEF Whole
  <2>4. Whole(order')
    BY <2>1, <2>2, HeadWhole
  <2> QED BY <1>2, <2>2, <2>3, <2>4
<1>4. CASE Selected(t, v, o) \/ Nearest(t, v, o)
  BY <1>2, <1>4, ColorAssumption DEF Nearest, Selected, Take
<1>5. CASE Add(t, v, o)
  <2> DEFINE p == Greatest(Unused)
             e == [fg |-> v.fg, bg |-> v.bg, origin |-> t, custom |-> TRUE]
  <2>1. p \in Unused /\ p \in Pair /\ p # reserved /\ table[p] = Black
    BY <1>5, GreatestExists DEF Add, Unused
  <2>2. /\ table' = [table EXCEPT ![p] = <<v.fg, v.bg>>]
        /\ entry' = [entry EXCEPT ![p] = e]
        /\ pen' = [pen EXCEPT ![t] = [v EXCEPT !.colors = p]]
        /\ UNCHANGED <<refs, reserved>>
    BY <1>5 DEF Add
  <2>3. Whole(order')
    BY <1>5, <2>1, PositionOfPair, HeadWhole DEF Add
  <2> HIDE DEF p
  <2>4. /\ \A q \in Pair : q # p => table'[q] = table[q] /\ entry'[q] = entry[q]
        /\ table'[p] = <<v.fg, v.bg>> /\ entry'[p] = e
    BY <1>0, <2>1, <2>2 DEF TypeOK
  <2>5. TypeOK'
    <3>1. table' \in [Pair -> Color \X Color]
      BY <1>0, <2>1, <2>2 DEF TypeOK
    <3>2. entry' \in [Pair -> [fg : Color, bg : Color, origin : Term \cup {None},
                               custom : BOOLEAN]]
      BY <1>0, <2>1, <2>2 DEF TypeOK
    <3> QED BY <1>0, <1>1, <2>1, <2>2, <2>3, <3>1, <3>2 DEF TypeOK, Whole
  <2>6. (refs = Cardinality(Living))'
    BY <1>1, <2>1, <2>2 DEF CacheInv
  <2>7. CacheMirrorsCurses'
    BY <2>1, <2>2, <2>4 DEF CacheInv, CacheMirrorsCurses
  <2>8. NoOrphans'
    BY <1>0, <1>1, <2>1, <2>2, <2>4 DEF CacheInv, NoOrphans, TypeOK
  <2>9. ReservedStaysBlack'
    <3> SUFFICES ASSUME refs > 0, reserved # NoPair
                 PROVE  table'[reserved] = Black /\ entry'[reserved].origin = None
      BY <2>2 DEF ReservedStaysBlack
    <3>1. reserved \in Pair
      BY <1>0 DEF TypeOK
    <3> QED BY <2>1, <2>4, <3>1 DEF CacheInv, ReservedStaysBlack
  <2>10. HostPairsAreKept'
    <3>1. HostTable[p] = Black
      BY <2>1 DEF CacheInv, HostPairsAreKept
    <3> QED BY <1>0, <2>1, <2>4, <3>1 DEF CacheInv, HostPairsAreKept
  <2> QED BY <2>3, <2>5, <2>6, <2>7, <2>8, <2>9, <2>10 DEF CacheInv
<1> QED BY <1>3, <1>4, <1>5 DEF SetColorPair

\* Every step keeps the cache whole.
LEMMA NextKeepsInv == CacheInv /\ [Next]_colorVars => CacheInv'
<1> SUFFICES ASSUME CacheInv, [Next]_colorVars PROVE CacheInv'
  OBVIOUS
<1> DEFINE Pens == [alive : BOOLEAN, fg : Color, bg : Color,
                    colors : Pair, default : Pair]
<1>0. /\ TypeOK /\ Whole(order)
      /\ NPairs \in Nat \ {0} /\ 0 \in Pair /\ None \notin Term /\ 0 \in Color
      /\ pen \in [Term -> Pens]
  <2>1. NPairs \in Nat \ {0} /\ 0 \in Pair
    BY ColorAssumption DEF Pair
  <2> QED BY <2>1, ColorAssumption DEF CacheInv, TypeOK
\* A step of the list and of the pens alone.
<1>1. ASSUME NEW t \in Term, pen[t].alive, NEW w \in Pens, w.alive,
             pen' = [pen EXCEPT ![t] = w], Whole(order'),
             UNCHANGED <<table, refs, reserved, entry>>
      PROVE  CacheInv'
  <2>1. /\ pen' \in [Term -> Pens]
        /\ \A u \in Term : pen'[u].alive = pen[u].alive
        /\ Living' = Living
    BY <1>0, <1>1 DEF Living
  <2>2. TypeOK'
    BY <1>0, <1>1, <2>1 DEF TypeOK, Whole
  <2>3. NoOrphans'
    BY <1>0, <1>1, <2>1 DEF CacheInv, NoOrphans, TypeOK
  <2>4. (refs = Cardinality(Living))' /\ CacheMirrorsCurses'
        /\ ReservedStaysBlack' /\ HostPairsAreKept' /\ Whole(order)'
    BY <1>1, <2>1 DEF CacheInv, CacheMirrorsCurses, ReservedStaysBlack,
                      HostPairsAreKept
  <2> QED BY <2>2, <2>3, <2>4 DEF CacheInv
<1>2. ASSUME NEW t \in Term, Create(t) PROVE CacheInv'
  <2>0. /\ ~pen[t].alive /\ pen' = [pen EXCEPT ![t] = Fresh]
        /\ refs' = refs + 1 /\ table' = table
    BY <1>2 DEF Create, Counted
  <2>1. Fresh \in Pens /\ Fresh.alive
    BY <1>0 DEF Fresh
  <2>2. /\ pen' \in [Term -> Pens] /\ Living' = Living \cup {t} /\ t \notin Living
        /\ \A u \in Term : pen[u].alive => pen'[u].alive
    BY <1>0, <2>0, <2>1 DEF Living
  <2>3. (refs = Cardinality(Living))' /\ refs \in Nat
    BY <2>0, <2>2, LivingFinite, FS_AddElement DEF CacheInv, TypeOK
  <2>4. CASE refs = 0 /\ Profile
    <3> DEFINE black == {p \in Pair : table[p] = Black}
    <3>1. reserved' = IF black = {} THEN NoPair ELSE Least(black)
      BY <2>4 DEF Profile
    <3>2. reserved' \in Pair \cup {NoPair}
          /\ (reserved' # NoPair => reserved' \in black)
      <4>1. CASE black = {}
        BY <3>1, <4>1
      <4>2. CASE black # {}
        <5>1. Least(black) \in black
          BY <4>2, LeastExists
        <5> QED BY <3>1, <4>2, <5>1
      <4> QED BY <4>1, <4>2
    <3>3. /\ entry' = [p \in Pair |-> [fg |-> table[p][1], bg |-> table[p][2],
                                       origin |-> None, custom |-> FALSE]]
          /\ order' = [k \in Pair |-> k]
      BY <2>4 DEF Profile
    <3>4. \A p \in Pair : table[p] \in Color \X Color
      BY <1>0 DEF TypeOK
    <3>5. TypeOK'
      <4>1. entry' \in [Pair -> [fg : Color, bg : Color, origin : Term \cup {None},
                                 custom : BOOLEAN]]
        BY <3>3, <3>4
      <4> QED BY <1>0, <2>0, <2>2, <2>3, <3>2, <3>3, <4>1 DEF TypeOK
    <3>6. \A p \in Pair : entry[p].origin = None
      <4> SUFFICES ASSUME NEW p \in Pair, entry[p].origin # None PROVE FALSE
        OBVIOUS
      <4>1. entry[p].origin \in Living
        BY <1>0 DEF CacheInv, NoOrphans, TypeOK, Living
      <4> QED BY <2>4, <4>1, LivingFinite, FS_EmptySet DEF CacheInv
    <3>7. HostPairsAreKept'
      BY <2>0, <3>3, <3>6 DEF CacheInv, HostPairsAreKept
    <3>8. NoOrphans' /\ CacheMirrorsCurses' /\ Whole(order)'
      BY <2>0, <3>3, <3>4 DEF NoOrphans, CacheMirrorsCurses, Whole
    <3>9. ReservedStaysBlack'
      BY <2>0, <3>2, <3>3 DEF ReservedStaysBlack
    <3> QED BY <2>3, <3>5, <3>7, <3>8, <3>9 DEF CacheInv
  <2>5. CASE refs > 0 /\ UNCHANGED <<reserved, entry, order>>
    <3>1. TypeOK'
      BY <1>0, <2>0, <2>2, <2>3, <2>5 DEF TypeOK
    <3>2. NoOrphans'
      BY <1>0, <2>0, <2>2, <2>5 DEF CacheInv, NoOrphans, TypeOK
    <3>3. CacheMirrorsCurses' /\ ReservedStaysBlack' /\ HostPairsAreKept'
          /\ Whole(order)'
      BY <2>0, <2>5 DEF CacheInv, CacheMirrorsCurses, ReservedStaysBlack,
                        HostPairsAreKept
    <3> QED BY <2>3, <3>1, <3>2, <3>3 DEF CacheInv
  <2> QED BY <1>2, <2>4, <2>5 DEF Create
<1>3. ASSUME NEW t \in Term, Destroy(t) PROVE CacheInv'
  <2>0. /\ pen[t].alive /\ pen' = [pen EXCEPT ![t] = Gone] /\ refs' = refs - 1
        /\ table' = [p \in Pair |-> IF p \in Owned(t) THEN Black ELSE table[p]]
    BY <1>3 DEF Destroy
  <2>1. Gone \in Pens /\ ~Gone.alive
    BY <1>0 DEF Gone, Fresh
  <2>2. /\ pen' \in [Term -> Pens] /\ Living' = Living \ {t} /\ t \in Living
        /\ \A u \in Term \ {t} : pen'[u] = pen[u]
    BY <1>0, <2>0, <2>1 DEF Living
  <2>3. (refs = Cardinality(Living))' /\ refs \in Nat /\ refs - 1 \in Nat
    <3>1. Cardinality(Living') = Cardinality(Living) - 1
          /\ Cardinality(Living') \in Nat
      BY <2>2, LivingFinite, FS_RemoveElement, FS_CardinalityType, FS_Subset
    <3> QED BY <2>0, <3>1 DEF CacheInv, TypeOK
  <2>4. table' \in [Pair -> Color \X Color]
    BY <1>0, <2>0 DEF TypeOK, Black
  <2>5. \A p \in Pair : p \in Owned(t) <=> entry[p].origin = t
    BY <1>0 DEF Owned, CacheInv, NoOrphans, TypeOK
  <2>6. CASE refs = 1 /\ Released
    <3>1. /\ reserved' = NoPair /\ entry' = [p \in Pair |-> NoEntry]
          /\ order' = [k \in Pair |-> k]
      BY <2>6 DEF Released
    <3>2. TypeOK'
      <4>1. NoEntry \in [fg : Color, bg : Color, origin : Term \cup {None},
                         custom : BOOLEAN]
        BY <1>0 DEF NoEntry
      <4> QED BY <2>2, <2>3, <2>0, <2>4, <3>1, <4>1 DEF TypeOK
    <3>3. Living = {t}
      <4>1. \E u : Living = {u}
        BY <2>6, LivingFinite, FS_Singleton, Zenon DEF CacheInv
      <4> QED BY <2>2, <4>1
    <3>4. \A p \in Pair : p \notin Owned(t) => entry[p].origin = None
      BY <1>0, <2>5, <3>3 DEF CacheInv, NoOrphans, TypeOK, Living
    <3>5. HostPairsAreKept'
      BY <1>0, <2>0, <2>5, <3>1, <3>4 DEF CacheInv, HostPairsAreKept, NoEntry
    <3>6. NoOrphans' /\ CacheMirrorsCurses' /\ ReservedStaysBlack' /\ Whole(order)'
      BY <2>0, <2>6, <3>1 DEF NoOrphans, CacheMirrorsCurses,
                              ReservedStaysBlack, Whole, NoEntry
    <3> QED BY <2>3, <3>2, <3>5, <3>6 DEF CacheInv
  <2>7. CASE /\ refs > 1
             /\ entry' = [p \in Pair |->
                            IF p \in Owned(t) THEN Disowned(p) ELSE entry[p]]
             /\ UNCHANGED <<reserved, order>>
    <3>1. \A p \in Pair :
            /\ p \in Owned(t) =>
                 /\ table'[p] = Black
                 /\ entry'[p] = [fg |-> 0, bg |-> 0, origin |-> None,
                                 custom |-> entry[p].custom]
            /\ p \notin Owned(t) => table'[p] = table[p] /\ entry'[p] = entry[p]
      BY <2>0, <2>7 DEF Disowned
    <3>2. TypeOK'
      <4>1. entry' \in [Pair -> [fg : Color, bg : Color, origin : Term \cup {None},
                                 custom : BOOLEAN]]
        BY <1>0, <2>7 DEF TypeOK, Disowned
      <4> QED BY <1>0, <2>0, <2>2, <2>3, <2>4, <2>7, <4>1 DEF TypeOK
    <3>3. NoOrphans'
      <4> SUFFICES ASSUME NEW p \in Pair, entry'[p].origin # None
                   PROVE  entry'[p].custom /\ pen'[entry'[p].origin].alive
        BY DEF NoOrphans
      <4>0. p \in Owned(t) => entry'[p].origin = None
        <5>1. ASSUME NEW b
              PROVE  [fg |-> 0, bg |-> 0, origin |-> None, custom |-> b].origin = None
          OBVIOUS
        <5> QED BY <3>1, <5>1
      <4>1. p \notin Owned(t) /\ entry'[p] = entry[p]
        BY <3>1, <4>0
      <4>2. entry[p].origin \in Term \ {t}
        BY <1>0, <2>5, <4>1 DEF TypeOK
      <4> QED BY <2>2, <4>1, <4>2 DEF CacheInv, NoOrphans
    <3>4. CacheMirrorsCurses'
      <4> SUFFICES ASSUME NEW p \in Pair
                   PROVE  table'[p] = <<entry'[p].fg, entry'[p].bg>>
        BY DEF CacheMirrorsCurses
      <4>1. table[p] = <<entry[p].fg, entry[p].bg>>
        BY <2>3, <2>7 DEF CacheInv, CacheMirrorsCurses
      <4>2. CASE p \in Owned(t)
        <5> DEFINE e == [fg |-> 0, bg |-> 0, origin |-> None,
                         custom |-> entry[p].custom]
        <5>1. table'[p] = Black /\ entry'[p] = e
          BY <3>1, <4>2
        <5>2. e.fg = 0 /\ e.bg = 0
          OBVIOUS
        <5> QED BY <5>1, <5>2 DEF Black
      <4>3. CASE p \notin Owned(t)
        BY <3>1, <4>1, <4>3
      <4> QED BY <4>2, <4>3
    <3>5. ReservedStaysBlack'
      <4> SUFFICES ASSUME reserved # NoPair
                   PROVE  table'[reserved] = Black /\ entry'[reserved].origin = None
        BY <2>7 DEF ReservedStaysBlack
      <4>1. reserved \in Pair /\ t # None
        BY <1>0 DEF TypeOK
      <4>2. table[reserved] = Black /\ entry[reserved].origin = None
        BY <2>3, <2>7 DEF CacheInv, ReservedStaysBlack
      <4> QED BY <2>5, <3>1, <4>1, <4>2
    <3>6. HostPairsAreKept'
      BY <1>0, <2>5, <3>1 DEF CacheInv, HostPairsAreKept
    <3> QED BY <1>0, <2>3, <2>7, <3>2, <3>3, <3>4, <3>5, <3>6 DEF CacheInv
  <2> QED BY <1>3, <2>6, <2>7 DEF Destroy
<1>4. ASSUME NEW t \in Term PROVE /\ Whole(Split(t))
                                  /\ Default(t).fg \in Color
                                  /\ Default(t).bg \in Color
                                  /\ pen[t].default \in Pair
  <2>1. pen[t].default \in Pair
    BY <1>0
  <2>2. Position(order, pen[t].default) \in Pair
    BY <1>0, <2>1, PositionOfPair
  <2>3. Whole(Split(t))
    BY <1>0, <2>2, HeadWhole DEF Split
  <2> QED BY <1>0, <2>1, <2>3 DEF Default, TypeOK
<1>5. ASSUME NEW t \in Term, SetForeground(t) PROVE CacheInv'
  <2>1. PICK c \in Color : SetColorPair(t, [pen[t] EXCEPT !.fg = c], order)
    BY <1>5 DEF SetForeground
  <2>2. [pen[t] EXCEPT !.fg = c] \in Pens /\ [pen[t] EXCEPT !.fg = c].alive
        /\ pen[t].alive
    BY <1>0, <1>5 DEF SetForeground
  <2> QED BY <1>0, <2>1, <2>2, SetColorPairKeepsInv
<1>6. ASSUME NEW t \in Term, SetBackground(t) PROVE CacheInv'
  <2>1. PICK c \in Color : SetColorPair(t, [pen[t] EXCEPT !.bg = c], order)
    BY <1>6 DEF SetBackground
  <2>2. [pen[t] EXCEPT !.bg = c] \in Pens /\ [pen[t] EXCEPT !.bg = c].alive
        /\ pen[t].alive
    BY <1>0, <1>6 DEF SetBackground
  <2> QED BY <1>0, <2>1, <2>2, SetColorPairKeepsInv
<1>7. ASSUME NEW t \in Term, Reset(t) PROVE CacheInv'
  <2> DEFINE w == [pen[t] EXCEPT !.fg = Default(t).fg, !.bg = Default(t).bg,
                                 !.colors = pen[t].default]
  <2>1. w \in Pens /\ w.alive /\ pen[t].alive
    BY <1>0, <1>4, <1>7 DEF Reset
  <2>2. /\ pen' = [pen EXCEPT ![t] = w] /\ order' = Split(t)
        /\ UNCHANGED <<table, refs, reserved, entry>>
    BY <1>0, <1>7 DEF Reset
  <2> QED BY <1>1, <1>4, <2>1, <2>2
<1>8. ASSUME NEW t \in Term, ResetForeground(t) PROVE CacheInv'
  <2> DEFINE w == [pen[t] EXCEPT !.fg = Default(t).fg]
  <2>1. w \in Pens /\ w.alive /\ pen[t].alive /\ SetColorPair(t, w, Split(t))
    BY <1>0, <1>4, <1>8 DEF ResetForeground
  <2> QED BY <1>0, <1>4, <2>1, SetColorPairKeepsInv
<1>9. ASSUME NEW t \in Term, ResetBackground(t) PROVE CacheInv'
  <2> DEFINE w == [pen[t] EXCEPT !.bg = Default(t).bg]
  <2>1. w \in Pens /\ w.alive /\ pen[t].alive /\ SetColorPair(t, w, Split(t))
    BY <1>0, <1>4, <1>9 DEF ResetBackground
  <2> QED BY <1>0, <1>4, <2>1, SetColorPairKeepsInv
<1>10. ASSUME NEW t \in Term, SetColors(t) PROVE CacheInv'
  <2>1. PICK fg \in Color, bg \in Color :
          /\ order' = IF Matches(order, fg, bg) = {} THEN order
                      ELSE ToHead(order, Least(Matches(order, fg, bg)))
          /\ pen' = [pen EXCEPT ![t].default = Chosen(Matches(order, fg, bg))]
    BY <1>10 DEF SetColors
  <2> DEFINE found == Matches(order, fg, bg)
             w == [pen[t] EXCEPT !.default = Chosen(found)]
  <2>2. Chosen(found) \in Pair /\ Whole(order')
    <3>1. CASE found = {}
      BY <1>0, <2>1, <3>1 DEF Chosen
    <3>2. CASE found # {}
      <4>1. Least(found) \in Pair
        BY <3>2, LeastExists DEF Matches
      <4>2. order[Least(found)] \in Pair
        BY <1>0, <4>1 DEF Whole
      <4>3. Whole(ToHead(order, Least(found)))
        BY <1>0, <4>1, HeadWhole
      <4> QED BY <2>1, <3>2, <4>2, <4>3 DEF Chosen
    <3> QED BY <3>1, <3>2
  <2>3. pen[t].alive /\ UNCHANGED <<table, refs, reserved, entry>>
    BY <1>10 DEF SetColors
  <2> HIDE DEF found
  <2>4. w \in Pens /\ w.alive /\ pen' = [pen EXCEPT ![t] = w]
    BY <1>0, <2>1, <2>2, <2>3 DEF found
  <2> QED BY <1>1, <2>2, <2>3, <2>4
<1>11. ASSUME NEW t \in Term, EraseScreen(t) PROVE CacheInv'
  <2> DEFINE w == [pen[t] EXCEPT !.default = pen[t].colors]
  <2>1. /\ w \in Pens /\ w.alive /\ pen[t].alive /\ pen' = [pen EXCEPT ![t] = w]
        /\ UNCHANGED <<table, refs, reserved, entry, order>>
    BY <1>0, <1>11 DEF EraseScreen, cacheVars
  <2> QED BY <1>0, <1>1, <2>1
<1>12. CASE UNCHANGED colorVars
  BY <1>12 DEF colorVars, cacheVars, CacheInv, TypeOK, Living, NoOrphans, Whole,
     CacheMirrorsCurses, ReservedStaysBlack, HostPairsAreKept
<1> QED BY <1>2, <1>3, <1>5, <1>6, <1>7, <1>8, <1>9, <1>10, <1>11, <1>12 DEF Next

-----------------------------------------------------------------------------
(* What follows *)

\* The inductive invariant holds throughout.
THEOREM CacheInvariant == Spec => []CacheInv
BY InitCache, NextKeepsInv, PTL DEF Spec

\* Every variable keeps its type: no lookup leaves the list, no terminal a pair
\* curses does not have.
THEOREM ColorTyping == Spec => []TypeOK
<1>1. CacheInv => TypeOK
  BY DEF CacheInv
<1> QED BY <1>1, CacheInvariant, PTL

\* No pair is lost from the list or is in it twice.
THEOREM ListStaysWhole == Spec => []ListIsWhole
<1>1. CacheInv => ListIsWhole
  BY DEF CacheInv, Whole, ListIsWhole
<1> QED BY <1>1, CacheInvariant, PTL

\* What the cache says of a pair is what curses shows for it.
THEOREM CacheIsCoherent == Spec => []CacheMirrorsCurses
<1>1. CacheInv => CacheMirrorsCurses
  BY DEF CacheInv
<1> QED BY <1>1, CacheInvariant, PTL

\* No pair belongs to a terminal that is gone.
THEOREM NoPairIsOrphaned == Spec => []NoOrphans
<1>1. CacheInv => NoOrphans
  BY DEF CacheInv
<1> QED BY <1>1, CacheInvariant, PTL

\* Text hidden with the reserved pair stays hidden.
THEOREM HiddenTextStaysHidden == Spec => []ReservedStaysBlack
<1>1. CacheInv => ReservedStaysBlack
  BY DEF CacheInv
<1> QED BY <1>1, CacheInvariant, PTL

\* The host's pairs are back when the last terminal is gone: every pair a
\* terminal took was black, and there is nobody left to own one.
THEOREM HostIsRestored == Spec => []HostPairsComeBack
<1>1. CacheInv => HostPairsComeBack
  <2> SUFFICES ASSUME CacheInv, refs = 0 PROVE table = HostTable
    BY DEF HostPairsComeBack
  <2>1. Living = {}
    BY LivingFinite, FS_EmptySet DEF CacheInv
  <2>2. \A p \in Pair : entry[p].origin = None
    BY <2>1 DEF CacheInv, NoOrphans, TypeOK, Living
  <2>3. \A p \in Pair : table[p] = HostTable[p]
    BY <2>2 DEF CacheInv, HostPairsAreKept
  <2> QED BY <2>3, ColorAssumption DEF CacheInv, TypeOK
<1> QED BY <1>1, CacheInvariant, PTL

\* A pair in use keeps its colors while its owner lives, and the host's own
\* pairs keep theirs for good.
THEOREM ColorsAreKept == Spec => OwnedPairsKeepTheirColors
<1>1. ASSUME CacheInv, [Next]_colorVars
      PROVE  [\A p \in Pair : table'[p] # table[p] =>
                \/ table[p] = Black /\ p # reserved
                \/ /\ entry[p].origin # None
                   /\ ~pen'[entry[p].origin].alive]_colorVars
  <2> SUFFICES ASSUME NEW p \in Pair, table'[p] # table[p]
               PROVE  \/ table[p] = Black /\ p # reserved
                      \/ /\ entry[p].origin # None
                         /\ ~pen'[entry[p].origin].alive
    OBVIOUS
  <2>1. ASSUME NEW t \in Term, NEW v, NEW o, SetColorPair(t, v, o)
        PROVE  table[p] = Black /\ p # reserved
    <3>1. Add(t, v, o)
      BY <2>1 DEF SetColorPair, Find, Nearest, Selected, Take
    <3> DEFINE q == Greatest(Unused)
    <3>2. q \in Unused
      BY <3>1, GreatestExists DEF Add, Unused
    <3>3. table' = [table EXCEPT ![q] = <<v.fg, v.bg>>]
      BY <3>1 DEF Add
    <3> HIDE DEF q
    <3>4. p = q
      BY <3>3 DEF CacheInv, TypeOK
    <3> QED BY <3>2, <3>4 DEF Unused
  <2>2. ASSUME NEW t \in Term, Destroy(t)
        PROVE  entry[p].origin # None /\ ~pen'[entry[p].origin].alive
    <3>1. p \in Owned(t)
      BY <2>2 DEF Destroy
    <3>2. entry[p].origin = t /\ t # None
      BY <3>1, ColorAssumption DEF Owned
    <3>3. pen'[t] = Gone
      BY <1>1, <2>2 DEF Destroy, CacheInv, TypeOK
    <3> QED BY <3>2, <3>3 DEF Gone, Fresh
  <2>3. ASSUME NEW t \in Term,
               \/ Create(t) \/ Reset(t) \/ SetColors(t) \/ EraseScreen(t)
        PROVE  FALSE
    BY <2>3 DEF Create, Reset, SetColors, EraseScreen
  <2>4. CASE UNCHANGED colorVars
    BY <2>4 DEF colorVars
  <2>5. ASSUME NEW t \in Term,
               \/ SetForeground(t) \/ SetBackground(t)
               \/ ResetForeground(t) \/ ResetBackground(t)
        PROVE  table[p] = Black /\ p # reserved
    BY <2>1, <2>5, Zenon DEF SetForeground, SetBackground, ResetForeground,
                             ResetBackground
  <2> QED BY <1>1, <2>2, <2>3, <2>4, <2>5 DEF Next
<1> QED BY <1>1, CacheInvariant, PTL DEF Spec, OwnedPairsKeepTheirColors

-----------------------------------------------------------------------------
(* Pen: the color map *)

\* An entry of a color map: the color of the real terminal it stands for was
\* free when it was taken, and is still defined as the entry says.
Sound(e, n, d) == e.global \in DOMAIN d /\ e.global < n /\ d[e.global] = e.rgb

\* The map m of a terminal with TRUECOLOR, where the colors from n on are free.
MapIsSound(m, n, d) ==
  /\ n \in Nat /\ n >= FirstColor
  /\ DOMAIN d = FirstColor .. host.colors - 1
  /\ m \in Seq({m[k] : k \in DOMAIN m})
  /\ \A k \in DOMAIN m : Sound(m[k], n, d)

MapInv == host \in Hosts /\ (host.TRUECOLOR => MapIsSound(map, next, defined))

\* A free color is defined; those of the entries stay as they are.
LEMMA FreeColor ==
  ASSUME host \in Hosts, MapIsSound(map, next, defined), next < host.colors, NEW rgb
  PROVE  /\ next \in DOMAIN defined
         /\ LET d == [defined EXCEPT ![next] = rgb] IN
              /\ d[next] = rgb
              /\ MapIsSound(map, next + 1, d)
<1> DEFINE d == [defined EXCEPT ![next] = rgb]
<1>1. host.colors \in Nat /\ FirstColor \in Nat
  BY PenAssumption
<1>2. /\ next \in Nat /\ next >= FirstColor
      /\ DOMAIN defined = FirstColor .. host.colors - 1
  BY DEF MapIsSound
<1>3. next \in DOMAIN defined
  BY <1>1, <1>2
<1>4. /\ d[next] = rgb /\ DOMAIN d = DOMAIN defined
      /\ \A g \in DOMAIN defined : g # next => d[g] = defined[g]
  BY <1>3
<1> HIDE DEF d
<1>5. ASSUME NEW k \in DOMAIN map PROVE Sound(map[k], next + 1, d)
  <2>1. Sound(map[k], next, defined)
    BY DEF MapIsSound
  <2>2. map[k].global \in Int
    BY <1>1, <1>2, <2>1 DEF Sound
  <2> QED BY <1>2, <1>4, <2>1, <2>2 DEF Sound
<1>6. next + 1 \in Nat /\ next + 1 >= FirstColor /\ DOMAIN d = FirstColor .. host.colors - 1
  BY <1>1, <1>2, <1>4
<1>7. map \in Seq({map[k] : k \in DOMAIN map})
  BY DEF MapIsSound
<1>8. MapIsSound(map, next + 1, d)
  BY <1>5, <1>6, <1>7, Zenon DEF MapIsSound
<1> QED BY <1>3, <1>4, <1>8 DEF d

\* An entry is put at the end of a map.
LEMMA MapGrows ==
  ASSUME NEW m, NEW n, NEW d, MapIsSound(m, n, d), NEW e, Sound(e, n, d)
  PROVE  MapIsSound(Append(m, e), n, d)
<1> DEFINE S == {m[k] : k \in DOMAIN m} \cup {e}
           a == Append(m, e)
<1>1. m \in Seq(S)
  BY DEF MapIsSound
<1>2. /\ a \in Seq(S) /\ Len(a) = Len(m) + 1 /\ a[Len(m) + 1] = e
      /\ \A k \in 1 .. Len(m) : a[k] = m[k]
  BY <1>1, AppendProperties
<1>3. Len(m) \in Nat /\ DOMAIN m = 1 .. Len(m) /\ DOMAIN a = 1 .. Len(m) + 1
  BY <1>1, <1>2
<1> HIDE DEF S, a
<1>4. a \in Seq({a[k] : k \in DOMAIN a})
  BY <1>2
<1>5. ASSUME NEW k \in DOMAIN a PROVE Sound(a[k], n, d)
  <2>1. CASE k = Len(m) + 1 BY <1>2, <2>1
  <2>2. CASE k # Len(m) + 1
    <3>1. k \in 1 .. Len(m) BY <1>3, <2>2
    <3> QED BY <1>2, <1>3, <3>1 DEF MapIsSound
  <2> QED BY <2>1, <2>2
<1> QED BY <1>4, <1>5 DEF MapIsSound, a

\* vtty_add_mapped_color keeps the map, or defines the next free color.
LEMMA MappingsSound ==
  ASSUME MapInv, host.TRUECOLOR, NEW c, NEW rgb, NEW m \in Mappings(c, rgb)
  PROVE  MapIsSound(m.map, m.next, m.defined)
<1> DEFINE full == [k \in 1 .. 3 |-> Min({255, rgb[k]})]
<1>0. host \in Hosts /\ MapIsSound(map, next, defined)
  BY DEF MapInv
<1>1. \/ \E x : m = Kept(x)
      \/ next < host.colors /\ m = Redefined(c, full)
  <2>1. host.colors \in Int /\ next \in Int
    BY <1>0, PenAssumption DEF MapIsSound
  <2> HIDE DEF full
  <2> QED BY <2>1 DEF Mappings, full
<1>2. CASE \E x : m = Kept(x)
  BY <1>0, <1>2 DEF Kept
<1>3. CASE next < host.colors /\ m = Redefined(c, full)
  <2> DEFINE d == [defined EXCEPT ![next] = full]
             e == [private |-> c, rgb |-> full, global |-> next]
  <2>1. m.map = Append(map, e) /\ m.next = next + 1 /\ m.defined = d
    BY <1>3 DEF Redefined, Appended
  <2>2. next \in DOMAIN defined /\ d[next] = full /\ MapIsSound(map, next + 1, d)
    BY <1>0, <1>3, FreeColor
  <2>3. Sound(e, next + 1, d)
    <3>1. DOMAIN d = DOMAIN defined /\ next \in Nat
      BY <1>0 DEF MapIsSound
    <3> HIDE DEF d, full
    <3> QED BY <2>2, <3>1 DEF Sound
  <2> HIDE DEF d, e
  <2> QED BY <2>1, <2>2, <2>3, MapGrows
<1> QED BY <1>1, <1>2, <1>3

\* The map changes by what vtty_add_mapped_color returns, and another terminal
\* only takes free colors.
LEMMA MapKept == ASSUME MapInv, [PenNext]_penVars PROVE MapInv'
<1>1. ASSUME UNCHANGED <<host, mapVars>> PROVE MapInv'
  BY <1>1 DEF MapInv, MapIsSound, Sound, mapVars
<1>2. ASSUME host' = host, NEW c, NEW rgb, NEW m \in Mappings(c, rgb), Remember(m)
      PROVE  MapInv'
  <2>1. host.TRUECOLOR => MapIsSound(m.map, m.next, m.defined)
    BY MappingsSound
  <2> QED BY <1>2, <2>1 DEF MapInv, Remember, MapIsSound
<1>3. CASE SGR /\ (Attributes \/ Defaults \/ PlainColor \/ Unknown)
  BY <1>1, <1>3 DEF SGR, Attributes, Defaults, PlainColor, Unknown
<1>4. CASE SGR /\ BrightColor
  <2>1. host' = host BY <1>4 DEF SGR
  <2>2. \/ \E m \in Mappings(Code, C16Color[(Code % 10) + 1]) : Remember(m)
        \/ UNCHANGED mapVars
    BY <1>4, Zenon DEF BrightColor
  <2> QED BY <1>1, <1>2, <2>1, <2>2
<1>5. CASE SGR /\ CustomColor
  <2>1. host' = host BY <1>5 DEF SGR
  <2>2. PICK x \in CustomColors : Remember(x.m)
    BY <1>5, Zenon DEF CustomColor
  <2>3. \/ \E v : x.m = Kept(v)
        \/ \E k : x.m \in Mappings(NoColor, RgbAt(k))
    <3> DEFINE failed == [color |-> NoColor, m |-> Kept(NoColor), used |-> Rest]
               full(r, k) == [color |-> r.color, m |-> r, used |-> Consumed(k + 2)]
    <3>1. \/ x = failed
          \/ x = [color |-> param[arg + 2], m |-> Kept(NoColor), used |-> Consumed(2)]
          \/ \E k, c : x = full(Kept(c), k)
          \/ \E k : \E r \in Mappings(NoColor, RgbAt(k)) : x = full(r, k)
      BY <2>2, Zenon DEF CustomColors, Redefinitions
    <3> QED BY <3>1
  <2>4. CASE \E v : x.m = Kept(v)
    <3>1. UNCHANGED mapVars BY <2>2, <2>4 DEF Remember, Kept, mapVars
    <3> QED BY <1>1, <2>1, <3>1
  <2>5. CASE \E k : x.m \in Mappings(NoColor, RgbAt(k))
    BY <1>2, <2>1, <2>2, <2>5
  <2> QED BY <2>3, <2>4, <2>5
<1>6. CASE Receive
  BY <1>1, <1>6 DEF Receive
<1>7. CASE DefineColor
  <2>1. host' = host BY <1>7 DEF DefineColor
  <2>2. \E d \in Palette : \E m \in Mappings(d[1], d[2]) : Remember(m)
    BY <1>7, Zenon DEF DefineColor
  <2> QED BY <1>2, <2>1, <2>2
<1>8. CASE DefineElsewhere
  <2>1. MapIsSound(map, next + 1, [defined EXCEPT ![next] = <<1, 1, 1>>])
    BY <1>8, FreeColor DEF DefineElsewhere, MapInv
  <2>2. /\ host' = host /\ map' = map /\ next' = next + 1
        /\ defined' = [defined EXCEPT ![next] = <<1, 1, 1>>]
    BY <1>8 DEF DefineElsewhere
  <2> QED BY <2>1, <2>2 DEF MapInv, MapIsSound
<1>9. CASE UNCHANGED penVars
  BY <1>1, <1>9 DEF penVars, mapVars
<1> QED BY <1>3, <1>4, <1>5, <1>6, <1>7, <1>8, <1>9 DEF PenNext, SGR

\* A color that was defined for red, green and blue stays defined as that, for
\* every number of colors and whatever the terminals define later.
THEOREM MapStaysSound == PenSpec => []MappedColorsAreKept
<1>1. PenInit => MapInv
  <2> SUFFICES ASSUME PenInit PROVE MapInv
    OBVIOUS
  <2>1. map = <<>> /\ next = FirstColor /\ host \in Hosts
        /\ DOMAIN defined = FirstColor .. host.colors - 1
    BY DEF PenInit
  <2>2. DOMAIN map = {} /\ map \in Seq({map[k] : k \in DOMAIN map})
    BY <2>1
  <2> QED BY <2>1, <2>2, PenAssumption DEF MapInv, MapIsSound
<1>2. MapInv /\ [PenNext]_penVars => MapInv'
  BY MapKept
<1>3. MapInv => MappedColorsAreKept
  BY DEF MapInv, MapIsSound, Sound, MappedColorsAreKept
<1> QED BY <1>1, <1>2, <1>3, PTL DEF PenSpec

-----------------------------------------------------------------------------
(* Pen: the arithmetic of colors *)

\* Red, green and blue.
IsRgb(x) == x[1] \in Int /\ x[2] \in Int /\ x[3] \in Int

LEMMA DistanceType ==
  ASSUME NEW a, NEW b, IsRgb(a), IsRgb(b)
  PROVE  /\ Distance(a, b) \in Nat
         /\ Distance(a, b) = 0 <=> a[1] = b[1] /\ a[2] = b[2] /\ a[3] = b[3]
<1>1. ASSUME NEW x \in Int
      PROVE  x * x \in Nat /\ (x * x = 0 <=> x = 0)
  OBVIOUS
<1>2. \A k \in 1 .. 3 : a[k] - b[k] \in Int /\ (a[k] - b[k] = 0 <=> a[k] = b[k])
  BY DEF IsRgb
<1> DEFINE sq(k) == (a[k] - b[k]) * (a[k] - b[k])
<1>3. \A k \in 1 .. 3 : sq(k) \in Nat /\ (sq(k) = 0 <=> a[k] = b[k])
  <2> TAKE k \in 1 .. 3
  <2> QED BY <1>1, <1>2
<1>4. Distance(a, b) = sq(1) + sq(2) + sq(3)
  BY DEF Distance
<1>5. /\ sq(1) \in Nat /\ (sq(1) = 0 <=> a[1] = b[1])
      /\ sq(2) \in Nat /\ (sq(2) = 0 <=> a[2] = b[2])
      /\ sq(3) \in Nat /\ (sq(3) = 0 <=> a[3] = b[3])
  BY <1>3
<1> HIDE DEF sq
<1> QED BY <1>4, <1>5

\* The least of two numbers, and the greatest.
LEMMA MinMaxPair ==
  ASSUME NEW a \in Int, NEW b \in Int
  PROVE  /\ Min({a, b}) = IF a <= b THEN a ELSE b
         /\ Max({a, b}) = IF a >= b THEN a ELSE b
BY DEF Min, Max

\* A number brought into 0 .. 23.
LEMMA ClampRamp ==
  ASSUME NEW q \in Int
  PROVE  /\ Min({23, Max({0, q})}) \in 0 .. 23
         /\ q \in 0 .. 23 => Min({23, Max({0, q})}) = q
<1> DEFINE m == Max({0, q})
<1>1. m = (IF 0 >= q THEN 0 ELSE q)
  BY MinMaxPair
<1>2. m \in Nat /\ (q \in 0 .. 23 => m = q)
  BY <1>1
<1> HIDE DEF m
<1>3. Min({23, m}) = (IF 23 <= m THEN 23 ELSE m)
  BY <1>2, MinMaxPair
<1>4. Min({23, m}) \in 0 .. 23 /\ (q \in 0 .. 23 => Min({23, m}) = q)
  BY <1>2, <1>3
<1> QED BY <1>4 DEF m

\* Of numbers there is a least one.
LEMMA LeastKey ==
  ASSUME NEW T \in SUBSET Nat, T # {}
  PROVE  \E x \in T : \A y \in T : x <= y
<1>1. PICK x \in T : \A y \in T : ~(<<y, x>> \in OpToRel(<, Nat))
  BY NatLessThanWellFounded, WFMin, Zenon
<1>2. ASSUME NEW y \in T PROVE x <= y
  <2>1. x \in Nat /\ y \in Nat /\ ~(y < x)
    BY <1>1, LessRel, Zenon
  <2> QED BY <2>1
<1> QED BY <1>2

\* Each of the 16 colors is red, green and blue.
LEMMA AnsiType == \A n \in 0 .. 15 : IsRgb(Ansi[n + 1])
<1>1. \A n \in 1 .. 16 : IsRgb(Ansi[n])
  BY DEF Ansi, IsRgb
<1> QED BY <1>1

\* The walk over the colors finds one of the candidates.
LEMMA NearestExists ==
  ASSUME NEW x, IsRgb(x), NEW limit \in {8, 16}
  PROVE  NearestAnsi(x, limit) \in Candidates(x, limit)
<1> DEFINE C == Candidates(x, limit)
           D(n) == Distance(x, Ansi[n + 1])
           Key(n) == 16 * D(n) + (15 - n)
           T == {Key(n) : n \in C}
<1>1. C \subseteq 0 .. 15 /\ 0 \in C
  BY DEF Candidates
<1>2. \A n \in C : D(n) \in Nat
  BY <1>1, AnsiType, DistanceType
<1> HIDE DEF C, D
<1>3. T \in SUBSET Nat /\ T # {}
  BY <1>1, <1>2
<1>4. PICK t \in T : \A u \in T : t <= u
  <2> HIDE DEF T
  <2> QED BY <1>3, LeastKey
<1>5. PICK n \in C : \A k \in C : Key(n) <= Key(k)
  BY <1>4
<1>6. ASSUME NEW k \in C
      PROVE  D(n) < D(k) \/ (D(n) = D(k) /\ n >= k)
  <2>1. D(n) \in Nat /\ D(k) \in Nat /\ n \in 0 .. 15 /\ k \in 0 .. 15
    BY <1>1, <1>2
  <2>2. 16 * D(n) + (15 - n) <= 16 * D(k) + (15 - k)
    BY <1>5
  <2> DEFINE p == D(n)
             q == D(k)
  <2>3. p \in Nat /\ q \in Nat /\ 16 * p + (15 - n) <= 16 * q + (15 - k)
    BY <2>1, <2>2
  <2> HIDE DEF p, q
  <2>4. p < q \/ (p = q /\ n >= k)
    BY <2>1, <2>3
  <2> QED BY <2>4 DEF p, q
<1>7. \E m \in C : \A k \in C : D(m) < D(k) \/ (D(m) = D(k) /\ m >= k)
  BY <1>6
<1> QED BY <1>7, Zenon DEF NearestAnsi, C, D

\* A number that looks gray.
GrayNumber == {16, 59, 102, 145, 188, 231} \cup 232 .. 255

\* What the numbers look like.
LEMMA CubeType ==
  ASSUME NEW s \in 0 .. 5
  PROVE  Cube[s + 1] \in 0 .. 255 /\ CubeStep(Cube[s + 1]) = s
BY MinMaxPair DEF Cube, CubeStep

LEMMA CubeLook ==
  ASSUME NEW c \in 16 .. 231
  PROVE  \E a, b, d \in 0 .. 5 :
           /\ c = 16 + 36 * a + 6 * b + d
           /\ Look(c) = <<Cube[a + 1], Cube[b + 1], Cube[d + 1]>>
<1> DEFINE n == c - 16
<1>1. /\ n \div 36 \in 0 .. 5 /\ (n \div 6) % 6 \in 0 .. 5 /\ n % 6 \in 0 .. 5
      /\ n = 36 * (n \div 36) + 6 * ((n \div 6) % 6) + (n % 6)
  <2>0. n \in 0 .. 215
    OBVIOUS
  <2> HIDE DEF n
  <2>1. n = 6 * (n \div 6) + (n % 6) /\ n % 6 \in 0 .. 5 /\ n \div 6 \in 0 .. 35
    BY <2>0
  <2> DEFINE m == n \div 6
  <2>2. m = 6 * (m \div 6) + (m % 6) /\ m % 6 \in 0 .. 5 /\ m \div 6 \in 0 .. 5
    <3> HIDE DEF m
    <3>1. m \in 0 .. 35 BY <2>1 DEF m
    <3> QED BY <3>1
  <2>3. n \div 36 \in 0 .. 5 /\ 36 * (n \div 36) <= n /\ n < 36 * (n \div 36) + 36
    BY <2>0
  <2>4. n \div 36 = m \div 6
    BY <2>0, <2>1, <2>2, <2>3
  <2> QED BY <2>1, <2>2, <2>3, <2>4
<1>2. Look(c) = <<Cube[n \div 36 + 1], Cube[((n \div 6) % 6) + 1], Cube[(n % 6) + 1]>>
  BY DEF Look
<1> HIDE DEF n
<1>3. c = 16 + n /\ n \in Nat
  BY DEF n
<1> QED BY <1>1, <1>2, <1>3

LEMMA GrayLook ==
  ASSUME NEW c \in 232 .. 255
  PROVE  Look(c) = [k \in 1 .. 3 |-> 8 + 10 * (c - 232)]
BY DEF Look

LEMMA SameMinMax ==
  ASSUME NEW v \in Int
  PROVE  Max({v, v, v}) - Min({v, v, v}) <= 24
<1>1. {v, v, v} = {v}
  OBVIOUS
<1>2. Min({v}) = v /\ Max({v}) = v
  BY DEF Min, Max
<1> QED BY <1>1, <1>2

\* The six grays of the cube and the 24 of the ramp are gray.
LEMMA GrayIsGray ==
  ASSUME NEW c \in GrayNumber
  PROVE  IsRgb(Look(c)) /\ IsGray(Look(c))
<1>1. \E v \in Int : Look(c)[1] = v /\ Look(c)[2] = v /\ Look(c)[3] = v
  <2>1. CASE c \in 232 .. 255
    <3>1. 8 + 10 * (c - 232) \in Int
      BY <2>1
    <3> QED BY <2>1, <3>1, GrayLook
  <2>2. CASE c \in {16, 59, 102, 145, 188, 231}
    <3>1. PICK a \in 0 .. 5 : c = 16 + 36 * a + 6 * a + a
      <4>1. \E a \in {0, 1, 2, 3, 4, 5} : c = 16 + 43 * a
        BY <2>2
      <4> QED BY <4>1
    <3>2. (c - 16) \div 36 = a /\ ((c - 16) \div 6) % 6 = a /\ (c - 16) % 6 = a
      BY <3>1
    <3>3. Cube[a + 1] \in Int
      BY CubeType
    <3>4. c < 232
      BY <2>2
    <3>5. Look(c) = <<Cube[a + 1], Cube[a + 1], Cube[a + 1]>>
      BY <3>2, <3>4 DEF Look
    <3> QED BY <3>3, <3>5
  <2> QED BY <2>1, <2>2 DEF GrayNumber
<1>2. PICK v \in Int : Look(c)[1] = v /\ Look(c)[2] = v /\ Look(c)[3] = v
  BY <1>1
<1>3. Components(Look(c)) = {v, v, v}
  BY <1>2 DEF Components
<1> QED BY <1>2, <1>3, SameMinMax DEF IsRgb, IsGray

\* A gray is fitted to black, white or a bright form of one.
LEMMA GrayFits ==
  ASSUME NEW c \in GrayNumber, NEW colors \in Nat, ~Fits(colors)
  PROVE  Fit(c, colors) \in {0, 7, 8, 15}
<1>1. c \in 16 .. 255 /\ Limit(colors) \in {8, 16}
  BY DEF GrayNumber, Limit
<1>2. Fit(c, colors) = NearestAnsi(Look(c), Limit(colors))
  BY <1>1 DEF Fit
<1>3. Fit(c, colors) \in Candidates(Look(c), Limit(colors)) /\ IsGray(Look(c))
  BY <1>1, <1>2, GrayIsGray, NearestExists
<1>4. /\ Fit(c, colors) \in 0 .. 15
      /\ Fit(c, colors) % 8 \in {0, 7}
  BY <1>1, <1>3 DEF Candidates
<1> QED BY <1>4

\* A color of the cube is matched to a number that looks like it.
LEMMA CubeRoundTrip ==
  ASSUME NEW c \in 16 .. 231
  PROVE  Look(XtermOf(Look(c))) = Look(c)
<1>1. PICK a \in 0 .. 5, b \in 0 .. 5, d \in 0 .. 5 :
        /\ c = 16 + 36 * a + 6 * b + d
        /\ Look(c) = <<Cube[a + 1], Cube[b + 1], Cube[d + 1]>>
  BY CubeLook
<1> DEFINE rgb == Look(c)
           step == [k \in 1 .. 3 |-> CubeStep(rgb[k])]
           cube == [k \in 1 .. 3 |-> Cube[step[k] + 1]]
           ramp == Min({23, Max({0, (rgb[1] + rgb[2] + rgb[3] - 24) \div 30})})
           gray == [k \in 1 .. 3 |-> 8 + 10 * ramp]
<1>2. step[1] = a /\ step[2] = b /\ step[3] = d
  BY <1>1, CubeType
<1>3. cube[1] = rgb[1] /\ cube[2] = rgb[2] /\ cube[3] = rgb[3]
  BY <1>1, <1>2
<1>4. IsRgb(rgb) /\ IsRgb(cube)
  BY <1>1, <1>3, CubeType DEF IsRgb
<1>5. ramp \in 0 .. 23
  <2>1. (rgb[1] + rgb[2] + rgb[3] - 24) \div 30 \in Int
    BY <1>4 DEF IsRgb
  <2> HIDE DEF rgb
  <2> QED BY <2>1, ClampRamp
<1>6. IsRgb(gray)
  BY <1>5 DEF IsRgb
<1> HIDE DEF ramp
<1>7. Distance(rgb, cube) = 0 /\ Distance(rgb, gray) \in Nat
  <2> HIDE DEF rgb, cube, gray
  <2> QED BY <1>3, <1>4, <1>6, DistanceType
<1>8. XtermOf(rgb) = IF Distance(rgb, gray) < Distance(rgb, cube)
                     THEN 232 + ramp
                     ELSE 16 + 36 * step[1] + 6 * step[2] + step[3]
  <2> HIDE DEF rgb
  <2> QED BY DEF XtermOf, ramp
<1>9. XtermOf(rgb) = c
  <2> HIDE DEF rgb, cube, gray, step
  <2> QED BY <1>1, <1>2, <1>7, <1>8
<1> QED BY <1>9

\* So is a gray of the ramp.
LEMMA RampRoundTrip ==
  ASSUME NEW c \in 232 .. 255
  PROVE  Look(XtermOf(Look(c))) = Look(c)
<1> DEFINE rgb == Look(c)
           step == [k \in 1 .. 3 |-> CubeStep(rgb[k])]
           cube == [k \in 1 .. 3 |-> Cube[step[k] + 1]]
           ramp == Min({23, Max({0, (rgb[1] + rgb[2] + rgb[3] - 24) \div 30})})
           gray == [k \in 1 .. 3 |-> 8 + 10 * ramp]
           v == 8 + 10 * (c - 232)
           s == CubeStep(v)
<1>1. rgb = [k \in 1 .. 3 |-> v] /\ v \in 8 .. 238
  BY GrayLook
<1>2. s \in 0 .. 5
  BY <1>1, MinMaxPair DEF CubeStep
<1>3. ramp = c - 232
  <2>1. (rgb[1] + rgb[2] + rgb[3] - 24) \div 30 = c - 232
    BY <1>1
  <2> HIDE DEF rgb
  <2> QED BY <2>1, ClampRamp
<1>4. gray = rgb
  BY <1>1, <1>3
<1>5. step = [k \in 1 .. 3 |-> s]
  BY <1>1
<1>6. cube = [k \in 1 .. 3 |-> Cube[s + 1]] /\ Cube[s + 1] \in 0 .. 255
  BY <1>2, <1>5, CubeType
<1>7. IsRgb(rgb) /\ IsRgb(cube)
  BY <1>1, <1>6 DEF IsRgb
<1>8. XtermOf(rgb) = IF Distance(rgb, gray) < Distance(rgb, cube)
                     THEN 232 + ramp
                     ELSE 16 + 36 * step[1] + 6 * step[2] + step[3]
  <2> HIDE DEF rgb
  <2> QED BY DEF XtermOf
<1>9. Distance(rgb, gray) = 0
  BY <1>4, <1>7, DistanceType
<1>10. CASE Distance(rgb, gray) < Distance(rgb, cube)
  <2>1. XtermOf(rgb) = c
    <3> HIDE DEF rgb, cube, gray, step, ramp
    <3> QED BY <1>3, <1>8, <1>10
  <2> QED BY <2>1
<1>11. CASE ~(Distance(rgb, gray) < Distance(rgb, cube))
  <2>1. Distance(rgb, cube) = 0
    <3>1. Distance(rgb, cube) \in Nat
      BY <1>7, DistanceType
    <3> HIDE DEF rgb, cube, gray
    <3> QED BY <3>1, <1>9, <1>11
  <2>2. rgb[1] = cube[1]
    <3> HIDE DEF rgb, cube
    <3> QED BY <2>1, <1>7, DistanceType
  <2>3. v = Cube[s + 1]
    BY <1>1, <1>6, <2>2
  <2>4. XtermOf(rgb) = 16 + 43 * s
    <3> HIDE DEF rgb, cube, gray, ramp
    <3> QED BY <1>2, <1>5, <1>8, <1>11
  <2>5. Look(16 + 43 * s) = <<Cube[s + 1], Cube[s + 1], Cube[s + 1]>>
    <3> HIDE DEF s
    <3>1. 16 + 43 * s < 232 /\ (43 * s) \div 36 = s
          /\ ((43 * s) \div 6) % 6 = s /\ (43 * s) % 6 = s
          /\ (16 + 43 * s) - 16 = 43 * s
      BY <1>2
    <3> QED BY <3>1 DEF Look
  <2>6. rgb = <<v, v, v>>
    <3> HIDE DEF v
    <3> QED BY <1>1
  <2> QED BY <2>3, <2>4, <2>5, <2>6
<1> QED BY <1>10, <1>11

\* A gray is fitted to a gray, and each of the 240 colors beyond the first 16 is
\* matched to one that looks like it, on every real terminal.
THEOREM GraysStayGray == PenSpec => []FittingIsFaithful
<1>1. PenInit => host.colors \in Nat /\ host \in Hosts
  BY PenAssumption DEF PenInit
<1>2. host.colors \in Nat /\ host \in Hosts /\ [PenNext]_penVars
        => (host.colors \in Nat /\ host \in Hosts)'
  BY DEF PenNext, penVars, Receive, SGR, DefineColor, DefineElsewhere
<1>3. host.colors \in Nat /\ host \in Hosts => FittingIsFaithful
  BY GrayFits, CubeRoundTrip, RampRoundTrip DEF FittingIsFaithful, Faithful, GrayNumber
<1> QED BY <1>1, <1>2, <1>3, PTL DEF PenSpec

-----------------------------------------------------------------------------
(* Pen: two colors that are fitted together *)

\* A pen has its fields.
IsPen(p) ==
  p = [fg |-> p.fg, bg |-> p.bg, fgAsked |-> p.fgAsked, fgGiven |-> p.fgGiven,
       bgAsked |-> p.bgAsked, bgGiven |-> p.bgGiven, attr |-> p.attr, acs |-> p.acs]

\* A foreground chosen to be readable is not the background.
LEMMA ReadableDiffers ==
  ASSUME NEW bg \in 0 .. 15 PROVE Readable(bg) # bg
<1>1. Readable(0) = 7 /\ Readable(7) = 0
  BY DEF Readable, Ansi
<1>2. Readable(bg) \in {0, 7}
  BY DEF Readable
<1> QED BY <1>1, <1>2

\* A color is fitted to itself or to one of the first 16.
LEMMA FitRange ==
  ASSUME NEW c, NEW colors
  PROVE  Fit(c, colors) = c \/ Fit(c, colors) \in 0 .. 15
<1>1. Limit(colors) \in {8, 16}
  BY DEF Limit
<1>2. CASE Fits(colors) \/ c \notin 0 .. 255 \/ c < Limit(colors)
  BY <1>2, Zenon DEF Fit
<1>3. CASE ~(Fits(colors) \/ c \notin 0 .. 255 \/ c < Limit(colors)) /\ c < 16
  <2>1. Fit(c, colors) = c - 8
    BY <1>3, Zenon DEF Fit
  <2>2. c \in 8 .. 15
    BY <1>1, <1>3
  <2> QED BY <2>1, <2>2
<1>4. CASE ~(Fits(colors) \/ c \notin 0 .. 255 \/ c < Limit(colors)) /\ ~(c < 16)
  <2>1. Fit(c, colors) = NearestAnsi(Look(c), Limit(colors))
    BY <1>4, Zenon DEF Fit
  <2>2. c \in 16 .. 255
    BY <1>4
  <2>3. IsRgb(Look(c))
    <3>1. CASE c \in 16 .. 231
      <4>1. PICK x, y, z \in 0 .. 5 :
              Look(c) = <<Cube[x + 1], Cube[y + 1], Cube[z + 1]>>
        BY <3>1, CubeLook
      <4>2. \A n \in 0 .. 5 : Cube[n + 1] \in 0 .. 255
        BY CubeType
      <4>3. \A n \in 0 .. 5 : Cube[n + 1] \in Int
        BY <4>2
      <4> QED BY <4>1, <4>3 DEF IsRgb
    <3>2. CASE c \in 232 .. 255
      BY <3>2, GrayLook DEF IsRgb
    <3> QED BY <2>2, <3>1, <3>2
  <2>4. Fit(c, colors) \in Candidates(Look(c), Limit(colors))
    BY <1>1, <2>1, <2>3, NearestExists
  <2> QED BY <1>1, <2>4 DEF Candidates
<1> QED BY <1>2, <1>3, <1>4

\* _vtty_fit_colors makes two colors one exactly when they were asked for as one,
\* and what it gives them is what they are drawn in.
LEMMA FitColorsDiffer ==
  ASSUME NEW p, IsPen(p), ~Fits(host.colors)
  PROVE  LET q == FitColors(p) IN
           /\ IsPen(q)
           /\ q.fg = q.fgGiven /\ q.fgAsked = FgAsked(p)
           /\ q.bg = q.bgGiven /\ q.bgAsked = BgAsked(p)
           /\ q.fg = q.bg <=> FgAsked(p) = BgAsked(p)
<1> DEFINE bg == Fit(BgAsked(p), host.colors)
           own == Fit(FgAsked(p), host.colors)
           fg == IF own = bg /\ FgAsked(p) # BgAsked(p) /\ bg \in 0 .. 15
                 THEN Readable(bg) ELSE own
           q == FitColors(p)
<1>1. q = [p EXCEPT !.fg = fg, !.fgAsked = FgAsked(p), !.fgGiven = fg,
                    !.bg = bg, !.bgAsked = BgAsked(p), !.bgGiven = bg]
  BY Zenon DEF FitColors
<1>2. fg = bg <=> FgAsked(p) = BgAsked(p)
  <2>1. CASE FgAsked(p) = BgAsked(p)
    BY <2>1, Zenon
  <2>2. CASE FgAsked(p) # BgAsked(p)
    <3>1. bg \in 0 .. 15 => Readable(bg) # bg
      BY ReadableDiffers
    <3>2. own = bg => bg \in 0 .. 15
      <4>1. own = FgAsked(p) \/ own \in 0 .. 15
        BY FitRange
      <4>2. bg = BgAsked(p) \/ bg \in 0 .. 15
        BY FitRange
      <4> HIDE DEF bg, own
      <4> QED BY <2>2, <4>1, <4>2
    <3> HIDE DEF bg, own
    <3> QED BY <2>2, <3>1, <3>2
  <2> QED BY <2>1, <2>2
<1> HIDE DEF bg, own, fg, q
<1>3. q = [fg |-> fg, bg |-> bg, fgAsked |-> FgAsked(p), fgGiven |-> fg,
           bgAsked |-> BgAsked(p), bgGiven |-> bg, attr |-> p.attr, acs |-> p.acs]
  BY <1>1 DEF IsPen
<1> QED BY <1>2, <1>3 DEF q, IsPen

\* A wish has its fields.
IsWish(w) == w = [fg |-> w.fg, bg |-> w.bg, fitted |-> w.fitted]

\* What was last asked for in a form that is fitted is what the pen remembers, and
\* is drawn in what was given for it.
Remembers(p, w) ==
  /\ "fg" \in w.fitted => p.fg = p.fgGiven /\ p.fgAsked = w.fg
  /\ "bg" \in w.fitted => p.bg = p.bgGiven /\ p.bgAsked = w.bg

PenInv ==
  /\ IsPen(ink) /\ IsWish(wish)
  /\ ~Fits(host.colors) => Remembers(ink, wish)
  /\ FittedColorsDiffer

\* The fields of what is wished for next.
LEMMA WishFields ==
  ASSUME IsWish(wish), NEW c
  PROVE  /\ IsWish(WishFg(c)) /\ IsWish(WishBg(c))
         /\ IsWish(WishFgFitted(c)) /\ IsWish(WishBgFitted(c))
         /\ WishFg(c).bg = wish.bg /\ WishFg(c).fitted = wish.fitted \ {"fg"}
         /\ WishBg(c).fg = wish.fg /\ WishBg(c).fitted = wish.fitted \ {"bg"}
         /\ WishFgFitted(c).fg = c /\ WishFgFitted(c).bg = wish.bg
         /\ WishFgFitted(c).fitted = wish.fitted \cup {"fg"}
         /\ WishBgFitted(c).bg = c /\ WishBgFitted(c).fg = wish.fg
         /\ WishBgFitted(c).fitted = wish.fitted \cup {"bg"}
<1> DEFINE w(a, b, f) == [fg |-> a, bg |-> b, fitted |-> f]
<1>0. ASSUME NEW f
      PROVE  /\ [wish EXCEPT !.fg = c, !.fitted = f] = w(c, wish.bg, f)
             /\ [wish EXCEPT !.bg = c, !.fitted = f] = w(wish.fg, c, f)
  <2>1. ASSUME NEW r, r = [wish EXCEPT !.fg = c, !.fitted = f]
        PROVE  r = w(c, wish.bg, f)
    BY <2>1 DEF IsWish
  <2>2. ASSUME NEW r, r = [wish EXCEPT !.bg = c, !.fitted = f]
        PROVE  r = w(wish.fg, c, f)
    BY <2>2 DEF IsWish
  <2> HIDE DEF w
  <2> QED BY <2>1, <2>2, Zenon
<1>1. /\ WishFg(c) = w(c, wish.bg, wish.fitted \ {"fg"})
      /\ WishBg(c) = w(wish.fg, c, wish.fitted \ {"bg"})
      /\ WishFgFitted(c) = w(c, wish.bg, wish.fitted \cup {"fg"})
      /\ WishBgFitted(c) = w(wish.fg, c, wish.fitted \cup {"bg"})
  <2>1. /\ WishFg(c) = [wish EXCEPT !.fg = c, !.fitted = wish.fitted \ {"fg"}]
        /\ WishBg(c) = [wish EXCEPT !.bg = c, !.fitted = wish.fitted \ {"bg"}]
        /\ WishFgFitted(c) = [wish EXCEPT !.fg = c, !.fitted = wish.fitted \cup {"fg"}]
        /\ WishBgFitted(c) = [wish EXCEPT !.bg = c, !.fitted = wish.fitted \cup {"bg"}]
    BY Zenon DEF WishFg, WishBg, WishFgFitted, WishBgFitted
  <2> HIDE DEF w
  <2> QED BY <1>0, <2>1
<1>2. ASSUME NEW a, NEW b, NEW f
      PROVE  /\ IsWish(w(a, b, f)) /\ w(a, b, f).fg = a
             /\ w(a, b, f).bg = b /\ w(a, b, f).fitted = f
  BY DEF IsWish
<1> HIDE DEF w
<1> QED BY <1>1, <1>2

\* A color is set as it is: it is no longer among those that are fitted.
LEMMA PlainKept ==
  ASSUME PenInv, host' = host, NEW c, NEW d, NEW v, NEW w,
         \/ ink' = [ink EXCEPT !.fg = v] /\ wish' = WishFg(c)
         \/ ink' = [ink EXCEPT !.bg = v] /\ wish' = WishBg(c)
         \/ /\ ink' = [ink EXCEPT !.fg = v, !.bg = w, !.attr = {}]
            /\ wish' = [fg |-> c, bg |-> d, fitted |-> {}]
  PROVE  PenInv'
<1>0. IsPen(ink) /\ IsWish(wish)
  BY DEF PenInv
<1>1. CASE ink' = [ink EXCEPT !.fg = v] /\ wish' = WishFg(c)
  <2>1. /\ IsPen(ink') /\ ink'.bg = ink.bg /\ ink'.bgGiven = ink.bgGiven
        /\ ink'.bgAsked = ink.bgAsked
    BY <1>0, <1>1 DEF IsPen
  <2>2. /\ IsWish(wish') /\ wish'.bg = wish.bg
        /\ "fg" \notin wish'.fitted
        /\ "bg" \in wish'.fitted => "bg" \in wish.fitted
    BY <1>0, <1>1, WishFields
  <2> QED BY <2>1, <2>2 DEF PenInv, Remembers, FittedColorsDiffer
<1>2. CASE ink' = [ink EXCEPT !.bg = v] /\ wish' = WishBg(c)
  <2>1. /\ IsPen(ink') /\ ink'.fg = ink.fg /\ ink'.fgGiven = ink.fgGiven
        /\ ink'.fgAsked = ink.fgAsked
    BY <1>0, <1>2 DEF IsPen
  <2>2. /\ IsWish(wish') /\ wish'.fg = wish.fg
        /\ "bg" \notin wish'.fitted
        /\ "fg" \in wish'.fitted => "fg" \in wish.fitted
    BY <1>0, <1>2, WishFields
  <2> QED BY <2>1, <2>2 DEF PenInv, Remembers, FittedColorsDiffer
<1>3. CASE /\ ink' = [ink EXCEPT !.fg = v, !.bg = w, !.attr = {}]
           /\ wish' = [fg |-> c, bg |-> d, fitted |-> {}]
  <2>1. IsPen(ink') /\ IsWish(wish') /\ wish'.fitted = {}
    BY <1>0, <1>3 DEF IsPen, IsWish
  <2> QED BY <2>1 DEF PenInv, Remembers, FittedColorsDiffer
<1> QED BY <1>1, <1>2, <1>3

\* Attributes change neither the colors nor what is remembered of them.
LEMMA AttributesKept ==
  ASSUME PenInv, host' = host, wish' = wish, NEW v,
         ink' = [ink EXCEPT !.attr = v] \/ ink' = [ink EXCEPT !.acs = v]
  PROVE  PenInv'
<1>1. /\ IsPen(ink')
      /\ ink'.fg = ink.fg /\ ink'.fgGiven = ink.fgGiven /\ ink'.fgAsked = ink.fgAsked
      /\ ink'.bg = ink.bg /\ ink'.bgGiven = ink.bgGiven /\ ink'.bgAsked = ink.bgAsked
  BY DEF PenInv, IsPen
<1> QED BY <1>1 DEF PenInv, Remembers, FittedColorsDiffer

\* A color is asked for in a form that is fitted: the pen p is fitted.
LEMMA FittedKept ==
  ASSUME PenInv, host' = host, NEW p, NEW a, NEW c, ink' = FitColors(p),
         \/ p = [ink EXCEPT !.fg = c, !.fgAsked = a, !.fgGiven = c]
              /\ wish' = WishFgFitted(a)
         \/ p = [ink EXCEPT !.bg = c, !.bgAsked = a, !.bgGiven = c]
              /\ wish' = WishBgFitted(a)
  PROVE  PenInv'
<1>0. IsPen(ink) /\ IsWish(wish)
  BY DEF PenInv
<1>1. IsPen(p) /\ IsWish(wish')
  <2>1. CASE p = [ink EXCEPT !.fg = c, !.fgAsked = a, !.fgGiven = c]
               /\ wish' = WishFgFitted(a)
    <3>1. IsPen(p)
      BY <1>0, <2>1 DEF IsPen
    <3> QED BY <1>0, <2>1, <3>1, WishFields
  <2>2. CASE p = [ink EXCEPT !.bg = c, !.bgAsked = a, !.bgGiven = c]
               /\ wish' = WishBgFitted(a)
    <3>1. IsPen(p)
      BY <1>0, <2>2 DEF IsPen
    <3> QED BY <1>0, <2>2, <3>1, WishFields
  <2> QED BY <2>1, <2>2
<1>2. CASE Fits(host.colors)
  <2>1. ink' = p
    BY <1>2 DEF FitColors
  <2> QED BY <1>1, <1>2, <2>1 DEF PenInv, FittedColorsDiffer
<1>3. CASE ~Fits(host.colors)
  <2>1. /\ "fg" \in wish'.fitted => FgAsked(p) = wish'.fg
        /\ "bg" \in wish'.fitted => BgAsked(p) = wish'.bg
    <3>1. Remembers(ink, wish)
      BY <1>3 DEF PenInv
    <3>2. CASE p = [ink EXCEPT !.fg = c, !.fgAsked = a, !.fgGiven = c]
                 /\ wish' = WishFgFitted(a)
      <4>1. /\ p.fg = c /\ p.fgGiven = c /\ p.fgAsked = a /\ p.bg = ink.bg
            /\ p.bgGiven = ink.bgGiven /\ p.bgAsked = ink.bgAsked
        BY <1>0, <3>2 DEF IsPen
      <4>2. /\ wish'.fg = a /\ wish'.bg = wish.bg
            /\ "bg" \in wish'.fitted => "bg" \in wish.fitted
        BY <1>0, <3>2, WishFields
      <4> QED BY <3>1, <4>1, <4>2 DEF Remembers, FgAsked, BgAsked
    <3>3. CASE p = [ink EXCEPT !.bg = c, !.bgAsked = a, !.bgGiven = c]
                 /\ wish' = WishBgFitted(a)
      <4>1. /\ p.bg = c /\ p.bgGiven = c /\ p.bgAsked = a /\ p.fg = ink.fg
            /\ p.fgGiven = ink.fgGiven /\ p.fgAsked = ink.fgAsked
        BY <1>0, <3>3 DEF IsPen
      <4>2. /\ wish'.bg = a /\ wish'.fg = wish.fg
            /\ "fg" \in wish'.fitted => "fg" \in wish.fitted
        BY <1>0, <3>3, WishFields
      <4> QED BY <3>1, <4>1, <4>2 DEF Remembers, FgAsked, BgAsked
    <3> QED BY <3>2, <3>3
  <2>2. /\ IsPen(ink')
        /\ ink'.fg = ink'.fgGiven /\ ink'.fgAsked = FgAsked(p)
        /\ ink'.bg = ink'.bgGiven /\ ink'.bgAsked = BgAsked(p)
        /\ ink'.fg = ink'.bg <=> FgAsked(p) = BgAsked(p)
    BY <1>1, <1>3, FitColorsDiffer
  <2> QED BY <1>1, <2>1, <2>2 DEF PenInv, Remembers, FittedColorsDiffer
<1> QED BY <1>2, <1>3

\* Every parameter of a sequence keeps what is remembered of the colors.
LEMMA PenKept ==
  ASSUME PenInv, [PenNext]_penVars PROVE PenInv'
<1>1. ASSUME UNCHANGED <<host, ink, wish>> PROVE PenInv'
  BY <1>1 DEF PenInv, IsPen, IsWish, Remembers, FittedColorsDiffer
<1>2. CASE Receive \/ DefineColor \/ DefineElsewhere \/ UNCHANGED penVars
  BY <1>1, <1>2 DEF Receive, DefineColor, DefineElsewhere, penVars
<1>3. CASE SGR /\ Attributes
  <2>1. host' = host /\ wish' = wish BY <1>3 DEF SGR, Attributes
  <2>2. \E v : ink' = [ink EXCEPT !.attr = v] \/ ink' = [ink EXCEPT !.acs = v]
    <3>1. CASE Code \in DOMAIN On /\ ink' = [ink EXCEPT !.attr = @ \cup {On[Code]}]
      <4>1. ink' = [ink EXCEPT !.attr = ink.attr \cup {On[Code]}] BY <3>1, Zenon
      <4> QED BY <4>1, Zenon
    <3>2. CASE Code \in DOMAIN Off /\ ink' = [ink EXCEPT !.attr = @ \ Off[Code]]
      <4>1. ink' = [ink EXCEPT !.attr = ink.attr \ Off[Code]] BY <3>2, Zenon
      <4> QED BY <4>1, Zenon
    <3>3. CASE ink' = [ink EXCEPT !.acs = Code = 11]
      BY <3>3, Zenon
    <3> QED BY <1>3, <3>1, <3>2, <3>3, Zenon DEF Attributes
  <2> QED BY <2>1, <2>2, AttributesKept, Zenon
<1>4. CASE SGR /\ (Defaults \/ PlainColor)
  <2>1. host' = host BY <1>4 DEF SGR
  <2>2. \E c, d, v, w :
          \/ ink' = [ink EXCEPT !.fg = v] /\ wish' = WishFg(c)
          \/ ink' = [ink EXCEPT !.bg = v] /\ wish' = WishBg(c)
          \/ /\ ink' = [ink EXCEPT !.fg = v, !.bg = w, !.attr = {}]
             /\ wish' = [fg |-> c, bg |-> d, fitted |-> {}]
    BY <1>4, Zenon DEF Defaults, PlainColor
  <2> QED BY <2>1, <2>2, PlainKept, Zenon
<1>5. CASE SGR /\ BrightColor
  <2>1. host' = host BY <1>5 DEF SGR
  <2>2. \/ \E c, v : \/ ink' = [ink EXCEPT !.fg = v] /\ wish' = WishFg(c)
                     \/ ink' = [ink EXCEPT !.bg = v] /\ wish' = WishBg(c)
        \/ \E c, a :
             \/ /\ ink' = FitColors([ink EXCEPT !.fg = c, !.fgGiven = c, !.fgAsked = a])
                /\ wish' = WishFgFitted(a)
             \/ /\ ink' = FitColors([ink EXCEPT !.bg = c, !.bgGiven = c, !.bgAsked = a])
                /\ wish' = WishBgFitted(a)
    BY <1>5, Zenon DEF BrightColor
  <2>3. CASE \E c, v : \/ ink' = [ink EXCEPT !.fg = v] /\ wish' = WishFg(c)
                       \/ ink' = [ink EXCEPT !.bg = v] /\ wish' = WishBg(c)
    BY <2>1, <2>3, PlainKept, Zenon
  <2>4. ASSUME NEW c, NEW a,
               \/ /\ ink' = FitColors([ink EXCEPT !.fg = c, !.fgGiven = c, !.fgAsked = a])
                  /\ wish' = WishFgFitted(a)
               \/ /\ ink' = FitColors([ink EXCEPT !.bg = c, !.bgGiven = c, !.bgAsked = a])
                  /\ wish' = WishBgFitted(a)
        PROVE  PenInv'
    <3>1. /\ [ink EXCEPT !.fg = c, !.fgGiven = c, !.fgAsked = a]
               = [ink EXCEPT !.fg = c, !.fgAsked = a, !.fgGiven = c]
          /\ [ink EXCEPT !.bg = c, !.bgGiven = c, !.bgAsked = a]
               = [ink EXCEPT !.bg = c, !.bgAsked = a, !.bgGiven = c]
      OBVIOUS
    <3> QED BY <2>1, <2>4, <3>1, FittedKept, Zenon
  <2> QED BY <2>2, <2>3, <2>4, Zenon
<1>6. CASE SGR /\ CustomColor
  <2>1. host' = host BY <1>6 DEF SGR
  <2>2. \/ ink' = ink /\ wish' = wish
        \/ \E c :
             \/ /\ ink' = FitColors([ink EXCEPT !.fg = c, !.fgAsked = c, !.fgGiven = c])
                /\ wish' = WishFgFitted(c)
             \/ /\ ink' = FitColors([ink EXCEPT !.bg = c, !.bgAsked = c, !.bgGiven = c])
                /\ wish' = WishBgFitted(c)
    BY <1>6, Zenon DEF CustomColor
  <2>3. CASE ink' = ink /\ wish' = wish
    BY <1>1, <2>1, <2>3
  <2> QED BY <2>1, <2>2, <2>3, FittedKept, Zenon
<1>7. CASE SGR /\ Unknown
  BY <1>1, <1>7 DEF SGR, Unknown
<1> QED BY <1>2, <1>3, <1>4, <1>5, <1>6, <1>7 DEF PenNext, SGR

\* Two colors last asked for in forms that are fitted are drawn as one exactly when
\* they were asked for as one, on every real terminal, for every sequence of colors
\* and attributes and whatever was set between the two.
THEOREM FittedColorsStayApart == PenSpec => []FittedColorsDiffer
<1>1. PenInit => PenInv
  BY DEF PenInit, NewPen, PenInv, IsPen, IsWish, Remembers, FittedColorsDiffer
<1>2. PenInv /\ [PenNext]_penVars => PenInv'
  BY PenKept
<1>3. PenInv => FittedColorsDiffer
  BY DEF PenInv
<1> QED BY <1>1, <1>2, <1>3, PTL DEF PenSpec

=============================================================================
