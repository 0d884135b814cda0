---------------------------- MODULE ParserProofs ----------------------------
(***************************************************************************)
(* The parser for every terminal, everything a child sends and every way   *)
(* its bytes are split: its limits (BufferFits), that it is the parser of  *)
(* a whole string (ImplementsStream), what the host is told (HostKnows),   *)
(* that characters and payloads come back from their bytes, and that what  *)
(* is sent whole is understood (SequencesAreWhole, StringsAreKept).        *)
(***************************************************************************)
EXTENDS Stream, SequenceTheorems, FiniteSetTheorems, WellFoundedInduction, TLAPS

-----------------------------------------------------------------------------
(* The inductive invariant *)

Handlers == {"none", "osc", "csi", "scs", "dcs", "dec"}

States ==
  [escaped : BOOLEAN, osc : BOOLEAN, handler : Handlers,
   esbuf : Seq(Bytes), cap : SmallSize .. LargeSize,
   utf8 : BOOLEAN, utf8_buf : Seq(Bytes), rs1 : 0 .. Len(RS1) - 1]

\* No sequence is under way and nothing is left of the last one.
IsIdle(q) == /\ ~q.escaped /\ ~q.osc /\ q.handler = "none"
             /\ q.esbuf = <<>> /\ q.cap = SmallSize

\* What holds of a state, and of each that a byte makes of it.
IsGood(q) ==
  /\ q \in States
  /\ Len(q.esbuf) <= q.cap
  /\ q.cap > SmallSize => q.osc
  /\ q.osc => q.escaped
  /\ ~q.escaped => IsIdle(q)
  /\ Len(q.utf8_buf) <= 4

\* The bytes that can end a request for a reset: RIS and DECSTR.
Resetting == {99, 112}

Calls == [data : Seq(Bytes), ris : BOOLEAN]

\* A call that renders a part of RS1.
Inner == {c \in Calls : \A k \in 1 .. Len(c.data) : c.data[k] \notin Resetting}

\* The calls of vtty_render that run: the host's, and one within it.
AreCalls(fs) ==
  \/ \E s \in Seq(Bytes) : fs = <<Outermost(s)>>
  \/ \E s \in Seq(Bytes), c \in Inner : fs = <<Outermost(s), c>>

ParserInv ==
  /\ kind \in Kinds
  /\ IsGood(p)
  /\ frames = <<>> \/ AreCalls(frames)
  /\ pending \in Seq(Bytes)

-----------------------------------------------------------------------------
(* Strings *)

\* The string a reset renders asks for no reset.
LEMMA RS1Bytes ==
  /\ RS1 \in Seq(Bytes)
  /\ Len(RS1) = 32
  /\ \A k \in 1 .. Len(RS1) : RS1[k] \notin Resetting
BY DEF RS1, Bytes, ESC, Resetting

\* What is left of a string.
LEMMA AfterType ==
  ASSUME NEW s \in Seq(Bytes), NEW n \in Nat, n <= Len(s)
  PROVE  /\ After(s, n) \in Seq(Bytes)
         /\ Len(After(s, n)) = Len(s) - n
         /\ \A k \in 1 .. Len(After(s, n)) : After(s, n)[k] = s[k + n]
BY DEF After

\* The order of the library's theorem is that of the numbers.
LEMMA LessPair ==
  ASSUME NEW j \in Nat, NEW k \in Nat, j < k
  PROVE  <<j, k>> \in OpToRel(<, Nat)
<1>1. <<j, k>> \in Nat \X Nat /\ <<j, k>>[1] < <<j, k>>[2]
  OBVIOUS
<1> QED  BY <1>1, Zenon DEF OpToRel

\* A set of numbers has a lowest one.
LEMMA LowestExists ==
  ASSUME NEW S \in SUBSET Nat, S # {}
  PROVE  LowestOf(S) \in S /\ \A j \in S : LowestOf(S) <= j
<1>1. PICK k \in S : \A j \in S : ~(<<j, k>> \in OpToRel(<, Nat))
  BY NatLessThanWellFounded, WFMin, Zenon
<1>2. \A j \in S : k <= j
  <2> SUFFICES ASSUME NEW j \in S PROVE k <= j
    OBVIOUS
  <2>1. j \in Nat /\ k \in Nat /\ ~(j < k)
    BY <1>1, LessPair, Zenon
  <2> QED  BY <2>1
<1> QED  BY <1>2 DEF LowestOf

\* The size an escape buffer grows to.
LEMMA SmallValue ==
  ASSUME NEW n \in Nat
  PROVE  Small(n) = IF n <= LargeSize THEN n ELSE LargeSize
<1>1. LargeSize \in Nat
  BY ParserAssumption
<1>2. /\ Small(n) \in {n, LargeSize}
      /\ \A j \in {n, LargeSize} : Small(n) <= j
  BY <1>1, LowestExists DEF Small
<1> QED  BY <1>1, <1>2

-----------------------------------------------------------------------------
(* States of the parser *)

\* A state that is not within a sequence is what a cancelled one leaves.
LEMMA IdleIsCancelled ==
  ASSUME NEW q \in States, IsIdle(q)
  PROVE  q = Cancel(q)
BY DEF States, IsIdle, Cancel

LEMMA SizesType ==
  /\ SmallSize \in Nat /\ LargeSize \in Nat
  /\ SmallSize >= 1 /\ SmallSize < LargeSize
BY ParserAssumption

\* A cancelled sequence leaves a good state at rest.
LEMMA CancelGood ==
  ASSUME NEW q, IsGood(q)
  PROVE  IsGood(Cancel(q)) /\ ~Cancel(q).escaped
<1>1. q \in States /\ Len(q.utf8_buf) <= 4
  BY DEF IsGood
<1>2. <<>> \in Seq(Bytes) /\ Len(<<>>) = 0 /\ SmallSize \in SmallSize .. LargeSize
  BY SizesType
<1>3. /\ Cancel(q) \in States
      /\ ~Cancel(q).escaped /\ ~Cancel(q).osc /\ Cancel(q).handler = "none"
      /\ Cancel(q).esbuf = <<>> /\ Cancel(q).cap = SmallSize
      /\ Cancel(q).utf8_buf = q.utf8_buf
  BY <1>1, <1>2 DEF States, Cancel, Handlers
<1> QED  BY <1>1, <1>2, <1>3, SizesType DEF IsGood, IsIdle

\* A sequence that begins leaves a good state within it.
LEMMA BeginGood ==
  ASSUME NEW q, IsGood(q)
  PROVE  IsGood(Begin(q)) /\ Begin(q).escaped
<1>1. q \in States /\ IsGood(Cancel(q)) /\ Cancel(q) \in States
  BY CancelGood DEF IsGood
<1>2. /\ Begin(q) \in States /\ Begin(q).escaped
      /\ Begin(q).esbuf = Cancel(q).esbuf /\ Begin(q).cap = Cancel(q).cap
      /\ Begin(q).utf8_buf = Cancel(q).utf8_buf
  BY <1>1 DEF States, Begin
<1>3. Cancel(q).cap = SmallSize
  BY <1>1 DEF States, Cancel
<1> QED  BY <1>1, <1>2, <1>3, SizesType DEF IsGood

\* So does a character that is dropped.
LEMMA DecodedGood ==
  ASSUME NEW q, IsGood(q)
  PROVE  IsGood(Decoded8(q))
<1>1. q \in States
  BY DEF IsGood
<1>2. <<>> \in Seq(Bytes) /\ Len(<<>>) = 0
  OBVIOUS
<1>3. /\ Decoded8(q) \in States
      /\ Decoded8(q).escaped = q.escaped /\ Decoded8(q).osc = q.osc
      /\ Decoded8(q).handler = q.handler
      /\ Decoded8(q).esbuf = q.esbuf /\ Decoded8(q).cap = q.cap
      /\ Decoded8(q).utf8_buf = <<>>
  BY <1>1, <1>2 DEF States, Decoded8
<1> QED  BY <1>2, <1>3 DEF IsGood, IsIdle

\* A byte that the buffer has room for is stored within it: it grows for a
\* command only, and grows enough.
LEMMA StoredGood ==
  ASSUME NEW q, IsGood(q), q.escaped, ~Full(q), NEW b \in Bytes
  PROVE  /\ IsGood(Stored(q, b))
         /\ Stored(q, b).escaped
         /\ Stored(q, b).osc = q.osc
<1> DEFINE room == IF Len(q.esbuf) >= q.cap THEN Small(2 * q.cap) ELSE q.cap
<1>1. /\ SmallSize \in Nat \ {0} /\ LargeSize \in Nat
      /\ q.cap \in SmallSize .. LargeSize /\ q.esbuf \in Seq(Bytes)
      /\ q \in States
      /\ Len(q.esbuf) <= q.cap /\ Len(q.esbuf) \in Nat
  BY ParserAssumption DEF IsGood, States
<1>2. /\ room \in SmallSize .. LargeSize
      /\ Len(q.esbuf) + 1 <= room
      /\ room > q.cap => q.osc
  <2>1. CASE Len(q.esbuf) >= q.cap
    <3>1. q.osc /\ q.cap < LargeSize
      BY <2>1 DEF Full, MayGrow
    <3>2. Small(2 * q.cap) = IF 2 * q.cap <= LargeSize THEN 2 * q.cap
                             ELSE LargeSize
      BY <1>1, SmallValue
    <3> QED  BY <1>1, <2>1, <3>1, <3>2
  <2>2. CASE ~(Len(q.esbuf) >= q.cap)
    BY <1>1, <2>2
  <2> QED  BY <2>1, <2>2
<1>3. Stored(q, b) = [q EXCEPT !.esbuf = Append(q.esbuf, b), !.cap = room]
  BY <1>1 DEF Stored, States
<1> HIDE DEF room
<1>4. Append(q.esbuf, b) \in Seq(Bytes) /\ Len(Append(q.esbuf, b)) = Len(q.esbuf) + 1
  BY <1>1
<1>5. Stored(q, b) \in States
  BY <1>1, <1>2, <1>3, <1>4 DEF States
<1>6. /\ Stored(q, b).esbuf = Append(q.esbuf, b) /\ Stored(q, b).cap = room
      /\ Stored(q, b).escaped = q.escaped /\ Stored(q, b).osc = q.osc
      /\ Stored(q, b).utf8_buf = q.utf8_buf
  BY <1>1, <1>3 DEF States
<1>7. room > SmallSize => q.osc
  BY <1>1, <1>2 DEF IsGood
<1> QED  BY <1>2, <1>4, <1>5, <1>6, <1>7 DEF IsGood

\* The scanner stays on its string.
LEMMA SeenType ==
  ASSUME IsGood(p), NEW b
  PROVE  Seen(b) \in 0 .. Len(RS1) - 1
<1>1. p.rs1 \in 0 .. Len(RS1) - 1
  BY DEF IsGood, States
<1>2. Len(RS1) = 32
  BY RS1Bytes
<1>3. Seen(b) = 0 \/ (Seen(b) = p.rs1 + 1 /\ p.rs1 + 1 # Len(RS1))
  BY DEF Seen
<1> QED  BY <1>1, <1>2, <1>3

\* Where it is does not matter to the rest of a state.
LEMMA ScannedGood ==
  ASSUME NEW q, IsGood(q), NEW n \in 0 .. Len(RS1) - 1
  PROVE  IsGood([q EXCEPT !.rs1 = n])
<1> DEFINE r == [q EXCEPT !.rs1 = n]
<1>1. q \in States
  BY DEF IsGood
<1>2. /\ r \in States /\ r.escaped = q.escaped /\ r.osc = q.osc
      /\ r.handler = q.handler /\ r.esbuf = q.esbuf /\ r.cap = q.cap
      /\ r.utf8_buf = q.utf8_buf
  BY <1>1 DEF States
<1> HIDE DEF r
<1>3. IsGood(r)
  BY <1>2 DEF IsGood, IsIdle
<1> QED  BY <1>3 DEF r

-----------------------------------------------------------------------------
(* What a byte leaves *)

\* A byte that is done leaves the state that is meant.
LEMMA DoneGood ==
  ASSUME IsGood(p), NEW b, NEW q, NEW c, IsGood(q), Done(b, q, c)
  PROVE  IsGood(p')
BY SeenType, ScannedGood DEF Done

\* The state in which a byte is one of a sequence.
LEMMA WithinGood ==
  ASSUME IsGood(p)
  PROVE  IsGood(Within) /\ Within.escaped
BY BeginGood, DecodedGood DEF Within

\* A byte there is room for.
LEMMA StoredWithin ==
  ASSUME IsGood(p), NEW b \in Bytes, ~Full(Within)
  PROVE  /\ IsGood(Stored(Within, b)) /\ Stored(Within, b).escaped
         /\ Stored(Within, b).esbuf = Append(Within.esbuf, b)
         /\ Within.esbuf \in Seq(Bytes)
<1>1. IsGood(Within) /\ Within.escaped
  BY WithinGood
<1>2. Within \in States
  BY <1>1 DEF IsGood
<1>3. /\ Stored(Within, b).esbuf = Append(Within.esbuf, b)
      /\ Within.esbuf \in Seq(Bytes)
  BY <1>2 DEF Stored, States
<1> QED  BY <1>1, <1>3, StoredGood

LEMMA ControlGood ==
  ASSUME IsGood(p), NEW b \in Bytes, Control(b)
  PROVE  IsGood(p')
<1>1. IsGood(IF b = ESC THEN Begin(p) ELSE p)
  BY BeginGood
<1> QED  BY <1>1, DoneGood DEF Control

\* Of a character that is not whole fewer bytes are kept than it has.
LEMMA AssembleMoreGood ==
  ASSUME IsGood(p), NEW b \in Bytes, AssembleMore(b)
  PROVE  IsGood(p')
<1> DEFINE q == [p EXCEPT !.utf8 = TRUE, !.utf8_buf = Assembled(b)]
<1>1. p \in States
  BY DEF IsGood
<1>2. Assembled(b) \in Seq(Bytes) /\ Len(Assembled(b)) \in Nat
  BY <1>1 DEF Assembled, States
<1>3. /\ Len(Assembled(b)) < Width(Assembled(b)[1])
      /\ Width(Assembled(b)[1]) \in 1 .. 4
  BY DEF AssembleMore, Width
<1>4. /\ q \in States /\ q.escaped = p.escaped /\ q.osc = p.osc
      /\ q.handler = p.handler /\ q.esbuf = p.esbuf /\ q.cap = p.cap
      /\ q.utf8_buf = Assembled(b)
  BY <1>1, <1>2 DEF States
<1> HIDE DEF q
<1>5. IsGood(q)
  BY <1>1, <1>2, <1>3, <1>4 DEF IsGood, IsIdle
<1> QED  BY <1>5, DoneGood DEF AssembleMore, q

LEMMA AssembleLastGood ==
  ASSUME IsGood(p), NEW b \in Bytes, AssembleLast(b)
  PROVE  IsGood(p')
<1>1. IsGood(Decoded8(p))
  BY DecodedGood
<1> QED  BY <1>1, DoneGood DEF AssembleLast

LEMMA OverflowGood ==
  ASSUME IsGood(p), NEW b \in Bytes, Overflow(b)
  PROVE  IsGood(p')
<1>1. IsGood(Cancel(Within))
  BY WithinGood, CancelGood
<1> QED  BY <1>1, DoneGood DEF Overflow

\* The first byte says what a sequence is.
LEMMA FirstGood ==
  ASSUME IsGood(p), NEW b \in Bytes, First(b)
  PROVE  IsGood(p')
<1> DEFINE s == Stored(Within, b)
           q == [s EXCEPT !.handler = Handler(b),
                          !.osc = @ \/ Handler(b) = "osc"]
<1>1. IsGood(s) /\ s.escaped /\ IsGood(Cancel(Within))
  BY StoredWithin, WithinGood, CancelGood DEF First
<1>2. Handler(b) \in Handlers
  BY DEF Handler, Handlers
<1> HIDE DEF s
<1>3. s \in States
  BY <1>1 DEF IsGood
<1>4. (s.osc \/ Handler(b) = "osc") \in BOOLEAN
  OBVIOUS
<1>5. /\ q \in States /\ q.escaped = s.escaped
      /\ s.osc => q.osc
      /\ q.esbuf = s.esbuf /\ q.cap = s.cap /\ q.utf8_buf = s.utf8_buf
  BY <1>2, <1>3, <1>4 DEF States
<1> HIDE DEF q
<1>6. IsGood(q)
  BY <1>1, <1>5 DEF IsGood
<1>7. \E r, c : IsGood(r) /\ Done(b, r, c)
  BY <1>1, <1>6 DEF First, q, s
<1> QED  BY <1>7, DoneGood

LEMMA CollectGood ==
  ASSUME IsGood(p), NEW b \in Bytes, Collect(b)
  PROVE  IsGood(p')
<1> DEFINE s == Stored(Within, b)
<1>1. IsGood(s)
  BY StoredWithin DEF Collect
<1>2. IsGood(Cancel(s))
  BY <1>1, CancelGood
<1>3. \E r, c : IsGood(r) /\ Done(b, r, c)
  BY <1>1, <1>2 DEF Collect
<1> QED  BY <1>3, DoneGood

LEMMA DispatchGood ==
  ASSUME IsGood(p), NEW b \in Bytes, Dispatch(b) \/ Command(b)
  PROVE  IsGood(p')
<1>1. IsGood(Cancel(p))
  BY CancelGood
<1>2. \E c : Done(b, Cancel(p), c)
  BY DEF Dispatch, Command
<1> QED  BY <1>1, <1>2, DoneGood

LEMMA AsksResetGood ==
  ASSUME IsGood(p), NEW b \in Bytes, AsksReset(b)
  PROVE  IsGood(p')
<1>1. ~Full(Within)
  BY DEF AsksReset, Whole
<1>2. IsGood(Stored(Within, b))
  BY <1>1, StoredWithin
<1> QED  BY <1>2, DoneGood DEF AsksReset

\* A reset is asked for by a byte that RS1 does not have.
LEMMA ResetNeedsByte ==
  ASSUME IsGood(p), NEW b \in Bytes, AsksReset(b)
  PROVE  b \in Resetting
<1>1. CASE b = Lowerc
  BY <1>1 DEF Lowerc, Resetting
<1>2. CASE Whole(b) /\ IsReset(Text(b))
  <2>1. Text(b) = Append(Within.esbuf, b) /\ Within.esbuf \in Seq(Bytes)
    BY <1>2, StoredWithin DEF Text, Whole
  <2>2. Text(b)[Len(Text(b))] = b
    BY <2>1
  <2> QED  BY <1>2, <2>2 DEF IsReset, Resetting
<1> QED  BY <1>1, <1>2 DEF AsksReset

-----------------------------------------------------------------------------
(* Calls of vtty_render *)

\* What is appended to a string of one comes second.
LEMMA AppendedOne ==
  ASSUME NEW S, NEW s \in Seq(S), NEW y \in S, Len(s) = 1
  PROVE  Append(s, y) = <<s[1], y>>
<1> DEFINE r == Append(s, y)
           two == <<s[1], y>>
<1>1. r \in Seq(S)
  OBVIOUS
<1>2. Len(r) = 2
  OBVIOUS
<1>3. r[1] = s[1]
  OBVIOUS
<1>4. r[Len(s) + 1] = y
  BY AppendProperties, Zenon
<1>5. two \in Seq(S) /\ Len(two) = 2 /\ two[1] = s[1] /\ two[2] = y
  <2>1. s[1] \in S
    BY ElementOfSeq
  <2> QED  BY <2>1
<1> HIDE DEF r, two
<1>6. r[2] = y
  BY <1>4
<1>7. \A k \in 1 .. 2 : r[k] = two[k]
  BY <1>3, <1>5, <1>6
<1>8. r = two
  BY <1>1, <1>2, <1>5, <1>7, SeqEqual
<1> QED  BY <1>8 DEF r, two

\* Strings of one and of two entries.
LEMMA OneEntry ==
  ASSUME NEW x, NEW y
  PROVE  /\ [<<x>> EXCEPT ![1] = y] = <<y>>
         /\ Append(<<x>>, y) = <<x, y>>
<1>1. [<<x>> EXCEPT ![1] = y] = <<y>>
  OBVIOUS
<1> DEFINE S == {x, y}
           one == <<x>>
<1>2. one \in Seq(S) /\ Len(one) = 1 /\ one[1] = x /\ y \in S
  OBVIOUS
<1> HIDE DEF S, one
<1>3. Append(one, y) = <<one[1], y>>
  BY <1>2, AppendedOne, Zenon
<1> QED  BY <1>1, <1>2, <1>3, Zenon DEF one

LEMMA TwoEntries ==
  ASSUME NEW x, NEW y, NEW z
  PROVE  /\ [<<x, y>> EXCEPT ![2] = z] = <<x, z>>
         /\ SubSeq(<<x, y>>, 1, 1) = <<x>>
<1> DEFINE two == <<x, y>>
<1>1. [<<x, y>> EXCEPT ![2] = z] = <<x, z>>
  OBVIOUS
<1>2. two \in Seq({x, y}) /\ Len(two) = 2 /\ two[1] = x
  OBVIOUS
<1> HIDE DEF two
<1>3. SubSeq(two, 1, 1) \in Seq({x, y}) /\ Len(SubSeq(two, 1, 1)) = 1 /\ SubSeq(two, 1, 1)[1] = x
  BY <1>2
<1> DEFINE one == <<x>>
<1>4. one \in Seq({x, y}) /\ Len(one) = 1 /\ one[1] = x
  OBVIOUS
<1> HIDE DEF one
<1>5. \A k \in 1 .. 1 : SubSeq(two, 1, 1)[k] = one[k]
  BY <1>3, <1>4
<1>6. SubSeq(two, 1, 1) = one
  BY <1>3, <1>4, <1>5, SeqEqual, Zenon
<1> QED  BY <1>1, <1>6 DEF one, two

LEMMA CallData ==
  ASSUME NEW s, NEW t, NEW r
  PROVE  [data |-> t, ris |-> r] = [[data |-> s, ris |-> r] EXCEPT !.data = t]
OBVIOUS

LEMMA OutermostData ==
  ASSUME NEW s, NEW t
  PROVE  /\ Outermost(s).data = s /\ Outermost(s).ris = FALSE
         /\ Outermost(t) = [Outermost(s) EXCEPT !.data = t]
<1>1. Outermost(s).data = s /\ Outermost(s).ris = FALSE
  BY DEF Outermost
<1>2. Outermost(t) = [Outermost(s) EXCEPT !.data = t]
  BY CallData, Zenon DEF Outermost
<1> QED  BY <1>1, <1>2

\* The call of the host alone.
LEMMA OneCall ==
  ASSUME NEW s \in Seq(Bytes)
  PROVE  /\ Len(<<Outermost(s)>>) = 1
         /\ Left(<<Outermost(s)>>) = s
         /\ Rest(<<Outermost(s)>>) = <<Outermost(After(s, 1))>>
<1> DEFINE o == Outermost(s)
           r == Outermost(After(s, 1))
<1>1. o.data = s /\ r = [o EXCEPT !.data = After(s, 1)]
  BY OutermostData
<1> HIDE DEF o, r
<1>2. Len(<<o>>) = 1 /\ <<o>>[1] = o
  OBVIOUS
<1>3. Rest(<<o>>) = [<<o>> EXCEPT ![1] = r]
  BY <1>1, <1>2 DEF Rest
<1>4. Left(<<o>>) = s
  BY <1>1, <1>2 DEF Left
<1>5. Rest(<<o>>) = <<r>>
  BY <1>3, OneEntry, Zenon
<1> QED  BY <1>2, <1>4, <1>5 DEF o, r

\* One within it.
LEMMA TwoCalls ==
  ASSUME NEW s \in Seq(Bytes), NEW c \in Inner
  PROVE  /\ Len(<<Outermost(s), c>>) = 2
         /\ Left(<<Outermost(s), c>>) = c.data
         /\ Rest(<<Outermost(s), c>>) =
              <<Outermost(s), [c EXCEPT !.data = After(c.data, 1)]>>
         /\ SubSeq(<<Outermost(s), c>>, 1, 1) = <<Outermost(s)>>
<1> DEFINE o == Outermost(s)
           r == [c EXCEPT !.data = After(c.data, 1)]
<1> HIDE DEF o
<1>1. Len(<<o, c>>) = 2 /\ <<o, c>>[2] = c
  OBVIOUS
<1>2. Rest(<<o, c>>) = [<<o, c>> EXCEPT ![2] = r]
  BY <1>1 DEF Rest
<1>3. Left(<<o, c>>) = c.data
  BY <1>1 DEF Left
<1> HIDE DEF r
<1>4. Rest(<<o, c>>) = <<o, r>>
  BY <1>2, TwoEntries, Zenon
<1>5. SubSeq(<<o, c>>, 1, 1) = <<o>>
  BY TwoEntries, Zenon
<1> QED  BY <1>1, <1>3, <1>4, <1>5 DEF o, r

\* What is left of a string without its first byte.
LEMMA TakenType ==
  ASSUME NEW s \in Seq(Bytes), s # <<>>
  PROVE  /\ s[1] \in Bytes
         /\ After(s, 1) \in Seq(Bytes)
         /\ Len(After(s, 1)) = Len(s) - 1
         /\ \A k \in 1 .. Len(s) - 1 : After(s, 1)[k] = s[k + 1]
<1>1. Len(s) \in Nat /\ Len(s) >= 1
  BY EmptySeq
<1> QED  BY <1>1, AfterType

\* Part of an inner call is one.
LEMMA TakenInner ==
  ASSUME NEW c \in Inner, c.data # <<>>
  PROVE  [c EXCEPT !.data = After(c.data, 1)] \in Inner
<1> DEFINE d == [c EXCEPT !.data = After(c.data, 1)]
<1>1. c \in Calls /\ c.data \in Seq(Bytes) /\ Len(c.data) \in Nat
  BY DEF Inner, Calls
<1>2. d \in Calls /\ d.data = After(c.data, 1)
  BY <1>1, TakenType DEF Calls
<1> HIDE DEF d
<1>3. \A k \in 1 .. Len(d.data) : d.data[k] \notin Resetting
  <2> SUFFICES ASSUME NEW k \in 1 .. Len(d.data) PROVE d.data[k] \notin Resetting
    OBVIOUS
  <2>1. Len(d.data) = Len(c.data) - 1 /\ d.data[k] = c.data[k + 1]
    BY <1>1, <1>2, TakenType
  <2>2. \A j \in 1 .. Len(c.data) : c.data[j] \notin Resetting
    BY DEF Inner
  <2>3. k + 1 \in 1 .. Len(c.data)
    BY <1>1, <2>1
  <2> QED  BY <2>1, <2>2, <2>3
<1>4. d \in Inner
  BY <1>2, <1>3 DEF Inner
<1> QED  BY <1>4 DEF d

\* The byte that is taken, and what is left.
LEMMA RestCalls ==
  ASSUME NEW fs, AreCalls(fs), Left(fs) # <<>>
  PROVE  Left(fs)[1] \in Bytes /\ AreCalls(Rest(fs))
<1>1. CASE \E s \in Seq(Bytes) : fs = <<Outermost(s)>>
  BY <1>1, OneCall, TakenType DEF AreCalls
<1>2. CASE \E s \in Seq(Bytes), c \in Inner : fs = <<Outermost(s), c>>
  <2>1. PICK s \in Seq(Bytes), c \in Inner : fs = <<Outermost(s), c>>
    BY <1>2
  <2>2. Left(fs) = c.data /\ c.data \in Seq(Bytes)
    BY <2>1, TwoCalls DEF Inner, Calls
  <2>3. Rest(fs) = <<Outermost(s), [c EXCEPT !.data = After(c.data, 1)]>>
    BY <2>1, TwoCalls
  <2>4. [c EXCEPT !.data = After(c.data, 1)] \in Inner
    BY <2>2, TakenInner
  <2> QED  BY <2>2, <2>3, <2>4, TakenType DEF AreCalls
<1> QED  BY <1>1, <1>2 DEF AreCalls

\* A reset is asked for by the call of the host.
LEMMA ResetCalls ==
  ASSUME NEW fs, NEW gs, IsGood(p), AreCalls(fs), Reset(fs, gs)
  PROVE  \E s \in Seq(Bytes), r \in BOOLEAN :
           /\ fs = <<Outermost(s)>> /\ s # <<>>
           /\ gs = <<Outermost(After(s, 1)), [data |-> RS1, ris |-> r]>>
<1>1. Left(fs) # <<>> /\ Left(fs)[1] \in Resetting
  BY RestCalls, ResetNeedsByte DEF Reset
<1>2. ~ \E s \in Seq(Bytes), c \in Inner : fs = <<Outermost(s), c>>
  <2> SUFFICES ASSUME NEW s \in Seq(Bytes), NEW c \in Inner, fs = <<Outermost(s), c>>
               PROVE  FALSE
    OBVIOUS
  <2>1. Left(fs) = c.data /\ c.data \in Seq(Bytes)
    BY TwoCalls DEF Inner, Calls
  <2>2. 1 \in 1 .. Len(c.data)
    BY <1>1, <2>1, EmptySeq
  <2> QED  BY <1>1, <2>1, <2>2 DEF Inner
<1>3. PICK s \in Seq(Bytes) : fs = <<Outermost(s)>>
  BY <1>2 DEF AreCalls
<1>4. /\ Left(fs) = s /\ Rest(fs) = <<Outermost(After(s, 1))>>
  BY <1>3, OneCall
<1>5. gs = <<Outermost(After(s, 1)),
             [data |-> RS1, ris |-> Within.handler = "none"]>>
  <2> DEFINE o == Outermost(After(s, 1))
             c == [data |-> RS1, ris |-> Within.handler = "none"]
  <2>1. gs = Append(<<o>>, c)
    BY <1>4 DEF Reset
  <2> HIDE DEF o, c
  <2>2. Append(<<o>>, c) = <<o, c>>
    BY OneEntry
  <2> QED  BY <2>1, <2>2 DEF o, c
<1> QED  BY <1>1, <1>3, <1>4, <1>5

\* RS1 is rendered by an inner call.
LEMMA RS1Inner ==
  ASSUME NEW r \in BOOLEAN
  PROVE  [data |-> RS1, ris |-> r] \in Inner
<1> DEFINE c == [data |-> RS1, ris |-> r]
<1>1. c \in Calls /\ c.data = RS1
  BY RS1Bytes DEF Calls
<1> HIDE DEF c
<1>2. c \in Inner
  BY <1>1, RS1Bytes DEF Inner
<1> QED  BY <1>2 DEF c

\* One byte of the loop keeps what it should.
LEMMA TakesKeeps ==
  ASSUME NEW fs, NEW gs, IsGood(p), AreCalls(fs), Takes(fs, gs)
  PROVE  IsGood(p') /\ AreCalls(gs)
<1> DEFINE b == Left(fs)[1]
<1>1. b \in Bytes /\ AreCalls(gs)
  BY RestCalls DEF Takes
<1>2. SkipNul(b) \/ Control(b) \/ AssembleMore(b) \/ AssembleLast(b)
        \/ PutByte(b) \/ Overflow(b) \/ First(b) \/ Collect(b)
        \/ Dispatch(b) \/ Command(b)
  BY DEF Takes
<1> HIDE DEF b
<1>3. SkipNul(b) => IsGood(p')
  BY DEF SkipNul
<1>4. PutByte(b) => IsGood(p')
  BY DoneGood DEF PutByte
<1> QED  BY <1>1, <1>2, <1>3, <1>4, ControlGood, AssembleMoreGood,
            AssembleLastGood, OverflowGood, FirstGood, CollectGood, DispatchGood

LEMMA ResetKeeps ==
  ASSUME NEW fs, NEW gs, IsGood(p), AreCalls(fs), Reset(fs, gs)
  PROVE  IsGood(p') /\ AreCalls(gs)
<1>1. IsGood(p')
  BY RestCalls, AsksResetGood DEF Reset
<1>2. PICK s \in Seq(Bytes), r \in BOOLEAN :
        /\ s # <<>>
        /\ gs = <<Outermost(After(s, 1)), [data |-> RS1, ris |-> r]>>
  BY ResetCalls
<1> QED  BY <1>1, <1>2, TakenType, RS1Inner DEF AreCalls

LEMMA EndResetKeeps ==
  ASSUME NEW fs, NEW gs, IsGood(p), AreCalls(fs), EndReset(fs, gs)
  PROVE  IsGood(p') /\ AreCalls(gs)
<1>1. IsGood(p')
  BY CancelGood DEF EndReset
<1>2. PICK s \in Seq(Bytes), c \in Inner : fs = <<Outermost(s), c>>
  BY OneCall DEF EndReset, AreCalls
<1>3. gs = <<Outermost(s)>>
  <2>1. Len(fs) = 2 /\ SubSeq(fs, 1, 1) = <<Outermost(s)>>
    BY <1>2, TwoCalls
  <2>2. gs = SubSeq(fs, 1, Len(fs) - 1)
    BY DEF EndReset
  <2> QED  BY <2>1, <2>2
<1> QED  BY <1>1, <1>3 DEF AreCalls

LEMMA LoopKeeps ==
  ASSUME NEW fs, NEW gs, IsGood(p), AreCalls(fs), Loop(fs, gs)
  PROVE  IsGood(p') /\ AreCalls(gs)
BY TakesKeeps, ResetKeeps, EndResetKeeps DEF Loop

-----------------------------------------------------------------------------
(* The steps *)

\* Initially no sequence is under way and nothing is rendered.
LEMMA InitParser == ParserInit => ParserInv
<1> SUFFICES ASSUME ParserInit PROVE ParserInv
  OBVIOUS
<1>1. <<>> \in Seq(Bytes) /\ Len(<<>>) = 0 /\ Len(RS1) = 32
  BY RS1Bytes
<1>2. Ground \in States /\ IsIdle(Ground) /\ Ground.utf8_buf = <<>>
  BY <1>1, SizesType DEF Ground, States, Handlers, IsIdle
<1>3. IsGood(Ground)
  BY <1>1, <1>2, SizesType DEF IsGood, IsIdle
<1> QED  BY <1>1, <1>3 DEF ParserInit, ParserInv

\* The calls that run when one does.
LEMMA RunningCalls ==
  ASSUME ParserInv, Depth > 0
  PROVE  AreCalls(frames)
BY DEF ParserInv, Depth

LEMMA PutRunKeeps == ASSUME ParserInv, PutRun PROVE ParserInv'
<1>1. Depth > 0 /\ Left(frames) # <<>>
  BY DEF PutRun, Fast, Running, Left, Data, Depth
<1>2. AreCalls(frames')
  BY <1>1, RunningCalls, RestCalls DEF PutRun
<1> QED  BY <1>2 DEF ParserInv, PutRun, Outside

LEMMA SlowKeeps == ASSUME ParserInv, Slow PROVE ParserInv'
<1>1. IsGood(p') /\ AreCalls(frames')
  BY RunningCalls, LoopKeeps DEF Slow, ParserInv
<1> QED  BY <1>1 DEF ParserInv, Slow, Outside

LEMMA ReturnKeeps == ASSUME ParserInv, Return PROVE ParserInv'
BY DEF ParserInv, Return, Outside

LEMMA SendKeeps == ASSUME ParserInv, Send PROVE ParserInv'
<1>1. pending' \in Seq(Bytes)
  BY ParserAssumption DEF Send, ParserInv
<1> QED  BY <1>1 DEF ParserInv, Send

\* What is rendered and what is left of the bytes that have not arrived.
LEMMA Rendered ==
  ASSUME ParserInv, Render
  PROVE  \E n \in 1 .. Len(pending) :
           /\ frames' = <<Outermost(SubSeq(pending, 1, n))>>
           /\ pending' = After(pending, n)
           /\ SubSeq(pending, 1, n) \in Seq(Bytes)
           /\ After(pending, n) \in Seq(Bytes)
<1>1. pending \in Seq(Bytes) /\ Len(pending) \in Nat
  BY DEF ParserInv
<1>2. PICK n \in 1 .. Len(pending) :
        /\ frames' = <<Outermost(SubSeq(pending, 1, n))>>
        /\ pending' = After(pending, n)
  BY DEF Render, Outermost
<1> QED  BY <1>1, <1>2, AfterType

LEMMA RenderKeeps == ASSUME ParserInv, Render PROVE ParserInv'
<1>1. AreCalls(frames') /\ pending' \in Seq(Bytes)
  BY Rendered DEF AreCalls
<1> QED  BY <1>1 DEF ParserInv, Render

LEMMA NextKeepsParser == ParserInv /\ [ParserNext]_parserVars => ParserInv'
<1> SUFFICES ASSUME ParserInv, [ParserNext]_parserVars PROVE ParserInv'
  OBVIOUS
<1>1. CASE UNCHANGED parserVars
  BY <1>1 DEF parserVars, ParserInv
<1>2. CASE ParserNext
  BY <1>2, PutRunKeeps, SlowKeeps, ReturnKeeps, SendKeeps, RenderKeeps DEF ParserNext
<1> QED  BY <1>1, <1>2

-----------------------------------------------------------------------------
(* What the program promises *)

\* The escape buffer never holds more than fits, only a command's grows and it
\* is given back, the scanner stays on its string, and a reset never renders
\* another one (vtty_esbuf_putc, vtty_escape_cancel, interpret_csi_RS1_xterm):
\* whatever the sizes, the terminal and the bytes of the child.
THEOREM SequencesStayBounded == ParserSpec => []BufferFits
<1>1. ParserInv => BufferFits
  <2> SUFFICES ASSUME ParserInv PROVE BufferFits
    OBVIOUS
  <2>1. /\ IsGood(p) /\ p \in States
        /\ p.cap \in SmallSize .. LargeSize /\ p.rs1 \in 0 .. Len(RS1) - 1
    BY DEF ParserInv, IsGood, States
  <2>2. ~p.escaped => p = Cancel(p)
    BY <2>1, IdleIsCancelled DEF IsGood
  <2>3. Depth <= 2
    <3>1. CASE frames = <<>>
      BY <3>1 DEF Depth
    <3>2. CASE AreCalls(frames)
      <4>1. Len(frames) = 1 \/ Len(frames) = 2
        BY <3>2, OneCall, TwoCalls DEF AreCalls
      <4>2. Depth = 1 \/ Depth = 2
        BY <4>1 DEF Depth
      <4> QED  BY <4>2
    <3> QED  BY <3>1, <3>2 DEF ParserInv
  <2> QED  BY <2>1, <2>2, <2>3 DEF BufferFits, IsGood
<1> QED  BY InitParser, NextKeepsParser, <1>1, PTL DEF ParserSpec

-----------------------------------------------------------------------------
(* Reads and the fast path do not show. *)

\* The calls fs, with t to come for the outermost.
Extended(fs, t) == [fs EXCEPT ![1].data = @ \o t]

LEMMA ConcatBytes ==
  ASSUME NEW s \in Seq(Bytes), NEW t \in Seq(Bytes)
  PROVE  /\ s \o t \in Seq(Bytes)
         /\ Len(s \o t) = Len(s) + Len(t)
         /\ \A k \in 1 .. Len(s \o t) :
              (s \o t)[k] = IF k <= Len(s) THEN s[k] ELSE t[k - Len(s)]
BY ConcatProperties

\* Strings: what is taken off the front of one is not affected by what follows.
LEMMA FrontOfConcat ==
  ASSUME NEW s \in Seq(Bytes), NEW t \in Seq(Bytes), s # <<>>
  PROVE  /\ s \o t \in Seq(Bytes) /\ s \o t # <<>>
         /\ (s \o t)[1] = s[1]
         /\ After(s \o t, 1) = After(s, 1) \o t
<1>1. Len(s) \in Nat /\ Len(s) >= 1 /\ Len(t) \in Nat
  BY EmptySeq
<1> DEFINE u == s \o t
<1>2. /\ u \in Seq(Bytes) /\ Len(u) = Len(s) + Len(t)
      /\ \A k \in 1 .. Len(u) : u[k] = IF k <= Len(s) THEN s[k] ELSE t[k - Len(s)]
  BY <1>1, ConcatProperties
<1> HIDE DEF u
<1>3. u # <<>> /\ u[1] = s[1]
  <2>1. Len(u) # 0 /\ 1 \in 1 .. Len(u)
    BY <1>1, <1>2
  <2> QED  BY <1>1, <1>2, <2>1
<1> DEFINE l == After(u, 1)
           a == After(s, 1)
<1>4. /\ l \in Seq(Bytes) /\ Len(l) = Len(s) + Len(t) - 1
      /\ \A k \in 1 .. Len(l) : l[k] = u[k + 1]
  BY <1>1, <1>2, <1>3, TakenType
<1>5. /\ a \in Seq(Bytes) /\ Len(a) = Len(s) - 1
      /\ \A k \in 1 .. Len(a) : a[k] = s[k + 1]
  BY <1>1, TakenType
<1> HIDE DEF l, a
<1> DEFINE r == a \o t
<1>6. /\ r \in Seq(Bytes) /\ Len(r) = Len(a) + Len(t)
      /\ \A k \in 1 .. Len(r) : r[k] = IF k <= Len(a) THEN a[k] ELSE t[k - Len(a)]
  BY <1>5, ConcatBytes, Zenon
<1> HIDE DEF r
<1>7. Len(l) = Len(r)
  BY <1>1, <1>4, <1>5, <1>6
<1>8. \A k \in 1 .. Len(l) : l[k] = r[k]
  <2> SUFFICES ASSUME NEW k \in 1 .. Len(l) PROVE l[k] = r[k]
    OBVIOUS
  <2>1. k \in Nat /\ k >= 1 /\ k + 1 \in 1 .. Len(u) /\ k \in 1 .. Len(r)
    BY <1>1, <1>2, <1>4, <1>7
  <2>2. l[k] = u[k + 1]
    BY <1>4
  <2>3. CASE k <= Len(a)
    <3>1. u[k + 1] = s[k + 1]
      BY <1>1, <1>2, <1>5, <2>1, <2>3
    <3>2. r[k] = a[k] /\ a[k] = s[k + 1]
      BY <1>1, <1>5, <1>6, <2>1, <2>3
    <3> QED  BY <2>2, <3>1, <3>2
  <2>4. CASE ~(k <= Len(a))
    <3>1. u[k + 1] = t[k + 1 - Len(s)]
      BY <1>1, <1>2, <1>5, <2>1, <2>4
    <3>2. r[k] = t[k - Len(a)]
      BY <1>1, <1>6, <2>1, <2>4
    <3>3. k + 1 - Len(s) = k - Len(a)
      BY <1>1, <1>5, <2>1
    <3> QED  BY <2>2, <3>1, <3>2, <3>3
  <2> QED  BY <2>3, <2>4
<1>9. l = r
  BY <1>4, <1>6, <1>7, <1>8, SeqEqual
<1> QED  BY <1>2, <1>3, <1>9 DEF u, l, a, r

\* A read and what has not arrived after it are what had not before it.
LEMMA SplitString ==
  ASSUME NEW s \in Seq(Bytes), NEW n \in 1 .. Len(s)
  PROVE  SubSeq(s, 1, n) \o After(s, n) = s
<1>1. Len(s) \in Nat /\ n \in Nat /\ n <= Len(s) /\ n >= 1
  OBVIOUS
<1> DEFINE a == SubSeq(s, 1, n)
           t == After(s, n)
<1>2. /\ a \in Seq(Bytes) /\ Len(a) = n
      /\ \A k \in 1 .. n : a[k] = s[k]
  BY <1>1
<1>3. /\ t \in Seq(Bytes) /\ Len(t) = Len(s) - n
      /\ \A k \in 1 .. Len(t) : t[k] = s[k + n]
  BY <1>1, AfterType
<1> HIDE DEF a, t
<1> DEFINE r == a \o t
<1>4. /\ r \in Seq(Bytes) /\ Len(r) = Len(a) + Len(t)
      /\ \A k \in 1 .. Len(r) : r[k] = IF k <= Len(a) THEN a[k] ELSE t[k - Len(a)]
  BY <1>2, <1>3, ConcatBytes, Zenon
<1> HIDE DEF r
<1>5. Len(r) = Len(s)
  BY <1>1, <1>2, <1>3, <1>4
<1>6. \A k \in 1 .. Len(r) : r[k] = s[k]
  <2> SUFFICES ASSUME NEW k \in 1 .. Len(r) PROVE r[k] = s[k]
    OBVIOUS
  <2>1. CASE k <= n
    BY <1>1, <1>2, <1>4, <2>1
  <2>2. CASE ~(k <= n)
    <3>1. k - n \in 1 .. Len(t) /\ k \in Nat
      BY <1>1, <1>3, <1>5, <2>2
    <3>2. r[k] = t[k - n]
      BY <1>1, <1>2, <1>4, <2>2
    <3>3. t[k - n] = s[(k - n) + n]
      BY <1>3, <3>1
    <3>4. (k - n) + n = k
      BY <1>1, <3>1
    <3> QED  BY <3>2, <3>3, <3>4
  <2> QED  BY <2>1, <2>2
<1>7. r = s
  BY <1>4, <1>5, <1>6, SeqEqual
<1> QED  BY <1>7 DEF r, a, t

\* What is to come belongs to the call of the host.
LEMMA ExtendedOne ==
  ASSUME NEW s, NEW t
  PROVE  Extended(<<Outermost(s)>>, t) = <<Outermost(s \o t)>>
<1> DEFINE o == Outermost(s)
           e == Outermost(s \o t)
<1>1. o.data = s /\ e = [o EXCEPT !.data = s \o t]
  BY OutermostData
<1> HIDE DEF o, e
<1>2. <<o>>[1] = o
  OBVIOUS
<1>3. Extended(<<o>>, t) = [<<o>> EXCEPT ![1] = e]
  BY <1>1, <1>2 DEF Extended
<1>4. Extended(<<o>>, t) = <<e>>
  BY <1>3, OneEntry, Zenon
<1> QED  BY <1>4 DEF o, e

LEMMA ExtendedTwo ==
  ASSUME NEW s, NEW c, NEW t
  PROVE  Extended(<<Outermost(s), c>>, t) = <<Outermost(s \o t), c>>
<1> DEFINE o == Outermost(s)
           e == Outermost(s \o t)
<1>1. o.data = s /\ e = [o EXCEPT !.data = s \o t]
  BY OutermostData
<1> HIDE DEF o, e
<1>2. <<o, c>>[1] = o
  OBVIOUS
<1>3. Extended(<<o, c>>, t) = [<<o, c>> EXCEPT ![1] = e]
  BY <1>1, <1>2 DEF Extended
<1>4. [<<o, c>> EXCEPT ![1] = e] = <<e, c>>
  OBVIOUS
<1> QED  BY <1>3, <1>4 DEF o, e

\* A byte of the innermost call is taken whether more is to come or not.
LEMMA ExtendedTakes ==
  ASSUME NEW fs, AreCalls(fs), Left(fs) # <<>>, NEW t \in Seq(Bytes)
  PROVE  /\ Left(Extended(fs, t)) # <<>>
         /\ Left(Extended(fs, t))[1] = Left(fs)[1]
         /\ Rest(Extended(fs, t)) = Extended(Rest(fs), t)
<1>1. CASE \E s \in Seq(Bytes) : fs = <<Outermost(s)>>
  <2>1. PICK s \in Seq(Bytes) : fs = <<Outermost(s)>>
    BY <1>1
  <2>2. Left(fs) = s /\ Rest(fs) = <<Outermost(After(s, 1))>>
    BY <2>1, OneCall
  <2>3. /\ s \o t \in Seq(Bytes) /\ s \o t # <<>> /\ (s \o t)[1] = s[1]
        /\ After(s \o t, 1) = After(s, 1) \o t
    BY <2>2, FrontOfConcat
  <2>4. Extended(fs, t) = <<Outermost(s \o t)>>
    BY <2>1, ExtendedOne
  <2>5. /\ Left(Extended(fs, t)) = s \o t
        /\ Rest(Extended(fs, t)) = <<Outermost(After(s, 1) \o t)>>
    BY <2>3, <2>4, OneCall
  <2>6. Extended(Rest(fs), t) = <<Outermost(After(s, 1) \o t)>>
    BY <2>2, ExtendedOne
  <2> QED  BY <2>2, <2>3, <2>5, <2>6
<1>2. CASE \E s \in Seq(Bytes), c \in Inner : fs = <<Outermost(s), c>>
  <2>1. PICK s \in Seq(Bytes), c \in Inner : fs = <<Outermost(s), c>>
    BY <1>2
  <2> DEFINE d == [c EXCEPT !.data = After(c.data, 1)]
  <2>2. Left(fs) = c.data /\ Rest(fs) = <<Outermost(s), d>>
    BY <2>1, TwoCalls
  <2>3. Extended(fs, t) = <<Outermost(s \o t), c>> /\ s \o t \in Seq(Bytes)
    BY <2>1, ExtendedTwo, ConcatProperties
  <2>4. /\ Left(Extended(fs, t)) = c.data
        /\ Rest(Extended(fs, t)) = <<Outermost(s \o t), d>>
    BY <2>3, TwoCalls
  <2> HIDE DEF d
  <2>5. Extended(Rest(fs), t) = <<Outermost(s \o t), d>>
    BY <2>2, ExtendedTwo
  <2> QED  BY <2>2, <2>4, <2>5
<1> QED  BY <1>1, <1>2 DEF AreCalls

\* So is every byte of the loop.
LEMMA ExtendedLoop ==
  ASSUME NEW fs, NEW gs, IsGood(p), AreCalls(fs), Loop(fs, gs),
         NEW t \in Seq(Bytes)
  PROVE  Loop(Extended(fs, t), Extended(gs, t))
<1>1. CASE Takes(fs, gs)
  <2>1. /\ Left(Extended(fs, t)) # <<>>
        /\ Left(Extended(fs, t))[1] = Left(fs)[1]
        /\ Extended(gs, t) = Rest(Extended(fs, t))
    BY <1>1, ExtendedTakes DEF Takes
  <2>2. Takes(Extended(fs, t), Extended(gs, t))
    BY <1>1, <2>1 DEF Takes
  <2> QED  BY <2>2 DEF Loop
<1>2. CASE Reset(fs, gs)
  <2>1. PICK s \in Seq(Bytes), r \in BOOLEAN :
          /\ fs = <<Outermost(s)>> /\ s # <<>>
          /\ gs = <<Outermost(After(s, 1)), [data |-> RS1, ris |-> r]>>
    BY <1>2, ResetCalls
  <2> DEFINE c == [data |-> RS1, ris |-> Within.handler = "none"]
  <2>2. /\ Left(Extended(fs, t)) # <<>>
        /\ Left(Extended(fs, t))[1] = Left(fs)[1]
        /\ Rest(Extended(fs, t)) = Extended(Rest(fs), t)
    BY <1>2, ExtendedTakes DEF Reset
  <2>3. Rest(fs) = <<Outermost(After(s, 1))>>
    BY <2>1, OneCall
  <2>4. gs = Append(Rest(fs), c)
    BY <1>2 DEF Reset
  <2> HIDE DEF c
  <2>5. gs = <<Outermost(After(s, 1)), c>>
    BY <2>3, <2>4, OneEntry
  <2>6. Extended(gs, t) = <<Outermost(After(s, 1) \o t), c>>
    BY <2>5, ExtendedTwo
  <2>7. Rest(Extended(fs, t)) = <<Outermost(After(s, 1) \o t)>>
    BY <2>2, <2>3, ExtendedOne
  <2>8. Extended(gs, t) = Append(Rest(Extended(fs, t)), c)
    BY <2>6, <2>7, OneEntry
  <2>9. Reset(Extended(fs, t), Extended(gs, t))
    BY <1>2, <2>2, <2>8 DEF Reset, c
  <2> QED  BY <2>9 DEF Loop
<1>3. CASE EndReset(fs, gs)
  <2>1. PICK s \in Seq(Bytes), c \in Inner : fs = <<Outermost(s), c>>
    BY <1>3, OneCall DEF EndReset, AreCalls
  <2> DEFINE e == Extended(fs, t)
  <2>2. /\ Len(fs) = 2 /\ Left(fs) = c.data /\ fs[Len(fs)] = c
        /\ SubSeq(fs, 1, Len(fs) - 1) = <<Outermost(s)>>
    <3>1. Len(fs) = 2 /\ Left(fs) = c.data /\ SubSeq(fs, 1, 1) = <<Outermost(s)>>
      BY <2>1, TwoCalls
    <3>2. fs[2] = c /\ Len(fs) - 1 = 1
      BY <2>1, <3>1
    <3> QED  BY <3>1, <3>2
  <2>3. e = <<Outermost(s \o t), c>> /\ s \o t \in Seq(Bytes)
    BY <2>1, ExtendedTwo, ConcatProperties
  <2> HIDE DEF e
  <2>4. /\ Len(e) = 2 /\ Left(e) = c.data /\ e[Len(e)] = c
        /\ SubSeq(e, 1, Len(e) - 1) = <<Outermost(s \o t)>>
    <3>1. /\ Len(e) = 2 /\ Left(e) = c.data
          /\ SubSeq(e, 1, 1) = <<Outermost(s \o t)>>
      BY <2>3, TwoCalls
    <3>2. e[2] = c /\ Len(e) - 1 = 1
      BY <2>3, <3>1
    <3> QED  BY <3>1, <3>2
  <2>5. Extended(gs, t) = <<Outermost(s \o t)>>
    BY <1>3, <2>2, ExtendedOne DEF EndReset
  <2>6. EndReset(e, Extended(gs, t))
    BY <1>3, <2>2, <2>4, <2>5 DEF EndReset
  <2> QED  BY <2>6 DEF Loop, e
<1> QED  BY <1>1, <1>2, <1>3 DEF Loop

\* The fast path does what the loop would: the scanner is at the start of its
\* string, and a printable byte does not begin it.
LEMMA FastIsPut ==
  ASSUME ParserInv, PutRun
  PROVE  PutByte(Data[1])
<1> DEFINE b == Data[1]
<1>1. b \in Printable /\ ~p.escaped /\ ~p.utf8 /\ p.rs1 = 0
  BY DEF PutRun, Fast
<1> HIDE DEF b
<1>2. b \in 32 .. 126
  BY <1>1 DEF Printable
<1>3. b # 0 /\ b # ESC /\ b \notin C0 \cup C1 /\ ~(b > 127)
  BY <1>2 DEF C0, C1, ESC
<1>4. ~IsUtf8(b)
  BY <1>1, <1>3 DEF IsUtf8
<1>5. Seen(b) = 0
  BY <1>1, <1>3 DEF Seen
<1>6. Heard(b) = <<>>
  BY <1>1, RS1Bytes DEF Heard
<1>7. [p EXCEPT !.rs1 = 0] = p
  BY <1>1 DEF ParserInv, IsGood, States
<1>8. p' = [p EXCEPT !.rs1 = Seen(b)]
  BY <1>5, <1>7 DEF PutRun
<1>9. calls' = calls \o (Heard(b) \o <<<<"put", b>>>>)
  <2> DEFINE c == <<<<"put", b>>>>
  <2>1. <<>> \o c = c
    OBVIOUS
  <2>2. calls' = calls \o c
    BY DEF PutRun, b
  <2> HIDE DEF c
  <2>3. calls' = calls \o (Heard(b) \o c)
    BY <1>6, <2>1, <2>2
  <2> QED  BY <2>3 DEF c
<1>10. Done(b, p, <<<<"put", b>>>>)
  BY <1>8, <1>9 DEF Done
<1>11. PutByte(b)
  BY <1>1, <1>3, <1>4, <1>10 DEF PutByte, PutRun
<1> QED  BY <1>11 DEF b

LEMMA CallsRun ==
  ASSUME NEW fs, AreCalls(fs)
  PROVE  /\ fs # <<>>
         /\ Len(fs) = 1 => \E s \in Seq(Bytes) : fs = <<Outermost(s)>>
<1>1. CASE \E s \in Seq(Bytes) : fs = <<Outermost(s)>>
  BY <1>1
<1>2. CASE \E s \in Seq(Bytes), c \in Inner : fs = <<Outermost(s), c>>
  <2>1. PICK s \in Seq(Bytes), c \in Inner : fs = <<Outermost(s), c>>
    BY <1>2
  <2>2. Len(fs) = 2
    BY <2>1, TwoCalls
  <2> QED  BY <2>1, <2>2
<1> QED  BY <1>1, <1>2 DEF AreCalls

\* What the calls that run have before them, with what has not arrived.
LEMMA JoinedRuns ==
  ASSUME ParserInv, Depth > 0
  PROVE  Joined = Extended(frames, pending) /\ AreCalls(frames)
<1>1. frames # <<>>
  BY DEF Depth
<1> QED  BY <1>1, RunningCalls DEF Joined, Extended

LEMMA PutRunJoined == ASSUME ParserInv, PutRun PROVE RenderAll
<1>1. Depth > 0 /\ Left(frames) # <<>> /\ Left(frames)[1] = Data[1]
  BY DEF PutRun, Fast, Running, Left, Data, Depth
<1>2. Joined = Extended(frames, pending) /\ AreCalls(frames)
  BY <1>1, JoinedRuns
<1>3. frames' = Rest(frames) /\ pending' = pending /\ AreCalls(frames')
  BY <1>1, <1>2, RestCalls DEF PutRun, Outside
<1>4. Joined' = Extended(frames', pending)
  BY <1>3, CallsRun DEF Joined, Extended
<1>5. Takes(frames, frames')
  BY <1>1, <1>3, FastIsPut DEF Takes
<1>6. Loop(Joined, Joined')
  BY <1>2, <1>4, <1>5, ExtendedLoop DEF Loop, ParserInv
<1> QED  BY <1>6 DEF RenderAll, PutRun, Outside

LEMMA SlowJoined == ASSUME ParserInv, Slow PROVE RenderAll
<1>1. Joined = Extended(frames, pending) /\ AreCalls(frames)
  BY JoinedRuns DEF Slow
<1>2. AreCalls(frames') /\ pending' = pending
  BY <1>1, LoopKeeps DEF Slow, ParserInv, Outside
<1>3. Joined' = Extended(frames', pending)
  BY <1>2, CallsRun DEF Joined, Extended
<1>4. Loop(Joined, Joined')
  BY <1>1, <1>3, ExtendedLoop DEF Slow, ParserInv
<1> QED  BY <1>4 DEF RenderAll, Slow, Outside

LEMMA ReturnJoined == ASSUME ParserInv, Return PROVE UNCHANGED streamVars
<1>1. Joined = Extended(frames, pending) /\ AreCalls(frames)
  BY JoinedRuns DEF Return
<1>2. frames = <<Outermost(<<>>)>>
  <2>1. Len(frames) = 1 /\ Left(frames) = <<>>
    BY DEF Return, Data, Depth, Left
  <2>2. PICK s \in Seq(Bytes) : frames = <<Outermost(s)>>
    BY <1>1, <2>1, CallsRun
  <2>3. s = <<>>
    BY <2>1, <2>2, OneCall
  <2> QED  BY <2>2, <2>3
<1>3. Joined = <<Outermost(<<>> \o pending)>>
  BY <1>1, <1>2, ExtendedOne
<1>4. <<>> \o pending = pending
  BY DEF ParserInv
<1>5. Joined' = Joined
  BY <1>3, <1>4 DEF Joined, Return, Outside
<1> QED  BY <1>5 DEF streamVars, Return, Outside, NoStrings

LEMMA RenderJoined == ASSUME ParserInv, Render PROVE UNCHANGED streamVars
<1>1. PICK n \in 1 .. Len(pending) :
        /\ frames' = <<Outermost(SubSeq(pending, 1, n))>>
        /\ pending' = After(pending, n)
  BY Rendered
<1>2. Joined' = Extended(frames', pending')
  BY <1>1 DEF Joined, Extended
<1>3. Joined' = <<Outermost(pending)>>
  <2>1. SubSeq(pending, 1, n) \o After(pending, n) = pending
    BY SplitString DEF ParserInv
  <2>2. Extended(frames', pending')
          = <<Outermost(SubSeq(pending, 1, n) \o After(pending, n))>>
    BY <1>1, ExtendedOne
  <2> QED  BY <1>2, <2>1, <2>2
<1>4. Joined = <<Outermost(pending)>>
  BY DEF Joined, Render
<1> QED  BY <1>3, <1>4 DEF streamVars, Render, NoStrings

LEMMA SendJoined == ASSUME ParserInv, Send PROVE SendAll
<1>1. Joined = <<Outermost(<<>>)>>
  BY DEF Joined, Send, AtRest
<1>2. Joined' = <<Outermost(pending')>>
  BY DEF Joined, Send, AtRest
<1> QED  BY <1>1, <1>2 DEF SendAll, Send

\* A step is one of the abstract parser, or none.
LEMMA StepsOfStream == ParserInv /\ [ParserNext]_parserVars => [StreamNext]_streamVars
<1> SUFFICES ASSUME ParserInv, [ParserNext]_parserVars
             PROVE  StreamNext \/ UNCHANGED streamVars
  OBVIOUS
<1>1. CASE UNCHANGED parserVars
  BY <1>1 DEF parserVars, streamVars, Joined
<1>2. CASE ParserNext
  BY <1>2, PutRunJoined, SlowJoined, ReturnJoined, SendJoined, RenderJoined
     DEF ParserNext, StreamNext
<1> QED  BY <1>1, <1>2

\* However the bytes of a child are split into reads, and whichever path renders
\* them, they do what the loop of vtty_render does with all of them at once
\* (vtty_read_pipe, vtty_render): for every terminal, all sizes and all that a
\* child sends.
THEOREM SplitsDoNotShow == ParserSpec => ImplementsStream
<1>1. ParserInit => StreamInit
  BY DEF ParserInit, StreamInit, Joined
<1> QED  BY InitParser, NextKeepsParser, StepsOfStream, <1>1, PTL
         DEF ParserSpec, ImplementsStream

-----------------------------------------------------------------------------
(* What the host is told *)

IsString(c) == \E S : c \in Seq(S)

\* Calls the host does not hear of.
IsQuiet(c) ==
  IsString(c) /\ \A k \in 1 .. Len(c) : c[k][1] \notin {"title", "clipboard"}

\* The calls c tell of what, from old to new, if it is asked for.
Conveys(c, what, old, new) ==
  IF what \in kind.mask THEN Tells(c, what, old, new) ELSE Said(c, what) = {}

HostInv ==
  /\ IsString(calls)
  /\ Conveys(calls, "title", before[1], title)
  /\ Conveys(calls, "clipboard", before[2], clip)
  /\ IsNews(calls, "title", before[1])

\* One string after another.
LEMMA Concatenated ==
  ASSUME NEW c, NEW d, IsString(c), IsString(d)
  PROVE  /\ IsString(c \o d)
         /\ Len(c) \in Nat /\ Len(d) \in Nat
         /\ Len(c \o d) = Len(c) + Len(d)
         /\ \A k \in 1 .. Len(c) : (c \o d)[k] = c[k]
         /\ \A k \in 1 .. Len(d) : (c \o d)[Len(c) + k] = d[k]
<1>1. PICK S, T : c \in Seq(S) /\ d \in Seq(T)
  BY DEF IsString
<1> DEFINE U == S \cup T
<1>2. c \in Seq(U) /\ d \in Seq(U)
  BY <1>1
<1> HIDE DEF U
<1>3. /\ c \o d \in Seq(U) /\ Len(c) \in Nat /\ Len(d) \in Nat
      /\ Len(c \o d) = Len(c) + Len(d)
  BY <1>2
<1>4. \A k \in 1 .. Len(c) : (c \o d)[k] = c[k]
  BY <1>2
<1>5. \A k \in 1 .. Len(d) : (c \o d)[Len(c) + k] = d[k]
  BY <1>2
<1> QED  BY <1>3, <1>4, <1>5 DEF IsString

LEMMA SaidByBoth ==
  ASSUME NEW c, NEW d, IsString(c), IsString(d), NEW what
  PROVE  Said(c \o d, what) =
           Said(c, what) \cup {Len(c) + k : k \in Said(d, what)}
<1> DEFINE e == c \o d
<1>1. /\ Len(c) \in Nat /\ Len(d) \in Nat
      /\ Len(e) = Len(c) + Len(d)
      /\ \A k \in 1 .. Len(c) : e[k] = c[k]
      /\ \A k \in 1 .. Len(d) : e[Len(c) + k] = d[k]
  BY Concatenated
<1> HIDE DEF e
<1>2. ASSUME NEW k \in Said(e, what)
      PROVE  k \in Said(c, what) \cup {Len(c) + j : j \in Said(d, what)}
  <2>1. k \in 1 .. Len(e) /\ e[k][1] = what
    BY <1>2 DEF Said
  <2>2. CASE k <= Len(c)
    BY <1>1, <2>1, <2>2 DEF Said
  <2>3. CASE ~(k <= Len(c))
    <3>1. k - Len(c) \in 1 .. Len(d) /\ k = Len(c) + (k - Len(c))
      BY <1>1, <2>1, <2>3
    <3>2. e[k] = d[k - Len(c)]
      BY <1>1, <3>1
    <3>3. k - Len(c) \in Said(d, what)
      BY <2>1, <3>1, <3>2 DEF Said
    <3> QED  BY <3>1, <3>3
  <2> QED  BY <2>2, <2>3
<1>3. ASSUME NEW k \in Said(c, what) PROVE k \in Said(e, what)
  BY <1>1 DEF Said
<1>4. ASSUME NEW k \in Said(d, what) PROVE Len(c) + k \in Said(e, what)
  <2>1. Len(c) + k \in 1 .. Len(e)
    BY <1>1 DEF Said
  <2> QED  BY <1>1, <2>1 DEF Said
<1>5. Said(e, what) = Said(c, what) \cup {Len(c) + k : k \in Said(d, what)}
  BY <1>2, <1>3, <1>4
<1> QED  BY <1>5 DEF e

\* What is told by one and then by the other is told by both.
LEMMA TellsBoth ==
  ASSUME NEW c, NEW d, IsString(c), IsString(d), NEW what,
         NEW old, NEW mid, NEW new,
         Tells(c, what, old, mid), Tells(d, what, mid, new)
  PROVE  Tells(c \o d, what, old, new)
<1> DEFINE e == c \o d
<1>1. /\ Len(c) \in Nat /\ Len(d) \in Nat
      /\ \A k \in 1 .. Len(c) : e[k] = c[k]
      /\ \A k \in 1 .. Len(d) : e[Len(c) + k] = d[k]
  BY Concatenated
<1>2. Said(e, what) = Said(c, what) \cup {Len(c) + k : k \in Said(d, what)}
  BY SaidByBoth
<1> HIDE DEF e
<1>3. Said(c, what) \subseteq 1 .. Len(c) /\ Said(d, what) \subseteq 1 .. Len(d)
  BY DEF Said
<1>4. CASE Said(d, what) = {}
  <2>1. Said(e, what) = Said(c, what) /\ new = mid
    BY <1>2, <1>4 DEF Tells
  <2>2. \A k \in Said(c, what) : e[k] = c[k]
    BY <1>1, <1>3
  <2>3. Tells(e, what, old, new)
    BY <2>1, <2>2 DEF Tells
  <2> QED  BY <2>3 DEF e
<1>5. CASE Said(d, what) # {}
  <2>1. PICK k \in Said(d, what) : /\ d[k][2] = new
                                  /\ \A j \in Said(d, what) : j <= k
    BY <1>5 DEF Tells
  <2>2. Len(c) + k \in Said(e, what) /\ e[Len(c) + k][2] = new
    BY <1>1, <1>2, <1>3, <2>1
  <2>3. \A j \in Said(e, what) : j <= Len(c) + k
    <3> SUFFICES ASSUME NEW j \in Said(e, what) PROVE j <= Len(c) + k
      OBVIOUS
    <3>1. CASE j \in Said(c, what)
      BY <1>1, <1>3, <3>1
    <3>2. CASE \E i \in Said(d, what) : j = Len(c) + i
      BY <1>1, <1>3, <2>1, <3>2
    <3> QED  BY <1>2, <3>1, <3>2
  <2>4. Tells(e, what, old, new)
    BY <2>2, <2>3 DEF Tells
  <2> QED  BY <2>4 DEF e
<1> QED  BY <1>4, <1>5

LEMMA ConveysBoth ==
  ASSUME NEW c, NEW d, IsString(c), IsString(d), NEW what,
         NEW old, NEW mid, NEW new,
         Conveys(c, what, old, mid), Conveys(d, what, mid, new)
  PROVE  Conveys(c \o d, what, old, new)
<1>1. CASE what \in kind.mask
  BY <1>1, TellsBoth DEF Conveys
<1>2. CASE what \notin kind.mask
  BY <1>2, SaidByBoth DEF Conveys
<1> QED  BY <1>1, <1>2

\* What was news in each, with the last told before, is news in both.
LEMMA NewsBoth ==
  ASSUME NEW c, NEW d, IsString(c), IsString(d), NEW what,
         NEW old, NEW mid,
         Tells(c, what, old, mid), IsNews(c, what, old), IsNews(d, what, mid)
  PROVE  IsNews(c \o d, what, old)
<1> DEFINE e == c \o d
           n == Len(c)
<1>1. /\ n \in Nat /\ Len(d) \in Nat
      /\ \A k \in 1 .. n : e[k] = c[k]
      /\ \A k \in 1 .. Len(d) : e[n + k] = d[k]
  BY Concatenated
<1>2. Said(e, what) = Said(c, what) \cup {n + k : k \in Said(d, what)}
  BY SaidByBoth
<1>3. Said(c, what) \subseteq 1 .. n /\ Said(d, what) \subseteq 1 .. Len(d)
  BY DEF Said
<1> HIDE DEF e, n
<1> DEFINE New(k) ==
      \/ e[k][2] # old /\ \A j \in Said(e, what) : k <= j
      \/ \E j \in Said(e, what) :
           /\ j < k /\ e[j][2] # e[k][2]
           /\ \A i \in Said(e, what) : i <= j \/ k <= i
<1>4. ASSUME NEW k \in Said(c, what) PROVE New(k)
  <2>1. e[k] = c[k] /\ k \in 1 .. n
    BY <1>1, <1>3
  <2>2. \A i \in Said(d, what) : k <= n + i
    BY <1>1, <1>3, <2>1
  <2>3. CASE c[k][2] # old /\ \A j \in Said(c, what) : k <= j
    <3>1. \A j \in Said(e, what) : k <= j
      BY <1>2, <2>2, <2>3
    <3> QED  BY <2>1, <2>3, <3>1
  <2>4. CASE \E j \in Said(c, what) :
               /\ j < k /\ c[j][2] # c[k][2]
               /\ \A i \in Said(c, what) : i <= j \/ k <= i
    <3>1. PICK j \in Said(c, what) :
            /\ j < k /\ c[j][2] # c[k][2]
            /\ \A i \in Said(c, what) : i <= j \/ k <= i
      BY <2>4
    <3>2. e[j] = c[j] /\ j \in Said(e, what)
      BY <1>1, <1>2, <1>3
    <3>3. \A i \in Said(e, what) : i <= j \/ k <= i
      BY <1>2, <2>2, <3>1
    <3> QED  BY <2>1, <3>1, <3>2, <3>3
  <2> QED  BY <2>3, <2>4 DEF IsNews
<1>5. ASSUME NEW k \in Said(d, what) PROVE New(n + k)
  <2>1. e[n + k] = d[k] /\ k \in 1 .. Len(d)
    BY <1>1, <1>3
  <2>2. CASE d[k][2] # mid /\ \A j \in Said(d, what) : k <= j
    <3>1. \A j \in Said(d, what) : n + k <= n + j
      BY <1>1, <1>3, <2>2
    <3>2. CASE Said(c, what) = {}
      <4>1. \A j \in Said(e, what) : n + k <= j
        BY <1>2, <3>1, <3>2
      <4>2. mid = old
        BY <3>2 DEF Tells
      <4> QED  BY <2>1, <2>2, <4>1, <4>2
    <3>3. CASE Said(c, what) # {}
      <4>1. PICK j \in Said(c, what) : /\ c[j][2] = mid
                                      /\ \A i \in Said(c, what) : i <= j
        BY <3>3 DEF Tells
      <4>2. e[j] = c[j] /\ j \in Said(e, what) /\ j < n + k
        BY <1>1, <1>2, <1>3, <2>1
      <4>3. \A i \in Said(e, what) : i <= j \/ n + k <= i
        BY <1>2, <3>1, <4>1
      <4>4. e[j][2] # e[n + k][2]
        BY <2>1, <2>2, <4>1, <4>2
      <4> QED  BY <4>2, <4>3, <4>4
    <3> QED  BY <3>2, <3>3
  <2>3. CASE \E j \in Said(d, what) :
               /\ j < k /\ d[j][2] # d[k][2]
               /\ \A i \in Said(d, what) : i <= j \/ k <= i
    <3>1. PICK j \in Said(d, what) :
            /\ j < k /\ d[j][2] # d[k][2]
            /\ \A i \in Said(d, what) : i <= j \/ k <= i
      BY <2>3
    <3>2. e[n + j] = d[j] /\ n + j \in Said(e, what) /\ n + j < n + k
      BY <1>1, <1>2, <1>3, <2>1, <3>1
    <3>3. \A i \in Said(e, what) : i <= n + j \/ n + k <= i
      <4> SUFFICES ASSUME NEW i \in Said(e, what) PROVE i <= n + j \/ n + k <= i
        OBVIOUS
      <4>1. CASE i \in Said(c, what)
        BY <1>1, <1>3, <4>1
      <4>2. CASE \E h \in Said(d, what) : i = n + h
        <5>1. PICK h \in Said(d, what) : i = n + h
          BY <4>2
        <5>2. h \in Nat /\ j \in Nat /\ k \in Nat /\ (h <= j \/ k <= h)
          BY <1>1, <1>3, <3>1
        <5> QED  BY <1>1, <5>1, <5>2
      <4> QED  BY <1>2, <4>1, <4>2
    <3>4. e[n + j][2] # e[n + k][2]
      BY <2>1, <3>1, <3>2
    <3> QED  BY <3>2, <3>3, <3>4, Zenon
  <2> QED  BY <2>2, <2>3 DEF IsNews
<1>6. \A k \in Said(e, what) : New(k)
  BY <1>2, <1>4, <1>5
<1>7. IsNews(e, what, old)
  BY <1>6 DEF IsNews
<1> QED  BY <1>7 DEF e

\* The same where a title that is not asked for is never told.
LEMMA NewsConveyed ==
  ASSUME NEW c, NEW d, IsString(c), IsString(d), NEW what,
         NEW old, NEW mid, NEW new,
         Conveys(c, what, old, mid), Conveys(d, what, mid, new),
         IsNews(c, what, old), IsNews(d, what, mid)
  PROVE  IsNews(c \o d, what, old)
<1>1. CASE what \in kind.mask
  BY <1>1, NewsBoth DEF Conveys
<1>2. CASE what \notin kind.mask
  BY <1>2, ConveysBoth DEF Conveys, IsNews
<1> QED  BY <1>1, <1>2

\* Nothing, or one call, and what it tells.
LEMMA NothingTold ==
  ASSUME NEW what, NEW old
  PROVE  /\ IsQuiet(<<>>) /\ IsString(<<>>)
         /\ Conveys(<<>>, what, old, old) /\ IsNews(<<>>, what, old)
<1>1. <<>> \in Seq({}) /\ Len(<<>>) = 0
  OBVIOUS
<1>2. Said(<<>>, what) = {}
  BY <1>1 DEF Said
<1> QED  BY <1>1, <1>2 DEF IsQuiet, IsString, Conveys, Tells, IsNews

LEMMA OneTold ==
  ASSUME NEW c, NEW what
  PROVE  /\ IsString(<<c>>)
         /\ Said(<<c>>, what) = IF c[1] = what THEN {1} ELSE {}
         /\ <<c>>[1] = c
         /\ c[1] \notin {"title", "clipboard"} => IsQuiet(<<c>>)
<1> DEFINE s == <<c>>
<1>1. s \in Seq({c}) /\ Len(s) = 1 /\ s[1] = c
  OBVIOUS
<1> HIDE DEF s
<1>2. IsString(s) /\ Said(s, what) = IF c[1] = what THEN {1} ELSE {}
  BY <1>1 DEF IsString, Said
<1>3. c[1] \notin {"title", "clipboard"} => IsQuiet(s)
  BY <1>1, <1>2 DEF IsQuiet
<1> QED  BY <1>1, <1>2, <1>3 DEF s

\* Quiet calls tell nothing.
LEMMA QuietTells ==
  ASSUME NEW c, IsQuiet(c), NEW what \in {"title", "clipboard"}, NEW old
  PROVE  IsString(c) /\ Conveys(c, what, old, old) /\ IsNews(c, what, old)
<1>1. Said(c, what) = {}
  BY DEF IsQuiet, Said
<1> QED  BY <1>1 DEF IsQuiet, Conveys, Tells, IsNews

LEMMA QuietBoth ==
  ASSUME NEW c, NEW d, IsQuiet(c), IsQuiet(d)
  PROVE  IsQuiet(c \o d)
<1>1. IsString(c) /\ IsString(d) /\ IsString(c \o d)
  BY Concatenated DEF IsQuiet
<1> DEFINE e == c \o d
<1>2. \A what \in {"title", "clipboard"} : Said(e, what) = {}
  <2> SUFFICES ASSUME NEW what \in {"title", "clipboard"} PROVE Said(e, what) = {}
    OBVIOUS
  <2>1. Said(c, what) = {} /\ Said(d, what) = {}
    BY DEF IsQuiet, Said
  <2>2. Said(e, what) = Said(c, what) \cup {Len(c) + k : k \in Said(d, what)}
    BY <1>1, SaidByBoth
  <2> QED  BY <2>1, <2>2
<1> HIDE DEF e
<1>3. IsQuiet(e)
  BY <1>1, <1>2 DEF IsQuiet, Said, e
<1> QED  BY <1>3 DEF e

\* What the scanner hears is not for the host.
LEMMA HeardQuiet ==
  ASSUME NEW b
  PROVE  IsQuiet(Heard(b))
<1>1. <<"standard">>[1] \notin {"title", "clipboard"}
  OBVIOUS
<1> DEFINE c == <<"standard">>
<1>2. c[1] \notin {"title", "clipboard"}
  BY <1>1
<1> HIDE DEF c
<1>3. IsQuiet(<<c>>) /\ IsQuiet(<<>>)
  BY <1>2, OneTold, NothingTold
<1>4. Heard(b) = <<c>> \/ Heard(b) = <<>>
  BY DEF Heard, c
<1> QED  BY <1>3, <1>4

\* Calls that say what happened to the two strings keep the host informed.
LEMMA ToldKeeps ==
  ASSUME HostInv, NEW d, IsString(d), calls' = calls \o d,
         UNCHANGED <<kind, before>>,
         Conveys(d, "title", title, title'), IsNews(d, "title", title),
         Conveys(d, "clipboard", clip, clip')
  PROVE  HostInv'
<1>1. IsString(calls')
  BY Concatenated DEF HostInv
<1>2. /\ Conveys(calls', "title", before[1], title')
      /\ Conveys(calls', "clipboard", before[2], clip')
  BY ConveysBoth DEF HostInv
<1>3. IsNews(calls', "title", before[1])
  <2>1. CASE "title" \in kind.mask
    BY <2>1, NewsBoth DEF HostInv, Conveys
  <2>2. CASE "title" \notin kind.mask
    BY <1>2, <2>2 DEF Conveys, IsNews
  <2> QED  BY <2>1, <2>2
<1> QED  BY <1>1, <1>2, <1>3 DEF HostInv, Conveys

LEMMA QuietKeeps ==
  ASSUME HostInv, NEW d, IsQuiet(d), calls' = calls \o d,
         UNCHANGED <<kind, before>>, NoStrings
  PROVE  HostInv'
<1>1. /\ IsString(d)
      /\ Conveys(d, "title", title, title) /\ IsNews(d, "title", title)
      /\ Conveys(d, "clipboard", clip, clip)
  BY QuietTells
<1> QED  BY <1>1, ToldKeeps DEF NoStrings

LEMMA DoneQuiet ==
  ASSUME HostInv, NEW b, NEW q, NEW c, Done(b, q, c), IsQuiet(c),
         UNCHANGED <<kind, before>>, NoStrings
  PROVE  HostInv'
<1>1. IsQuiet(Heard(b) \o c)
  BY HeardQuiet, QuietBoth
<1> QED  BY <1>1, QuietKeeps DEF Done

\* One call that is not for the host.
LEMMA OneQuiet ==
  ASSUME NEW c, c[1] \notin {"title", "clipboard"}
  PROVE  IsQuiet(<<c>>)
BY OneTold

LEMMA ControlTells ==
  ASSUME HostInv, NEW b, Control(b), UNCHANGED <<kind, before>>
  PROVE  HostInv'
<1>1. <<"ctrl", b>>[1] \notin {"title", "clipboard"}
  OBVIOUS
<1>2. IsQuiet(ControlCalls(b))
  BY <1>1, OneQuiet, NothingTold DEF ControlCalls
<1> QED  BY <1>2, DoneQuiet DEF Control

LEMMA TextTells ==
  ASSUME HostInv, NEW b, UNCHANGED <<kind, before>>,
         AssembleMore(b) \/ AssembleLast(b) \/ PutByte(b)
  PROVE  HostInv'
<1>1. \A c : <<"put", c>>[1] \notin {"title", "clipboard"}
  OBVIOUS
<1>2. \A c : IsQuiet(<<<<"put", c>>>>)
  BY <1>1, OneQuiet
<1>3. IsQuiet(<<>>)
  BY NothingTold
<1>4. \E q, c : Done(b, q, c) /\ IsQuiet(c)
  BY <1>2, <1>3 DEF AssembleMore, AssembleLast, PutByte
<1>5. NoStrings
  BY DEF AssembleMore, AssembleLast, PutByte
<1> QED  BY <1>4, <1>5, DoneQuiet

LEMMA SequenceTells ==
  ASSUME HostInv, NEW b, UNCHANGED <<kind, before>>,
         Overflow(b) \/ First(b) \/ Collect(b) \/ AsksReset(b)
  PROVE  HostInv'
<1>1. <<"esc", b>>[1] \notin {"title", "clipboard"}
  OBVIOUS
<1>2. IsQuiet(<<<<"esc", b>>>>) /\ IsQuiet(<<>>)
  BY <1>1, OneQuiet, NothingTold
<1>3. \E q, c : Done(b, q, c) /\ IsQuiet(c)
  BY <1>2 DEF Overflow, First, Collect, AsksReset
<1>4. NoStrings
  BY DEF Overflow, First, Collect, AsksReset
<1> QED  BY <1>3, <1>4, DoneQuiet

\* What a sequence calls is not for the host.
LEMMA CsiQuiet ==
  ASSUME NEW s
  PROVE  IsQuiet(CsiCalls(s))
<1>1. \A v, ps, dec : <<"csi", v, ps, dec>>[1] \notin {"title", "clipboard"}
  OBVIOUS
<1>2. \A v, ps, dec : IsQuiet(<<<<"csi", v, ps, dec>>>>)
  BY <1>1, OneQuiet
<1> DEFINE c == <<"csi", IF s[Len(s)] = 112 THEN 90 ELSE s[Len(s)],
                  Params(Body(s)), IsDec(Body(s))>>
<1>3. CsiCalls(s) = <<>> \/ CsiCalls(s) = <<c>>
  BY DEF CsiCalls
<1>4. IsQuiet(<<c>>)
  BY <1>2
<1> QED  BY <1>3, <1>4, NothingTold

LEMMA SequenceQuiet ==
  ASSUME NEW handler \in {"csi", "scs", "dec"}, NEW s
  PROVE  IsQuiet(SequenceCalls(handler, s))
<1>1. \A v : <<"scs", v>>[1] \notin {"title", "clipboard"}
  OBVIOUS
<1>2. <<"decaln">>[1] \notin {"title", "clipboard"}
  OBVIOUS
<1>3. \A v : IsQuiet(<<<<"scs", v>>>>)
  BY <1>1, OneQuiet
<1>4. IsQuiet(<<<<"decaln">>>>) /\ IsQuiet(<<>>)
  BY <1>2, OneQuiet, NothingTold
<1>5. handler # "csi" => IsQuiet(OtherCalls(handler, s))
  BY <1>3, <1>4 DEF OtherCalls
<1> QED  BY <1>5, CsiQuiet DEF SequenceCalls

LEMMA DispatchTells ==
  ASSUME HostInv, NEW b, Dispatch(b), UNCHANGED <<kind, before>>
  PROVE  HostInv'
<1>1. \E q, c : Done(b, q, c) /\ IsQuiet(c)
  BY SequenceQuiet DEF Dispatch
<1> QED  BY <1>1, DoneQuiet DEF Dispatch

\* A title is announced when it is another one.
LEMMA TitleTold ==
  ASSUME NEW old, NEW new
  PROVE  LET a == Announced("title", old, new)
         IN /\ IsString(a)
            /\ Conveys(a, "title", old, new) /\ IsNews(a, "title", old)
            /\ \A x : Conveys(a, "clipboard", x, x)
<1> DEFINE c == <<"title", new>>
           a == Announced("title", old, new)
<1>1. c[1] = "title" /\ c[2] = new
  OBVIOUS
<1> HIDE DEF c
<1>2. CASE "title" \in kind.mask /\ old # new
  <2>1. a = <<c>>
    BY <1>2 DEF Announced, c
  <2> HIDE DEF a
  <2>2. /\ IsString(a) /\ a[1] = c
        /\ Said(a, "title") = {1} /\ Said(a, "clipboard") = {}
    BY <1>1, <2>1, OneTold
  <2>3. IsNews(a, "title", old) /\ Tells(a, "title", old, new)
    BY <1>1, <1>2, <2>2 DEF IsNews, Tells
  <2>4. \A x : Conveys(a, "clipboard", x, x)
    BY <2>2 DEF Conveys, Tells
  <2>5. Conveys(a, "title", old, new)
    BY <1>2, <2>3 DEF Conveys
  <2> QED  BY <2>2, <2>3, <2>4, <2>5 DEF a
<1>3. CASE ~("title" \in kind.mask /\ old # new)
  <2>1. a = <<>>
    BY <1>3 DEF Announced
  <2> HIDE DEF a
  <2>2. /\ IsString(a) /\ IsNews(a, "title", old)
        /\ \A what, x : Conveys(a, what, x, x)
    BY <2>1, NothingTold
  <2>3. Conveys(a, "title", old, new)
    BY <1>3, <2>2 DEF Conveys
  <2> QED  BY <2>2, <2>3 DEF a
<1> QED  BY <1>2, <1>3

\* A payload is announced when it is stored; one that is not changes nothing.
LEMMA ClipboardTold ==
  ASSUME NEW stores \in BOOLEAN, NEW old, NEW new, ~stores => new = old
  PROVE  LET a == IF stores /\ "clipboard" \in kind.mask
                  THEN <<<<"clipboard", new>>>> ELSE <<>>
         IN /\ IsString(a)
            /\ Conveys(a, "clipboard", old, new)
            /\ \A x : Conveys(a, "title", x, x) /\ IsNews(a, "title", x)
<1> DEFINE c == <<"clipboard", new>>
           a == IF stores /\ "clipboard" \in kind.mask THEN <<c>> ELSE <<>>
<1>1. c[1] = "clipboard" /\ c[2] = new
  OBVIOUS
<1> HIDE DEF c
<1>2. CASE stores /\ "clipboard" \in kind.mask
  <2>1. a = <<c>>
    BY <1>2
  <2> HIDE DEF a
  <2>2. /\ IsString(a) /\ a[1] = c
        /\ Said(a, "clipboard") = {1} /\ Said(a, "title") = {}
    BY <1>1, <2>1, OneTold
  <2>3. Conveys(a, "clipboard", old, new)
    BY <1>1, <1>2, <2>2 DEF Conveys, Tells
  <2>4. \A x : Conveys(a, "title", x, x) /\ IsNews(a, "title", x)
    BY <2>2 DEF Conveys, Tells, IsNews
  <2> QED  BY <2>2, <2>3, <2>4 DEF a, c
<1>3. CASE ~(stores /\ "clipboard" \in kind.mask)
  <2>1. a = <<>>
    BY <1>3
  <2> HIDE DEF a
  <2>2. /\ IsString(a)
        /\ \A what, x : Conveys(a, what, x, x) /\ IsNews(a, what, x)
    BY <2>1, NothingTold
  <2>3. Conveys(a, "clipboard", old, new)
    BY <1>3, <2>2 DEF Conveys
  <2> QED  BY <2>2, <2>3 DEF a, c
<1> QED  BY <1>2, <1>3

LEMMA CommandTells ==
  ASSUME HostInv, NEW b, Command(b), UNCHANGED <<kind, before>>
  PROVE  HostInv'
<1> DEFINE arg == Argument(Text(b))
           newTitle == IF IsTitle(Text(b)) THEN Titled(title, arg, kind.utf8)
                       ELSE title
           stores == IsClipboard(Text(b)) /\ IsStored(Payload(arg))
           newClip == IF IsClipboard(Text(b)) THEN Clipped(clip, Payload(arg))
                      ELSE clip
           color == ReadString(arg, 128, kind.utf8)
           A == Announced("title", title, newTitle)
           B == IF stores /\ "clipboard" \in kind.mask
                THEN <<<<"clipboard", newClip>>>> ELSE <<>>
           C == IF IsCommand(Text(b), 4) /\ color # None
                THEN <<<<"color", color>>>> ELSE <<>>
<1>1. title' = newTitle /\ clip' = newClip /\ Done(b, Cancel(p), A \o B \o C)
  BY Zenon DEF Command
<1>2. stores \in BOOLEAN /\ (~stores => newClip = clip)
  <2>1. stores \in BOOLEAN
    BY DEF IsStored, IsClipboard
  <2>2. ~stores => newClip = clip
    BY DEF Clipped, IsStored
  <2> QED  BY <2>1, <2>2
<1>3. IsQuiet(C)
  <2>1. <<"color", color>>[1] \notin {"title", "clipboard"}
    OBVIOUS
  <2>2. IsQuiet(<<<<"color", color>>>>) /\ IsQuiet(<<>>)
    BY <2>1, OneQuiet, NothingTold
  <2> QED  BY <2>2, Zenon
<1> HIDE DEF color, C
<1>4. /\ IsString(A)
      /\ Conveys(A, "title", title, newTitle) /\ IsNews(A, "title", title)
      /\ Conveys(A, "clipboard", clip, clip)
  <2> HIDE DEF newTitle
  <2> QED  BY TitleTold, Zenon
<1>5. /\ IsString(B)
      /\ Conveys(B, "clipboard", clip, newClip)
      /\ Conveys(B, "title", newTitle, newTitle) /\ IsNews(B, "title", newTitle)
  <2> HIDE DEF newTitle, newClip, stores
  <2> QED  BY <1>2, ClipboardTold, Zenon
<1> DEFINE H == Heard(b)
<1>6. IsQuiet(H)
  BY HeardQuiet
<1>7. calls' = calls \o (H \o ((A \o B) \o C))
  BY <1>1 DEF Done
<1> HIDE DEF A, B, H, newTitle, newClip, stores
<1>8. /\ IsString(A \o B)
      /\ Conveys(A \o B, "title", title, newTitle)
      /\ IsNews(A \o B, "title", title)
      /\ Conveys(A \o B, "clipboard", clip, newClip)
  <2>1. IsString(A \o B)
    BY <1>4, <1>5, Concatenated
  <2>2. /\ Conveys(A \o B, "title", title, newTitle)
        /\ Conveys(A \o B, "clipboard", clip, newClip)
    BY <1>4, <1>5, ConveysBoth
  <2>3. IsNews(A \o B, "title", title)
    BY <1>4, <1>5, <2>2, NewsConveyed
  <2> QED  BY <2>1, <2>2, <2>3
<1> DEFINE D == A \o B
<1> HIDE DEF D
<1>9. /\ IsString(D) /\ IsString(C) /\ IsString(H)
      /\ Conveys(D, "title", title, newTitle)
      /\ IsNews(D, "title", title)
      /\ Conveys(D, "clipboard", clip, newClip)
      /\ Conveys(C, "title", newTitle, newTitle) /\ IsNews(C, "title", newTitle)
      /\ Conveys(C, "clipboard", newClip, newClip)
      /\ Conveys(H, "title", title, title) /\ IsNews(H, "title", title)
      /\ Conveys(H, "clipboard", clip, clip)
  BY <1>3, <1>6, <1>8, QuietTells DEF D
<1> DEFINE E == D \o C
<1>10. /\ IsString(E)
       /\ Conveys(E, "title", title, newTitle)
       /\ IsNews(E, "title", title)
       /\ Conveys(E, "clipboard", clip, newClip)
  BY <1>9, Concatenated, ConveysBoth, NewsConveyed
<1> HIDE DEF E
<1> DEFINE F == H \o E
<1>11. /\ IsString(F)
       /\ Conveys(F, "title", title, newTitle)
       /\ IsNews(F, "title", title)
       /\ Conveys(F, "clipboard", clip, newClip)
  BY <1>9, <1>10, Concatenated, ConveysBoth, NewsConveyed
<1>12. calls' = calls \o F
  BY <1>7 DEF E, D
<1> HIDE DEF F
<1>13. /\ Conveys(F, "title", title, title')
       /\ Conveys(F, "clipboard", clip, clip')
  BY <1>1, <1>11 DEF newTitle, newClip
<1> QED  BY <1>11, <1>12, <1>13, ToldKeeps

\* Every byte keeps the host informed.
LEMMA LoopTells ==
  ASSUME HostInv, NEW fs, NEW gs, Loop(fs, gs), UNCHANGED <<kind, before>>
  PROVE  HostInv'
<1>1. CASE Takes(fs, gs)
  <2> DEFINE b == Left(fs)[1]
  <2>1. SkipNul(b) \/ Control(b) \/ AssembleMore(b) \/ AssembleLast(b)
          \/ PutByte(b) \/ Overflow(b) \/ First(b) \/ Collect(b)
          \/ Dispatch(b) \/ Command(b)
    BY <1>1 DEF Takes
  <2> HIDE DEF b
  <2>2. CASE SkipNul(b)
    BY <2>2 DEF SkipNul, NoStrings, HostInv, Conveys
  <2> QED  BY <2>1, <2>2, ControlTells, TextTells, SequenceTells, DispatchTells,
              CommandTells
<1>2. CASE Reset(fs, gs)
  BY <1>2, SequenceTells DEF Reset
<1>3. CASE EndReset(fs, gs)
  <2>1. <<"standard">>[1] \notin {"title", "clipboard"}
    OBVIOUS
  <2>2. IsQuiet(<<<<"standard">>>>) /\ IsQuiet(<<>>)
    BY <2>1, OneQuiet, NothingTold
  <2>3. \E d : IsQuiet(d) /\ calls' = calls \o d
    BY <1>3, <2>2 DEF EndReset
  <2> QED  BY <1>3, <2>3, QuietKeeps DEF EndReset
<1> QED  BY <1>1, <1>2, <1>3 DEF Loop

LEMMA PutRunTells == ASSUME HostInv, PutRun PROVE HostInv'
<1>1. <<"put", Data[1]>>[1] \notin {"title", "clipboard"}
  OBVIOUS
<1>2. IsQuiet(<<<<"put", Data[1]>>>>)
  BY <1>1, OneQuiet
<1> QED  BY <1>2, QuietKeeps DEF PutRun, Outside

LEMMA NextTells == HostInv /\ [ParserNext]_parserVars => HostInv'
<1> SUFFICES ASSUME HostInv, [ParserNext]_parserVars PROVE HostInv'
  OBVIOUS
<1>1. CASE UNCHANGED parserVars \/ Return \/ Render
  BY <1>1 DEF parserVars, Return, Render, Outside, NoStrings, HostInv, Conveys
<1>2. CASE PutRun
  BY <1>2, PutRunTells
<1>3. CASE Slow
  BY <1>3, LoopTells DEF Slow, Outside
<1>4. CASE Send
  <2>1. /\ calls' = <<>> /\ before' = <<title, clip>> /\ kind' = kind
        /\ title' = title /\ clip' = clip
    BY <1>4 DEF Send, NoStrings
  <2>2. before'[1] = title /\ before'[2] = clip
    BY <2>1
  <2>3. /\ IsString(<<>>)
        /\ Conveys(<<>>, "title", title, title)
        /\ IsNews(<<>>, "title", title)
        /\ Conveys(<<>>, "clipboard", clip, clip)
    BY NothingTold
  <2> QED  BY <2>1, <2>2, <2>3 DEF HostInv, Conveys
<1> QED  BY <1>1, <1>2, <1>3, <1>4 DEF ParserNext

\* Whatever a child sends, and however it is split, at every byte the host that
\* asked for it holds the title and the clipboard that the terminal holds, was
\* not told a title it held already, and was not told what it did not ask for
\* (vtty_osc_set_title, vtty_osc_set_clipboard).
THEOREM HostIsTold == ParserSpec => []HostKnows
<1>1. ParserInit => HostInv
  <2> SUFFICES ASSUME ParserInit PROVE HostInv
    OBVIOUS
  <2>1. calls = <<>> /\ before[1] = title /\ before[2] = clip
    BY DEF ParserInit
  <2> QED  BY <2>1, NothingTold DEF HostInv
<1>2. HostInv => HostKnows
  BY DEF HostInv, HostKnows, Conveys
<1> QED  BY <1>1, <1>2, NextTells, PTL DEF ParserSpec

-----------------------------------------------------------------------------
(* Characters *)

\* Digits to the base of 64, and each in its byte.
LEMMA Div64 ==
  ASSUME NEW c \in Nat
  PROVE  /\ c % 64 \in 0 .. 63 /\ c \div 64 \in Nat
         /\ c = 64 * (c \div 64) + (c % 64)
OBVIOUS

LEMMA Div4096 ==
  ASSUME NEW c \in Nat
  PROVE  /\ (c \div 64) \div 64 = c \div 4096
         /\ (c \div 4096) \div 64 = c \div 262144
OBVIOUS

LEMMA Low64 ==
  ASSUME NEW d \in 0 .. 63
  PROVE  (128 + d) % 64 = d
OBVIOUS
LEMMA Low32 ==
  ASSUME NEW d \in 0 .. 31
  PROVE  (192 + d) % 32 = d
OBVIOUS
LEMMA Low16 ==
  ASSUME NEW d \in 0 .. 15
  PROVE  (224 + d) % 16 = d
OBVIOUS
LEMMA Low8 ==
  ASSUME NEW d \in 0 .. 7
  PROVE  (240 + d) % 8 = d
OBVIOUS

\* The bytes of a character, by the standard.
Utf8(c) ==
  IF c < 2048 THEN <<192 + c \div 64, 128 + (c % 64)>>
  ELSE IF c < 65536
  THEN <<224 + c \div 4096, 128 + ((c \div 64) % 64), 128 + (c % 64)>>
  ELSE <<240 + c \div 262144, 128 + ((c \div 4096) % 64),
         128 + ((c \div 64) % 64), 128 + (c % 64)>>

\* The bytes s, as the program reads them, are the character c.
IsEncoding(s, c) ==
  /\ s \in Seq(Bytes) /\ Len(s) \in 2 .. 4
  /\ s[1] \in 194 .. 244 /\ Width(s[1]) = Len(s)
  /\ \A k \in 2 .. Len(s) : s[k] \in 128 .. 191
  /\ Character(s) = c

\* What is read of bytes of which all but the first are continuations.
LEMMA CharacterRead ==
  ASSUME NEW s, \A k \in 2 .. Len(s) : s[k] \in 128 .. 191
  PROVE  /\ Width(s[1]) = 2 => Character(s) = 64 * (s[1] % 32) + (s[2] % 64)
         /\ Width(s[1]) = 3 => Character(s) = 4096 * (s[1] % 16) + 64 * (s[2] % 64)
                                               + (s[3] % 64)
         /\ Width(s[1]) = 4 => Character(s) = 262144 * (s[1] % 8) + 4096 * (s[2] % 64)
                                               + 64 * (s[3] % 64) + (s[4] % 64)
<1>1. ~ \E k \in 2 .. Len(s) : s[k] \notin 128 .. 191
  BY Zenon
<1>2. ASSUME Width(s[1]) = 2
      PROVE  Character(s) = 64 * (s[1] % 32) + (s[2] % 64)
  BY <1>1, <1>2, SMT DEF Character
<1>3. ASSUME Width(s[1]) = 3
      PROVE  Character(s) = 4096 * (s[1] % 16) + 64 * (s[2] % 64) + (s[3] % 64)
  BY <1>1, <1>3, SMT DEF Character
<1>4. ASSUME Width(s[1]) = 4
      PROVE  Character(s) = 262144 * (s[1] % 8) + 4096 * (s[2] % 64)
                              + 64 * (s[3] % 64) + (s[4] % 64)
  BY <1>1, <1>4, SMT DEF Character
<1> QED  BY <1>2, <1>3, <1>4, SMT

IsContinuation(b) == b \in 128 .. 191

\* The bytes of s after the first, up to the n-th, are continuations.
Continued(s, n) ==
  /\ IsContinuation(s[2])
  /\ n > 2 => IsContinuation(s[3])
  /\ n > 3 => IsContinuation(s[4])

LEMMA AreContinuations ==
  ASSUME NEW s, NEW n \in 2 .. 4, Len(s) = n, Continued(s, n)
  PROVE  \A k \in 2 .. Len(s) : IsContinuation(s[k])
<1> SUFFICES ASSUME NEW k \in 2 .. n PROVE IsContinuation(s[k])
  OBVIOUS
<1>1. CASE k = 2
  BY <1>1 DEF Continued
<1>2. CASE k = 3
  BY <1>2 DEF Continued
<1>3. CASE k = 4
  BY <1>3 DEF Continued
<1>4. k = 2 \/ k = 3 \/ k = 4
  OBVIOUS
<1> QED  BY <1>1, <1>2, <1>3, <1>4

LEMMA EncodedInTwo ==
  ASSUME NEW c \in Nat, 128 <= c, c < 2048
  PROVE  IsEncoding(Utf8(c), c)
<1> DEFINE a == c \div 64
           d == c % 64
           s == <<192 + a, 128 + d>>
<1>1. c \in Nat
  OBVIOUS
<1>2. d \in 0 .. 63 /\ a \in Nat /\ c = 64 * a + d
  BY <1>1, Div64
<1>3. Utf8(c) = s
  BY DEF Utf8
<1> HIDE DEF a, d
<1>4. a \in 2 .. 31
  BY <1>2
<1>5. (128 + d) % 64 = d /\ (192 + a) % 32 = a
  BY <1>2, <1>4, Low64, Low32
<1>6. s \in Seq(Bytes) /\ Len(s) = 2 /\ s[1] = 192 + a /\ s[2] = 128 + d
  BY <1>2, <1>4 DEF Bytes
<1> HIDE DEF s
<1>7. s[1] \in 194 .. 244 /\ s[2] \in 128 .. 191 /\ Width(s[1]) = 2
  BY <1>2, <1>4, <1>6 DEF Width
<1>8. \A k \in 2 .. Len(s) : s[k] \in 128 .. 191
  <2>1. Len(s) = 2 /\ 2 \in 2 .. 4 /\ Continued(s, 2)
    BY <1>6, <1>7, SMT DEF Continued, IsContinuation
  <2>2. \A k \in 2 .. Len(s) : IsContinuation(s[k])
    BY <2>1, AreContinuations, SMT
  <2> QED  BY <2>2, SMT DEF IsContinuation
<1>9. Character(s) = 64 * (s[1] % 32) + (s[2] % 64)
  BY <1>7, <1>8, CharacterRead, SMT
<1>10. Character(s) = c
  BY <1>2, <1>5, <1>6, <1>9
<1> QED  BY <1>3, <1>6, <1>7, <1>8, <1>10 DEF IsEncoding

LEMMA EncodedInThree ==
  ASSUME NEW c \in Nat, 2048 <= c, c < 65536
  PROVE  IsEncoding(Utf8(c), c)
<1> DEFINE h == c \div 64
           d == c % 64
           a == c \div 4096
           e == h % 64
           s == <<224 + a, 128 + e, 128 + d>>
<1>1. c \in Nat
  OBVIOUS
<1>2. /\ d \in 0 .. 63 /\ h \in Nat /\ c = 64 * h + d
      /\ e \in 0 .. 63 /\ a \in Nat /\ h = 64 * a + e
  BY <1>1, Div64, Div4096
<1>3. Utf8(c) = s
  BY DEF Utf8
<1> HIDE DEF a, d, e, h
<1>4. a \in 0 .. 15
  BY <1>2
<1>5. (128 + d) % 64 = d /\ (128 + e) % 64 = e /\ (224 + a) % 16 = a
  BY <1>2, <1>4, Low64, Low16
<1>6. /\ s \in Seq(Bytes) /\ Len(s) = 3
      /\ s[1] = 224 + a /\ s[2] = 128 + e /\ s[3] = 128 + d
  BY <1>2, <1>4 DEF Bytes
<1> HIDE DEF s
<1>7. /\ s[1] \in 194 .. 244 /\ Width(s[1]) = 3
      /\ s[2] \in 128 .. 191 /\ s[3] \in 128 .. 191
  BY <1>2, <1>4, <1>6 DEF Width
<1>8. \A k \in 2 .. Len(s) : s[k] \in 128 .. 191
  <2>1. Len(s) = 3 /\ 3 \in 2 .. 4 /\ Continued(s, 3)
    BY <1>6, <1>7, SMT DEF Continued, IsContinuation
  <2>2. \A k \in 2 .. Len(s) : IsContinuation(s[k])
    BY <2>1, AreContinuations, SMT
  <2> QED  BY <2>2, SMT DEF IsContinuation
<1>9. Character(s) = 4096 * (s[1] % 16) + 64 * (s[2] % 64) + (s[3] % 64)
  BY <1>7, <1>8, CharacterRead, SMT
<1>10. Character(s) = c
  BY <1>2, <1>5, <1>6, <1>9
<1> QED  BY <1>3, <1>6, <1>7, <1>8, <1>10 DEF IsEncoding

LEMMA EncodedInFour ==
  ASSUME NEW c \in Nat, 65536 <= c, c < 1114112
  PROVE  IsEncoding(Utf8(c), c)
<1> DEFINE h == c \div 64
           d == c % 64
           g == c \div 4096
           e == h % 64
           a == c \div 262144
           f == g % 64
           s == <<240 + a, 128 + f, 128 + e, 128 + d>>
<1>1. c \in Nat
  OBVIOUS
<1>2. /\ d \in 0 .. 63 /\ h \in Nat /\ c = 64 * h + d
      /\ e \in 0 .. 63 /\ g \in Nat /\ h = 64 * g + e
      /\ f \in 0 .. 63 /\ a \in Nat /\ g = 64 * a + f
  BY <1>1, Div64, Div4096
<1>3. Utf8(c) = s
  BY DEF Utf8
<1> HIDE DEF a, d, e, f, g, h
<1>4. a \in 0 .. 4
  BY <1>2
<1>5. /\ (128 + d) % 64 = d /\ (128 + e) % 64 = e /\ (128 + f) % 64 = f
      /\ (240 + a) % 8 = a
  BY <1>2, <1>4, Low64, Low8
<1>6. /\ s \in Seq(Bytes) /\ Len(s) = 4 /\ s[1] = 240 + a
      /\ s[2] = 128 + f /\ s[3] = 128 + e /\ s[4] = 128 + d
  BY <1>2, <1>4 DEF Bytes
<1> HIDE DEF s
<1>7. /\ s[1] \in 194 .. 244 /\ Width(s[1]) = 4
      /\ s[2] \in 128 .. 191 /\ s[3] \in 128 .. 191 /\ s[4] \in 128 .. 191
  BY <1>2, <1>4, <1>6 DEF Width
<1>8. \A k \in 2 .. Len(s) : s[k] \in 128 .. 191
  <2>1. Len(s) = 4 /\ 4 \in 2 .. 4 /\ Continued(s, 4)
    BY <1>6, <1>7, SMT DEF Continued, IsContinuation
  <2>2. \A k \in 2 .. Len(s) : IsContinuation(s[k])
    BY <2>1, AreContinuations, SMT
  <2> QED  BY <2>2, SMT DEF IsContinuation
<1>9. Character(s) = 262144 * (s[1] % 8) + 4096 * (s[2] % 64)
                       + 64 * (s[3] % 64) + (s[4] % 64)
  BY <1>7, <1>8, CharacterRead, SMT
<1>10. Character(s) = c
  BY <1>2, <1>5, <1>6, <1>9
<1> QED  BY <1>3, <1>6, <1>7, <1>8, <1>10 DEF IsEncoding

\* A character comes out of its bytes as it went in, and the first of them says
\* how many there are (vtty_utf8_decode, vtty_render): for every character that is
\* not ASCII.
THEOREM CharactersComeBack ==
  \A c \in Nat : 128 <= c /\ c < 1114112 => IsEncoding(Utf8(c), c)
<1> SUFFICES ASSUME NEW c \in Nat, 128 <= c, c < 1114112
             PROVE  IsEncoding(Utf8(c), c)
  OBVIOUS
<1>1. CASE c < 2048
  BY <1>1, EncodedInTwo
<1>2. CASE 2048 <= c /\ c < 65536
  BY <1>2, EncodedInThree
<1>3. CASE 65536 <= c
  BY <1>3, EncodedInFour
<1> QED  BY <1>1, <1>2, <1>3

-----------------------------------------------------------------------------
(* Payloads *)

Sextet == 0 .. 63

\* The letter for six bits, by the standard.
Coded(v) ==
  IF v < 26 THEN 65 + v ELSE IF v < 52 THEN 71 + v
  ELSE IF v < 62 THEN v - 4 ELSE IF v = 62 THEN 43 ELSE 47

\* The group that stands for one, two or three bytes.
Group(s) ==
  CASE Len(s) = 1 -> <<Coded(s[1] \div 4), Coded((s[1] % 4) * 16), Equals, Equals>>
    [] Len(s) = 2 -> <<Coded(s[1] \div 4), Coded((s[1] % 4) * 16 + s[2] \div 16),
                       Coded((s[2] % 16) * 4), Equals>>
    [] Len(s) = 3 -> <<Coded(s[1] \div 4), Coded((s[1] % 4) * 16 + s[2] \div 16),
                       Coded((s[2] % 16) * 4 + s[3] \div 64), Coded(s[3] % 64)>>

\* A letter is read for what it stands for.
LEMMA CodedValue ==
  ASSUME NEW v \in Sextet
  PROVE  /\ Coded(v) \in Bytes /\ Coded(v) # Equals
         /\ Base64(Coded(v)) = v /\ Base64(Coded(v)) # NoValue
<1>1. v \in 0 .. 63
  BY DEF Sextet
<1>2. CASE v < 26
  BY <1>1, <1>2 DEF Coded, Base64, Bytes, Equals, NoValue, Digit
<1>3. CASE v >= 26 /\ v < 52
  BY <1>1, <1>3 DEF Coded, Base64, Bytes, Equals, NoValue, Digit
<1>4. CASE v >= 52 /\ v < 62
  BY <1>1, <1>4 DEF Coded, Base64, Bytes, Equals, NoValue, Digit
<1>5. CASE v >= 62
  BY <1>1, <1>5 DEF Coded, Base64, Bytes, Equals, NoValue, Digit
<1> QED  BY <1>1, <1>2, <1>3, <1>4, <1>5

\* The six bits a byte is cut into, and put together from.
LEMMA Cuts ==
  ASSUME NEW b \in Bytes
  PROVE  /\ b \div 4 \in 0 .. 63 /\ b % 4 \in 0 .. 3 /\ b = 4 * (b \div 4) + (b % 4)
         /\ b \div 16 \in 0 .. 15 /\ b % 16 \in 0 .. 15
         /\ b = 16 * (b \div 16) + (b % 16)
         /\ b \div 64 \in 0 .. 3 /\ b % 64 \in 0 .. 63
         /\ b = 64 * (b \div 64) + (b % 64)
BY DEF Bytes

\* Bits put together from two bytes come apart again.
LEMMA Joints ==
  /\ \A h \in 0 .. 3, l \in 0 .. 15 : /\ h * 16 + l \in Sextet
                                      /\ (h * 16 + l) \div 16 = h
                                      /\ (h * 16 + l) % 16 = l
  /\ \A h \in 0 .. 15, l \in 0 .. 3 : /\ h * 4 + l \in Sextet
                                      /\ (h * 4 + l) \div 4 = h
                                      /\ (h * 4 + l) % 4 = l
BY DEF Sextet

\* How much padding there is.
LEMMA PadCounts ==
  ASSUME NEW q
  PROVE  /\ q[1] # Equals /\ q[2] # Equals /\ q[3] # Equals /\ q[4] # Equals
              => Pads(q) = 0
         /\ q[1] # Equals /\ q[2] # Equals /\ q[3] # Equals /\ q[4] = Equals
              => Pads(q) = 1
         /\ q[1] # Equals /\ q[2] # Equals /\ q[3] = Equals /\ q[4] = Equals
              => Pads(q) = 2
<1> DEFINE P == {k \in 1 .. 4 : q[k] = Equals}
<1>1. Cardinality({}) = 0 /\ Cardinality({4}) = 1 /\ Cardinality({3, 4}) = 2
  <2>1. Cardinality({4}) = 1 /\ IsFiniteSet({4})
    BY FS_Singleton
  <2>2. Cardinality({4} \cup {3}) = Cardinality({4}) + 1
    BY <2>1, FS_AddElement
  <2>3. {4} \cup {3} = {3, 4}
    OBVIOUS
  <2> QED  BY <2>1, <2>2, <2>3, FS_EmptySet
<1>2. q[1] # Equals /\ q[2] # Equals /\ q[3] # Equals /\ q[4] # Equals => P = {}
  OBVIOUS
<1>3. q[1] # Equals /\ q[2] # Equals /\ q[3] # Equals /\ q[4] = Equals => P = {4}
  OBVIOUS
<1>4. q[1] # Equals /\ q[2] # Equals /\ q[3] = Equals /\ q[4] = Equals => P = {3, 4}
  OBVIOUS
<1> QED  BY <1>1, <1>2, <1>3, <1>4 DEF Pads

\* The first bytes of a string.
LEMMA FrontType ==
  ASSUME NEW s \in Seq(Bytes), NEW n \in Nat, n <= Len(s)
  PROVE  /\ SubSeq(s, 1, n) \in Seq(Bytes)
         /\ Len(SubSeq(s, 1, n)) = n
         /\ \A k \in 1 .. n : SubSeq(s, 1, n)[k] = s[k]
OBVIOUS

\* What is left of three bytes.
LEMMA Beginnings ==
  ASSUME NEW x \in Bytes, NEW y \in Bytes, NEW z \in Bytes
  PROVE  /\ SubSeq(<<x, y, z>>, 1, 1) = <<x>>
         /\ SubSeq(<<x, y, z>>, 1, 2) = <<x, y>>
         /\ SubSeq(<<x, y, z>>, 1, 3) = <<x, y, z>>
<1> DEFINE s == <<x, y, z>>
           one == <<x>>
           two == <<x, y>>
<1>1. s \in Seq(Bytes) /\ Len(s) = 3 /\ s[1] = x /\ s[2] = y
  OBVIOUS
<1>2. /\ one \in Seq(Bytes) /\ Len(one) = 1 /\ one[1] = x
      /\ two \in Seq(Bytes) /\ Len(two) = 2 /\ two[1] = x /\ two[2] = y
  OBVIOUS
<1> HIDE DEF s, one, two
<1>3. \A n \in 1 .. 3 : /\ SubSeq(s, 1, n) \in Seq(Bytes)
                        /\ Len(SubSeq(s, 1, n)) = n
                        /\ \A k \in 1 .. n : SubSeq(s, 1, n)[k] = s[k]
  <2> SUFFICES ASSUME NEW n \in 1 .. 3
               PROVE  /\ SubSeq(s, 1, n) \in Seq(Bytes)
                      /\ Len(SubSeq(s, 1, n)) = n
                      /\ \A k \in 1 .. n : SubSeq(s, 1, n)[k] = s[k]
    OBVIOUS
  <2>1. n \in Nat /\ n >= 1 /\ n <= Len(s)
    BY <1>1
  <2> QED  BY <1>1, <2>1, FrontType
<1>4. SubSeq(s, 1, 1) = one
  <2>1. \A k \in 1 .. 1 : SubSeq(s, 1, 1)[k] = one[k]
    BY <1>1, <1>2, <1>3
  <2> QED  BY <1>2, <1>3, <2>1, SeqEqual
<1>5. SubSeq(s, 1, 2) = two
  <2>1. \A k \in 1 .. 2 : SubSeq(s, 1, 2)[k] = two[k]
    BY <1>1, <1>2, <1>3
  <2> QED  BY <1>2, <1>3, <2>1, SeqEqual
<1>6. SubSeq(s, 1, 3) = s
  BY <1>1, <1>3, SeqEqual
<1> QED  BY <1>4, <1>5, <1>6 DEF s, one, two

\* The group q, as the program reads it, is the bytes s.
IsCoding(q, s) ==
  /\ q \in Seq(Bytes) /\ Len(q) = 4
  /\ IsGroup(q) /\ Pads(q) = 3 - Len(s)
  /\ DecodedGroup(q) = s

LEMMA OneByteCoded ==
  ASSUME NEW x \in Bytes
  PROVE  IsCoding(Group(<<x>>), <<x>>)
<1> DEFINE u == x \div 4
           v == (x % 4) * 16
           q == <<Coded(u), Coded(v), Equals, Equals>>
<1>1. Group(<<x>>) = q
  BY DEF Group
<1>2. /\ u \in Sextet /\ v \in Sextet /\ v \div 16 = x % 4 /\ v % 16 = 0
      /\ x = 4 * u + (v \div 16)
  <2>1. x % 4 \in 0 .. 3 /\ u \in Sextet /\ x = 4 * u + (x % 4)
    BY Cuts DEF Sextet
  <2>2. v = (x % 4) * 16 + 0 /\ 0 \in 0 .. 15
    BY <2>1
  <2>3. v \in Sextet /\ v \div 16 = x % 4 /\ v % 16 = 0
    BY <2>1, <2>2, Joints
  <2> QED  BY <2>1, <2>3
<1> HIDE DEF u, v
<1>3. /\ q \in Seq(Bytes) /\ Len(q) = 4
      /\ q[1] = Coded(u) /\ q[2] = Coded(v) /\ q[3] = Equals /\ q[4] = Equals
  BY <1>2, CodedValue DEF Equals, Bytes
<1> HIDE DEF q
<1>4. /\ q[1] # Equals /\ q[2] # Equals
      /\ Base64(q[1]) = u /\ Base64(q[2]) = v
      /\ Base64(q[1]) # NoValue /\ Base64(q[2]) # NoValue
  BY <1>2, <1>3, CodedValue
<1>5. Pads(q) = 2
  BY <1>3, <1>4, PadCounts
<1>6. IsGroup(q)
  BY <1>3, <1>4 DEF IsGroup
<1> DEFINE all == <<u * 4 + v \div 16, (v % 16) * 16 + 0 \div 4, (0 % 4) * 64 + 0>>
<1>7. DecodedGroup(q) = SubSeq(all, 1, 1)
  BY <1>3, <1>4, <1>5 DEF DecodedGroup
<1>8. all[1] = x /\ all = <<x, 0, 0>>
  BY <1>2 DEF Sextet
<1> HIDE DEF all
<1>9. DecodedGroup(q) = <<x>>
  <2>1. 0 \in Bytes
    BY DEF Bytes
  <2> QED  BY <1>7, <1>8, <2>1, Beginnings
<1>10. Len(<<x>>) = 1
  OBVIOUS
<1> QED  BY <1>1, <1>3, <1>5, <1>6, <1>9, <1>10 DEF IsCoding

LEMMA ThreeBytesCoded ==
  ASSUME NEW x \in Bytes, NEW y \in Bytes, NEW z \in Bytes
  PROVE  IsCoding(Group(<<x, y, z>>), <<x, y, z>>)
<1> DEFINE u == x \div 4
           v == (x % 4) * 16 + y \div 16
           w == (y % 16) * 4 + z \div 64
           t == z % 64
           q == <<Coded(u), Coded(v), Coded(w), Coded(t)>>
<1>1. Group(<<x, y, z>>) = q
  BY DEF Group
<1>2. /\ u \in Sextet /\ v \in Sextet /\ w \in Sextet /\ t \in Sextet
      /\ x = u * 4 + v \div 16
      /\ y = (v % 16) * 16 + w \div 4
      /\ z = (w % 4) * 64 + t
  <2>1. /\ x % 4 \in 0 .. 3 /\ u \in Sextet /\ x = 4 * u + (x % 4)
        /\ y \div 16 \in 0 .. 15 /\ y % 16 \in 0 .. 15
        /\ y = 16 * (y \div 16) + (y % 16)
        /\ z \div 64 \in 0 .. 3 /\ t \in Sextet /\ z = 64 * (z \div 64) + t
    BY Cuts DEF Sextet
  <2>2. v \in Sextet /\ v \div 16 = x % 4 /\ v % 16 = y \div 16
    BY <2>1, Joints
  <2>3. w \in Sextet /\ w \div 4 = y % 16 /\ w % 4 = z \div 64
    BY <2>1, Joints
  <2> HIDE DEF u, v, w, t
  <2> QED  BY <2>1, <2>2, <2>3 DEF Sextet
<1> HIDE DEF u, v, w, t
<1>3. /\ q \in Seq(Bytes) /\ Len(q) = 4
      /\ q[1] = Coded(u) /\ q[2] = Coded(v) /\ q[3] = Coded(w) /\ q[4] = Coded(t)
  BY <1>2, CodedValue
<1> HIDE DEF q
<1>4. \A k \in 1 .. 4 : q[k] # Equals /\ Base64(q[k]) # NoValue
  <2>1. \A c \in Sextet : Coded(c) # Equals /\ Base64(Coded(c)) # NoValue
    BY CodedValue
  <2> QED  BY <1>2, <1>3, <2>1
<1>5. /\ Base64(q[1]) = u /\ Base64(q[2]) = v /\ Base64(q[3]) = w /\ Base64(q[4]) = t
  BY <1>2, <1>3, CodedValue
<1>6. Pads(q) = 0
  BY <1>4, PadCounts
<1>7. IsGroup(q)
  BY <1>4 DEF IsGroup
<1> DEFINE all == <<u * 4 + v \div 16, (v % 16) * 16 + w \div 4, (w % 4) * 64 + t>>
<1>8. DecodedGroup(q) = SubSeq(all, 1, 3)
  BY <1>4, <1>5, <1>6 DEF DecodedGroup
<1>9. all = <<x, y, z>>
  BY <1>2
<1> HIDE DEF all
<1>10. DecodedGroup(q) = <<x, y, z>> /\ Len(<<x, y, z>>) = 3
  BY <1>8, <1>9, Beginnings
<1> QED  BY <1>1, <1>3, <1>6, <1>7, <1>10 DEF IsCoding

LEMMA TwoBytesCoded ==
  ASSUME NEW x \in Bytes, NEW y \in Bytes
  PROVE  IsCoding(Group(<<x, y>>), <<x, y>>)
<1> DEFINE u == x \div 4
           v == (x % 4) * 16 + y \div 16
           w == (y % 16) * 4
           q == <<Coded(u), Coded(v), Coded(w), Equals>>
<1>1. Group(<<x, y>>) = q
  BY DEF Group
<1>2. /\ u \in Sextet /\ v \in Sextet /\ w \in Sextet
      /\ x = u * 4 + v \div 16
      /\ y = (v % 16) * 16 + w \div 4
      /\ w % 4 = 0
  <2>1. /\ x % 4 \in 0 .. 3 /\ u \in Sextet /\ x = 4 * u + (x % 4)
        /\ y \div 16 \in 0 .. 15 /\ y % 16 \in 0 .. 15
        /\ y = 16 * (y \div 16) + (y % 16)
    BY Cuts DEF Sextet
  <2>2. v \in Sextet /\ v \div 16 = x % 4 /\ v % 16 = y \div 16
    BY <2>1, Joints
  <2>3. w = (y % 16) * 4 + 0 /\ 0 \in 0 .. 3
    BY <2>1
  <2>4. w \in Sextet /\ w \div 4 = y % 16 /\ w % 4 = 0
    BY <2>1, <2>3, Joints
  <2> HIDE DEF u, v, w
  <2> QED  BY <2>1, <2>2, <2>4 DEF Sextet
<1> HIDE DEF u, v, w
<1>3. /\ q \in Seq(Bytes) /\ Len(q) = 4
      /\ q[1] = Coded(u) /\ q[2] = Coded(v) /\ q[3] = Coded(w) /\ q[4] = Equals
  BY <1>2, CodedValue DEF Equals, Bytes
<1> HIDE DEF q
<1>4. /\ q[1] # Equals /\ q[2] # Equals /\ q[3] # Equals
      /\ Base64(q[1]) = u /\ Base64(q[2]) = v /\ Base64(q[3]) = w
      /\ Base64(q[1]) # NoValue /\ Base64(q[2]) # NoValue /\ Base64(q[3]) # NoValue
  BY <1>2, <1>3, CodedValue
<1>5. Pads(q) = 1
  BY <1>3, <1>4, PadCounts
<1>6. IsGroup(q)
  BY <1>3, <1>4 DEF IsGroup
<1> DEFINE all == <<u * 4 + v \div 16, (v % 16) * 16 + w \div 4, (w % 4) * 64 + 0>>
<1>7. DecodedGroup(q) = SubSeq(all, 1, 2)
  BY <1>3, <1>4, <1>5 DEF DecodedGroup
<1>8. all = <<x, y, 0>>
  BY <1>2
<1> HIDE DEF all
<1>9. DecodedGroup(q) = <<x, y>> /\ Len(<<x, y>>) = 2
  <2>1. 0 \in Bytes
    BY DEF Bytes
  <2> QED  BY <1>7, <1>8, <2>1, Beginnings
<1> QED  BY <1>1, <1>3, <1>5, <1>6, <1>9 DEF IsCoding

\* A payload comes out of base64 as it went in, group by group, padded or not
\* (vtty_b64_val, vtty_b64_decode): for all bytes.
THEOREM PayloadsComeBack ==
  \A s \in Seq(Bytes) : Len(s) \in 1 .. 3 => IsCoding(Group(s), s)
<1> SUFFICES ASSUME NEW s \in Seq(Bytes), Len(s) \in 1 .. 3
             PROVE  IsCoding(Group(s), s)
  OBVIOUS
<1>1. CASE Len(s) = 1
  <2>1. s = <<s[1]>> /\ s[1] \in Bytes
    BY <1>1
  <2> QED  BY <2>1, OneByteCoded
<1>2. CASE Len(s) = 2
  <2>1. s = <<s[1], s[2]>> /\ s[1] \in Bytes /\ s[2] \in Bytes
    BY <1>2
  <2> QED  BY <2>1, TwoBytesCoded
<1>3. CASE Len(s) = 3
  <2>1. s = <<s[1], s[2], s[3]>> /\ s[1] \in Bytes /\ s[2] \in Bytes /\ s[3] \in Bytes
    BY <1>3
  <2> QED  BY <2>1, ThreeBytesCoded
<1> QED  BY <1>1, <1>2, <1>3
-----------------------------------------------------------------------------
(* What is sent whole is understood *)

\* A character that is put, and the bytes the terminal k has for it.
IsText(k, w) ==
  \E c \in Nat :
    /\ 32 <= c /\ ~(127 < c /\ c < 160)
    /\ IF c < 128 \/ ~k.utf8 THEN c < 256 /\ w.bytes = <<c>>
                             ELSE c < 1114112 /\ w.bytes = Utf8(c)
    /\ w.calls = <<<<"put", c>>>>

\* A control character, or NUL.
IsControl(w) ==
  \E b \in ({0} \cup C0) \ {ESC} : w.bytes = <<b>> /\ w.calls = ControlCalls(b)

\* The last byte of a sequence with this handler.
Ending(h) ==
  CASE h = "csi" -> Letter \cup {64, 96}
    [] h = "scs" -> {48, 49, 50, 65, 66}
    [] h = "dec" -> 51 .. 56

\* What follows the ESC of a sequence that is no command and no reset, and is
\* not the ESC > that a reset begins with.
IsRest(s) ==
  /\ s \in Seq(Bytes \ ({0} \cup C0))
  /\ Len(s) \in 1 .. SmallSize
  /\ IF Len(s) = 1 THEN Handler(s[1]) = "none" /\ s[1] \notin {Lowerc, 62}
     ELSE /\ Handler(s[1]) \in {"csi", "scs", "dec"}
          /\ \A n \in 2 .. Len(s) : s[n] \in Ending(Handler(s[1])) <=> n = Len(s)
          /\ ~(Handler(s[1]) = "csi" /\ IsReset(s))

\* A sequence of one byte that is not known calls nothing.
Meant(s) ==
  IF Len(s) # 1 THEN SequenceCalls(Handler(s[1]), s)
  ELSE IF s[1] \in Simple THEN <<<<"esc", s[1]>>>> ELSE <<>>

IsSequence(w) ==
  \E s : IsRest(s) /\ w.bytes = <<ESC>> \o s /\ w.calls = Meant(s)

IsPiece(k, w) == IsText(k, w) \/ IsControl(w) \/ IsSequence(w)

\* The bytes s are the n pieces w one after the other, which make the calls d
\* of c: before each, what is left of s and what was called.
IsChain(k, s, c, d, n, w, left, done) ==
  /\ left[0] = s /\ done[0] = c
  /\ left[n] = <<>> /\ done[n] = d
  /\ \A i \in 0 .. n : left[i] \in Seq(Bytes)
  /\ \A i \in 1 .. n : /\ IsPiece(k, w[i])
                       /\ left[i - 1] = w[i].bytes \o left[i]
                       /\ done[i] = done[i - 1] \o w[i].calls

LeadsTo(k, s, c, d) ==
  \E n \in Nat : \E w, left, done : IsChain(k, s, c, d, n, w, left, done)

\* The prefix of n bytes of the command s ends as commands do.
EndsAt(k, s, n) == \/ s[n] = BEL \/ (s[n] = ST /\ ~k.utf8)
                   \/ s[n - 1] = ESC /\ s[n] = Backslash

\* What follows the ESC of a command that fits: it ends once, is not taken for
\* a palette reset of the console, and has no ESC > within.
IsLine(k, s) ==
  /\ s \in Seq(Bytes \ {0}) /\ Len(s) \in 2 .. LargeSize
  /\ s[1] = 93
  /\ \A n \in 2 .. Len(s) : /\ EndsAt(k, s, n) <=> n = Len(s)
                            /\ ~(k.linux /\ s[n - 1] = 93 /\ s[n] = 82)
                            /\ ~(s[n - 1] = ESC /\ s[n] = 62)

Stores(s) == IsClipboard(s) /\ IsStored(Payload(Argument(s)))

\* The string of a command for a color.
ColorOf(k, s) == IF IsCommand(s, 4) THEN ReadString(Argument(s), 128, k.utf8)
                 ELSE None

\* The unit u is the command s: the color it defines, the title there is after
\* it, whatever was there before, and the payload it stores.
IsOneCommand(k, u, s) ==
  /\ IsLine(k, s) /\ u.bytes = <<ESC>> \o s
  /\ u.calls = IF ColorOf(k, s) # None THEN <<<<"color", ColorOf(k, s)>>>>
               ELSE <<>>
  /\ \A old : (IF IsTitle(s) THEN Titled(old, Argument(s), k.utf8) ELSE old)
                \in IF u.title = {} THEN {old} ELSE u.title
  /\ u.clip = IF Stores(s) THEN {Clipped(None, Payload(Argument(s)))} ELSE {}

\* A unit is text, controls and sequences, with what they stand for, or is one
\* command.
SendsWhole ==
  \A k \in Kinds : \A u \in Unit(k) :
    \/ LeadsTo(k, u.bytes, <<>>, u.calls) /\ u.title = {} /\ u.clip = {}
    \/ \E s : IsOneCommand(k, u, s)

\* Nothing is under way.
Rests(q) == ~q.escaped /\ ~q.utf8 /\ q.utf8_buf = <<>> /\ q.rs1 = 0

\* The first j bytes of the character s were taken.
InCharacter(q, s, j) ==
  ~q.escaped /\ q.utf8 /\ q.utf8_buf = SubSeq(s, 1, j) /\ q.rs1 = 0

\* ESC was, and the first j bytes of s.
InSequence(q, s, j) ==
  /\ q.escaped /\ ~q.osc /\ ~q.utf8 /\ q.utf8_buf = <<>>
  /\ q.esbuf = SubSeq(s, 1, j)
  /\ q.handler = IF j = 0 THEN "none" ELSE Handler(s[1])
  /\ q.rs1 = 0 \/ (j = 0 /\ q.rs1 = 1)

\* The pieces to come, t, after the rest s of one that makes the calls c.
Expects(s, t, c) ==
  /\ t \in Seq(Bytes) /\ Joined = <<Outermost(s \o t)>>
  /\ LeadsTo(kind, t, calls \o c, unit.calls)

WithinCharacter ==
  \E s, t : \E c \in Nat, j \in 1 .. Len(s) - 1 :
    /\ kind.utf8 /\ 160 <= c /\ IsEncoding(s, c)
    /\ InCharacter(p, s, j)
    /\ Expects(After(s, j), t, <<<<"put", c>>>>)

WithinSequence ==
  \E s, t : \E j \in 0 .. Len(s) - 1 :
    /\ IsRest(s)
    /\ InSequence(p, s, j)
    /\ Expects(After(s, j), t, Meant(s))

Between ==
  /\ Rests(p)
  /\ \E t \in Seq(Bytes) : /\ Joined = <<Outermost(t)>>
                           /\ LeadsTo(kind, t, calls, unit.calls)

PiecesInv ==
  /\ IsQuiet(calls)
  /\ Between \/ WithinCharacter \/ WithinSequence

\* Nothing but pieces was sent, so no string changes.
NoString == /\ title = before[1] /\ clip = before[2]
            /\ unit.title = {} /\ unit.clip = {}

\* The first j bytes of the command s were taken.
InCommand(q, s, j) ==
  /\ q.escaped /\ ~q.utf8 /\ q.utf8_buf = <<>>
  /\ q.esbuf = SubSeq(s, 1, j)
  /\ IF j = 0 THEN ~q.osc /\ q.handler = "none" ELSE q.osc /\ q.handler = "osc"
  /\ q.rs1 = 0 \/ (q.rs1 = 1 /\ s[j + 1] # 62)

\* It will be the first to change a string.
IsAhead(s) == /\ IsOneCommand(kind, unit, s)
              /\ calls = <<>> /\ title = before[1] /\ clip = before[2]

CommandSent ==
  \E s : IsAhead(s) /\ Rests(p) /\ Joined = <<Outermost(<<ESC>> \o s)>>

WithinCommand ==
  \E s : \E j \in 0 .. Len(s) - 1 :
    /\ IsAhead(s) /\ InCommand(p, s, j)
    /\ Joined = <<Outermost(After(s, j))>>

\* Calls and strings are those of the unit.
Understood ==
  /\ Cardinality(Deeds) = Len(unit.calls)
  /\ \A k \in Deeds :
       unit.calls[Cardinality({j \in Deeds : j <= k})] = calls[k]
  /\ title \in (IF unit.title = {} THEN {before[1]} ELSE unit.title)
  /\ clip \in (IF unit.clip = {} THEN {before[2]} ELSE unit.clip)
  /\ HeardOnce

CommandDone == Rests(p) /\ Joined = <<Outermost(<<>>)>> /\ Understood

WholeInv ==
  \/ PiecesInv /\ NoString
  \/ CommandSent
  \/ WithinCommand
  \/ CommandDone

\* Every piece has a byte, and the host does not hear of it.
LEMMA TextPiece ==
  ASSUME NEW k, NEW w, IsText(k, w)
  PROVE  w.bytes \in Seq(Bytes) /\ w.bytes # <<>> /\ IsQuiet(w.calls)
<1>1. PICK c \in Nat :
        /\ 32 <= c /\ ~(127 < c /\ c < 160)
        /\ IF c < 128 \/ ~k.utf8 THEN c < 256 /\ w.bytes = <<c>>
                                 ELSE c < 1114112 /\ w.bytes = Utf8(c)
        /\ w.calls = <<<<"put", c>>>>
  BY SMT DEF IsText
<1>2. w.bytes \in Seq(Bytes) /\ w.bytes # <<>>
  <2>1. CASE c < 128 \/ ~k.utf8
    <3>1. c \in Bytes /\ w.bytes = <<c>>
      BY <1>1, <2>1, SMT DEF Bytes
    <3> QED  BY <3>1
  <2>2. CASE ~(c < 128 \/ ~k.utf8)
    <3>1. c < 1114112 /\ w.bytes = Utf8(c) /\ 128 <= c
      BY <1>1, <2>2, SMT
    <3>2. IsEncoding(w.bytes, c)
      BY <3>1, CharactersComeBack, SMT
    <3> QED  BY <3>2 DEF IsEncoding
  <2> QED  BY <2>1, <2>2
<1>3. IsQuiet(w.calls)
  <2>1. <<"put", c>>[1] \notin {"title", "clipboard"}
    OBVIOUS
  <2>2. IsQuiet(<<<<"put", c>>>>)
    BY <2>1, OneQuiet
  <2> QED  BY <1>1, <2>2
<1> QED  BY <1>2, <1>3

LEMMA ControlPiece ==
  ASSUME NEW w, IsControl(w)
  PROVE  w.bytes \in Seq(Bytes) /\ w.bytes # <<>> /\ IsQuiet(w.calls)
<1>1. PICK b \in ({0} \cup C0) \ {ESC} :
        w.bytes = <<b>> /\ w.calls = ControlCalls(b)
  BY DEF IsControl
<1>2. b \in Bytes
  BY DEF C0, Bytes
<1>3. <<"ctrl", b>>[1] \notin {"title", "clipboard"}
  OBVIOUS
<1>4. IsQuiet(ControlCalls(b))
  BY <1>3, OneQuiet, NothingTold DEF ControlCalls
<1> QED  BY <1>1, <1>2, <1>4

\* A sequence is what follows ESC.
LEMMA RestType ==
  ASSUME NEW s, IsRest(s)
  PROVE  /\ s \in Seq(Bytes) /\ Len(s) \in Nat /\ Len(s) >= 1
         /\ \A n \in 1 .. Len(s) : s[n] \in Bytes /\ s[n] # 0 /\ s[n] \notin C0
         /\ IsQuiet(Meant(s))
<1>1. s \in Seq(Bytes \ ({0} \cup C0)) /\ Len(s) \in 1 .. SmallSize
  BY DEF IsRest
<1>2. SmallSize \in Nat
  BY SizesType
<1>3. <<"esc", s[1]>>[1] \notin {"title", "clipboard"}
  OBVIOUS
<1>4. IsQuiet(<<<<"esc", s[1]>>>>)
  BY <1>3, OneQuiet
<1>5. Len(s) # 1 => IsQuiet(SequenceCalls(Handler(s[1]), s))
  BY SequenceQuiet DEF IsRest
<1>6. IsQuiet(Meant(s))
  BY <1>4, <1>5, NothingTold DEF Meant
<1>7. Len(s) \in Nat /\ Len(s) >= 1
  BY <1>1, <1>2
<1>8. \A n \in 1 .. Len(s) : s[n] \in Bytes \ ({0} \cup C0)
  BY <1>1
<1>9. s \in Seq(Bytes)
  BY <1>1
<1> QED  BY <1>6, <1>7, <1>8, <1>9

LEMMA EscapedString ==
  ASSUME NEW s \in Seq(Bytes)
  PROVE  /\ <<ESC>> \o s \in Seq(Bytes) /\ <<ESC>> \o s # <<>>
         /\ (<<ESC>> \o s)[1] = ESC
         /\ \A t \in Seq(Bytes) : After((<<ESC>> \o s) \o t, 1) = s \o t
<1> DEFINE e == <<ESC>>
<1>1. e \in Seq(Bytes) /\ e # <<>> /\ e[1] = ESC /\ Len(e) = 1
  BY DEF ESC, Bytes
<1> HIDE DEF e
<1>2. After(e, 1) = <<>>
  BY <1>1 DEF After
<1>3. e \o s \in Seq(Bytes) /\ e \o s # <<>> /\ (e \o s)[1] = ESC
  BY <1>1, FrontOfConcat
<1>4. After(e \o s, 1) = <<>> \o s
  BY <1>1, <1>2, FrontOfConcat
<1>5. <<>> \o s = s
  OBVIOUS
<1>6. \A t \in Seq(Bytes) : After((e \o s) \o t, 1) = s \o t
  <2> DEFINE u == e \o s
  <2>1. u \in Seq(Bytes) /\ u # <<>> /\ After(u, 1) = s
    BY <1>3, <1>4, <1>5
  <2> HIDE DEF u
  <2>2. \A t \in Seq(Bytes) : After(u \o t, 1) = s \o t
    BY <2>1, FrontOfConcat, Zenon
  <2> QED  BY <2>2 DEF u
<1> QED  BY <1>3, <1>6, Zenon DEF e

LEMMA PieceType ==
  ASSUME NEW k, NEW w, IsPiece(k, w)
  PROVE  w.bytes \in Seq(Bytes) /\ w.bytes # <<>> /\ IsQuiet(w.calls)
<1>1. CASE IsSequence(w)
  BY <1>1, RestType, EscapedString DEF IsSequence
<1> QED  BY <1>1, TextPiece, ControlPiece DEF IsPiece

\* Nothing leads no further.
LEMMA LeadsNowhere ==
  ASSUME NEW k, NEW c, NEW d, LeadsTo(k, <<>>, c, d)
  PROVE  c = d
<1>1. PICK n \in Nat : \E w, left, done : IsChain(k, <<>>, c, d, n, w, left, done)
  BY DEF LeadsTo
<1>2. PICK w, left, done : IsChain(k, <<>>, c, d, n, w, left, done)
  BY <1>1
<1>3. /\ left[0] = <<>> /\ done[0] = c
      /\ left[n] = <<>> /\ done[n] = d
      /\ \A i \in 0 .. n : left[i] \in Seq(Bytes)
      /\ \A i \in 1 .. n : /\ IsPiece(k, w[i])
                           /\ left[i - 1] = w[i].bytes \o left[i]
                           /\ done[i] = done[i - 1] \o w[i].calls
  BY <1>2 DEF IsChain
<1>4. CASE n = 0
  BY <1>3, <1>4
<1>5. CASE n # 0
  <2>1. 1 \in 1 .. n /\ 1 \in 0 .. n /\ 1 - 1 = 0
    BY <1>5
  <2>2. /\ IsPiece(k, w[1]) /\ left[1] \in Seq(Bytes)
        /\ left[0] = w[1].bytes \o left[1]
    BY <1>3, <2>1, Zenon
  <2>3. w[1].bytes \o left[1] # <<>>
    BY <2>2, PieceType, FrontOfConcat
  <2> QED  BY <1>3, <2>2, <2>3
<1> QED  BY <1>4, <1>5

\* A piece leads to what it stands for.
LEMMA PieceLeads ==
  ASSUME NEW k, NEW w, IsPiece(k, w)
  PROVE  LeadsTo(k, w.bytes, <<>>, w.calls)
<1> DEFINE ws == [i \in 1 .. 1 |-> w]
           left == [i \in 0 .. 1 |-> IF i = 0 THEN w.bytes ELSE <<>>]
           done == [i \in 0 .. 1 |-> IF i = 0 THEN <<>> ELSE w.calls]
<1>1. w.bytes \in Seq(Bytes) /\ <<>> \in Seq(Bytes) /\ IsString(w.calls)
  BY PieceType DEF IsQuiet
<1>2. w.bytes \o <<>> = w.bytes /\ <<>> \o w.calls = w.calls
  <2>1. PICK S : w.calls \in Seq(S)
    BY <1>1 DEF IsString
  <2> QED  BY <1>1, <2>1
<1>3. \A i \in 0 .. 1 : left[i] \in Seq(Bytes)
  BY <1>1
<1>4. \A i \in 1 .. 1 : i = 1 /\ i - 1 = 0
  OBVIOUS
<1>5. /\ left[0] = w.bytes /\ done[0] = <<>> /\ ws[1] = w
      /\ left[1] = <<>> /\ done[1] = w.calls
  OBVIOUS
<1> HIDE DEF ws, left, done
<1>6. \A i \in 1 .. 1 : /\ IsPiece(k, ws[i])
                        /\ left[i - 1] = ws[i].bytes \o left[i]
                        /\ done[i] = done[i - 1] \o ws[i].calls
  BY <1>2, <1>4, <1>5
<1>7. IsChain(k, w.bytes, <<>>, w.calls, 1, ws, left, done)
  BY <1>3, <1>5, <1>6 DEF IsChain
<1> QED  BY <1>7 DEF LeadsTo

\* Anything else begins with a piece.
LEMMA LeadsByPiece ==
  ASSUME NEW k, NEW s, s # <<>>, NEW c, NEW d, LeadsTo(k, s, c, d)
  PROVE  \E w, t : /\ IsPiece(k, w) /\ t \in Seq(Bytes)
                   /\ s = w.bytes \o t
                   /\ LeadsTo(k, t, c \o w.calls, d)
<1>1. PICK n \in Nat : \E w, left, done : IsChain(k, s, c, d, n, w, left, done)
  BY DEF LeadsTo
<1>2. PICK w, left, done : IsChain(k, s, c, d, n, w, left, done)
  BY <1>1
<1>3. /\ left[0] = s /\ done[0] = c
      /\ left[n] = <<>> /\ done[n] = d
      /\ \A i \in 0 .. n : left[i] \in Seq(Bytes)
      /\ \A i \in 1 .. n : /\ IsPiece(k, w[i])
                           /\ left[i - 1] = w[i].bytes \o left[i]
                           /\ done[i] = done[i - 1] \o w[i].calls
  BY <1>2 DEF IsChain
<1>4. n # 0
  BY <1>3
<1>5. 1 \in 1 .. n /\ 1 \in 0 .. n /\ 1 - 1 = 0 /\ n - 1 \in Nat
  BY <1>4
<1>6. /\ IsPiece(k, w[1]) /\ left[1] \in Seq(Bytes)
      /\ s = w[1].bytes \o left[1]
      /\ done[1] = c \o w[1].calls
  BY <1>3, <1>5
<1> DEFINE v == [i \in 1 .. n - 1 |-> w[i + 1]]
           lefts == [i \in 0 .. n - 1 |-> left[i + 1]]
           dones == [i \in 0 .. n - 1 |-> done[i + 1]]
<1>7. /\ \A i \in 1 .. n - 1 : v[i] = w[i + 1]
      /\ \A i \in 0 .. n - 1 : lefts[i] = left[i + 1] /\ dones[i] = done[i + 1]
  OBVIOUS
<1> HIDE DEF v, lefts, dones
<1>8. lefts[0] = left[1] /\ dones[0] = c \o w[1].calls
  BY <1>5, <1>6, <1>7
<1>9. lefts[n - 1] = <<>> /\ dones[n - 1] = d
  BY <1>3, <1>5, <1>7
<1>10. \A i \in 0 .. n - 1 : lefts[i] \in Seq(Bytes)
  BY <1>3, <1>7
<1>11. \A i \in 1 .. n - 1 : /\ IsPiece(k, v[i])
                            /\ lefts[i - 1] = v[i].bytes \o lefts[i]
                            /\ dones[i] = dones[i - 1] \o v[i].calls
  <2> SUFFICES ASSUME NEW i \in 1 .. n - 1
               PROVE  /\ IsPiece(k, v[i])
                      /\ lefts[i - 1] = v[i].bytes \o lefts[i]
                      /\ dones[i] = dones[i - 1] \o v[i].calls
    OBVIOUS
  <2>1. /\ i + 1 \in 1 .. n /\ (i + 1) - 1 = i /\ i - 1 \in 0 .. n - 1
        /\ (i - 1) + 1 = i /\ i \in 0 .. n - 1
    OBVIOUS
  <2>2. /\ v[i] = w[i + 1]
        /\ lefts[i - 1] = left[i] /\ lefts[i] = left[i + 1]
        /\ dones[i - 1] = done[i] /\ dones[i] = done[i + 1]
    BY <1>7, <2>1
  <2>3. /\ IsPiece(k, w[i + 1])
        /\ left[i] = w[i + 1].bytes \o left[i + 1]
        /\ done[i + 1] = done[i] \o w[i + 1].calls
    BY <1>3, <2>1
  <2> QED  BY <2>2, <2>3, Zenon
<1>12. IsChain(k, left[1], c \o w[1].calls, d, n - 1, v, lefts, dones)
  BY <1>8, <1>9, <1>10, <1>11, Zenon DEF IsChain
<1>13. LeadsTo(k, left[1], c \o w[1].calls, d)
  BY <1>5, <1>12, Zenon DEF LeadsTo
<1> QED  BY <1>6, <1>13

\* What a byte may do.
OneByte(b) ==
  SkipNul(b) \/ Control(b) \/ AssembleMore(b) \/ AssembleLast(b)
    \/ PutByte(b) \/ Overflow(b) \/ First(b) \/ Collect(b)
    \/ Dispatch(b) \/ Command(b) \/ AsksReset(b)

LEMMA LoopOfOne ==
  ASSUME NEW r \in Seq(Bytes), NEW gs, Loop(<<Outermost(r)>>, gs)
  PROVE  /\ r # <<>> /\ OneByte(r[1])
         /\ ~AsksReset(r[1]) => gs = <<Outermost(After(r, 1))>>
<1>1. /\ Len(<<Outermost(r)>>) = 1
      /\ Left(<<Outermost(r)>>) = r
      /\ Rest(<<Outermost(r)>>) = <<Outermost(After(r, 1))>>
  BY OneCall
<1>2. ~EndReset(<<Outermost(r)>>, gs)
  BY <1>1 DEF EndReset
<1>3. CASE Takes(<<Outermost(r)>>, gs)
  BY <1>1, <1>3 DEF Takes, OneByte
<1>4. CASE Reset(<<Outermost(r)>>, gs)
  BY <1>1, <1>4 DEF Reset, OneByte
<1> QED  BY <1>2, <1>3, <1>4 DEF Loop

\* The scanner has seen ESC at most, and does not see more.
LEMMA ScansNothing ==
  ASSUME NEW b, p.rs1 = 0 \/ (p.rs1 = 1 /\ b # 62)
  PROVE  /\ Heard(b) = <<>>
         /\ Seen(b) = 0 \/ (Seen(b) = 1 /\ b = ESC)
<1>1. RS1[1] = ESC /\ RS1[2] = 62 /\ Len(RS1) = 32
  <2>1. RS1[1] = ESC /\ RS1[2] = 62
    BY DEF RS1
  <2> QED  BY <2>1, RS1Bytes
<1>2. Heard(b) = <<>>
  <2>1. p.rs1 + 1 # Len(RS1)
    BY <1>1
  <2> QED  BY <2>1 DEF Heard
<1>3. CASE p.rs1 = 0
  BY <1>1, <1>2, <1>3 DEF Seen
<1>4. CASE p.rs1 = 1 /\ b # 62
  BY <1>1, <1>2, <1>4 DEF Seen
<1> QED  BY <1>2, <1>3, <1>4

LEMMA DoneWhole ==
  ASSUME NEW b, p.rs1 = 0 \/ (p.rs1 = 1 /\ b # 62), IsQuiet(calls),
         NEW q, NEW c, IsQuiet(c), Done(b, q, c)
  PROVE  /\ calls' = calls \o c /\ IsQuiet(calls')
         /\ p' = [q EXCEPT !.rs1 = Seen(b)]
         /\ Seen(b) = 0 \/ (Seen(b) = 1 /\ b = ESC)
<1>1. Heard(b) = <<>> /\ (Seen(b) = 0 \/ (Seen(b) = 1 /\ b = ESC))
  BY ScansNothing
<1>2. PICK S : c \in Seq(S)
  BY DEF IsQuiet, IsString
<1>3. <<>> \o c = c
  BY <1>2
<1>4. calls' = calls \o c
  BY <1>1, <1>3 DEF Done
<1>5. IsQuiet(calls \o c)
  BY QuietBoth
<1> QED  BY <1>1, <1>4, <1>5 DEF Done

LEMMA DoneAtRest ==
  ASSUME NEW b, p.rs1 = 0, b # ESC, IsQuiet(calls),
         NEW q, NEW c, IsQuiet(c), Done(b, q, c)
  PROVE  /\ calls' = calls \o c /\ IsQuiet(calls')
         /\ p' = [q EXCEPT !.rs1 = 0]
         /\ c = <<>> => calls' = calls
<1>1. /\ calls' = calls \o c /\ IsQuiet(calls')
      /\ p' = [q EXCEPT !.rs1 = 0]
  BY DoneWhole
<1>2. PICK S : calls \in Seq(S)
  BY DEF IsQuiet, IsString
<1>3. calls \o <<>> = calls
  BY <1>2
<1> QED  BY <1>1, <1>3

\* Which bytes do what, outside of a sequence and a character.
LEMMA GroundByte ==
  ASSUME ~p.escaped, ~p.utf8, NEW b \in Bytes, OneByte(b)
  PROVE  /\ b = 0 => SkipNul(b)
         /\ b \in C0 => Control(b)
         /\ b # 0 /\ b \notin C0 \cup C1 =>
              IF kind.utf8 /\ b > 127 THEN AssembleMore(b) \/ AssembleLast(b)
                                      ELSE PutByte(b)
<1>1. b \notin C1 => ~Sequence(b)
  BY DEF Sequence, IsOfSequence
<1>2. b \in {0} \cup C0 => b \notin C1
  BY DEF C0, C1
<1>3. ~Sequence(b) => ~(Overflow(b) \/ First(b) \/ Collect(b) \/ Dispatch(b)
                         \/ Command(b) \/ AsksReset(b))
  BY DEF Overflow, First, Collect, Dispatch, Command, AsksReset, Whole
<1>4. b \notin C0 => ~Control(b)
  BY DEF Control
<1>5. b # 0 => ~SkipNul(b)
  BY DEF SkipNul
<1>6. b \in {0} \cup C0 => ~AssembleMore(b) /\ ~AssembleLast(b) /\ ~PutByte(b)
  BY DEF AssembleMore, AssembleLast, PutByte
<1>7. 0 \notin C0
  BY DEF C0
<1>8. b \notin C0 \cup C1 => (IsUtf8(b) <=> (kind.utf8 /\ b > 127))
  BY DEF IsUtf8, Assembles
<1>9. /\ ~IsUtf8(b) => ~AssembleMore(b) /\ ~AssembleLast(b)
      /\ IsUtf8(b) => ~PutByte(b)
  BY DEF AssembleMore, AssembleLast, PutByte
<1>10. b \in C0 => ~SkipNul(b)
  BY <1>5, <1>7
<1> QED  BY <1>1, <1>2, <1>3, <1>4, <1>5, <1>6, <1>7, <1>8, <1>9, <1>10, Zenon DEF OneByte

\* The state in which a byte leaves the parser when it rests.
LEMMA ScannedRests ==
  ASSUME NEW q, IsGood(q), NEW n, [q EXCEPT !.rs1 = n] = p'
  PROVE  /\ p'.escaped = q.escaped /\ p'.osc = q.osc /\ p'.handler = q.handler
         /\ p'.esbuf = q.esbuf /\ p'.utf8 = q.utf8 /\ p'.utf8_buf = q.utf8_buf
         /\ p'.rs1 = n
BY DEF IsGood, States

\* One more byte of a prefix.
LEMMA PrefixGrows ==
  ASSUME NEW s \in Seq(Bytes), NEW j \in 0 .. Len(s) - 1
  PROVE  /\ Append(SubSeq(s, 1, j), s[j + 1]) = SubSeq(s, 1, j + 1)
         /\ SubSeq(s, 1, 0) = <<>> /\ SubSeq(s, 1, Len(s)) = s
         /\ Len(SubSeq(s, 1, j)) = j /\ Len(SubSeq(s, 1, j + 1)) = j + 1
         /\ SubSeq(s, 1, j + 1)[1] = s[1]
<1>1. Len(s) \in Nat /\ j \in Nat /\ j + 1 <= Len(s) /\ s[j + 1] \in Bytes
  OBVIOUS
<1> DEFINE a == SubSeq(s, 1, j)
           u == SubSeq(s, 1, j + 1)
           v == Append(a, s[j + 1])
<1>2. /\ a \in Seq(Bytes) /\ Len(a) = j /\ \A k \in 1 .. j : a[k] = s[k]
  BY <1>1
<1>3. /\ u \in Seq(Bytes) /\ Len(u) = j + 1 /\ \A k \in 1 .. j + 1 : u[k] = s[k]
  BY <1>1
<1> HIDE DEF a, u
<1>4. /\ v \in Seq(Bytes) /\ Len(v) = j + 1
      /\ \A k \in 1 .. j : v[k] = a[k]
      /\ v[j + 1] = s[j + 1]
  BY <1>1, <1>2
<1> HIDE DEF v
<1>5. v = u
  BY <1>1, <1>2, <1>3, <1>4, SeqEqual
<1>6. SubSeq(s, 1, 0) = <<>> /\ SubSeq(s, 1, Len(s)) = s
  BY <1>1
<1> QED  BY <1>1, <1>2, <1>3, <1>5, <1>6 DEF a, u, v

\* What is left of what is left.
LEMMA AfterMore ==
  ASSUME NEW s \in Seq(Bytes), NEW j \in 0 .. Len(s) - 1
  PROVE  /\ After(s, j) \in Seq(Bytes) /\ After(s, j) # <<>>
         /\ After(s, j)[1] = s[j + 1]
         /\ After(After(s, j), 1) = After(s, j + 1)
         /\ After(s, j + 1) \in Seq(Bytes)
         /\ After(s, Len(s)) = <<>> /\ After(s, 0) = s
<1>1. Len(s) \in Nat /\ j \in Nat /\ j + 1 <= Len(s)
  OBVIOUS
<1> DEFINE a == After(s, j)
           u == After(s, j + 1)
           v == After(a, 1)
<1>2. /\ a \in Seq(Bytes) /\ Len(a) = Len(s) - j
      /\ \A k \in 1 .. Len(a) : a[k] = s[k + j]
  BY <1>1, AfterType
<1>3. /\ u \in Seq(Bytes) /\ Len(u) = Len(s) - (j + 1)
      /\ \A k \in 1 .. Len(u) : u[k] = s[k + (j + 1)]
  BY <1>1, AfterType
<1> HIDE DEF a, u
<1>4. a # <<>> /\ a[1] = s[j + 1]
  <2>1. Len(a) # 0 /\ 1 \in 1 .. Len(a) /\ 1 + j = j + 1
    BY <1>1, <1>2
  <2> QED  BY <1>2, <2>1
<1>5. /\ v \in Seq(Bytes) /\ Len(v) = Len(a) - 1
      /\ \A k \in 1 .. Len(a) - 1 : v[k] = a[k + 1]
  BY <1>2, <1>4, TakenType
<1> HIDE DEF v
<1>6. v = u
  <2>1. Len(v) = Len(u)
    BY <1>1, <1>2, <1>3, <1>5
  <2>2. \A k \in 1 .. Len(v) : v[k] = u[k]
    <3> SUFFICES ASSUME NEW k \in 1 .. Len(v) PROVE v[k] = u[k]
      OBVIOUS
    <3>1. /\ k \in 1 .. Len(a) - 1 /\ k + 1 \in 1 .. Len(a) /\ k \in 1 .. Len(u)
          /\ (k + 1) + j = k + (j + 1)
      BY <1>1, <1>2, <1>5, <2>1
    <3>2. v[k] = a[k + 1] /\ a[k + 1] = s[(k + 1) + j] /\ u[k] = s[k + (j + 1)]
      BY <1>2, <1>3, <1>5, <3>1
    <3> QED  BY <3>1, <3>2
  <2> QED  BY <1>3, <1>5, <2>1, <2>2, SeqEqual
<1>7. After(s, Len(s)) = <<>> /\ After(s, 0) = s
  BY <1>1 DEF After
<1> QED  BY <1>2, <1>3, <1>4, <1>6, <1>7 DEF a, u, v

\* What is no byte of a sequence.
LEMMA NoSequence ==
  ASSUME NEW b, ~Sequence(b), OneByte(b)
  PROVE  SkipNul(b) \/ Control(b) \/ AssembleMore(b) \/ AssembleLast(b) \/ PutByte(b)
BY DEF OneByte, Overflow, First, Collect, Dispatch, Command, AsksReset, Whole

\* A state that a byte leaves, as it was but for characters and the scanner.
LEMMA AssembledState ==
  ASSUME IsGood(p), NEW s, NEW n, p' = [[p EXCEPT !.utf8 = TRUE, !.utf8_buf = s]
                                          EXCEPT !.rs1 = n]
  PROVE  p'.escaped = p.escaped /\ p'.utf8 /\ p'.utf8_buf = s /\ p'.rs1 = n
BY DEF IsGood, States

LEMMA LeadByte ==
  ASSUME NEW b, b \in 194 .. 244
  PROVE  b \in Nat /\ b > 127 /\ b # 0 /\ b \notin C0 /\ b \notin C1
BY DEF C0, C1

LEMMA ContinuationByte ==
  ASSUME NEW b, IsContinuation(b)
  PROVE  b \in Nat /\ b > 127 /\ b # 0 /\ b \notin C0
BY DEF C0, IsContinuation

\* The next byte of a character.
LEMMA CharacterByte ==
  ASSUME IsGood(p), IsQuiet(calls), kind.utf8,
         NEW s, NEW c \in Nat, 160 <= c, IsEncoding(s, c),
         NEW j \in 0 .. Len(s) - 1,
         IF j = 0 THEN Rests(p) ELSE InCharacter(p, s, j),
         OneByte(s[j + 1])
  PROVE  /\ ~AsksReset(s[j + 1])
         /\ IsQuiet(calls')
         /\ IF j + 1 = Len(s)
            THEN Rests(p') /\ calls' = calls \o <<<<"put", c>>>>
            ELSE InCharacter(p', s, j + 1) /\ calls' = calls
<1> DEFINE b == s[j + 1]
           put == <<<<"put", c>>>>
<1>1. /\ s \in Seq(Bytes) /\ Len(s) \in 2 .. 4 /\ Width(s[1]) = Len(s)
      /\ Character(s) = c /\ c \notin C1
  BY SMT DEF IsEncoding, C1
<1>2. b \in Nat /\ b > 127 /\ b # 0 /\ b \notin C0 /\ (j = 0 => b \notin C1)
  <2>1. /\ s[1] \in 194 .. 244
        /\ \A k \in 2 .. Len(s) : IsContinuation(s[k])
    BY Zenon DEF IsEncoding, IsContinuation
  <2>2. CASE j = 0
    <3>1. j + 1 = 1 /\ s[j + 1] = s[1]
      BY <2>2
    <3>2. s[j + 1] \in 194 .. 244
      BY <2>1, <3>1, Zenon
    <3> QED  BY <3>2, LeadByte, Zenon
  <2>3. CASE j # 0
    <3>1. j + 1 \in 2 .. Len(s)
      BY <1>1, <2>3
    <3>2. IsContinuation(s[j + 1])
      BY <2>1, <3>1, Zenon
    <3> QED  BY <2>3, <3>2, ContinuationByte, Zenon
  <2> QED  BY <2>2, <2>3
<1>3. /\ ~p.escaped /\ p.rs1 = 0 /\ p.utf8_buf = SubSeq(s, 1, j)
      /\ p.utf8 <=> j # 0
  <2>1. SubSeq(s, 1, 0) = <<>>
    BY <1>1, PrefixGrows
  <2> QED  BY <2>1 DEF Rests, InCharacter
<1>4. /\ Assembled(b) = SubSeq(s, 1, j + 1) /\ Len(Assembled(b)) = j + 1
      /\ Assembled(b)[1] = s[1]
  BY <1>1, <1>3, PrefixGrows DEF Assembled
<1>5. j + 1 = Len(s) => Assembled(b) = s
  BY <1>1, <1>4, PrefixGrows
<1> HIDE DEF b
<1>6. ~IsLongC1(b)
  <2> SUFFICES ASSUME IsLongC1(b) PROVE FALSE
    OBVIOUS
  <2>1. j + 1 = Len(s)
    BY <1>1, <1>4 DEF IsLongC1
  <2>2. Character(s) \in C1
    BY <1>5, <2>1 DEF IsLongC1
  <2> QED  BY <1>1, <2>2
<1>7. IsUtf8(b)
  BY <1>2, <1>3 DEF IsUtf8, Assembles
<1>8. ~Sequence(b)
  BY <1>2, <1>3, <1>6 DEF Sequence, IsOfSequence
<1>9. AssembleMore(b) \/ AssembleLast(b)
  <2>1. OneByte(b)
    BY DEF b
  <2>2. ~SkipNul(b) /\ ~Control(b) /\ ~PutByte(b)
    BY <1>2, <1>7 DEF SkipNul, Control, PutByte
  <2> QED  BY <1>8, <2>1, <2>2, NoSequence
<1>10. ~AsksReset(b)
  BY <1>2, <1>3, <1>8 DEF AsksReset, Whole
<1>11. Width(Assembled(b)[1]) = Len(s)
  BY <1>1, <1>4
<1>12. CASE j + 1 = Len(s)
  <2>1. AssembleLast(b)
    BY <1>4, <1>9, <1>11, <1>12 DEF AssembleMore
  <2>2. Character(Assembled(b)) = c
    BY <1>1, <1>5, <1>12
  <2>3. Done(b, Decoded8(p), put)
    BY <2>1, <2>2 DEF AssembleLast
  <2>4. IsQuiet(put)
    <3>1. <<"put", c>>[1] \notin {"title", "clipboard"}
      OBVIOUS
    <3> QED  BY <3>1, OneQuiet
  <2> HIDE DEF put
  <2>5. b # ESC /\ p.rs1 = 0
    BY <1>2, <1>3 DEF ESC
  <2>6. /\ calls' = calls \o put /\ IsQuiet(calls')
        /\ p' = [Decoded8(p) EXCEPT !.rs1 = 0]
    BY <2>3, <2>4, <2>5, DoneAtRest, Zenon
  <2>7. /\ IsGood(Decoded8(p)) /\ Decoded8(p).escaped = p.escaped
        /\ ~Decoded8(p).utf8 /\ Decoded8(p).utf8_buf = <<>>
    BY DecodedGood DEF Decoded8, IsGood, States
  <2>8. Rests(p')
    BY <1>3, <2>6, <2>7, ScannedRests DEF Rests
  <2> QED  BY <1>10, <1>12, <2>6, <2>8 DEF b, put
<1>13. CASE j + 1 # Len(s)
  <2>1. AssembleMore(b)
    BY <1>4, <1>9, <1>11, <1>13 DEF AssembleLast
  <2> DEFINE q == [p EXCEPT !.utf8 = TRUE, !.utf8_buf = Assembled(b)]
  <2>2. Done(b, q, <<>>)
    BY <2>1 DEF AssembleMore
  <2> HIDE DEF q
  <2>3. b # ESC /\ p.rs1 = 0
    BY <1>2, <1>3 DEF ESC
  <2>4. calls' = calls /\ IsQuiet(calls') /\ p' = [q EXCEPT !.rs1 = 0]
    BY <2>2, <2>3, NothingTold, DoneAtRest, Zenon
  <2>5. p'.escaped = p.escaped /\ p'.utf8 /\ p'.utf8_buf = Assembled(b) /\ p'.rs1 = 0
    <3>1. p' = [[p EXCEPT !.utf8 = TRUE, !.utf8_buf = Assembled(b)]
                  EXCEPT !.rs1 = 0]
      BY <2>4 DEF q
    <3> QED  BY <3>1, AssembledState, Zenon
  <2>6. InCharacter(p', s, j + 1)
    BY <1>3, <1>4, <2>5 DEF InCharacter
  <2> QED  BY <1>10, <1>13, <2>4, <2>6 DEF b
<1> QED  BY <1>12, <1>13

\* A byte that is put as it is.
LEMMA PlainByte ==
  ASSUME IsGood(p), IsQuiet(calls), Rests(p), NEW b \in Bytes, OneByte(b),
         b # 0, b \notin C0 \cup C1, ~(kind.utf8 /\ b > 127)
  PROVE  /\ ~AsksReset(b) /\ IsQuiet(calls')
         /\ Rests(p') /\ calls' = calls \o <<<<"put", b>>>>
<1> DEFINE put == <<<<"put", b>>>>
<1>1. ~p.escaped /\ ~p.utf8 /\ p.utf8_buf = <<>> /\ p.rs1 = 0 /\ b # ESC
  BY DEF Rests, C0, ESC
<1>2. PutByte(b)
  BY <1>1, GroundByte
<1>3. ~AsksReset(b)
  BY <1>1 DEF AsksReset, Whole, Sequence, IsOfSequence
<1>4. Done(b, p, put)
  BY <1>2 DEF PutByte
<1>5. IsQuiet(put)
  <2>1. <<"put", b>>[1] \notin {"title", "clipboard"}
    OBVIOUS
  <2> QED  BY <2>1, OneQuiet
<1> HIDE DEF put
<1>6. calls' = calls \o put /\ IsQuiet(calls') /\ p' = [p EXCEPT !.rs1 = 0]
  BY <1>1, <1>4, <1>5, DoneAtRest, Zenon
<1>7. Rests(p')
  BY <1>1, <1>6, ScannedRests DEF Rests
<1> QED  BY <1>3, <1>6, <1>7 DEF put

\* A control, or NUL.
LEMMA ControlByte ==
  ASSUME IsGood(p), IsQuiet(calls), Rests(p),
         NEW b \in ({0} \cup C0) \ {ESC}, OneByte(b)
  PROVE  /\ ~AsksReset(b) /\ IsQuiet(calls')
         /\ Rests(p') /\ calls' = calls \o ControlCalls(b)
<1>1. ~p.escaped /\ ~p.utf8 /\ p.utf8_buf = <<>> /\ p.rs1 = 0 /\ b # ESC
  BY DEF Rests
<1>2. b \in Bytes /\ b \notin C1
  BY DEF C0, C1, Bytes
<1>3. ~AsksReset(b)
  BY <1>1, <1>2 DEF AsksReset, Whole, Sequence, IsOfSequence
<1>4. IsQuiet(ControlCalls(b))
  <2>1. <<"ctrl", b>>[1] \notin {"title", "clipboard"}
    OBVIOUS
  <2> QED  BY <2>1, OneQuiet, NothingTold DEF ControlCalls
<1>5. CASE b = 0
  <2>1. UNCHANGED <<p, calls>>
    BY <1>1, <1>2, <1>5, GroundByte DEF SkipNul
  <2>2. ControlCalls(b) = <<>>
    BY <1>5 DEF ControlCalls, Obeyed
  <2>3. PICK S : calls \in Seq(S)
    BY DEF IsQuiet, IsString
  <2>4. calls \o <<>> = calls
    BY <2>3
  <2>5. IsQuiet(calls') /\ Rests(p') /\ calls' = calls
    BY <2>1 DEF IsQuiet, Rests
  <2> QED  BY <1>3, <2>2, <2>4, <2>5
<1>6. CASE b \in C0
  <2>1. Done(b, p, ControlCalls(b))
    BY <1>1, <1>2, <1>6, GroundByte DEF Control
  <2>2. /\ calls' = calls \o ControlCalls(b) /\ IsQuiet(calls')
        /\ p' = [p EXCEPT !.rs1 = 0]
    BY <1>1, <1>4, <2>1, DoneAtRest, Zenon
  <2>3. Rests(p')
    BY <1>1, <2>2, ScannedRests DEF Rests
  <2> QED  BY <1>3, <2>2, <2>3
<1> QED  BY <1>5, <1>6

\* The byte that begins a sequence.
LEMMA EscByte ==
  ASSUME IsGood(p), IsQuiet(calls), Rests(p), OneByte(ESC),
         NEW s \in Seq(Bytes)
  PROVE  /\ ~AsksReset(ESC) /\ IsQuiet(calls')
         /\ InSequence(p', s, 0) /\ calls' = calls
<1>1. /\ ~p.escaped /\ ~p.utf8 /\ p.utf8_buf = <<>> /\ p.rs1 = 0 /\ ~p.osc
      /\ p \in States
  BY DEF Rests, IsGood
<1>2. ESC \in Bytes /\ ESC \notin C1 /\ ESC \in C0 /\ ESC \notin Obeyed
  BY DEF ESC, Bytes, C0, C1, Obeyed
<1>3. ~AsksReset(ESC)
  BY <1>1, <1>2 DEF AsksReset, Whole, Sequence, IsOfSequence
<1>4. Done(ESC, Begin(p), <<>>)
  BY <1>1, <1>2, GroundByte DEF Control, ControlCalls
<1>5. IsQuiet(<<>>) /\ ESC # 62
  BY NothingTold DEF ESC
<1>6. /\ calls' = calls \o <<>> /\ IsQuiet(calls')
      /\ p' = [Begin(p) EXCEPT !.rs1 = Seen(ESC)]
      /\ Seen(ESC) = 0 \/ Seen(ESC) = 1
  BY <1>1, <1>4, <1>5, DoneWhole, Zenon
<1>7. calls' = calls
  <2>1. PICK S : calls \in Seq(S)
    BY DEF IsQuiet, IsString
  <2> QED  BY <1>6, <2>1
<1>8. /\ IsGood(Begin(p)) /\ Begin(p).escaped /\ ~Begin(p).osc
      /\ Begin(p).handler = "none" /\ Begin(p).esbuf = <<>>
      /\ ~Begin(p).utf8 /\ Begin(p).utf8_buf = <<>>
  BY <1>1, BeginGood DEF Begin, Cancel, States
<1>9. SubSeq(s, 1, 0) = <<>>
  OBVIOUS
<1>10. /\ p'.escaped /\ ~p'.osc /\ p'.handler = "none" /\ p'.esbuf = <<>>
       /\ ~p'.utf8 /\ p'.utf8_buf = <<>> /\ p'.rs1 = Seen(ESC)
  BY <1>6, <1>8, ScannedRests
<1>11. InSequence(p', s, 0)
  BY <1>6, <1>9, <1>10 DEF InSequence
<1> QED  BY <1>3, <1>6, <1>7, <1>11

\* A byte that follows ESC is one of the sequence, and there is room for it.
LEMMA SequenceByteTaken ==
  ASSUME IsGood(p), p.escaped, ~p.osc, Len(p.esbuf) < SmallSize,
         NEW b \in Bytes, b # 0, b \notin C0, OneByte(b)
  PROVE  /\ Within = p /\ Sequence(b) /\ ~Full(p)
         /\ First(b) \/ Collect(b) \/ Dispatch(b) \/ Command(b) \/ AsksReset(b)
<1>1. Within = p /\ Sequence(b)
  BY DEF Within, Sequence, IsOfSequence
<1>2. ~Full(p)
  <2>1. p.cap \in Nat /\ p.cap >= SmallSize /\ SmallSize \in Nat
    BY SizesType DEF IsGood, States
  <2>2. Len(p.esbuf) \in Nat
    BY DEF IsGood, States
  <2> QED  BY <2>1, <2>2 DEF Full
<1>3. /\ ~SkipNul(b) /\ ~Control(b) /\ ~PutByte(b)
      /\ ~AssembleMore(b) /\ ~AssembleLast(b) /\ ~Overflow(b)
  BY <1>1, <1>2 DEF SkipNul, Control, PutByte, AssembleMore, AssembleLast,
                    IsUtf8, Assembles, Overflow
<1> QED  BY <1>1, <1>2, <1>3 DEF OneByte

\* What a cancelled sequence leaves is at rest.
LEMMA CancelRests ==
  ASSUME IsGood(p), ~p.utf8, p.utf8_buf = <<>>, p' = [Cancel(p) EXCEPT !.rs1 = 0]
  PROVE  Rests(p')
<1>1. /\ IsGood(Cancel(p)) /\ ~Cancel(p).escaped
      /\ ~Cancel(p).utf8 /\ Cancel(p).utf8_buf = <<>>
  BY CancelGood DEF Cancel, IsGood, States
<1> QED  BY <1>1, ScannedRests DEF Rests

\* The bytes that begin a sequence.
LEMMA FirstBytes ==
  ASSUME NEW s, IsRest(s)
  PROVE  /\ s[1] # Lowerc /\ s[1] # 62
         /\ Len(s) = 1 => Handler(s[1]) = "none"
         /\ Len(s) # 1 => /\ Handler(s[1]) \in {"csi", "scs", "dec"}
                          /\ s[1] \notin Simple
<1>1. \A b \in Simple : Handler(b) = "none" /\ b # 62 /\ b # Lowerc
  BY DEF Simple, Handler, Lowerc
<1>2. Handler(62) = "none" /\ Handler(Lowerc) = "none"
  BY DEF Handler, Lowerc
<1>3. IF Len(s) = 1 THEN Handler(s[1]) = "none" /\ s[1] \notin {Lowerc, 62}
      ELSE Handler(s[1]) \in {"csi", "scs", "dec"}
  BY DEF IsRest
<1> QED  BY <1>1, <1>2, <1>3

\* The first byte of a sequence.
LEMMA SequenceFirst ==
  ASSUME IsGood(p), IsQuiet(calls), NEW s, IsRest(s), InSequence(p, s, 0),
         OneByte(s[1])
  PROVE  /\ ~AsksReset(s[1])
         /\ IsQuiet(calls')
         /\ IF Len(s) = 1 THEN Rests(p') /\ calls' = calls \o Meant(s)
                          ELSE InSequence(p', s, 1) /\ calls' = calls
<1> DEFINE b == s[1]
<1>1. /\ s \in Seq(Bytes) /\ Len(s) \in Nat /\ Len(s) >= 1
      /\ b \in Bytes /\ b # 0 /\ b \notin C0 /\ b # ESC
  BY RestType DEF C0, ESC
<1>2. /\ b # Lowerc /\ b # 62
      /\ Len(s) = 1 => Handler(b) = "none"
      /\ Len(s) # 1 => Handler(b) \in {"csi", "scs", "dec"} /\ b \notin Simple
  BY FirstBytes
<1>3. Len(s) = 1 => Meant(s) = IF b \in Simple THEN <<<<"esc", b>>>> ELSE <<>>
  BY DEF Meant
<1>4. OneByte(b)
  OBVIOUS
<1>5. IsQuiet(Meant(s))
  BY RestType
<1>6. SubSeq(s, 1, 1) = <<b>> /\ SubSeq(s, 1, 0) = <<>>
  <2>1. 0 \in 0 .. Len(s) - 1
    BY <1>1
  <2>2. /\ Append(SubSeq(s, 1, 0), s[0 + 1]) = SubSeq(s, 1, 0 + 1)
        /\ SubSeq(s, 1, 0) = <<>>
    BY <1>1, <2>1, PrefixGrows
  <2>3. 0 + 1 = 1 /\ Append(<<>>, s[1]) = <<s[1]>>
    OBVIOUS
  <2> QED  BY <2>2, <2>3, Zenon
<1> HIDE DEF b
<1>7. /\ p.escaped /\ ~p.osc /\ ~p.utf8 /\ p.utf8_buf = <<>> /\ p.esbuf = <<>>
      /\ p.handler = "none"
      /\ p.rs1 = 0 \/ (p.rs1 = 1 /\ b # 62)
  BY <1>2, <1>6 DEF InSequence
<1>8. Len(p.esbuf) < SmallSize
  <2>1. Len(p.esbuf) = 0
    BY <1>7
  <2> QED  BY <2>1, SizesType, ParserAssumption
<1>9. /\ Within = p /\ Sequence(b) /\ ~Full(p)
      /\ First(b) \/ Collect(b) \/ Dispatch(b) \/ Command(b) \/ AsksReset(b)
  BY <1>1, <1>4, <1>7, <1>8, SequenceByteTaken
<1>10. First(b) /\ ~AsksReset(b)
  BY <1>2, <1>7, <1>9 DEF Collect, Dispatch, Command, AsksReset, Whole
<1>11. CASE Len(s) = 1
  <2>1. Done(b, Cancel(p), Meant(s))
    BY <1>2, <1>3, <1>9, <1>10, <1>11 DEF First
  <2>2. /\ calls' = calls \o Meant(s) /\ IsQuiet(calls')
        /\ p' = [Cancel(p) EXCEPT !.rs1 = Seen(b)]
        /\ Seen(b) = 0 \/ (Seen(b) = 1 /\ b = ESC)
    BY <1>5, <1>7, <2>1, DoneWhole, Zenon
  <2>3. p' = [Cancel(p) EXCEPT !.rs1 = 0]
    BY <1>1, <2>2
  <2>4. Rests(p')
    BY <1>7, <2>3, CancelRests, Zenon
  <2> QED  BY <1>10, <1>11, <2>2, <2>4 DEF b
<1>12. CASE Len(s) # 1
  <2> DEFINE q == [Stored(p, b) EXCEPT !.handler = Handler(b),
                                       !.osc = @ \/ Handler(b) = "osc"]
  <2>1. Done(b, q, <<>>)
    BY <1>2, <1>9, <1>10, <1>12 DEF First
  <2>2. IsGood(Stored(p, b)) /\ Stored(p, b).escaped /\ ~Stored(p, b).osc
    BY <1>1, <1>7, <1>9, StoredGood
  <2>3. /\ Stored(p, b).esbuf = <<b>>
        /\ ~Stored(p, b).utf8 /\ Stored(p, b).utf8_buf = <<>>
    BY <1>7 DEF Stored, IsGood, States
  <2>4. Handler(b) # "osc"
    BY <1>2, <1>12
  <2>5. /\ q.escaped /\ ~q.osc /\ ~q.utf8 /\ q.utf8_buf = <<>>
        /\ q.esbuf = <<b>> /\ q.handler = Handler(b) /\ q \in States
    BY <1>2, <1>12, <2>2, <2>3, <2>4 DEF IsGood, States, Handlers
  <2> HIDE DEF q
  <2>6. IsQuiet(<<>>)
    BY NothingTold
  <2>7. /\ calls' = calls \o <<>> /\ IsQuiet(calls')
        /\ p' = [q EXCEPT !.rs1 = Seen(b)]
        /\ Seen(b) = 0 \/ (Seen(b) = 1 /\ b = ESC)
    BY <1>7, <2>1, <2>6, DoneWhole, Zenon
  <2>8. /\ calls' = calls \o <<>> /\ IsQuiet(calls')
        /\ p' = [q EXCEPT !.rs1 = Seen(b)] /\ Seen(b) = 0
    BY <1>1, <2>7
  <2>9. calls' = calls
    <3>1. PICK S : calls \in Seq(S)
      BY DEF IsQuiet, IsString
    <3> QED  BY <2>8, <3>1
  <2>10. /\ p'.escaped /\ ~p'.osc /\ ~p'.utf8 /\ p'.utf8_buf = <<>>
        /\ p'.esbuf = <<b>> /\ p'.handler = Handler(b) /\ p'.rs1 = 0
    BY <2>5, <2>8 DEF States
  <2>11. InSequence(p', s, 1)
    BY <1>6, <2>10 DEF InSequence, b
  <2> QED  BY <1>10, <1>12, <2>8, <2>9, <2>11 DEF b
<1> QED  BY <1>11, <1>12

\* A later byte of a sequence.
LEMMA SequenceNext ==
  ASSUME IsGood(p), IsQuiet(calls), NEW s, IsRest(s),
         NEW j \in 1 .. Len(s) - 1, InSequence(p, s, j), OneByte(s[j + 1])
  PROVE  /\ ~AsksReset(s[j + 1])
         /\ IsQuiet(calls')
         /\ IF j + 1 = Len(s) THEN Rests(p') /\ calls' = calls \o Meant(s)
                              ELSE InSequence(p', s, j + 1) /\ calls' = calls
<1> DEFINE b == s[j + 1]
           h == Handler(s[1])
           q == Stored(p, b)
<1>1. /\ s \in Seq(Bytes) /\ Len(s) \in Nat /\ j \in Nat
      /\ j + 1 \in 2 .. Len(s) /\ Len(s) # 1 /\ Len(s) <= SmallSize
      /\ j \in 0 .. Len(s) - 1
      /\ b \in Bytes /\ b # 0 /\ b \notin C0 /\ b # ESC
  <2>1. s \in Seq(Bytes) /\ Len(s) \in Nat
    BY RestType
  <2>2. /\ j \in Nat /\ j + 1 \in 2 .. Len(s) /\ j + 1 \in 1 .. Len(s)
        /\ j \in 0 .. Len(s) - 1 /\ Len(s) # 1
    BY <2>1
  <2>3. b \in Bytes /\ b # 0 /\ b \notin C0
    BY <2>2, RestType
  <2>4. Len(s) <= SmallSize
    BY SizesType DEF IsRest
  <2> QED  BY <2>1, <2>2, <2>3, <2>4 DEF C0, ESC
<1>2. /\ h \in {"csi", "scs", "dec"}
      /\ b \in Ending(h) <=> j + 1 = Len(s)
      /\ ~(h = "csi" /\ IsReset(s))
  BY <1>1 DEF IsRest
<1>3. IsQuiet(Meant(s)) /\ Meant(s) = SequenceCalls(h, s)
  BY <1>1, RestType DEF Meant
<1>4. OneByte(b)
  OBVIOUS
<1>5. /\ p.esbuf = SubSeq(s, 1, j) /\ Len(SubSeq(s, 1, j)) = j
      /\ Append(SubSeq(s, 1, j), b) = SubSeq(s, 1, j + 1)
      /\ Len(SubSeq(s, 1, j + 1)) = j + 1
      /\ SubSeq(s, 1, Len(s)) = s
  BY <1>1, PrefixGrows DEF InSequence
<1>6. /\ p.escaped /\ ~p.osc /\ ~p.utf8 /\ p.utf8_buf = <<>>
      /\ p.handler = h /\ p.rs1 = 0
  BY <1>1 DEF InSequence
<1>7. SubSeq(s, 1, j + 1)[j + 1] = b
  BY <1>1
<1> HIDE DEF b, h
<1>8. /\ Within = p /\ Sequence(b) /\ ~Full(p)
      /\ First(b) \/ Collect(b) \/ Dispatch(b) \/ Command(b) \/ AsksReset(b)
  <2>1. Len(p.esbuf) < SmallSize
    BY <1>1, <1>5, SizesType
  <2> QED  BY <1>1, <1>4, <1>6, <2>1, SequenceByteTaken
<1>9. IsGood(q) /\ q.escaped /\ ~q.osc
  BY <1>1, <1>6, <1>8, StoredGood
<1>10. /\ q.esbuf = SubSeq(s, 1, j + 1) /\ q.handler = h
       /\ ~q.utf8 /\ q.utf8_buf = <<>>
  BY <1>5, <1>6 DEF Stored, IsGood, States
<1> HIDE DEF q
<1>11. IsWhole(q) <=> j + 1 = Len(s)
  <2>1. Len(q.esbuf) = j + 1 /\ q.esbuf[Len(q.esbuf)] = b
    BY <1>5, <1>7, <1>10
  <2>2. IsWhole(q) <=> b \in Ending(h)
    BY <1>2, <1>10, <2>1 DEF IsWhole, Ending
  <2> QED  BY <1>2, <2>2
<1>12. h # "none" /\ h # "osc"
  BY <1>2
<1>13. ~First(b) /\ ~Command(b)
  BY <1>6, <1>8, <1>12 DEF First, Command
<1>14. CASE j + 1 = Len(s)
  <2>1. Text(b) = s
    BY <1>5, <1>8, <1>10, <1>14 DEF Text, q
  <2>2. ~Collect(b)
    BY <1>8, <1>11, <1>14 DEF Collect, q
  <2>3. ~AsksReset(b)
    BY <1>2, <1>6, <1>8, <1>12, <2>1 DEF AsksReset
  <2>4. Dispatch(b)
    BY <1>8, <1>13, <2>2, <2>3
  <2>5. Done(b, Cancel(p), Meant(s))
    BY <1>3, <1>6, <2>1, <2>4 DEF Dispatch
  <2>6. /\ calls' = calls \o Meant(s) /\ IsQuiet(calls')
        /\ p' = [Cancel(p) EXCEPT !.rs1 = Seen(b)]
        /\ Seen(b) = 0 \/ (Seen(b) = 1 /\ b = ESC)
    BY <1>3, <1>6, <2>5, DoneWhole, Zenon
  <2>7. p' = [Cancel(p) EXCEPT !.rs1 = 0]
    BY <1>1, <2>6
  <2>8. Rests(p')
    BY <1>6, <2>7, CancelRests, Zenon
  <2> QED  BY <1>14, <2>3, <2>6, <2>8 DEF b
<1>15. CASE j + 1 # Len(s)
  <2>1. ~Dispatch(b) /\ ~AsksReset(b)
    BY <1>6, <1>8, <1>11, <1>12, <1>15 DEF Dispatch, AsksReset, Whole, q
  <2>2. Collect(b)
    BY <1>8, <1>13, <2>1
  <2>3. ~IsPaletteReset(q)
    BY <1>10, <1>12 DEF IsPaletteReset
  <2>4. Done(b, q, <<>>)
    BY <1>8, <2>2, <2>3 DEF Collect, q
  <2>5. IsQuiet(<<>>)
    BY NothingTold
  <2>6. /\ calls' = calls \o <<>> /\ IsQuiet(calls')
        /\ p' = [q EXCEPT !.rs1 = Seen(b)]
        /\ Seen(b) = 0 \/ (Seen(b) = 1 /\ b = ESC)
    BY <1>6, <2>4, <2>5, DoneWhole, Zenon
  <2>7. calls' = calls
    <3>1. PICK S : calls \in Seq(S)
      BY DEF IsQuiet, IsString
    <3> QED  BY <2>6, <3>1
  <2>8. p' = [q EXCEPT !.rs1 = 0]
    BY <1>1, <2>6
  <2>9. /\ p'.escaped = q.escaped /\ p'.osc = q.osc /\ p'.handler = q.handler
        /\ p'.esbuf = q.esbuf /\ p'.utf8 = q.utf8 /\ p'.utf8_buf = q.utf8_buf
        /\ p'.rs1 = 0
    BY <1>9, <2>8, ScannedRests
  <2>10. j + 1 # 0
    BY <1>1
  <2>11. InSequence(p', s, j + 1)
    BY <1>9, <1>10, <2>9, <2>10 DEF InSequence, h
  <2> QED  BY <1>15, <2>1, <2>6, <2>7, <2>11 DEF b
<1> QED  BY <1>14, <1>15

\* A byte of what is under way is taken from what was sent.
LEMMA FrontTaken ==
  ASSUME NEW s \in Seq(Bytes), NEW t \in Seq(Bytes), NEW j \in 0 .. Len(s) - 1,
         Joined = <<Outermost(After(s, j) \o t)>>, RenderAll
  PROVE  /\ OneByte(s[j + 1])
         /\ ~AsksReset(s[j + 1]) => Joined' = <<Outermost(After(s, j + 1) \o t)>>
         /\ j + 1 = Len(s) => After(s, j + 1) \o t = t
<1> DEFINE a == After(s, j)
           r == a \o t
<1>1. /\ a \in Seq(Bytes) /\ a # <<>> /\ a[1] = s[j + 1]
      /\ After(a, 1) = After(s, j + 1) /\ After(s, Len(s)) = <<>>
  BY AfterMore
<1> HIDE DEF a
<1>2. /\ r \in Seq(Bytes) /\ r # <<>> /\ r[1] = s[j + 1]
      /\ After(r, 1) = After(s, j + 1) \o t
  <2>1. /\ a \o t \in Seq(Bytes) /\ a \o t # <<>>
        /\ (a \o t)[1] = a[1]
        /\ After(a \o t, 1) = After(a, 1) \o t
    BY <1>1, FrontOfConcat, Zenon
  <2> QED  BY <1>1, <2>1, Zenon
<1>3. Loop(<<Outermost(r)>>, Joined')
  BY DEF RenderAll, a
<1> HIDE DEF r
<1>4. OneByte(r[1]) /\ (~AsksReset(r[1]) => Joined' = <<Outermost(After(r, 1))>>)
  BY <1>2, <1>3, LoopOfOne
<1>5. <<>> \o t = t
  OBVIOUS
<1> QED  BY <1>1, <1>2, <1>4, <1>5

LEMMA WithinCharacterStep ==
  ASSUME IsGood(p), IsQuiet(calls), WithinCharacter, RenderAll
  PROVE  PiecesInv'
<1>1. PICK s, t : \E c \in Nat, j \in 1 .. Len(s) - 1 :
        /\ kind.utf8 /\ 160 <= c /\ IsEncoding(s, c)
        /\ InCharacter(p, s, j)
        /\ Expects(After(s, j), t, <<<<"put", c>>>>)
  BY DEF WithinCharacter
<1>2. PICK c \in Nat, j \in 1 .. Len(s) - 1 :
        /\ kind.utf8 /\ 160 <= c /\ IsEncoding(s, c)
        /\ InCharacter(p, s, j)
        /\ Expects(After(s, j), t, <<<<"put", c>>>>)
  BY <1>1
<1>3. s \in Seq(Bytes) /\ Len(s) \in Nat
  BY <1>2 DEF IsEncoding
<1>4. j \in 0 .. Len(s) - 1 /\ j # 0
  BY <1>3
<1>5. /\ t \in Seq(Bytes) /\ Joined = <<Outermost(After(s, j) \o t)>>
      /\ LeadsTo(kind, t, calls \o <<<<"put", c>>>>, unit.calls)
  BY <1>2 DEF Expects
<1>6. /\ OneByte(s[j + 1])
      /\ ~AsksReset(s[j + 1]) => Joined' = <<Outermost(After(s, j + 1) \o t)>>
      /\ j + 1 = Len(s) => After(s, j + 1) \o t = t
  BY <1>3, <1>4, <1>5, FrontTaken
<1>7. /\ ~AsksReset(s[j + 1])
      /\ IsQuiet(calls')
      /\ IF j + 1 = Len(s)
         THEN Rests(p') /\ calls' = calls \o <<<<"put", c>>>>
         ELSE InCharacter(p', s, j + 1) /\ calls' = calls
  BY <1>2, <1>4, <1>6, CharacterByte
<1>8. UNCHANGED <<kind, unit>>
  BY DEF RenderAll
<1>9. CASE j + 1 = Len(s)
  <2>1. Between'
    BY <1>5, <1>6, <1>7, <1>8, <1>9 DEF Between
  <2> QED  BY <1>7, <2>1 DEF PiecesInv
<1>10. CASE j + 1 # Len(s)
  <2>1. j + 1 \in 1 .. Len(s) - 1
    BY <1>3, <1>4, <1>10
  <2>2. Expects(After(s, j + 1), t, <<<<"put", c>>>>)'
    BY <1>5, <1>6, <1>7, <1>8, <1>10 DEF Expects
  <2>3. WithinCharacter'
    BY <1>2, <1>7, <1>8, <1>10, <2>1, <2>2 DEF WithinCharacter
  <2> QED  BY <1>7, <2>3 DEF PiecesInv
<1> QED  BY <1>9, <1>10

LEMMA WithinSequenceStep ==
  ASSUME IsGood(p), IsQuiet(calls), WithinSequence, RenderAll
  PROVE  PiecesInv'
<1>1. PICK s, t : \E j \in 0 .. Len(s) - 1 :
        /\ IsRest(s)
        /\ InSequence(p, s, j)
        /\ Expects(After(s, j), t, Meant(s))
  BY DEF WithinSequence
<1>2. PICK j \in 0 .. Len(s) - 1 :
        /\ IsRest(s)
        /\ InSequence(p, s, j)
        /\ Expects(After(s, j), t, Meant(s))
  BY <1>1
<1>3. s \in Seq(Bytes) /\ Len(s) \in Nat
  BY <1>2, RestType
<1>4. /\ t \in Seq(Bytes) /\ Joined = <<Outermost(After(s, j) \o t)>>
      /\ LeadsTo(kind, t, calls \o Meant(s), unit.calls)
  BY <1>2 DEF Expects
<1>5. /\ OneByte(s[j + 1])
      /\ ~AsksReset(s[j + 1]) => Joined' = <<Outermost(After(s, j + 1) \o t)>>
      /\ j + 1 = Len(s) => After(s, j + 1) \o t = t
  BY <1>3, <1>4, FrontTaken
<1>6. /\ ~AsksReset(s[j + 1])
      /\ IsQuiet(calls')
      /\ IF j + 1 = Len(s) THEN Rests(p') /\ calls' = calls \o Meant(s)
                           ELSE InSequence(p', s, j + 1) /\ calls' = calls
  <2>1. CASE j = 0
    <3>1. 0 + 1 = 1 /\ (Len(s) = 1 <=> 0 + 1 = Len(s))
      OBVIOUS
    <3> QED  BY <1>2, <1>5, <2>1, <3>1, SequenceFirst
  <2>2. CASE j # 0
    <3>1. j \in 1 .. Len(s) - 1
      BY <1>3, <2>2
    <3> QED  BY <1>2, <1>5, <3>1, SequenceNext
  <2> QED  BY <2>1, <2>2
<1>7. UNCHANGED <<kind, unit>>
  BY DEF RenderAll
<1>8. CASE j + 1 = Len(s)
  <2>1. Between'
    BY <1>4, <1>5, <1>6, <1>7, <1>8 DEF Between
  <2> QED  BY <1>6, <2>1 DEF PiecesInv
<1>9. CASE j + 1 # Len(s)
  <2>1. j + 1 \in 0 .. Len(s) - 1
    BY <1>3, <1>9
  <2>2. Expects(After(s, j + 1), t, Meant(s))'
    BY <1>4, <1>5, <1>6, <1>7, <1>9 DEF Expects
  <2>3. WithinSequence'
    BY <1>2, <1>6, <1>9, <2>1, <2>2 DEF WithinSequence
  <2> QED  BY <1>6, <2>3 DEF PiecesInv
<1> QED  BY <1>8, <1>9

\* A piece begins with a byte of it.
LEMMA PieceBegins ==
  ASSUME NEW s \in Seq(Bytes), s # <<>>, NEW t \in Seq(Bytes),
         Joined = <<Outermost(s \o t)>>, RenderAll
  PROVE  /\ 0 \in 0 .. Len(s) - 1 /\ s[1] \in Bytes
         /\ OneByte(s[1])
         /\ ~AsksReset(s[1]) => Joined' = <<Outermost(After(s, 1) \o t)>>
         /\ Len(s) = 1 => After(s, 1) \o t = t
<1>1. Len(s) \in Nat /\ Len(s) # 0
  OBVIOUS
<1>2. 0 \in 0 .. Len(s) - 1 /\ 0 + 1 = 1 /\ s[1] \in Bytes
  BY <1>1
<1>3. After(s, 0) = s
  BY <1>2, AfterMore
<1> QED  BY <1>2, <1>3, FrontTaken

LEMMA BetweenText ==
  ASSUME IsGood(p), IsQuiet(calls), Rests(p), RenderAll,
         NEW w, IsText(kind, w), NEW t \in Seq(Bytes),
         Joined = <<Outermost(w.bytes \o t)>>,
         LeadsTo(kind, t, calls \o w.calls, unit.calls)
  PROVE  PiecesInv'
<1> DEFINE s == w.bytes
<1>1. PICK c \in Nat :
        /\ 32 <= c /\ ~(127 < c /\ c < 160)
        /\ IF c < 128 \/ ~kind.utf8 THEN c < 256 /\ s = <<c>>
                                    ELSE c < 1114112 /\ s = Utf8(c)
        /\ w.calls = <<<<"put", c>>>>
  BY SMT DEF IsText
<1>2. s \in Seq(Bytes) /\ s # <<>>
  BY TextPiece
<1> HIDE DEF s
<1>3. /\ 0 \in 0 .. Len(s) - 1 /\ s[1] \in Bytes /\ OneByte(s[1])
      /\ ~AsksReset(s[1]) => Joined' = <<Outermost(After(s, 1) \o t)>>
      /\ Len(s) = 1 => After(s, 1) \o t = t
  <2>1. Joined = <<Outermost(s \o t)>>
    BY DEF s
  <2> QED  BY <1>2, <2>1, PieceBegins
<1>4. UNCHANGED <<kind, unit>>
  BY DEF RenderAll
<1>5. CASE c < 128 \/ ~kind.utf8
  <2>1. /\ s[1] = c /\ Len(s) = 1 /\ c # 0 /\ c \notin C0 \cup C1
        /\ ~(kind.utf8 /\ c > 127)
    BY <1>1, <1>5, SMT DEF C0, C1
  <2>2. /\ ~AsksReset(c) /\ IsQuiet(calls')
        /\ Rests(p') /\ calls' = calls \o <<<<"put", c>>>>
    BY <1>3, <2>1, PlainByte
  <2>3. Joined' = <<Outermost(t)>>
    BY <1>3, <2>1, <2>2
  <2>4. LeadsTo(kind, t, calls', unit.calls)
    BY <1>1, <2>2
  <2>5. Between'
    BY <1>4, <2>2, <2>3, <2>4 DEF Between
  <2> QED  BY <2>2, <2>5 DEF PiecesInv
<1>6. CASE ~(c < 128 \/ ~kind.utf8)
  <2>1. kind.utf8 /\ 160 <= c /\ 128 <= c /\ c < 1114112 /\ s = Utf8(c)
    BY <1>1, <1>6, SMT
  <2>2. IsEncoding(s, c)
    BY <2>1, CharactersComeBack, SMT
  <2>3. Len(s) \in 2 .. 4
    BY <2>2 DEF IsEncoding
  <2>4. /\ ~AsksReset(s[1]) /\ IsQuiet(calls')
        /\ InCharacter(p', s, 1) /\ calls' = calls
    <3>1. 0 + 1 = 1 /\ 1 # Len(s)
      BY <2>3
    <3>2. /\ kind.utf8 /\ 160 <= c /\ OneByte(s[0 + 1])
          /\ IF 0 = 0 THEN Rests(p) ELSE InCharacter(p, s, 0)
      BY <1>3, <2>1, <3>1, SMT
    <3>3. /\ ~AsksReset(s[0 + 1])
          /\ IsQuiet(calls')
          /\ IF 0 + 1 = Len(s)
             THEN Rests(p') /\ calls' = calls \o <<<<"put", c>>>>
             ELSE InCharacter(p', s, 0 + 1) /\ calls' = calls
      BY <1>3, <2>2, <3>2, CharacterByte, Zenon
    <3> QED  BY <3>1, <3>3
  <2>5. Joined' = <<Outermost(After(s, 1) \o t)>>
    BY <1>3, <2>4
  <2>6. LeadsTo(kind, t, calls' \o <<<<"put", c>>>>, unit.calls)
    BY <1>1, <2>4
  <2>7. Expects(After(s, 1), t, <<<<"put", c>>>>)'
    BY <1>4, <2>5, <2>6 DEF Expects
  <2>8. 1 \in 1 .. Len(s) - 1
    BY <2>3
  <2>9. WithinCharacter'
    <3>1. kind'.utf8 /\ 160 <= c
      BY <1>4, <2>1, SMT
    <3> QED  BY <2>2, <2>4, <2>7, <2>8, <3>1 DEF WithinCharacter
  <2> QED  BY <2>4, <2>9 DEF PiecesInv
<1> QED  BY <1>5, <1>6

LEMMA BetweenControl ==
  ASSUME IsGood(p), IsQuiet(calls), Rests(p), RenderAll,
         NEW w, IsControl(w), NEW t \in Seq(Bytes),
         Joined = <<Outermost(w.bytes \o t)>>,
         LeadsTo(kind, t, calls \o w.calls, unit.calls)
  PROVE  PiecesInv'
<1>1. PICK b \in ({0} \cup C0) \ {ESC} :
        w.bytes = <<b>> /\ w.calls = ControlCalls(b)
  BY DEF IsControl
<1> DEFINE s == w.bytes
<1>2. s \in Seq(Bytes) /\ s # <<>> /\ Len(s) = 1 /\ s[1] = b
  BY <1>1, ControlPiece
<1> HIDE DEF s
<1>3. /\ OneByte(s[1])
      /\ ~AsksReset(s[1]) => Joined' = <<Outermost(After(s, 1) \o t)>>
      /\ After(s, 1) \o t = t
  <2>1. Joined = <<Outermost(s \o t)>>
    BY DEF s
  <2> QED  BY <1>2, <2>1, PieceBegins
<1>4. /\ ~AsksReset(b) /\ IsQuiet(calls')
      /\ Rests(p') /\ calls' = calls \o ControlCalls(b)
  BY <1>2, <1>3, ControlByte
<1>5. Joined' = <<Outermost(t)>>
  BY <1>2, <1>3, <1>4
<1>6. LeadsTo(kind, t, calls', unit.calls)
  BY <1>1, <1>4
<1>7. UNCHANGED <<kind, unit>>
  BY DEF RenderAll
<1>8. Between'
  BY <1>4, <1>5, <1>6, <1>7 DEF Between
<1> QED  BY <1>4, <1>8 DEF PiecesInv

LEMMA BetweenSequence ==
  ASSUME IsGood(p), IsQuiet(calls), Rests(p), RenderAll,
         NEW w, IsSequence(w), NEW t \in Seq(Bytes),
         Joined = <<Outermost(w.bytes \o t)>>,
         LeadsTo(kind, t, calls \o w.calls, unit.calls)
  PROVE  PiecesInv'
<1>1. PICK s : IsRest(s) /\ w.bytes = <<ESC>> \o s /\ w.calls = Meant(s)
  BY DEF IsSequence
<1>2. s \in Seq(Bytes) /\ Len(s) \in Nat /\ Len(s) >= 1
  BY <1>1, RestType
<1> DEFINE r == (<<ESC>> \o s) \o t
<1>3. /\ <<ESC>> \o s \in Seq(Bytes) /\ <<ESC>> \o s # <<>>
      /\ (<<ESC>> \o s)[1] = ESC /\ After(r, 1) = s \o t
  BY <1>2, EscapedString
<1>4. r \in Seq(Bytes) /\ r[1] = ESC
  <2> DEFINE e == <<ESC>> \o s
  <2>1. e \in Seq(Bytes) /\ e # <<>> /\ e[1] = ESC
    BY <1>3
  <2> HIDE DEF e
  <2>2. e \o t \in Seq(Bytes) /\ (e \o t)[1] = ESC
    BY <2>1, FrontOfConcat
  <2> QED  BY <2>2 DEF e
<1>5. Loop(<<Outermost(r)>>, Joined')
  BY <1>1 DEF RenderAll
<1> HIDE DEF r
<1>6. /\ OneByte(ESC)
      /\ ~AsksReset(ESC) => Joined' = <<Outermost(s \o t)>>
  BY <1>3, <1>4, <1>5, LoopOfOne
<1>7. /\ ~AsksReset(ESC) /\ IsQuiet(calls')
      /\ InSequence(p', s, 0) /\ calls' = calls
  BY <1>2, <1>6, EscByte
<1>8. UNCHANGED <<kind, unit>>
  BY DEF RenderAll
<1>9. 0 \in 0 .. Len(s) - 1
  BY <1>2
<1>10. After(s, 0) = s
  BY <1>2, <1>9, AfterMore
<1>11. LeadsTo(kind, t, calls' \o Meant(s), unit.calls)
  BY <1>1, <1>7
<1>12. Expects(After(s, 0), t, Meant(s))'
  BY <1>6, <1>7, <1>8, <1>10, <1>11 DEF Expects
<1>13. WithinSequence'
  BY <1>1, <1>7, <1>9, <1>12 DEF WithinSequence
<1> QED  BY <1>7, <1>13 DEF PiecesInv

LEMMA BetweenStep ==
  ASSUME IsGood(p), IsQuiet(calls), Between, RenderAll
  PROVE  PiecesInv'
<1>1. PICK r \in Seq(Bytes) : /\ Joined = <<Outermost(r)>>
                              /\ LeadsTo(kind, r, calls, unit.calls)
  BY DEF Between
<1>2. r # <<>>
  <2>1. Loop(<<Outermost(r)>>, Joined')
    BY <1>1 DEF RenderAll
  <2> QED  BY <2>1, LoopOfOne
<1>3. PICK w, t : /\ IsPiece(kind, w) /\ t \in Seq(Bytes)
                  /\ r = w.bytes \o t
                  /\ LeadsTo(kind, t, calls \o w.calls, unit.calls)
  BY <1>1, <1>2, LeadsByPiece
<1>4. Joined = <<Outermost(w.bytes \o t)>> /\ Rests(p)
  BY <1>1, <1>3 DEF Between
<1> QED  BY <1>3, <1>4, BetweenText, BetweenControl, BetweenSequence DEF IsPiece

\* When nothing is left nothing is under way, and all was called.
LEMMA NothingLeft ==
  ASSUME PiecesInv, Joined = <<Outermost(<<>>)>>
  PROVE  Rests(p) /\ calls = unit.calls
<1>1. \A r : Joined = <<Outermost(r)>> => r = <<>>
  BY DEF Outermost
<1>2. \A s \in Seq(Bytes) : \A t \in Seq(Bytes) : \A j \in 0 .. Len(s) - 1 :
        After(s, j) \o t # <<>>
  <2> SUFFICES ASSUME NEW s \in Seq(Bytes), NEW t \in Seq(Bytes),
                      NEW j \in 0 .. Len(s) - 1
               PROVE  After(s, j) \o t # <<>>
    OBVIOUS
  <2> DEFINE a == After(s, j)
  <2>1. a \in Seq(Bytes) /\ a # <<>>
    BY AfterMore
  <2> HIDE DEF a
  <2>2. a \o t # <<>>
    BY <2>1, FrontOfConcat
  <2> QED  BY <2>2 DEF a
<1>3. ~WithinCharacter
  <2> SUFFICES ASSUME NEW s, NEW t, NEW c \in Nat, NEW j \in 1 .. Len(s) - 1,
                      IsEncoding(s, c),
                      Expects(After(s, j), t, <<<<"put", c>>>>)
               PROVE  FALSE
    BY DEF WithinCharacter
  <2>1. s \in Seq(Bytes) /\ t \in Seq(Bytes) /\ j \in 0 .. Len(s) - 1
    BY DEF IsEncoding, Expects
  <2> QED  BY <1>1, <1>2, <2>1 DEF Expects
<1>4. ~WithinSequence
  <2> SUFFICES ASSUME NEW s, NEW t, NEW j \in 0 .. Len(s) - 1, IsRest(s),
                      Expects(After(s, j), t, Meant(s))
               PROVE  FALSE
    BY DEF WithinSequence
  <2>1. s \in Seq(Bytes) /\ t \in Seq(Bytes)
    BY RestType DEF Expects
  <2> QED  BY <1>1, <1>2, <2>1 DEF Expects
<1>5. LeadsTo(kind, <<>>, calls, unit.calls) /\ Rests(p)
  BY <1>1, <1>3, <1>4 DEF PiecesInv, Between
<1> QED  BY <1>5, LeadsNowhere

\* Calls the host does not hear of are all deeds.
LEMMA QuietDeeds ==
  ASSUME IsQuiet(calls)
  PROVE  /\ Deeds = 1 .. Len(calls)
         /\ Cardinality(Deeds) = Len(calls)
         /\ \A k \in Deeds : Cardinality({j \in Deeds : j <= k}) = k
<1>1. Len(calls) \in Nat
  BY DEF IsQuiet, IsString
<1>2. Deeds = 1 .. Len(calls)
  BY DEF Deeds, IsQuiet, IsAbout
<1>3. \A n \in Nat : Cardinality(1 .. n) = n
  <2> SUFFICES ASSUME NEW n \in Nat PROVE Cardinality(1 .. n) = n
    OBVIOUS
  <2>1. Cardinality(1 .. n) = IF 1 > n THEN 0 ELSE n - 1 + 1
    BY FS_Interval
  <2> QED  BY <2>1
<1>4. \A k \in Deeds : Cardinality({j \in Deeds : j <= k}) = k
  <2> SUFFICES ASSUME NEW k \in 1 .. Len(calls)
               PROVE  Cardinality({j \in 1 .. Len(calls) : j <= k}) = k
    BY <1>2
  <2>1. {j \in 1 .. Len(calls) : j <= k} = 1 .. k
    BY <1>1
  <2>2. Cardinality(1 .. k) = k
    BY <1>1, <1>3
  <2> QED  BY <2>1, <2>2, Zenon
<1> QED  BY <1>1, <1>2, <1>3, <1>4

\* The first byte of a command.
LEMMA CommandFirst ==
  ASSUME IsGood(p), NEW s, IsLine(kind, s), InCommand(p, s, 0), calls = <<>>,
         OneByte(s[1])
  PROVE  ~AsksReset(s[1]) /\ calls' = <<>> /\ InCommand(p', s, 1)
<1>1. /\ s \in Seq(Bytes \ {0}) /\ Len(s) \in Nat /\ Len(s) >= 2
      /\ s[1] = 93 /\ s[2] \in Bytes
  BY SizesType DEF IsLine
<1>2. /\ 93 \in Bytes /\ 93 # 0 /\ 93 \notin C0 /\ 93 # ESC /\ 93 # Lowerc
      /\ 93 \notin Simple /\ Handler(93) = "osc" /\ Handler(93) # "none"
  BY DEF Bytes, C0, ESC, Lowerc, Simple, Handler
<1>3. s \in Seq(Bytes) /\ SubSeq(s, 1, 0) = <<>> /\ SubSeq(s, 1, 1) = <<93>>
  <2>1. s \in Seq(Bytes) /\ 0 \in 0 .. Len(s) - 1
    BY <1>1
  <2>2. /\ Append(SubSeq(s, 1, 0), s[0 + 1]) = SubSeq(s, 1, 0 + 1)
        /\ SubSeq(s, 1, 0) = <<>>
    BY <2>1, PrefixGrows
  <2>3. 0 + 1 = 1 /\ Append(<<>>, s[1]) = <<s[1]>>
    OBVIOUS
  <2> QED  BY <1>1, <2>1, <2>2, <2>3, Zenon
<1>4. /\ p.escaped /\ ~p.osc /\ ~p.utf8 /\ p.utf8_buf = <<>>
      /\ p.esbuf = <<>> /\ p.handler = "none"
      /\ p.rs1 = 0 \/ (p.rs1 = 1 /\ 93 # 62)
  BY <1>3 DEF InCommand
<1>5. Len(p.esbuf) < SmallSize
  <2>1. Len(p.esbuf) = 0
    BY <1>4
  <2> QED  BY <2>1, SizesType
<1> DEFINE b == 93
           q == [Stored(p, b) EXCEPT !.handler = Handler(b),
                                     !.osc = @ \/ Handler(b) = "osc"]
<1>6. OneByte(b)
  BY <1>1
<1>7. /\ b \in Bytes /\ b # 0 /\ b \notin C0 /\ b # ESC /\ b # Lowerc
      /\ b \notin Simple /\ Handler(b) = "osc" /\ b = 93
      /\ p.rs1 = 0 \/ (p.rs1 = 1 /\ b # 62)
  BY <1>2, <1>4
<1> HIDE DEF b
<1>8. /\ Within = p /\ Sequence(b) /\ ~Full(p)
      /\ First(b) \/ Collect(b) \/ Dispatch(b) \/ Command(b) \/ AsksReset(b)
  BY <1>4, <1>5, <1>6, <1>7, SequenceByteTaken
<1>9. First(b) /\ ~AsksReset(b)
  BY <1>4, <1>7, <1>8 DEF Collect, Dispatch, Command, AsksReset, Whole
<1>10. Done(b, q, <<>>)
  BY <1>7, <1>8, <1>9 DEF First
<1>11. IsGood(Stored(p, b)) /\ Stored(p, b).escaped
  BY <1>4, <1>7, <1>8, StoredGood
<1>12. /\ Stored(p, b).esbuf = <<b>>
       /\ ~Stored(p, b).utf8 /\ Stored(p, b).utf8_buf = <<>>
  BY <1>4 DEF Stored, IsGood, States
<1>13. /\ q.escaped /\ q.osc /\ ~q.utf8 /\ q.utf8_buf = <<>>
       /\ q.esbuf = <<b>> /\ q.handler = "osc" /\ q \in States
  <2> DEFINE r == Stored(p, b)
  <2>1. r \in States /\ r.escaped /\ r.esbuf = <<b>> /\ ~r.utf8 /\ r.utf8_buf = <<>>
    BY <1>11, <1>12 DEF IsGood
  <2> HIDE DEF r
  <2>2. q = [r EXCEPT !.handler = "osc", !.osc = TRUE]
    <3>1. (r.osc \/ Handler(b) = "osc") = TRUE
      BY <1>7
    <3> QED  BY <1>7, <3>1, Zenon DEF r
  <2> HIDE DEF q
  <2> QED  BY <2>1, <2>2 DEF States, Handlers
<1> HIDE DEF q
<1>14. Heard(b) = <<>> /\ (Seen(b) = 0 \/ (Seen(b) = 1 /\ b = ESC))
  BY <1>7, ScansNothing, Zenon
<1>15. p' = [q EXCEPT !.rs1 = 0] /\ calls' = calls \o (<<>> \o <<>>)
  BY <1>7, <1>10, <1>14 DEF Done
<1>16. calls' = <<>>
  <2>1. <<>> \o (<<>> \o <<>>) = <<>>
    OBVIOUS
  <2> QED  BY <1>15, <2>1
<1>17. /\ p'.escaped /\ p'.osc /\ ~p'.utf8 /\ p'.utf8_buf = <<>>
       /\ p'.esbuf = <<b>> /\ p'.handler = "osc" /\ p'.rs1 = 0
  BY <1>13, <1>15 DEF States
<1> QED  BY <1>1, <1>3, <1>7, <1>9, <1>16, <1>17 DEF InCommand

\* A later byte of a command is one of it, and there is room for it.
LEMMA CommandByteTaken ==
  ASSUME IsGood(p), p.escaped, p.osc, p.handler = "osc",
         Len(p.esbuf) < LargeSize, NEW b \in Bytes, b # 0, OneByte(b)
  PROVE  /\ Within = p /\ Sequence(b) /\ ~Full(p)
         /\ IF IsWhole(Stored(p, b)) THEN Command(b) ELSE Collect(b)
         /\ ~AsksReset(b)
<1>1. Within = p /\ Sequence(b)
  BY DEF Within, Sequence, IsOfSequence
<1>2. ~Full(p)
  <2>1. p.cap \in Nat /\ LargeSize \in Nat /\ Len(p.esbuf) \in Nat
    BY SizesType DEF IsGood, States
  <2> QED  BY <2>1 DEF Full, MayGrow
<1>3. /\ ~SkipNul(b) /\ ~Control(b) /\ ~PutByte(b)
      /\ ~AssembleMore(b) /\ ~AssembleLast(b) /\ ~Overflow(b)
  BY <1>1, <1>2 DEF SkipNul, Control, PutByte, AssembleMore, AssembleLast,
                    IsUtf8, Assembles, Overflow
<1>4. ~First(b) /\ ~Dispatch(b) /\ ~AsksReset(b)
  BY <1>1 DEF First, Dispatch, AsksReset
<1>5. IF IsWhole(Stored(p, b)) THEN ~Collect(b) ELSE ~Command(b)
  BY <1>1 DEF Collect, Command, Whole
<1> QED  BY <1>1, <1>2, <1>3, <1>4, <1>5 DEF OneByte

\* What the next byte of a command completes.
LEMMA CommandStored ==
  ASSUME IsGood(p), NEW s, IsLine(kind, s), NEW j \in 1 .. Len(s) - 1,
         InCommand(p, s, j)
  PROVE  LET b == s[j + 1]
             q == Stored(p, b)
         IN /\ b \in Bytes /\ b # 0 /\ Len(p.esbuf) < LargeSize
            /\ p.handler = "osc" /\ p.escaped /\ p.osc
            /\ p.rs1 = 0 \/ (p.rs1 = 1 /\ b # 62)
            /\ q.esbuf = SubSeq(s, 1, j + 1)
            /\ IsWhole(q) <=> j + 1 = Len(s)
            /\ ~IsWhole(q) => ~IsPaletteReset(q)
            /\ j + 1 = Len(s) => q.esbuf = s /\ b # ESC
<1> DEFINE b == s[j + 1]
           q == Stored(p, b)
           t == SubSeq(s, 1, j + 1)
<1>1. /\ s \in Seq(Bytes \ {0}) /\ s \in Seq(Bytes)
      /\ Len(s) \in Nat /\ Len(s) <= LargeSize
      /\ j \in Nat /\ j >= 1 /\ j + 1 \in 2 .. Len(s) /\ (j + 1) - 1 = j
      /\ j \in 0 .. Len(s) - 1 /\ j # 0
  BY SizesType DEF IsLine
<1>2. b \in Bytes /\ b # 0
  BY <1>1
<1>3. /\ EndsAt(kind, s, j + 1) <=> j + 1 = Len(s)
      /\ ~(kind.linux /\ s[j] = 93 /\ b = 82)
  BY <1>1 DEF IsLine
<1>4. /\ p.esbuf = SubSeq(s, 1, j) /\ Len(SubSeq(s, 1, j)) = j
      /\ Append(SubSeq(s, 1, j), b) = t /\ Len(t) = j + 1
      /\ SubSeq(s, 1, Len(s)) = s
  BY <1>1, PrefixGrows DEF InCommand
<1>5. /\ t[j + 1] = b /\ t[j] = s[j]
      /\ SubSeq(t, j, j + 1)[1] = s[j] /\ SubSeq(t, j, j + 1)[2] = b
  <2>1. t \in Seq(Bytes) /\ \A n \in 1 .. j + 1 : t[n] = s[n]
    BY <1>1
  <2>2. SubSeq(t, j, j + 1)[1] = t[j] /\ SubSeq(t, j, j + 1)[2] = t[j + 1]
    BY <1>1, <1>4, <2>1
  <2>3. j \in 1 .. j + 1 /\ j + 1 \in 1 .. j + 1
    BY <1>1
  <2> QED  BY <2>1, <2>2, <2>3
<1>6. Len(p.esbuf) < LargeSize
  BY <1>1, <1>4, SizesType
<1>7. /\ p.handler = "osc" /\ p.escaped /\ p.osc
      /\ p.rs1 = 0 \/ (p.rs1 = 1 /\ b # 62)
  BY <1>1 DEF InCommand
<1>8. q.esbuf = t /\ q.handler = "osc"
  BY <1>4, <1>7 DEF Stored, IsGood, States
<1> HIDE DEF b, q, t
<1>9. IsWhole(q) <=> EndsAt(kind, s, j + 1)
  <2>1. IsWhole(q) <=> Ends(t, j + 1, kind.utf8) \/ LongST(t, (j + 1) - 1)
    BY <1>4, <1>8 DEF IsWhole
  <2>2. /\ ~LongST(t, j + 1)
        /\ LongST(t, j) <=> s[j] = ESC /\ b = Backslash
    BY <1>1, <1>4, <1>5 DEF LongST
  <2>3. Ends(t, j + 1, kind.utf8) <=> b = BEL \/ (b = ST /\ ~kind.utf8)
    BY <1>5, <2>2 DEF Ends
  <2>4. EndsAt(kind, s, j + 1) <=> \/ b = BEL \/ (b = ST /\ ~kind.utf8)
                                   \/ s[j] = ESC /\ b = Backslash
    BY <1>1 DEF EndsAt, b
  <2> QED  BY <1>1, <2>1, <2>2, <2>3, <2>4
<1>10. ~IsPaletteReset(q)
  <2> SUFFICES ASSUME IsPaletteReset(q) PROVE FALSE
    OBVIOUS
  <2>1. kind.linux /\ SubSeq(t, (j + 1) - 1, j + 1) = <<93, 82>>
    BY <1>4, <1>8 DEF IsPaletteReset
  <2>2. SubSeq(t, j, j + 1) = <<93, 82>>
    BY <1>1, <2>1, Zenon
  <2>3. <<93, 82>>[1] = 93 /\ <<93, 82>>[2] = 82
    OBVIOUS
  <2>4. s[j] = 93 /\ b = 82
    BY <1>5, <2>2, <2>3, Zenon
  <2> QED  BY <1>3, <2>1, <2>4
<1>11. j + 1 = Len(s) => t = s /\ b # ESC
  <2>1. EndsAt(kind, s, j + 1) => b # ESC
    BY <1>1 DEF EndsAt, b, BEL, ST, ESC, Backslash
  <2> QED  BY <1>3, <1>4, <2>1 DEF t
<1> QED  BY <1>2, <1>3, <1>6, <1>7, <1>8, <1>9, <1>10, <1>11 DEF b, q, t

\* A later byte of a command but the last.
LEMMA CommandNext ==
  ASSUME IsGood(p), NEW s, IsLine(kind, s), NEW j \in 1 .. Len(s) - 1,
         j + 1 # Len(s), InCommand(p, s, j), calls = <<>>, OneByte(s[j + 1])
  PROVE  ~AsksReset(s[j + 1]) /\ calls' = <<>> /\ InCommand(p', s, j + 1)
         /\ NoStrings
<1> DEFINE b == s[j + 1]
           q == Stored(p, b)
<1>1. /\ b \in Bytes /\ b # 0 /\ Len(p.esbuf) < LargeSize
      /\ p.handler = "osc" /\ p.escaped /\ p.osc
      /\ p.rs1 = 0 \/ (p.rs1 = 1 /\ b # 62)
      /\ q.esbuf = SubSeq(s, 1, j + 1)
      /\ ~IsWhole(q) /\ ~IsPaletteReset(q)
  BY CommandStored
<1>2. j \in Nat /\ Len(s) \in Nat /\ j + 1 # 0 /\ (j + 1) + 1 \in 2 .. Len(s)
  BY SizesType DEF IsLine
<1>3. b = ESC => s[(j + 1) + 1] # 62
  <2>1. ((j + 1) + 1) - 1 = j + 1
    BY <1>2
  <2>2. ~(s[((j + 1) + 1) - 1] = ESC /\ s[(j + 1) + 1] = 62)
    BY <1>2 DEF IsLine
  <2> QED  BY <2>1, <2>2
<1>4. ~p.utf8 /\ p.utf8_buf = <<>>
  BY DEF InCommand
<1>5. OneByte(b)
  OBVIOUS
<1> HIDE DEF b
<1>6. /\ Within = p /\ Sequence(b) /\ ~Full(p)
      /\ Collect(b) /\ ~AsksReset(b)
  BY <1>1, <1>5, CommandByteTaken
<1>7. Done(b, q, <<>>) /\ NoStrings
  BY <1>1, <1>6 DEF Collect
<1>8. IsGood(q) /\ q.escaped
  BY <1>1, <1>6, StoredGood
<1>9. /\ q.escaped /\ q.osc /\ ~q.utf8 /\ q.utf8_buf = <<>>
      /\ q.handler = "osc" /\ q.esbuf = SubSeq(s, 1, j + 1)
  BY <1>1, <1>4, <1>8, StoredGood, <1>6 DEF Stored, IsGood, States
<1> HIDE DEF q
<1>10. Heard(b) = <<>> /\ (Seen(b) = 0 \/ (Seen(b) = 1 /\ b = ESC))
  BY <1>1, ScansNothing, Zenon
<1>11. p' = [q EXCEPT !.rs1 = Seen(b)] /\ calls' = calls \o (<<>> \o <<>>)
  BY <1>7, <1>10 DEF Done
<1>12. calls' = <<>>
  <2>1. <<>> \o (<<>> \o <<>>) = <<>>
    OBVIOUS
  <2> QED  BY <1>11, <2>1
<1>13. /\ p'.escaped /\ p'.osc /\ ~p'.utf8 /\ p'.utf8_buf = <<>>
       /\ p'.esbuf = SubSeq(s, 1, j + 1) /\ p'.handler = "osc"
       /\ p'.rs1 = Seen(b)
  BY <1>8, <1>9, <1>11 DEF IsGood, States
<1>14. p'.rs1 = 0 \/ (p'.rs1 = 1 /\ s[(j + 1) + 1] # 62)
  BY <1>3, <1>10, <1>13
<1>15. InCommand(p', s, j + 1)
  BY <1>2, <1>13, <1>14 DEF InCommand
<1> QED  BY <1>6, <1>7, <1>12, <1>15 DEF b

\* The last byte of a command.
LEMMA CommandLast ==
  ASSUME IsGood(p), NEW s, IsLine(kind, s), NEW j \in 1 .. Len(s) - 1,
         j + 1 = Len(s), InCommand(p, s, j), calls = <<>>, OneByte(s[j + 1])
  PROVE  /\ ~AsksReset(s[j + 1]) /\ Rests(p')
         /\ title' = IF IsTitle(s) THEN Titled(title, Argument(s), kind.utf8)
                     ELSE title
         /\ clip' = IF IsClipboard(s) THEN Clipped(clip, Payload(Argument(s)))
                    ELSE clip
         /\ calls' = Announced("title", title, title')
                       \o (IF Stores(s) /\ "clipboard" \in kind.mask
                           THEN <<<<"clipboard", clip'>>>> ELSE <<>>)
                       \o (IF ColorOf(kind, s) # None
                           THEN <<<<"color", ColorOf(kind, s)>>>> ELSE <<>>)
<1> DEFINE b == s[j + 1]
           q == Stored(p, b)
<1>1. /\ b \in Bytes /\ b # 0 /\ Len(p.esbuf) < LargeSize
      /\ p.handler = "osc" /\ p.escaped /\ p.osc
      /\ p.rs1 = 0 \/ (p.rs1 = 1 /\ b # 62)
      /\ IsWhole(q) /\ q.esbuf = s /\ b # ESC
  BY CommandStored
<1>2. ~p.utf8 /\ p.utf8_buf = <<>>
  BY DEF InCommand
<1>3. OneByte(b)
  OBVIOUS
<1> HIDE DEF b
<1>4. /\ Within = p /\ Command(b) /\ ~AsksReset(b)
  BY <1>1, <1>3, CommandByteTaken
<1>5. Text(b) = s
  BY <1>1, <1>4 DEF Text
<1>6. Heard(b) = <<>> /\ Seen(b) = 0
  BY <1>1, ScansNothing
<1> DEFINE arg == Argument(s)
           newTitle == IF IsTitle(s) THEN Titled(title, arg, kind.utf8) ELSE title
           stores == IsClipboard(s) /\ IsStored(Payload(arg))
           newClip == IF IsClipboard(s) THEN Clipped(clip, Payload(arg)) ELSE clip
           color == ReadString(arg, 128, kind.utf8)
           A == Announced("title", title, newTitle)
           B == IF stores /\ "clipboard" \in kind.mask
                THEN <<<<"clipboard", newClip>>>> ELSE <<>>
           C == IF IsCommand(s, 4) /\ color # None
                THEN <<<<"color", color>>>> ELSE <<>>
           D == IF ColorOf(kind, s) # None
                THEN <<<<"color", ColorOf(kind, s)>>>> ELSE <<>>
<1>7. title' = newTitle /\ clip' = newClip /\ Done(b, Cancel(p), A \o B \o C)
  BY <1>4, <1>5, Zenon DEF Command
<1>8. C = D
  BY DEF ColorOf
<1>9. stores = Stores(s)
  BY DEF Stores
<1> HIDE DEF newTitle, newClip, stores, color
<1>10. IsString(A) /\ IsString(B) /\ IsString(C)
  <2>1. IsString(A)
    BY TitleTold
  <2>2. \A x : IsString(<<x>>)
    <3> SUFFICES ASSUME NEW x PROVE IsString(<<x>>)
      OBVIOUS
    <3>1. <<x>> \in Seq({x})
      OBVIOUS
    <3> QED  BY <3>1 DEF IsString
  <2>3. IsString(<<>>)
    BY NothingTold
  <2> QED  BY <2>1, <2>2, <2>3, Zenon
<1> HIDE DEF A, B, C, D
<1>11. IsString((A \o B) \o C)
  BY <1>10, Concatenated
<1> DEFINE c == (A \o B) \o C
<1>12. calls' = c
  <2>1. PICK S : c \in Seq(S)
    BY <1>11 DEF IsString
  <2> HIDE DEF c
  <2>2. <<>> \o (<<>> \o c) = c
    BY <2>1
  <2>3. calls' = calls \o (Heard(b) \o c)
    BY <1>7 DEF Done, c
  <2> QED  BY <1>6, <2>2, <2>3
<1>13. p' = [Cancel(p) EXCEPT !.rs1 = 0]
  BY <1>6, <1>7 DEF Done
<1>14. Rests(p')
  BY <1>2, <1>13, CancelRests, Zenon
<1>15. calls' = (Announced("title", title, title')
                   \o (IF Stores(s) /\ "clipboard" \in kind.mask
                       THEN <<<<"clipboard", clip'>>>> ELSE <<>>)) \o D
  BY <1>7, <1>8, <1>9, <1>12, Zenon DEF A, B
<1> QED  BY <1>4, <1>7, <1>14, <1>15, Zenon DEF b, newTitle, newClip, D

\* The places of one call.
LEMMA DeedsOfOne ==
  ASSUME NEW c
  PROVE  LET about == IsAbout(c, {"title", "clipboard"})
         IN /\ calls' = <<c>> =>
                 /\ Deeds' = IF about THEN {} ELSE {1}
                 /\ (1 .. Len(calls')) \ Deeds' = IF about THEN {1} ELSE {}
                 /\ calls'[1] = c
            /\ calls' = <<>> => Deeds' = {} /\ (1 .. Len(calls')) \ Deeds' = {}
<1> DEFINE about == IsAbout(c, {"title", "clipboard"})
<1>1. CASE calls' = <<c>>
  <2>1. 1 .. Len(calls') = {1} /\ calls'[1] = c
    BY <1>1
  <2>2. Deeds' = {k \in {1} : ~IsAbout(calls'[k], {"title", "clipboard"})}
    BY <2>1 DEF Deeds
  <2>3. Deeds' = IF about THEN {} ELSE {1}
    BY <2>1, <2>2
  <2>4. {1} \ Deeds' = IF about THEN {1} ELSE {}
    BY <2>3
  <2>5. calls' # <<>>
    BY <1>1
  <2> QED  BY <2>1, <2>3, <2>4, <2>5
<1>2. CASE calls' = <<>>
  <2>1. 1 .. Len(calls') = {}
    BY <1>2
  <2>2. calls' # <<c>>
    BY <1>2
  <2> QED  BY <2>1, <2>2 DEF Deeds
<1> QED  BY <1>1, <1>2

\* A command that was taken is understood.
LEMMA CommandUnderstood ==
  ASSUME NEW s, IsOneCommand(kind, unit, s),
         title = before[1], clip = before[2], UNCHANGED <<kind, unit, before>>,
         title' = IF IsTitle(s) THEN Titled(title, Argument(s), kind.utf8)
                  ELSE title,
         clip' = IF IsClipboard(s) THEN Clipped(clip, Payload(Argument(s)))
                 ELSE clip,
         calls' = (Announced("title", title, title')
                    \o (IF Stores(s) /\ "clipboard" \in kind.mask
                        THEN <<<<"clipboard", clip'>>>> ELSE <<>>))
                    \o (IF ColorOf(kind, s) # None
                        THEN <<<<"color", ColorOf(kind, s)>>>> ELSE <<>>)
  PROVE  Understood'
<1>1. /\ IsTitle(s) => ~Stores(s) /\ ColorOf(kind, s) = None
      /\ Stores(s) => ColorOf(kind, s) = None
  BY DEF IsTitle, Stores, IsClipboard, IsCommand, ColorOf
<1>2. title' \in IF unit.title = {} THEN {before[1]} ELSE unit.title
  BY DEF IsOneCommand
<1>3. /\ Stores(s) => clip' = Clipped(None, Payload(Argument(s)))
      /\ ~Stores(s) => clip' = clip
  BY DEF Stores, IsStored, Clipped
<1>4. /\ unit.clip = {} <=> ~Stores(s)
      /\ clip' \in IF unit.clip = {} THEN {before[2]} ELSE unit.clip
  BY <1>3 DEF IsOneCommand
<1>5. unit.calls = IF ColorOf(kind, s) # None
                   THEN <<<<"color", ColorOf(kind, s)>>>> ELSE <<>>
  BY DEF IsOneCommand
<1>6. title' # title => IsTitle(s)
  OBVIOUS
<1> DEFINE told == (1 .. Len(calls')) \ Deeds'
           T == <<"title", title'>>
           B == <<"clipboard", clip'>>
           C == <<"color", ColorOf(kind, s)>>
           news == title' # title /\ "title" \in kind.mask
           stored == Stores(s) /\ "clipboard" \in kind.mask
           IsTold(c) == \E k \in told : told = {k} /\ calls'[k] = c
<1>7. /\ IsAbout(T, {"title", "clipboard"}) /\ IsAbout(B, {"title", "clipboard"})
      /\ ~IsAbout(C, {"title", "clipboard"})
  BY DEF IsAbout
<1>8. \A x : <<x>> \o <<>> = <<x>> /\ <<>> \o <<x>> = <<x>>
  OBVIOUS
<1>9. /\ Cardinality({}) = 0 /\ Cardinality({1}) = 1
      /\ Len(<<>>) = 0 /\ Len(<<C>>) = 1 /\ <<C>>[1] = C
  BY FS_EmptySet, FS_Singleton
<1>10. Announced("title", title, title') = IF news THEN <<T>> ELSE <<>>
  BY DEF Announced
<1>11. SUFFICES /\ Cardinality(Deeds') = Len(unit.calls)
                /\ \A k \in Deeds' :
                     unit.calls[Cardinality({j \in Deeds' : j <= k})] = calls'[k]
                /\ IF news THEN IsTold(T)
                   ELSE IF stored THEN IsTold(B) ELSE told = {}
  BY <1>2, <1>4 DEF Understood, HeardOnce
<1>12. CASE news
  <2>1. calls' = <<T>> /\ unit.calls = <<>>
    BY <1>1, <1>5, <1>6, <1>8, <1>10, <1>12
  <2>2. Deeds' = {} /\ told = {1} /\ calls'[1] = T
    BY <1>7, <2>1, DeedsOfOne
  <2> QED  BY <1>9, <1>12, <2>1, <2>2
<1>13. CASE ~news /\ stored
  <2>1. calls' = <<B>> /\ unit.calls = <<>>
    BY <1>1, <1>5, <1>8, <1>10, <1>13
  <2>2. Deeds' = {} /\ told = {1} /\ calls'[1] = B
    BY <1>7, <2>1, DeedsOfOne
  <2> QED  BY <1>9, <1>13, <2>1, <2>2
<1>14. CASE ~news /\ ~stored /\ ColorOf(kind, s) # None
  <2>1. calls' = (<<>> \o <<>>) \o <<C>> /\ unit.calls = <<C>>
    BY <1>5, <1>10, <1>14
  <2> HIDE DEF C
  <2>2. (<<>> \o <<>>) \o <<C>> = <<C>>
    OBVIOUS
  <2>3. Deeds' = {1} /\ told = {} /\ calls'[1] = C
    BY <1>7, <2>1, <2>2, DeedsOfOne
  <2>4. {j \in {1} : j <= 1} = {1}
    OBVIOUS
  <2> QED  BY <1>9, <1>14, <2>1, <2>2, <2>3, <2>4
<1>15. CASE ~news /\ ~stored /\ ColorOf(kind, s) = None
  <2>1. calls' = (<<>> \o <<>>) \o <<>> /\ unit.calls = <<>>
    BY <1>5, <1>10, <1>15
  <2>2. (<<>> \o <<>>) \o <<>> = <<>>
    OBVIOUS
  <2>3. Deeds' = {} /\ told = {}
    BY <2>1, <2>2, DeedsOfOne
  <2> QED  BY <1>9, <1>15, <2>1, <2>2, <2>3
<1> QED  BY <1>12, <1>13, <1>14, <1>15

\* Only the last byte of a command changes a string.
LEMMA NoCommand ==
  ASSUME p.handler # "osc", RenderAll
  PROVE  NoStrings
<1>1. Takes(Joined, Joined') => NoStrings
  BY DEF Takes, SkipNul, Control, AssembleMore, AssembleLast, PutByte, Overflow,
         First, Collect, Dispatch, Command
<1>2. Reset(Joined, Joined') => NoStrings
  BY DEF Reset, AsksReset
<1>3. EndReset(Joined, Joined') => NoStrings
  BY DEF EndReset
<1> QED  BY <1>1, <1>2, <1>3 DEF RenderAll, Loop

LEMMA PiecesStep ==
  ASSUME IsGood(p), PiecesInv, NoString, RenderAll
  PROVE  PiecesInv' /\ NoString'
<1>1. PiecesInv'
  BY BetweenStep, WithinCharacterStep, WithinSequenceStep DEF PiecesInv
<1>2. p.handler # "osc"
  <2>1. ~p.escaped => p.handler = "none"
    BY DEF IsGood, IsIdle
  <2>2. Between => ~p.escaped
    BY DEF Between, Rests
  <2>3. WithinCharacter => ~p.escaped
    BY DEF WithinCharacter, InCharacter
  <2>4. ASSUME NEW s, NEW j \in 0 .. Len(s) - 1, IsRest(s), InSequence(p, s, j)
        PROVE  p.handler # "osc"
    <3>1. Len(s) # 1 => Handler(s[1]) # "osc"
      BY <2>4, FirstBytes
    <3>2. j # 0 => Len(s) # 1
      BY <2>4, RestType
    <3> QED  BY <2>4, <3>1, <3>2 DEF InSequence
  <2>5. WithinSequence => p.handler # "osc"
    BY <2>4 DEF WithinSequence
  <2> QED  BY <2>1, <2>2, <2>3, <2>5 DEF PiecesInv
<1>3. UNCHANGED <<title, clip, before, unit>>
  BY <1>2, NoCommand DEF RenderAll, NoStrings
<1> QED  BY <1>1, <1>3 DEF NoString

\* What a command that is sent whole is made of.
LEMMA LineType ==
  ASSUME NEW k, NEW s, IsLine(k, s)
  PROVE  /\ s \in Seq(Bytes) /\ Len(s) \in Nat /\ Len(s) >= 2
         /\ 0 \in 0 .. Len(s) - 1 /\ s[1] = 93
         /\ <<ESC>> \o s \in Seq(Bytes) /\ (<<ESC>> \o s)[1] = ESC
         /\ <<ESC>> \o s # <<>> /\ After(<<ESC>> \o s, 1) = s
<1>1. /\ s \in Seq(Bytes) /\ Len(s) \in Nat /\ Len(s) >= 2
      /\ 0 \in 0 .. Len(s) - 1 /\ s[1] = 93
  BY SizesType DEF IsLine
<1> DEFINE e == <<ESC>> \o s
<1>2. e \in Seq(Bytes) /\ e[1] = ESC /\ e # <<>> /\ After(e \o <<>>, 1) = s \o <<>>
  <2>1. <<>> \in Seq(Bytes)
    OBVIOUS
  <2> QED  BY <1>1, <2>1, EscapedString, Zenon
<1> HIDE DEF e
<1>3. e \o <<>> = e /\ s \o <<>> = s
  BY <1>1, <1>2
<1> QED  BY <1>1, <1>2, <1>3 DEF e

LEMMA CommandSentStep ==
  ASSUME IsGood(p), CommandSent, RenderAll
  PROVE  WithinCommand'
<1>1. PICK s : IsAhead(s) /\ Rests(p) /\ Joined = <<Outermost(<<ESC>> \o s)>>
  BY DEF CommandSent
<1>2. IsLine(kind, s) /\ calls = <<>>
  BY <1>1 DEF IsAhead, IsOneCommand
<1> DEFINE r == <<ESC>> \o s
<1>3. /\ s \in Seq(Bytes) /\ 0 \in 0 .. Len(s) - 1 /\ s[1] = 93
      /\ r \in Seq(Bytes) /\ r[1] = ESC /\ After(r, 1) = s
  BY <1>2, LineType
<1>4. Loop(<<Outermost(r)>>, Joined')
  BY <1>1 DEF RenderAll
<1> HIDE DEF r
<1>5. OneByte(ESC) /\ (~AsksReset(ESC) => Joined' = <<Outermost(s)>>)
  BY <1>3, <1>4, LoopOfOne
<1>6. IsQuiet(calls)
  BY <1>2, NothingTold
<1>7. ~AsksReset(ESC) /\ InSequence(p', s, 0) /\ calls' = calls
  BY <1>1, <1>3, <1>5, <1>6, EscByte
<1>8. p.handler # "osc"
  BY <1>1 DEF Rests, IsGood, IsIdle
<1>9. UNCHANGED <<kind, unit, before, title, clip>>
  BY <1>8, NoCommand DEF RenderAll, NoStrings
<1>10. IsAhead(s)'
  BY <1>1, <1>7, <1>9 DEF IsAhead
<1>11. InCommand(p', s, 0)
  <2>1. 0 + 1 = 1
    OBVIOUS
  <2> QED  BY <1>3, <1>7, <2>1 DEF InSequence, InCommand
<1>12. Joined' = <<Outermost(After(s, 0))>>
  <2>1. After(s, 0) = s
    BY <1>3, AfterMore
  <2> QED  BY <1>5, <1>7, <2>1
<1> QED  BY <1>3, <1>10, <1>11, <1>12 DEF WithinCommand

LEMMA WithinCommandStep ==
  ASSUME IsGood(p), WithinCommand, RenderAll
  PROVE  WholeInv'
<1>1. PICK s : \E j \in 0 .. Len(s) - 1 :
        /\ IsAhead(s) /\ InCommand(p, s, j)
        /\ Joined = <<Outermost(After(s, j))>>
  BY DEF WithinCommand
<1>2. PICK j \in 0 .. Len(s) - 1 :
        /\ IsAhead(s) /\ InCommand(p, s, j)
        /\ Joined = <<Outermost(After(s, j))>>
  BY <1>1
<1>3. /\ IsLine(kind, s) /\ calls = <<>> /\ IsOneCommand(kind, unit, s)
      /\ title = before[1] /\ clip = before[2]
  BY <1>2 DEF IsAhead, IsOneCommand
<1>4. s \in Seq(Bytes) /\ Len(s) \in Nat /\ Len(s) >= 2
  BY <1>3, LineType
<1>5. /\ OneByte(s[j + 1])
      /\ ~AsksReset(s[j + 1]) => Joined' = <<Outermost(After(s, j + 1))>>
      /\ After(s, Len(s)) = <<>>
  <2>1. /\ After(s, j) \in Seq(Bytes) /\ After(s, j + 1) \in Seq(Bytes)
        /\ After(s, Len(s)) = <<>>
    BY <1>4, AfterMore
  <2>2. After(s, j) \o <<>> = After(s, j) /\ After(s, j + 1) \o <<>> = After(s, j + 1)
    BY <2>1
  <2>3. Joined = <<Outermost(After(s, j) \o <<>>)>> /\ <<>> \in Seq(Bytes)
    BY <1>2, <2>2
  <2>4. /\ OneByte(s[j + 1])
        /\ ~AsksReset(s[j + 1]) => Joined' = <<Outermost(After(s, j + 1) \o <<>>)>>
    BY <1>4, <2>3, FrontTaken
  <2> QED  BY <2>1, <2>2, <2>4
<1>6. UNCHANGED <<kind, unit, before>>
  BY DEF RenderAll
<1>7. CASE j + 1 = Len(s)
  <2>1. j \in 1 .. Len(s) - 1
    BY <1>4, <1>7
  <2>2. /\ ~AsksReset(s[j + 1]) /\ Rests(p')
        /\ title' = IF IsTitle(s) THEN Titled(title, Argument(s), kind.utf8)
                    ELSE title
        /\ clip' = IF IsClipboard(s) THEN Clipped(clip, Payload(Argument(s)))
                   ELSE clip
        /\ calls' = (Announced("title", title, title')
                       \o (IF Stores(s) /\ "clipboard" \in kind.mask
                           THEN <<<<"clipboard", clip'>>>> ELSE <<>>))
                       \o (IF ColorOf(kind, s) # None
                           THEN <<<<"color", ColorOf(kind, s)>>>> ELSE <<>>)
    BY <1>2, <1>3, <1>5, <1>7, <2>1, CommandLast
  <2>3. Understood'
    BY <1>3, <1>6, <2>2, CommandUnderstood
  <2>4. Joined' = <<Outermost(<<>>)>>
    BY <1>5, <1>7, <2>2
  <2> QED  BY <2>2, <2>3, <2>4 DEF WholeInv, CommandDone
<1>8. CASE j + 1 # Len(s)
  <2>1. j + 1 \in 0 .. Len(s) - 1
    BY <1>4, <1>8
  <2>2. /\ ~AsksReset(s[j + 1]) /\ calls' = <<>> /\ InCommand(p', s, j + 1)
        /\ NoStrings
    <3>1. CASE j = 0
      <4>1. 0 + 1 = 1 /\ p.handler # "osc"
        BY <1>2, <3>1 DEF InCommand
      <4> QED  BY <1>2, <1>3, <1>5, <3>1, <4>1, CommandFirst, NoCommand
    <3>2. CASE j # 0
      <4>1. j \in 1 .. Len(s) - 1
        BY <1>4, <3>2
      <4> QED  BY <1>2, <1>3, <1>5, <1>8, <4>1, CommandNext
    <3> QED  BY <3>1, <3>2
  <2>3. IsAhead(s)'
    BY <1>2, <1>6, <2>2 DEF IsAhead, NoStrings
  <2>4. Joined' = <<Outermost(After(s, j + 1))>>
    BY <1>5, <2>2
  <2>5. WithinCommand'
    BY <2>1, <2>2, <2>3, <2>4 DEF WithinCommand
  <2> QED  BY <2>5 DEF WholeInv
<1> QED  BY <1>7, <1>8

LEMMA WholeAtRest ==
  ASSUME WholeInv, Joined = <<Outermost(<<>>)>>
  PROVE  Rests(p) /\ Understood
<1>1. \A r : Joined = <<Outermost(r)>> => r = <<>>
  BY DEF Outermost
<1>2. ~CommandSent
  <2> SUFFICES ASSUME NEW s, IsAhead(s), Joined = <<Outermost(<<ESC>> \o s)>>
               PROVE  FALSE
    BY DEF CommandSent
  <2>1. <<ESC>> \o s # <<>>
    BY LineType DEF IsAhead, IsOneCommand
  <2> QED  BY <1>1, <2>1
<1>3. ~WithinCommand
  <2> SUFFICES ASSUME NEW s, NEW j \in 0 .. Len(s) - 1, IsAhead(s),
                      Joined = <<Outermost(After(s, j))>>
               PROVE  FALSE
    BY DEF WithinCommand
  <2>1. s \in Seq(Bytes)
    BY LineType DEF IsAhead, IsOneCommand
  <2>2. After(s, j) # <<>>
    BY <2>1, AfterMore
  <2> QED  BY <1>1, <2>2
<1>4. CASE CommandDone
  BY <1>4 DEF CommandDone
<1>5. CASE PiecesInv /\ NoString
  <2>1. Rests(p) /\ calls = unit.calls
    BY <1>5, NothingLeft
  <2>2. /\ Deeds = 1 .. Len(calls)
        /\ Cardinality(Deeds) = Len(calls)
        /\ \A k \in Deeds : Cardinality({j \in Deeds : j <= k}) = k
    BY <1>5, QuietDeeds DEF PiecesInv
  <2>3. HeardOnce
    <3>1. (1 .. Len(calls)) \ Deeds = {}
      BY <2>2
    <3> QED  BY <1>5, <3>1 DEF HeardOnce, NoString
  <2>4. /\ title \in (IF unit.title = {} THEN {before[1]} ELSE unit.title)
        /\ clip \in (IF unit.clip = {} THEN {before[2]} ELSE unit.clip)
    BY <1>5 DEF NoString
  <2> QED  BY <2>1, <2>2, <2>3, <2>4 DEF Understood
<1> QED  BY <1>2, <1>3, <1>4, <1>5 DEF WholeInv

LEMMA InitWhole == ParserInit => WholeInv
<1> SUFFICES ASSUME ParserInit PROVE WholeInv
  OBVIOUS
<1> DEFINE none == [i \in 0 .. 0 |-> <<>>]
<1>1. Rests(p) /\ Joined = <<Outermost(<<>>)>> /\ calls = <<>> /\ unit.calls = <<>>
  BY DEF ParserInit, Rests, Ground, Joined, Nothing
<1>2. IsChain(kind, <<>>, <<>>, <<>>, 0, none, none, none)
  BY DEF IsChain
<1>3. LeadsTo(kind, <<>>, calls, unit.calls)
  BY <1>1, <1>2 DEF LeadsTo
<1>4. IsQuiet(calls)
  BY <1>1, NothingTold
<1>5. <<>> \in Seq(Bytes)
  OBVIOUS
<1>6. PiecesInv
  BY <1>1, <1>3, <1>4, <1>5 DEF PiecesInv, Between
<1>7. NoString
  BY DEF NoString, ParserInit, Nothing
<1> QED  BY <1>6, <1>7 DEF WholeInv

LEMMA SendKeepsWhole ==
  ASSUME SendsWhole, ParserInv, WholeInv, SendAll
  PROVE  WholeInv'
<1>1. PICK u \in Unit(kind) : unit' = u /\ Joined' = <<Outermost(u.bytes)>>
  BY DEF SendAll
<1>2. /\ Joined = <<Outermost(<<>>)>> /\ calls' = <<>>
      /\ before' = <<title, clip>>
      /\ UNCHANGED <<kind, p, title, clip>>
  BY DEF SendAll, NoStrings
<1>3. Rests(p')
  BY <1>2, WholeAtRest
<1>4. kind \in Kinds
  BY DEF ParserInv
<1>5. u.bytes \in Seq(Bytes)
  BY <1>4, ParserAssumption
<1>6. title' = before'[1] /\ clip' = before'[2]
  BY <1>2
<1>7. CASE /\ LeadsTo(kind, u.bytes, <<>>, u.calls)
           /\ u.title = {} /\ u.clip = {}
  <2>1. IsQuiet(calls')
    BY <1>2, NothingTold
  <2>2. Between'
    BY <1>1, <1>2, <1>3, <1>5, <1>7 DEF Between
  <2>3. NoString'
    BY <1>1, <1>6, <1>7 DEF NoString
  <2> QED  BY <2>1, <2>2, <2>3 DEF WholeInv, PiecesInv
<1>8. ASSUME NEW s, IsOneCommand(kind, u, s)
      PROVE  WholeInv'
  <2>1. IsAhead(s)'
    BY <1>1, <1>2, <1>6, <1>8 DEF IsAhead
  <2>2. Joined' = <<Outermost(<<ESC>> \o s)>>
    BY <1>1, <1>8 DEF IsOneCommand
  <2>3. CommandSent'
    BY <1>3, <2>1, <2>2 DEF CommandSent
  <2> QED  BY <2>3 DEF WholeInv
<1> QED  BY <1>4, <1>7, <1>8 DEF SendsWhole

LEMMA StepKeepsWhole ==
  ASSUME SendsWhole, ParserInv, WholeInv, [StreamNext]_streamVars
  PROVE  WholeInv'
<1>1. CASE UNCHANGED streamVars
  BY <1>1 DEF streamVars, WholeInv, PiecesInv, Between, WithinCharacter,
       WithinSequence, Expects, NoString, CommandSent, WithinCommand, IsAhead,
       CommandDone, Understood, HeardOnce, Deeds
<1>2. CASE RenderAll
  <2>1. IsGood(p)
    BY DEF ParserInv
  <2>2. ~CommandDone
    <3> SUFFICES ASSUME CommandDone PROVE FALSE
      OBVIOUS
    <3>1. Loop(<<Outermost(<<>>)>>, Joined') /\ <<>> \in Seq(Bytes)
      BY <1>2 DEF CommandDone, RenderAll
    <3> QED  BY <3>1, LoopOfOne
  <2> QED  BY <1>2, <2>1, <2>2, PiecesStep, CommandSentStep, WithinCommandStep
           DEF WholeInv
<1> QED  BY <1>1, <1>2, SendKeepsWhole DEF StreamNext

\* What a child sends as one is understood, in whatever reads it comes: if every
\* unit is made of characters, controls and sequences that are no command and
\* no reset, however many, or is one command that fits, then every character is
\* put, every control is obeyed, every sequence is interpreted with its
\* parameters and every command with its text, once and in order, and the parser
\* is at rest after it (vtty_render, vtty_interpret_escapes, vtty_utf8_decode).
THEOREM UnitsAreWhole ==
  ASSUME SendsWhole
  PROVE  ParserSpec => []SequencesAreWhole
<1>1. ParserInv /\ WholeInv /\ [ParserNext]_parserVars => WholeInv'
  BY StepsOfStream, StepKeepsWhole
<1>2. WholeInv => SequencesAreWhole
  <2> SUFFICES ASSUME WholeInv, AtRest
               PROVE  Understood /\ ~p.escaped /\ ~p.utf8
    BY DEF SequencesAreWhole, Understood
  <2>1. Joined = <<Outermost(<<>>)>>
    BY DEF AtRest, Joined
  <2> QED  BY <2>1, WholeAtRest DEF Rests
<1> QED  BY InitParser, NextKeepsParser, InitWhole, <1>1, <1>2, PTL DEF ParserSpec

\* Of such units only a command changes a string, the title to what the command
\* says, cut to its limit, or the clipboard to the payload it stores; and the host
\* that asked for it is told so once (vtty_interpret_xterm_osc,
\* vtty_osc_set_title, vtty_osc_set_clipboard).
THEOREM CommandsAreKept ==
  ASSUME SendsWhole
  PROVE  ParserSpec => []StringsAreKept
<1>1. ParserInv /\ WholeInv /\ [ParserNext]_parserVars => WholeInv'
  BY StepsOfStream, StepKeepsWhole
<1>2. WholeInv => StringsAreKept
  <2> SUFFICES ASSUME WholeInv, AtRest PROVE Understood
    BY DEF StringsAreKept, Understood
  <2>1. Joined = <<Outermost(<<>>)>>
    BY DEF AtRest, Joined
  <2> QED  BY <2>1, WholeAtRest
<1> QED  BY InitParser, NextKeepsParser, InitWhole, <1>1, <1>2, PTL DEF ParserSpec
=============================================================================
