----------------------------- MODULE PtyIOProofs -----------------------------
(* Safety of PtyIO, for every size of the queues, of the reads and of the    *)
(* writes, and for every set of queries; and of Async, for every number of   *)
(* terminals that share its pipe.                                            *)
EXTENDS PtyIO, Async, TLAPS

-----------------------------------------------------------------------------
(* Output *)

\* The read buffer holds the bytes before the got-th, the ones up to data are
\* shown, and outside vtty_render all of them are.  The child's program ends.
OutputInv ==
  /\ out \in 0 .. OutLimit /\ got \in 0 .. out
  /\ bytes_read \in 0 .. got /\ data \in 1 .. bytes_read + 1
  /\ read_buf = [i \in 1 .. bytes_read |-> got - bytes_read + i]
  /\ shown = [i \in 1 .. got - bytes_read + data - 1 |-> i]
  /\ child = "writing" => out < OutLimit
  /\ host = "reading" => bytes_read = 0 /\ bytes_remaining \in 1 .. out - got
  /\ host \notin {"reading", "rendering", "replying"} => data = bytes_read + 1

\* vtty_init leaves an empty buffer.
LEMMA InitOutput == Init => OutputInv
BY PtyAssumption DEF Init, OutputInv

\* Reads, rendering and replies keep it, where a read returns what was counted.
LEMMA OutputNext ==
  ASSUME ShortReads = FALSE, OutputInv, [Next]_vars PROVE OutputInv'
<1>0. OutLimit \in Nat /\ MaxRead \in Nat \ {0} /\ ReplyLen \in Nat \ {0}
  BY PtyAssumption
<1>1. CASE ChildWrites
  <2>1. child' = "computing" /\ out' = out + 1 /\ UNCHANGED <<host, got, reading, shown>>
    BY <1>1 DEF ChildWrites
  <2>2. out < OutLimit
    BY <1>0, <1>1 DEF ChildWrites, OutputInv
  <2> QED BY <1>0, <2>1, <2>2 DEF OutputInv, reading
<1>2. CASE ReadPipe
  <2>1. /\ bytes_remaining' \in 1 .. out - got
        /\ got' = got /\ out' = out /\ child' = child /\ shown' = shown /\ bytes_read' = 0
        /\ read_buf' = <<>> /\ data' = 1 /\ host' = "reading"
    BY <1>0, <1>2 DEF ReadPipe, OutputInv, output, Least
  <2>2. /\ shown = [i \in 1 .. got |-> i] /\ got \in 0 .. out
          /\ out \in 0 .. OutLimit /\ (child = "writing" => out < OutLimit)
    BY <1>0, <1>2 DEF ReadPipe, OutputInv
  <2> QED BY <1>0, <2>1, <2>2 DEF OutputInv
<1>3. CASE Read
  <2>1. /\ read_buf' = read_buf \o [i \in 1 .. bytes_remaining |-> got + i]
        /\ got' = got + bytes_remaining /\ out' = out /\ child' = child
        /\ bytes_read' = bytes_remaining /\ data' = data /\ shown' = shown
        /\ host' = "rendering"
    BY <1>0, <1>3 DEF Read, OutputInv
  <2>2. /\ bytes_remaining \in 1 .. out - got /\ data = 1 /\ bytes_read = 0
        /\ shown = [i \in 1 .. got |-> i] /\ read_buf = <<>>
        /\ got \in 0 .. out /\ out \in 0 .. OutLimit
        /\ (child = "writing" => out < OutLimit)
    BY <1>0, <1>3 DEF Read, OutputInv
  <2>3. read_buf' = [i \in 1 .. bytes_remaining |-> got + i]
    BY <2>1, <2>2
  <2> QED BY <1>0, <2>1, <2>2, <2>3 DEF OutputInv
<1>4. CASE RenderByte
  <2>1. CASE data > bytes_read
    BY <1>0, <1>4, <2>1 DEF RenderByte, OutputInv, output, reading
  <2>2. CASE ~(data > bytes_read)
    <3>1. /\ shown' = Append(shown, read_buf[data]) /\ data' = data + 1
          /\ UNCHANGED <<read_buf, bytes_remaining, bytes_read, got, out, child>>
          /\ host' \in {"rendering", "replying"}
      BY <1>4, <2>2 DEF RenderByte, output
    <3>2. /\ read_buf[data] = got - bytes_read + data
          /\ got \in Nat /\ bytes_read \in 0 .. got /\ data \in 1 .. bytes_read
          /\ shown = [i \in 1 .. got - bytes_read + data - 1 |-> i]
      BY <1>0, <2>2 DEF OutputInv
    <3>3. shown' = [i \in 1 .. got - bytes_read + data |-> i]
      BY <3>1, <3>2
    <3> QED BY <1>0, <3>1, <3>2, <3>3 DEF OutputInv
  <2> QED BY <2>1, <2>2
<1>5. CASE Reply
  BY <1>0, <1>5 DEF Reply, OutputInv, output, reading
<1>6. CASE ChildChooses \/ ChildReads \/ ChildExits \/ NoticeExit
  BY <1>6 DEF ChildChooses, ChildReads, ChildExits, NoticeExit, OutputInv, output,
     reading
<1>7. CASE Write \/ WaitForRoom \/ Woken \/ WriteFails
  BY <1>7 DEF Write, WaitForRoom, Woken, WriteFails, OutputInv, output, reading
<1>8. ASSUME NEW n \in DataLens, NEW bracket \in BOOLEAN, WriteData(n, bracket)
      PROVE  OutputInv'
  BY <1>8 DEF WriteData, OutputInv, output, reading
<1>9. CASE UNCHANGED vars
  BY <1>9 DEF vars, OutputInv, output, reading
<1> QED BY <1>1, <1>2, <1>3, <1>4, <1>5, <1>6, <1>7, <1>8, <1>9
        DEF Next, Child, InCall

\* The first a numbers and the b numbers after them are the first a + b.
LEMMA CountOn ==
  ASSUME NEW a \in Nat, NEW b \in Nat
  PROVE  [i \in 1 .. a |-> i] \o [i \in 1 .. b |-> a + i] = [i \in 1 .. a + b |-> i]
OBVIOUS

\* Where read() returns the bytes that were counted, every byte of the child is
\* rendered, in the buffer or in the kernel, once and in order, for every size of
\* the reads and however the replies fall.
THEOREM OutputStaysInOrder ==
  ASSUME ShortReads = FALSE PROVE Spec => []OutputInOrder
<1>1. OutputInv => OutputInOrder
  <2> SUFFICES ASSUME OutputInv PROVE OutputInOrder
    OBVIOUS
  <2> DEFINE later == [i \in 1 .. out - got |-> got + i]
             seen == got - bytes_read + data - 1
  <2>0. /\ out \in Nat /\ got \in 0 .. out /\ bytes_read \in 0 .. got
        /\ data \in 1 .. bytes_read + 1 /\ shown = [i \in 1 .. seen |-> i]
        /\ read_buf = [i \in 1 .. bytes_read |-> got - bytes_read + i]
        /\ seen \in 0 .. got
    BY PtyAssumption DEF OutputInv
  <2>1. InHand = [i \in 1 .. got - seen |-> seen + i]
    <3>1. CASE host = "reading"
      <4>1. InHand = read_buf /\ bytes_read = 0 /\ data = 1
        BY <3>1 DEF InHand, OutputInv
      <4> QED BY <2>0, <4>1
    <3>2. CASE host # "reading"
      <4>1. InHand = SubSeq(read_buf, data, bytes_read)
        BY <3>2 DEF InHand
      <4>2. SubSeq(read_buf, data, bytes_read)
              = [i \in 1 .. bytes_read - data + 1 |-> read_buf[data + i - 1]]
        BY <2>0
      <4>3. \A i \in 1 .. got - seen : read_buf[data + i - 1] = seen + i
        BY <2>0
      <4> QED BY <2>0, <4>1, <4>2, <4>3
    <3> QED BY <3>1, <3>2
  <2>2. shown \o InHand = [i \in 1 .. got |-> i]
    BY <2>0, <2>1
  <2>3. got \in Nat /\ out - got \in Nat /\ got + (out - got) = out
    BY <2>0
  <2>4. (shown \o InHand) \o later = [i \in 1 .. out |-> i]
    BY <2>2, <2>3, CountOn
  <2> QED BY <2>4 DEF OutputInOrder
<1> QED BY <1>1, InitOutput, OutputNext, PTL DEF Spec

-----------------------------------------------------------------------------
(* Writes *)

Byte == Nat \X {"reply", "start", "data", "end"} \X Nat

\* Where the bytes of two sequences put together come from.
LEMMA Glue ==
  ASSUME NEW a \in Seq(Byte), NEW b \in Seq(Byte)
  PROVE  /\ a \o b \in Seq(Byte) /\ Len(a \o b) = Len(a) + Len(b)
         /\ \A i \in 1 .. Len(a) : (a \o b)[i] = a[i]
         /\ \A i \in 1 .. Len(b) : (a \o b)[Len(a) + i] = b[i]
OBVIOUS

\* Bytes that are not of a write do not break its run.
LEMMA RunGrows ==
  ASSUME NEW s \in Seq(Byte), NEW piece \in Seq(Byte), NEW call, NEW bytes,
         NEW k \in Nat, NEW l \in Nat, Run(s, call, bytes, k, l),
         \A i \in DOMAIN piece : ~IsOf(piece[i], call)
  PROVE  Run(s \o piece, call, bytes, k, l)
<1> DEFINE t == s \o piece
<1>1. /\ Len(t) = Len(s) + Len(piece)
      /\ \A i \in 1 .. Len(s) : t[i] = s[i]
      /\ \A i \in 1 .. Len(piece) : t[Len(s) + i] = piece[i]
      /\ Len(s) \in Nat /\ Len(piece) \in Nat /\ DOMAIN t = 1 .. Len(t)
      /\ DOMAIN s = 1 .. Len(s) /\ DOMAIN piece = 1 .. Len(piece)
  OBVIOUS
<1>2. ASSUME NEW i \in DOMAIN t, IsOf(t[i], call) PROVE i \in k + 1 .. k + l
  <2>1. CASE i <= Len(s)
    BY <1>1, <1>2, <2>1 DEF Run
  <2>2. CASE i > Len(s)
    <3>1. i - Len(s) \in 1 .. Len(piece) /\ t[i] = piece[i - Len(s)]
      BY <1>1, <1>2, <2>2
    <3> QED BY <1>1, <1>2, <3>1
  <2> QED BY <1>1, <2>1, <2>2
<1>3. k + l <= Len(t) /\ \A i \in 1 .. l : t[k + i] = bytes[i]
  BY <1>1 DEF Run
<1> QED BY <1>2, <1>3 DEF Run

\* The next bytes of a write at the end of what was sent prolong its run.
LEMMA RunGoesOn ==
  ASSUME NEW s \in Seq(Byte), NEW piece \in Seq(Byte), NEW call, NEW bytes,
         NEW k \in Nat, NEW l \in Nat, Run(s, call, bytes, k, l),
         k + l = Len(s),
         \A i \in 1 .. Len(piece) : piece[i] = bytes[l + i]
  PROVE  Run(s \o piece, call, bytes, k, l + Len(piece))
<1> DEFINE t == s \o piece
<1>1. /\ Len(t) = Len(s) + Len(piece)
      /\ \A i \in 1 .. Len(s) : t[i] = s[i]
      /\ \A i \in 1 .. Len(piece) : t[Len(s) + i] = piece[i]
      /\ Len(s) \in Nat /\ Len(piece) \in Nat /\ DOMAIN t = 1 .. Len(t)
      /\ DOMAIN s = 1 .. Len(s)
  OBVIOUS
<1>2. ASSUME NEW i \in 1 .. l + Len(piece) PROVE t[k + i] = bytes[i]
  <2>1. CASE i <= l
    BY <1>1, <2>1 DEF Run
  <2>2. CASE i > l
    <3>1. i - l \in 1 .. Len(piece) /\ k + i = Len(s) + (i - l) /\ l + (i - l) = i
      <4> DEFINE a == Len(s)
                 b == Len(piece)
      <4>1. a \in Nat /\ b \in Nat /\ i \in 1 .. l + b /\ i > l /\ k + l = a
        BY <1>1, <1>2, <2>2
      <4> HIDE DEF a, b
      <4>2. i - l \in 1 .. b /\ k + i = a + (i - l) /\ l + (i - l) = i
        BY <4>1
      <4> QED BY <4>2 DEF a, b
    <3>2. t[Len(s) + (i - l)] = piece[i - l] /\ piece[i - l] = bytes[l + (i - l)]
      BY <1>1, <3>1
    <3> QED BY <3>1, <3>2
  <2> QED BY <2>1, <2>2
<1>3. ASSUME NEW i \in DOMAIN t, IsOf(t[i], call)
      PROVE  i \in k + 1 .. k + (l + Len(piece))
  BY <1>1, <1>3 DEF Run
<1> QED BY <1>1, <1>2, <1>3 DEF Run

\* The bytes before the d-th buffer of a write, and what follows them.
Before(n, bracket, d) == IF d = 0 THEN 0 ELSE IF d = 1 THEN BracketLen ELSE BracketLen + n
Wrappers(bracket) == IF bracket THEN 2 ELSE 0
Rest(n, bracket, d) ==
  IF ~bracket \/ d = 0 THEN Buffers(n, bracket)
  ELSE IF d = 1 THEN <<[part |-> "data", len |-> n],
                       [part |-> "end", len |-> BracketLen]>>
  ELSE <<[part |-> "end", len |-> BracketLen]>>

PartOf(bracket, d) ==
  IF ~bracket THEN "data" ELSE IF d = 0 THEN "start" ELSE IF d = 1 THEN "data" ELSE "end"
LenOf(n, bracket, d) == IF ~bracket \/ d = 1 THEN n ELSE BracketLen

\* What is left of a write, buffer by buffer.
LEMMA RestParts ==
  ASSUME NEW n \in DataLens, NEW bracket \in BOOLEAN, NEW d \in 0 .. Wrappers(bracket)
  PROVE  /\ Head(Rest(n, bracket, d))
              = [part |-> PartOf(bracket, d), len |-> LenOf(n, bracket, d)]
         /\ PartOf(bracket, d) \in {"start", "data", "end"}
         /\ LenOf(n, bracket, d) \in Nat \ {0} /\ Before(n, bracket, d) \in Nat
         /\ Len(Rest(n, bracket, d)) = Wrappers(bracket) - d + 1
         /\ d < Wrappers(bracket) =>
              /\ Tail(Rest(n, bracket, d)) = Rest(n, bracket, d + 1)
              /\ Before(n, bracket, d + 1) = Before(n, bracket, d) + LenOf(n, bracket, d)
         /\ \A call \in Nat :
              /\ d = Wrappers(bracket) =>
                   Len(Promised(call, Buffers(n, bracket)))
                     = Before(n, bracket, d) + LenOf(n, bracket, d)
              /\ \A t \in 1 .. LenOf(n, bracket, d) :
                   Promised(call, Buffers(n, bracket))[Before(n, bracket, d) + t]
                     = <<call, PartOf(bracket, d), t>>
<1>0. n \in Nat \ {0} /\ BracketLen \in Nat \ {0}
  BY PtyAssumption
<1>1. CASE ~bracket
  <2>1. d = 0
    BY <1>1 DEF Wrappers
  <2> QED BY <1>0, <1>1, <2>1 DEF Rest, Buffers, Before, Promised, BufferBytes, Wrappers, PartOf,
            LenOf
<1>2. CASE bracket
  <2>0. ASSUME NEW call \in Nat
        PROVE  LET p == Promised(call, Buffers(n, bracket)) IN
               /\ Len(p) = BracketLen + n + BracketLen
               /\ \A t \in 1 .. BracketLen : p[t] = <<call, "start", t>>
               /\ \A t \in 1 .. n : p[BracketLen + t] = <<call, "data", t>>
               /\ \A t \in 1 .. BracketLen :
                    p[BracketLen + n + t] = <<call, "end", t>>
    <3> DEFINE a == [i \in 1 .. BracketLen |-> <<call, "start", i>>]
               b == [i \in 1 .. n |-> <<call, "data", i>>]
               c == [i \in 1 .. BracketLen |-> <<call, "end", i>>]
               q == Promised(call, Buffers(n, bracket))
    <3>1. q = (a \o b) \o c
      <4> DEFINE B == Buffers(n, bracket)
      <4>1. /\ Len(B) = 3
            /\ B[1] = [part |-> "start", len |-> BracketLen]
            /\ B[2] = [part |-> "data", len |-> n]
            /\ B[3] = [part |-> "end", len |-> BracketLen]
        BY <1>2 DEF Buffers
      <4>2. /\ BufferBytes(call, B[1]) = a /\ BufferBytes(call, B[2]) = b
            /\ BufferBytes(call, B[3]) = c
        BY <4>1 DEF BufferBytes
      <4>3. Promised(call, B) = BufferBytes(call, B[1]) \o BufferBytes(call, B[2])
                                \o BufferBytes(call, B[3])
        BY <4>1 DEF Promised
      <4> QED BY <4>2, <4>3
    <3>2. /\ Len(a) = BracketLen /\ Len(b) = n /\ Len(c) = BracketLen
          /\ \A t \in 1 .. BracketLen : a[t] = <<call, "start", t>>
          /\ \A t \in 1 .. n : b[t] = <<call, "data", t>>
          /\ \A t \in 1 .. BracketLen : c[t] = <<call, "end", t>>
      BY <1>0
    <3>3. a \in Seq(Byte) /\ b \in Seq(Byte) /\ c \in Seq(Byte)
      BY <1>0, <2>0 DEF Byte
    <3> HIDE DEF a, b, c, q
    <3>4. /\ a \o b \in Seq(Byte) /\ Len(a \o b) = BracketLen + n
          /\ \A t \in 1 .. BracketLen : (a \o b)[t] = <<call, "start", t>>
          /\ \A t \in 1 .. n : (a \o b)[BracketLen + t] = <<call, "data", t>>
      <4>1. /\ a \o b \in Seq(Byte) /\ Len(a \o b) = Len(a) + Len(b)
            /\ \A i \in 1 .. Len(a) : (a \o b)[i] = a[i]
            /\ \A i \in 1 .. Len(b) : (a \o b)[Len(a) + i] = b[i]
        BY <3>3, Glue
      <4> DEFINE ab == a \o b
      <4> HIDE DEF ab
      <4> QED BY <3>2, <4>1 DEF ab
    <3>5. /\ Len(q) = BracketLen + n + BracketLen
          /\ \A t \in 1 .. BracketLen + n : q[t] = (a \o b)[t]
          /\ \A t \in 1 .. BracketLen : q[BracketLen + n + t] = c[t]
      <4> DEFINE ab == a \o b
      <4>1. ab \in Seq(Byte) /\ Len(ab) = BracketLen + n
        BY <3>4
      <4> HIDE DEF ab
      <4>2. /\ Len(ab \o c) = Len(ab) + Len(c)
            /\ \A i \in 1 .. Len(ab) : (ab \o c)[i] = ab[i]
            /\ \A i \in 1 .. Len(c) : (ab \o c)[Len(ab) + i] = c[i]
        BY <3>3, <4>1, Glue
      <4>3. q = ab \o c
        BY <3>1 DEF ab
      <4>4. /\ Len(q) = BracketLen + n + BracketLen
            /\ \A t \in 1 .. BracketLen + n : q[t] = ab[t]
            /\ \A t \in 1 .. BracketLen : q[BracketLen + n + t] = c[t]
        BY <3>2, <4>1, <4>2, <4>3
      <4> QED BY <4>4 DEF ab
    <3>6. \A t \in 1 .. BracketLen : t \in 1 .. BracketLen + n
      BY <1>0
    <3>7. \A t \in 1 .. n : BracketLen + t \in 1 .. BracketLen + n
      BY <1>0
    <3>8. \A t \in 1 .. BracketLen : q[t] = <<call, "start", t>>
      BY <3>4, <3>5, <3>6
    <3>9. \A t \in 1 .. n : q[BracketLen + t] = <<call, "data", t>>
      BY <3>4, <3>5, <3>7
    <3>10. \A t \in 1 .. BracketLen : q[BracketLen + n + t] = <<call, "end", t>>
      BY <3>2, <3>5
    <3> QED BY <3>5, <3>8, <3>9, <3>10 DEF q
  <2>1. CASE d = 0
    <3>1. /\ PartOf(bracket, d) = "start" /\ LenOf(n, bracket, d) = BracketLen
          /\ Before(n, bracket, d) = 0 /\ Wrappers(bracket) = 2
      BY <1>2, <2>1 DEF PartOf, LenOf, Before, Wrappers
    <3>2. /\ Head(Rest(n, bracket, d)) = [part |-> "start", len |-> BracketLen]
          /\ Len(Rest(n, bracket, d)) = 3
      BY <1>2, <2>1 DEF Rest, Buffers
    <3>3. /\ Tail(Rest(n, bracket, d)) = Rest(n, bracket, d + 1)
          /\ Before(n, bracket, d + 1) = 0 + BracketLen
      BY <1>0, <1>2, <2>1 DEF Rest, Buffers, Before
    <3>4. ASSUME NEW call \in Nat
          PROVE  /\ d = Wrappers(bracket) =>
                      Len(Promised(call, Buffers(n, bracket)))
                        = Before(n, bracket, d) + LenOf(n, bracket, d)
                 /\ \A t \in 1 .. LenOf(n, bracket, d) :
                      Promised(call, Buffers(n, bracket))[Before(n, bracket, d) + t]
                        = <<call, PartOf(bracket, d), t>>
      <4>1. ASSUME NEW t \in 1 .. BracketLen
            PROVE  Promised(call, Buffers(n, bracket))[0 + t] = <<call, "start", t>>
        <5>1. Promised(call, Buffers(n, bracket))[t] = <<call, "start", t>>
          BY <2>0, <3>4
        <5>2. 0 + t = t
          BY <1>0
        <5> QED BY <5>1, <5>2, Zenon
      <4>2. d # Wrappers(bracket)
        BY <2>1, <3>1
      <4> QED BY <3>1, <4>1, <4>2
    <3>5. /\ BracketLen \in Nat \ {0} /\ 0 \in Nat /\ 3 = 2 - d + 1
          /\ "start" \in {"start", "data", "end"}
      BY <1>0, <2>1
    <3> QED BY <3>1, <3>2, <3>3, <3>4, <3>5
  <2>2. CASE d = 1
    <3>1. /\ PartOf(bracket, d) = "data" /\ LenOf(n, bracket, d) = n
          /\ Before(n, bracket, d) = BracketLen /\ Wrappers(bracket) = 2
      BY <1>2, <2>2 DEF PartOf, LenOf, Before, Wrappers
    <3>2. /\ Head(Rest(n, bracket, d)) = [part |-> "data", len |-> n]
          /\ Len(Rest(n, bracket, d)) = 2
      BY <1>2, <2>2 DEF Rest, Buffers
    <3>3. /\ Tail(Rest(n, bracket, d)) = Rest(n, bracket, d + 1)
          /\ Before(n, bracket, d + 1) = BracketLen + n
      BY <1>0, <1>2, <2>2 DEF Rest, Buffers, Before
    <3>4. ASSUME NEW call \in Nat
          PROVE  /\ d = Wrappers(bracket) =>
                      Len(Promised(call, Buffers(n, bracket)))
                        = Before(n, bracket, d) + LenOf(n, bracket, d)
                 /\ \A t \in 1 .. LenOf(n, bracket, d) :
                      Promised(call, Buffers(n, bracket))[Before(n, bracket, d) + t]
                        = <<call, PartOf(bracket, d), t>>
      <4>1. ASSUME NEW t \in 1 .. n
            PROVE  Promised(call, Buffers(n, bracket))[BracketLen + t] = <<call, "data", t>>
        BY <1>0, <2>0
      <4>2. d # Wrappers(bracket)
        BY <2>2, <3>1
      <4> QED BY <3>1, <4>1, <4>2
    <3>5. /\ n \in Nat \ {0} /\ BracketLen \in Nat /\ 2 = 2 - d + 1
          /\ "data" \in {"start", "data", "end"}
      BY <1>0, <2>2
    <3> QED BY <3>1, <3>2, <3>3, <3>4, <3>5
  <2>3. CASE d = 2
    <3>1. /\ PartOf(bracket, d) = "end" /\ LenOf(n, bracket, d) = BracketLen
          /\ Before(n, bracket, d) = BracketLen + n /\ Wrappers(bracket) = 2
      BY <1>2, <2>3 DEF PartOf, LenOf, Before, Wrappers
    <3>2. /\ Head(Rest(n, bracket, d)) = [part |-> "end", len |-> BracketLen]
          /\ Len(Rest(n, bracket, d)) = 1
      BY <1>2, <2>3 DEF Rest, Buffers
    <3>3. ~(d < Wrappers(bracket))
      BY <2>3, <3>1
    <3>4. ASSUME NEW call \in Nat
          PROVE  /\ d = Wrappers(bracket) =>
                      Len(Promised(call, Buffers(n, bracket)))
                        = Before(n, bracket, d) + LenOf(n, bracket, d)
                 /\ \A t \in 1 .. LenOf(n, bracket, d) :
                      Promised(call, Buffers(n, bracket))[Before(n, bracket, d) + t]
                        = <<call, PartOf(bracket, d), t>>
      <4>1. ASSUME NEW t \in 1 .. BracketLen
            PROVE  Promised(call, Buffers(n, bracket))[BracketLen + n + t] = <<call, "end", t>>
        BY <1>0, <2>0
      <4>2. Len(Promised(call, Buffers(n, bracket))) = BracketLen + n + BracketLen
        BY <2>0
      <4> QED BY <3>1, <4>1, <4>2
    <3>5. /\ BracketLen \in Nat \ {0} /\ BracketLen + n \in Nat /\ 1 = 2 - d + 1
          /\ "end" \in {"start", "data", "end"}
      BY <1>0, <2>3
    <3> QED BY <3>1, <3>2, <3>3, <3>4, <3>5
  <2>4. d \in {0, 1, 2}
    BY <1>2 DEF Wrappers
  <2> QED BY <2>1, <2>2, <2>3, <2>4
<1> QED BY <1>1, <1>2

\* What the host may ask to be written.
Writes == {w \in Seq(WriteBuffer) :
             \E n \in DataLens, bracket \in BOOLEAN : w = Buffers(n, bracket)}

\* A write is finitely many bytes.
LEMMA PromisedIsFinite ==
  ASSUME NEW w \in Writes, NEW call \in Nat PROVE Len(Promised(call, w)) \in Nat
<1>1. PICK n \in DataLens, bracket \in BOOLEAN : w = Buffers(n, bracket)
  BY DEF Writes
<1>2. Wrappers(bracket) \in 0 .. Wrappers(bracket)
  BY DEF Wrappers
<1>3. /\ LenOf(n, bracket, Wrappers(bracket)) \in Nat
      /\ Before(n, bracket, Wrappers(bracket)) \in Nat
      /\ Len(Promised(call, Buffers(n, bracket)))
           = Before(n, bracket, Wrappers(bracket)) + LenOf(n, bracket, Wrappers(bracket))
  BY <1>2, RestParts
<1> QED BY <1>1, <1>3

\* A write that is whole stays so, whatever others send after it.
LEMMA WholeStays ==
  ASSUME NEW s \in Seq(Byte), NEW piece \in Seq(Byte), NEW call \in Nat, NEW w \in Writes,
         \A i \in DOMAIN piece : ~IsOf(piece[i], call),
         \E k \in 0 .. Len(s) : Run(s, call, Promised(call, w), k, Len(Promised(call, w)))
  PROVE  \E k \in 0 .. Len(s \o piece) :
           Run(s \o piece, call, Promised(call, w), k, Len(Promised(call, w)))
<1> DEFINE bytes == Promised(call, w)
<1>1. PICK k \in 0 .. Len(s) : Run(s, call, bytes, k, Len(bytes))
  OBVIOUS
<1>2. Len(bytes) \in Nat /\ k \in Nat /\ k <= Len(s) /\ Len(s) \in Nat
  BY PromisedIsFinite
<1> HIDE DEF bytes
<1>3. Run(s \o piece, call, bytes, k, Len(bytes))
  BY <1>1, <1>2, RunGrows
<1>4. Len(s \o piece) = Len(s) + Len(piece) /\ Len(piece) \in Nat
  BY Glue
<1>5. k \in 0 .. Len(s \o piece)
  BY <1>2, <1>4
<1> QED BY <1>3, <1>5 DEF bytes

\* The bytes of a write in progress are what its buffers before the d-th and
\* the delivered part of that one hold, in one run at the end of what was sent.
InProgress(n, bracket, d, k) ==
  /\ jobs[CallsMade] = Buffers(n, bracket)
  /\ job = Rest(n, bracket, d)
  /\ total \in 0 .. LenOf(n, bracket, d) - 1
  /\ k + (Before(n, bracket, d) + total) = Len(sent)
  /\ Run(sent, CallsMade, Promised(CallsMade, jobs[CallsMade]), k,
         Before(n, bracket, d) + total)

OnItsWay ==
  \E n \in DataLens, bracket \in BOOLEAN :
    \E d \in 0 .. Wrappers(bracket), k \in Nat : InProgress(n, bracket, d, k)

\* No write has sent anything before it was called, and the one in progress is
\* not complete.
WritesInv ==
  /\ sent \in Seq(Byte) /\ jobs \in Seq(Writes)
  /\ consumed \in Nat /\ asked \in Nat /\ reply_buf_sz \in Nat
  /\ complete \subseteq 1 .. CallsMade
  /\ \A i \in DOMAIN sent : \A c \in Nat : IsOf(sent[i], c) => c <= CallsMade
  /\ WritesAreWhole
  /\ host \in {"writing", "polling"} =>
       CallsMade \in 1 .. CallsMade /\ CallsMade \notin complete /\ OnItsWay

\* vtty_init sends nothing.
LEMMA InitWrites == Init => WritesInv
BY PtyAssumption DEF Init, WritesInv, WritesAreWhole, CallsMade

\* Steps that send nothing and begin or end no write.
LEMMA QuietWrites ==
  ASSUME WritesInv, UNCHANGED <<sent, jobs, job, total, complete>>,
         consumed' \in Nat, asked' \in Nat, reply_buf_sz' \in Nat,
         host' \in {"writing", "polling"} => host \in {"writing", "polling"}
  PROVE  WritesInv'
<1>1. CallsMade' = CallsMade /\ (WritesAreWhole => WritesAreWhole') /\ (OnItsWay => OnItsWay')
  BY DEF CallsMade, WritesAreWhole, OnItsWay, InProgress
<1> HIDE DEF WritesAreWhole, OnItsWay
<1> QED BY <1>1 DEF WritesInv, CallsMade

\* What is sent is of a write that was called when each part of it is.
LEMMA EarlierBytes ==
  ASSUME NEW s \in Seq(Byte), NEW piece \in Seq(Byte), NEW last,
         \A i \in DOMAIN s : \A c \in Nat : IsOf(s[i], c) => c <= last,
         \A i \in DOMAIN piece : \A c \in Nat : IsOf(piece[i], c) => c <= last
  PROVE  /\ s \o piece \in Seq(Byte)
         /\ \A i \in DOMAIN (s \o piece) :
              \A c \in Nat : IsOf((s \o piece)[i], c) => c <= last
<1>1. /\ s \o piece \in Seq(Byte) /\ Len(s \o piece) = Len(s) + Len(piece)
      /\ \A i \in 1 .. Len(s) : (s \o piece)[i] = s[i]
      /\ \A i \in 1 .. Len(piece) : (s \o piece)[Len(s) + i] = piece[i]
  BY Glue
<1> DEFINE t == s \o piece
<1>2. /\ Len(s) \in Nat /\ Len(piece) \in Nat /\ DOMAIN s = 1 .. Len(s)
      /\ DOMAIN piece = 1 .. Len(piece)
  OBVIOUS
<1>3. t \in Seq(Byte) /\ DOMAIN t = 1 .. Len(t)
  BY <1>1
<1> HIDE DEF t
<1>4. ASSUME NEW i \in DOMAIN t, NEW c \in Nat, IsOf(t[i], c) PROVE c <= last
  <2>1. CASE i <= Len(s)
    <3>1. i \in DOMAIN s /\ t[i] = s[i]
      BY <1>1, <1>2, <1>3, <1>4, <2>1 DEF t
    <3> QED BY <1>4, <3>1
  <2>2. CASE i > Len(s)
    <3>1. i - Len(s) \in DOMAIN piece /\ i = Len(s) + (i - Len(s))
      BY <1>1, <1>2, <1>3, <1>4, <2>2 DEF t
    <3>2. t[i] = piece[i - Len(s)]
      BY <1>1, <1>2, <3>1 DEF t
    <3> QED BY <1>4, <3>1, <3>2
  <2> QED BY <1>2, <1>3, <1>4, <2>1, <2>2
<1> QED BY <1>3, <1>4 DEF t

\* A reply is sent between two writes and is of neither.
LEMMA ReplyWrites == ASSUME WritesInv, Reply PROVE WritesInv'
<1>1. /\ UNCHANGED <<jobs, complete, consumed, asked>>
      /\ host' \notin {"writing", "polling"} /\ CallsMade' = CallsMade
  BY DEF Reply, writing, CallsMade
<1>2. CASE sent' = sent
  <2>1. reply_buf_sz' \in Nat
    BY PtyAssumption, <1>2 DEF Reply, Least, WritesInv, Room
  <2>2. WritesAreWhole'
    BY <1>1, <1>2 DEF WritesInv, WritesAreWhole
  <2> QED BY <1>1, <1>2, <2>1, <2>2 DEF WritesInv
<1>3. CASE sent' # sent
  <2> DEFINE m == Least(Room, reply_buf_sz)
             piece == [i \in 1 .. m |-> <<asked, "reply", i>>]
  <2>1. ~Gone /\ Room > 0 /\ sent' = sent \o piece /\ reply_buf_sz' = reply_buf_sz - m
    BY <1>3 DEF Reply
  <2>2. Room \in Int /\ m \in Nat /\ m <= reply_buf_sz /\ reply_buf_sz \in Nat
    BY PtyAssumption, <2>1 DEF Room, Least, WritesInv
  <2> HIDE DEF m
  <2>3. piece \in Seq(Byte)
    BY <2>2 DEF Byte, WritesInv
  <2>4. \A i \in DOMAIN piece : \A c : ~IsOf(piece[i], c)
    BY DEF IsOf
  <2> HIDE DEF piece
  <2>5. WritesAreWhole'
    <3> SUFFICES ASSUME NEW c \in complete'
                 PROVE  \E k \in 0 .. Len(sent') :
                          Run(sent', c, Promised(c, jobs[c]), k, Len(Promised(c, jobs[c])))
      BY <1>1 DEF WritesAreWhole
    <3>1. c \in complete /\ c \in Nat /\ jobs[c] \in Writes
      BY <1>1 DEF WritesInv, CallsMade
    <3>2. \E k \in 0 .. Len(sent) :
            Run(sent, c, Promised(c, jobs[c]), k, Len(Promised(c, jobs[c])))
      BY <3>1 DEF WritesInv, WritesAreWhole
    <3>3. sent \in Seq(Byte)
      BY DEF WritesInv
    <3> QED BY <2>1, <2>3, <2>4, <3>1, <3>2, <3>3, WholeStays
  <2>6. sent' \in Seq(Byte)
        /\ \A i \in DOMAIN sent' : \A c \in Nat : IsOf(sent'[i], c) => c <= CallsMade
    <3>1. sent \in Seq(Byte)
          /\ \A i \in DOMAIN sent : \A c \in Nat : IsOf(sent[i], c) => c <= CallsMade
      BY DEF WritesInv
    <3> QED BY <2>1, <2>3, <2>4, <3>1, EarlierBytes
  <2>7. /\ jobs' \in Seq(Writes) /\ complete' \subseteq 1 .. CallsMade'
        /\ consumed' \in Nat /\ asked' \in Nat
    BY <1>1 DEF WritesInv
  <2>8. reply_buf_sz' \in Nat
    BY <2>1, <2>2
  <2> QED BY <1>1, <2>5, <2>6, <2>7, <2>8, Zenon DEF WritesInv
<1> QED BY <1>2, <1>3

\* A new write has sent nothing.
LEMMA WriteDataWrites ==
  ASSUME WritesInv, NEW n \in DataLens, NEW bracket \in BOOLEAN, WriteData(n, bracket)
  PROVE  WritesInv'
<1> DEFINE w == Buffers(n, bracket)
<1>1. /\ jobs' = Append(jobs, w) /\ job' = w /\ total' = 0
      /\ UNCHANGED <<sent, complete, consumed, asked, reply_buf_sz>> /\ host' = "writing"
  BY DEF WriteData, replying
<1>2. w \in Writes
  BY PtyAssumption DEF Writes, Buffers, WriteBuffer
<1>3. /\ jobs \in Seq(Writes) /\ CallsMade = Len(jobs) /\ CallsMade \in Nat
      /\ complete \subseteq 1 .. CallsMade /\ sent \in Seq(Byte)
      /\ \A i \in DOMAIN sent : \A c \in Nat : IsOf(sent[i], c) => c <= CallsMade
  BY DEF WritesInv, CallsMade
<1> HIDE DEF w
<1>4. /\ jobs' \in Seq(Writes) /\ CallsMade' = CallsMade + 1 /\ jobs'[CallsMade'] = w
      /\ \A c \in 1 .. CallsMade : jobs'[c] = jobs[c]
  BY <1>1, <1>2, <1>3 DEF CallsMade
<1>5. WritesAreWhole'
  BY <1>1, <1>3, <1>4 DEF WritesInv, WritesAreWhole
<1>6. OnItsWay'
  <2>1. 0 \in 0 .. Wrappers(bracket) /\ Rest(n, bracket, 0) = w /\ Before(n, bracket, 0) = 0
    BY DEF Wrappers, Rest, Before, w
  <2>2. LenOf(n, bracket, 0) \in Nat \ {0}
    BY <2>1, RestParts
  <2>3. Run(sent, CallsMade', Promised(CallsMade', w), Len(sent), 0)
    <3>1. \A i \in DOMAIN sent : ~IsOf(sent[i], CallsMade')
      BY <1>3, <1>4
    <3> QED BY <1>3, <3>1 DEF Run
  <2>4. total' = 0 /\ jobs'[CallsMade'] = w /\ job' = w /\ sent' = sent
    BY <1>1, <1>4
  <2>5. Len(sent) \in Nat /\ Len(sent) + (0 + 0) = Len(sent)
    BY <1>3
  <2>6. InProgress(n, bracket, 0, Len(sent))'
    BY <2>1, <2>2, <2>3, <2>4, <2>5 DEF InProgress, w
  <2> QED BY <2>1, <2>5, <2>6 DEF OnItsWay
<1>7. \A i \in DOMAIN sent : \A c \in Nat : IsOf(sent[i], c) => c <= CallsMade + 1
  BY <1>3
<1> QED BY <1>1, <1>3, <1>4, <1>5, <1>6, <1>7 DEF WritesInv

\* A turn of the write-all loop prolongs the run, and ends the write where its
\* last buffer ends.
LEMMA WriteWrites == ASSUME WritesInv, Write PROVE WritesInv'
<1>1. PICK n \in DataLens, bracket \in BOOLEAN :
        \E d \in 0 .. Wrappers(bracket), k \in Nat : InProgress(n, bracket, d, k)
  BY DEF WritesInv, Write, OnItsWay
<1>2. PICK d \in 0 .. Wrappers(bracket), k \in Nat : InProgress(n, bracket, d, k)
  BY <1>1
<1> DEFINE len == LenOf(n, bracket, d)
           b == Before(n, bracket, d)
           part == PartOf(bracket, d)
           bytes == Promised(CallsMade, jobs[CallsMade])
           m == Least(Room, len - total)
           piece == [i \in 1 .. m |-> <<CallsMade, part, total + i>>]
<1>4. /\ jobs \in Seq(Writes) /\ CallsMade = Len(jobs) /\ CallsMade \in Nat \ {0}
      /\ complete \subseteq 1 .. CallsMade /\ CallsMade \notin complete /\ sent \in Seq(Byte)
      /\ \A i \in DOMAIN sent : \A c \in Nat : IsOf(sent[i], c) => c <= CallsMade
      /\ consumed \in Nat
  BY DEF WritesInv, CallsMade, Write
<1>3. /\ Head(job) = [part |-> part, len |-> len]
      /\ part \in {"start", "data", "end"} /\ len \in Nat \ {0} /\ b \in Nat
      /\ Len(job) = Wrappers(bracket) - d + 1
      /\ d < Wrappers(bracket) =>
           Tail(job) = Rest(n, bracket, d + 1) /\ Before(n, bracket, d + 1) = b + len
      /\ d = Wrappers(bracket) => Len(bytes) = b + len
      /\ \A t \in 1 .. len : bytes[b + t] = <<CallsMade, part, t>>
  <2>1. job = Rest(n, bracket, d) /\ jobs[CallsMade] = Buffers(n, bracket)
    BY <1>2 DEF InProgress
  <2>2. CallsMade \in Nat
    BY <1>4
  <2> HIDE DEF CallsMade
  <2>3. /\ d < Wrappers(bracket) =>
             Tail(job) = Rest(n, bracket, d + 1) /\ Before(n, bracket, d + 1) = b + len
        /\ Head(job) = [part |-> part, len |-> len]
        /\ part \in {"start", "data", "end"} /\ len \in Nat \ {0} /\ b \in Nat
        /\ Len(job) = Wrappers(bracket) - d + 1
    BY <2>1, RestParts
  <2>4. /\ d = Wrappers(bracket) => Len(bytes) = b + len
        /\ \A t \in 1 .. len : bytes[b + t] = <<CallsMade, part, t>>
    BY <2>1, <2>2, RestParts
  <2> QED BY <2>3, <2>4
<1>5. /\ total \in 0 .. len - 1 /\ k + (b + total) = Len(sent)
      /\ Run(sent, CallsMade, bytes, k, b + total)
  BY <1>2 DEF InProgress
<1>6. Room \in Nat \ {0}
  BY PtyAssumption, <1>4 DEF Write, Room
<1>7. m \in 1 .. len - total
  BY <1>3, <1>5, <1>6 DEF Least
<1>8. /\ sent' = sent \o piece
      /\ total' = IF m = len - total THEN 0 ELSE total + m
      /\ job' = IF m = len - total THEN Tail(job) ELSE job
      /\ host' = IF m = len - total /\ Len(job) = 1 THEN "idle" ELSE "writing"
      /\ complete' = IF m = len - total /\ Len(job) = 1
                     THEN complete \union {CallsMade} ELSE complete
      /\ UNCHANGED <<jobs, consumed, asked, reply_buf_sz>> /\ CallsMade' = CallsMade
  <2>1. Head(job).part = part /\ Head(job).len = len
    BY <1>3
  <2> HIDE DEF part, len
  <2> QED BY <2>1 DEF Write, replying, CallsMade
<1> HIDE DEF len, b, part, m
<1>9. /\ piece \in Seq(Byte) /\ Len(piece) = m
      /\ \A i \in 1 .. m : piece[i] = <<CallsMade, part, total + i>>
  <2>1. /\ m \in Nat /\ CallsMade \in Nat /\ total \in Nat
        /\ part \in {"reply", "start", "data", "end"}
    BY <1>3, <1>4, <1>5, <1>7
  <2> HIDE DEF CallsMade
  <2>2. \A i \in 1 .. m : <<CallsMade, part, total + i>> \in Byte
    BY <2>1 DEF Byte
  <2> QED BY <2>1, <2>2
<1> HIDE DEF piece, bytes
<1>10. Run(sent', CallsMade, bytes, k, b + total + m)
  <2>1. ASSUME NEW i \in 1 .. m PROVE piece[i] = bytes[(b + total) + i]
    <3>1. total + i \in 1 .. len /\ b + (total + i) = (b + total) + i
      BY <1>3, <1>5, <1>7
    <3>2. bytes[b + (total + i)] = <<CallsMade, part, total + i>>
      BY <1>3, <1>4, <3>1
    <3> QED BY <1>9, <3>1, <3>2
  <2>2. b + total \in Nat
    BY <1>3, <1>5
  <2> QED BY <1>4, <1>5, <1>8, <1>9, <2>1, <2>2, RunGoesOn
<1>11. /\ sent' \in Seq(Byte) /\ Len(sent') = Len(sent) + m
       /\ \A i \in DOMAIN sent' : \A c \in Nat : IsOf(sent'[i], c) => c <= CallsMade
  <2>1. \A i \in DOMAIN piece : \A c \in Nat : IsOf(piece[i], c) => c <= CallsMade
    BY <1>4, <1>9 DEF IsOf
  <2>2. Len(sent') = Len(sent) + Len(piece)
    BY <1>4, <1>8, <1>9, Glue
  <2> QED BY <1>4, <1>8, <1>9, <2>1, <2>2, EarlierBytes
<1>12. ASSUME NEW c \in complete
       PROVE  \E j \in 0 .. Len(sent') :
                Run(sent', c, Promised(c, jobs[c]), j, Len(Promised(c, jobs[c])))
  <2>1. c \in Nat /\ c # CallsMade /\ jobs[c] \in Writes
    BY <1>4, <1>12
  <2>2. \A i \in DOMAIN piece : ~IsOf(piece[i], c)
    BY <1>9, <2>1 DEF IsOf
  <2>3. \E j \in 0 .. Len(sent) :
          Run(sent, c, Promised(c, jobs[c]), j, Len(Promised(c, jobs[c])))
    BY <1>12 DEF WritesInv, WritesAreWhole
  <2> QED BY <1>4, <1>8, <1>9, <2>1, <2>2, <2>3, WholeStays
<1> DEFINE before == Len(sent)
           after == Len(sent')
<1>13. asked \in Nat /\ reply_buf_sz \in Nat
  BY DEF WritesInv
<1>14. /\ len \in Nat \ {0} /\ b \in Nat /\ total \in 0 .. len - 1
       /\ m \in 1 .. len - total /\ k \in Nat /\ before \in Nat
       /\ k + (b + total) = before /\ after = before + m
  BY <1>3, <1>4, <1>5, <1>7, <1>11
<1> HIDE DEF before, after
<1>15. CASE m = len - total /\ Len(job) = 1
  <2>1. d = Wrappers(bracket)
    <3>1. Wrappers(bracket) \in Nat
      BY DEF Wrappers
    <3> DEFINE whole == Wrappers(bracket)
    <3>2. whole - d + 1 = 1
      BY <1>3, <1>15
    <3>3. whole \in Nat /\ d \in 0 .. whole
      BY <3>1
    <3> HIDE DEF whole
    <3>4. d = whole
      BY <3>2, <3>3
    <3> QED BY <3>4 DEF whole
  <2>2. Len(bytes) = b + len
    BY <1>3, <2>1
  <2>3. b + total + m = Len(bytes) /\ k \in 0 .. after
    BY <1>15, <1>14, <2>2
  <2>4. complete' = complete \union {CallsMade}
    BY <1>8, <1>15
  <2>5. Run(sent', CallsMade, bytes, k, Len(bytes))
    BY <1>10, <2>3
  <2>6. WritesAreWhole'
    <3>1. ASSUME NEW c \in complete \union {CallsMade}
          PROVE  \E j \in 0 .. Len(sent') :
                   Run(sent', c, Promised(c, jobs[c]), j, Len(Promised(c, jobs[c])))
      <4>1. CASE c = CallsMade
        BY <2>3, <2>5, <4>1 DEF bytes, after
      <4>2. CASE c \in complete
        BY <1>12, <4>2
      <4> QED BY <3>1, <4>1, <4>2
    <3> QED BY <1>8, <2>4, <3>1 DEF WritesAreWhole
  <2>7. host' = "idle" /\ complete' \subseteq 1 .. CallsMade'
    <3>1. CallsMade' = CallsMade /\ CallsMade \in Nat \ {0} /\ complete \subseteq 1 .. CallsMade
      BY <1>4, <1>8
    <3> HIDE DEF CallsMade
    <3>2. complete' \subseteq 1 .. CallsMade'
      BY <2>4, <3>1
    <3> QED BY <1>8, <1>15, <3>2
  <2> QED BY <1>4, <1>8, <1>11, <2>6, <2>7, <1>13 DEF WritesInv
<1>16. CASE ~(m = len - total /\ Len(job) = 1)
  <2>1. WritesAreWhole'
    BY <1>8, <1>12, <1>16 DEF WritesAreWhole
  <2>2. OnItsWay'
    <3>1. CASE m = len - total
      <4>1. d + 1 \in 0 .. Wrappers(bracket) /\ d < Wrappers(bracket)
        BY <1>3, <1>16, <3>1 DEF Wrappers
      <4>2. /\ job' = Rest(n, bracket, d + 1) /\ total' = 0
            /\ Before(n, bracket, d + 1) = b + len
        BY <1>3, <1>8, <3>1, <4>1
      <4>3. LenOf(n, bracket, d + 1) \in Nat \ {0}
        BY <4>1, RestParts
      <4>4. b + total + m = Before(n, bracket, d + 1) + 0
            /\ k + (Before(n, bracket, d + 1) + 0) = after
        BY <1>14, <3>1, <4>2
      <4>5. /\ jobs'[CallsMade'] = Buffers(n, bracket)
            /\ Promised(CallsMade', jobs'[CallsMade']) = bytes
        BY <1>2, <1>8 DEF InProgress, bytes
      <4>6. InProgress(n, bracket, d + 1, k)'
        <5>1. total' \in 0 .. LenOf(n, bracket, d + 1) - 1
          BY <4>2, <4>3
        <5>2. Run(sent', CallsMade', bytes, k, Before(n, bracket, d + 1) + 0)
          BY <1>8, <1>10, <4>4
        <5> QED BY <4>2, <4>4, <4>5, <5>1, <5>2 DEF InProgress, after
      <4> QED BY <4>1, <4>6 DEF OnItsWay
    <3>2. CASE m # len - total
      <4>1. total' = total + m /\ job' = Rest(n, bracket, d)
        BY <1>2, <1>8, <3>2 DEF InProgress
      <4>2. /\ total + m \in 0 .. len - 1 /\ b + total + m = b + (total + m)
            /\ k + (b + (total + m)) = after
        BY <1>14, <3>2
      <4>3. /\ jobs'[CallsMade'] = Buffers(n, bracket)
            /\ Promised(CallsMade', jobs'[CallsMade']) = bytes
        BY <1>2, <1>8 DEF InProgress, bytes
      <4>4. InProgress(n, bracket, d, k)'
        <5>1. Run(sent', CallsMade', bytes, k, b + (total + m))
          BY <1>8, <1>10, <4>2
        <5> QED BY <4>1, <4>2, <4>3, <5>1 DEF InProgress, len, b, after
      <4> QED BY <4>4 DEF OnItsWay
    <3> QED BY <3>1, <3>2
  <2>3. host' = "writing" /\ complete' = complete
    BY <1>8, <1>16
  <2>4. /\ CallsMade' \in 1 .. CallsMade' /\ CallsMade' \notin complete'
        /\ complete' \subseteq 1 .. CallsMade'
    <3>1. /\ CallsMade' = CallsMade /\ CallsMade \in Nat \ {0} /\ complete \subseteq 1 .. CallsMade
          /\ CallsMade \notin complete
      BY <1>4, <1>8
    <3> HIDE DEF CallsMade
    <3> QED BY <2>3, <3>1
  <2>5. /\ jobs' \in Seq(Writes) /\ consumed' \in Nat /\ asked' \in Nat
        /\ reply_buf_sz' \in Nat
    BY <1>4, <1>8, <1>13
  <2>6. \A i \in DOMAIN sent' : \A c \in Nat : IsOf(sent'[i], c) => c <= CallsMade'
    BY <1>8, <1>11
  <2> HIDE DEF CallsMade
  <2> QED BY <1>11, <2>1, <2>2, <2>4, <2>5, <2>6 DEF WritesInv
<1> QED BY <1>15, <1>16

\* Every step keeps it.
LEMMA WritesNext == ASSUME WritesInv, [Next]_vars PROVE WritesInv'
<1>0. /\ consumed \in Nat /\ asked \in Nat /\ reply_buf_sz \in Nat
      /\ Queries \subseteq Nat /\ ReplyLen \in Nat
  BY PtyAssumption DEF WritesInv
<1>1. CASE ChildChooses \/ ChildWrites \/ ChildExits \/ NoticeExit \/ ReadPipe \/ Read
  BY <1>0, <1>1, QuietWrites DEF ChildChooses, ChildWrites, ChildExits, NoticeExit,
     ReadPipe, Read, writing, replying
<1>2. CASE ChildReads
  BY <1>0, <1>2, QuietWrites DEF ChildReads, writing, replying
<1>3. CASE RenderByte
  BY <1>0, <1>3, QuietWrites DEF RenderByte, writing, replying
<1>4. CASE WaitForRoom \/ Woken \/ UNCHANGED vars
  BY <1>0, <1>4, QuietWrites DEF WaitForRoom, Woken, vars, writing, replying
<1>5. CASE WriteFails
  <2>1. /\ UNCHANGED <<sent, jobs, complete, consumed, asked, reply_buf_sz>>
        /\ host' = "idle" /\ CallsMade' = CallsMade
    BY <1>5 DEF WriteFails, replying, CallsMade
  <2>2. WritesAreWhole'
    BY <2>1 DEF WritesInv, WritesAreWhole
  <2> QED BY <2>1, <2>2 DEF WritesInv
<1> QED BY <1>1, <1>2, <1>3, <1>4, <1>5, ReplyWrites, WriteWrites, WriteDataWrites
        DEF Next, Child, InCall

\* A write that returned success is one whole run of what the kernel took, for
\* every size of the queues, of the data and of the brackets, whatever the child
\* reads, writes and asks meanwhile.
THEOREM CompleteWritesAreWhole == Spec => []WritesAreWhole
<1>1. WritesInv => WritesAreWhole
  BY DEF WritesInv
<1> QED BY <1>1, InitWrites, WritesNext, PTL DEF Spec

-----------------------------------------------------------------------------
(* Signal driven input *)

\* What the children and the pipe hold.
Counts ==
  /\ written \in [Term -> 0 .. PrintLimit] /\ unread \in [Term -> 0 .. PrintRoom]
  /\ pipe \in 0 .. PipeRoom

\* Who is created, armed and to be read, and where the host is: vtty_set_async
\* is called for a terminal that lives, and nobody is destroyed during it.
Places ==
  /\ live \subseteq Term /\ toread \subseteq Term /\ arming \subseteq live
  /\ owned \subseteq live /\ async \subseteq live /\ joined \subseteq live
  /\ hostAt \in {"awake", "sigaction", "setown", "setfl", "emptying", "reading",
                "asleep"}
  /\ sigaction \in {"default", "signal_io"} /\ nonblock \subseteq {"R", "W"}
  /\ arming # {} => hostAt \in {"sigaction", "setown", "setfl"}

Flags == vtty_sig_fds \in BOOLEAN /\ io_pending \in BOOLEAN /\ in_handler \in BOOLEAN

\* The numbers keep their bounds: the handler writes only while there is room.
LEMMA CountsKept == ASSUME Counts, [AsyncNext]_asyncVars PROVE Counts'
<1> USE AsyncAssumption DEF Counts, kernel, selfpipe, armed, signal
<1>1. ASSUME NEW t \in Term, ChildPrints(t) PROVE Counts'
  BY <1>1 DEF ChildPrints
<1>2. CASE Deliver BY <1>2 DEF Deliver
<1>3. CASE signal_io BY <1>3 DEF signal_io
<1>4. ASSUME NEW t \in Term, SetAsync(t) PROVE Counts'
  BY <1>4 DEF SetAsync, OpenPipe
<1>5. CASE Call BY <1>5 DEF Call, Sigaction, Setown, Setfl
<1>6. ASSUME NEW t \in Term, ReadTerminal(t) PROVE Counts'
  BY <1>6 DEF ReadTerminal
<1>7. ASSUME NEW t \in Term, Create(t) \/ Destroy(t) PROVE Counts'
  BY <1>7 DEF Create, Destroy
<1>8. CASE StartRound \/ TakeByte \/ PipeIsEmpty \/ Sleep \/ Wake
  BY <1>8 DEF StartRound, TakeByte, PipeIsEmpty, Sleep, Wake
<1>9. CASE UNCHANGED asyncVars BY <1>9 DEF asyncVars
<1> QED BY <1>1, <1>2, <1>3, <1>4, <1>5, <1>6, <1>7, <1>8, <1>9 DEF AsyncNext, HostLoop

\* No terminal is armed or to be read that does not live.
LEMMA PlacesKept == ASSUME Places, [AsyncNext]_asyncVars PROVE Places'
<1> USE DEF Places, At
<1>1. ASSUME NEW t \in Term, ChildPrints(t) PROVE Places'
  BY <1>1 DEF ChildPrints, selfpipe, armed
<1>2. CASE Deliver BY <1>2 DEF Deliver, selfpipe, armed
<1>3. CASE signal_io BY <1>3 DEF signal_io, armed
<1>4. ASSUME NEW t \in Term, SetAsync(t) PROVE Places'
  BY <1>4 DEF SetAsync, OpenPipe, selfpipe, armed
<1>5. CASE Call BY <1>5 DEF Call, Sigaction, Setown, Setfl, selfpipe
<1>6. ASSUME NEW t \in Term, ReadTerminal(t) PROVE Places'
  BY <1>6 DEF ReadTerminal, selfpipe, armed
<1>7. ASSUME NEW t \in Term, Create(t) \/ Destroy(t) PROVE Places'
  BY <1>7 DEF Create, Destroy, selfpipe, armed
<1>8. CASE StartRound \/ TakeByte \/ PipeIsEmpty \/ Sleep \/ Wake
  BY <1>8 DEF StartRound, TakeByte, PipeIsEmpty, Sleep, Wake, selfpipe, armed
<1>9. CASE UNCHANGED asyncVars BY <1>9 DEF asyncVars, selfpipe, armed
<1> QED BY <1>1, <1>2, <1>3, <1>4, <1>5, <1>6, <1>7, <1>8, <1>9 DEF AsyncNext, HostLoop

\* The flags stay Booleans.
LEMMA FlagsKept == ASSUME Flags, [AsyncNext]_asyncVars PROVE Flags'
<1>1. ASSUME NEW t \in Term, ChildPrints(t) PROVE Flags'
  BY <1>1, Zenon DEF ChildPrints, selfpipe, Flags
<1>2. CASE Deliver BY <1>2, Zenon DEF Deliver, selfpipe, Flags
<1>3. CASE signal_io BY <1>3, Zenon DEF signal_io, Flags
<1>4. ASSUME NEW t \in Term, SetAsync(t) PROVE Flags'
  BY <1>4, Zenon DEF SetAsync, OpenPipe, selfpipe, signal, Flags
<1>5. CASE Call
  BY <1>5, Zenon DEF Call, Sigaction, Setown, Setfl, selfpipe, signal, Flags
<1>6. ASSUME NEW t \in Term, ReadTerminal(t) PROVE Flags'
  BY <1>6, Zenon DEF ReadTerminal, selfpipe, signal, Flags
<1>7. ASSUME NEW t \in Term, Create(t) \/ Destroy(t) PROVE Flags'
  BY <1>7, Zenon DEF Create, Destroy, selfpipe, signal, Flags
<1>8. CASE StartRound \/ TakeByte \/ PipeIsEmpty \/ Sleep \/ Wake
  BY <1>8, Zenon
     DEF StartRound, TakeByte, PipeIsEmpty, Sleep, Wake, selfpipe, signal, Flags
<1>9. CASE UNCHANGED asyncVars BY <1>9, Zenon DEF asyncVars, selfpipe, signal, Flags
<1> QED BY <1>1, <1>2, <1>3, <1>4, <1>5, <1>6, <1>7, <1>8, <1>9 DEF AsyncNext, HostLoop

\* SIGIO finds the handler, and the handler the pipe.
Ready == sigaction = "signal_io" /\ vtty_sig_fds

\* The inductive invariant behind SignalsAreHandled: a pty gets its owner, and
\* with it the right to raise signals, after the handler and the pipe are there,
\* and both outlive it.
ArmingInv ==
  /\ joined \subseteq async /\ joined \subseteq owned
  /\ owned # {} \/ io_pending \/ in_handler => Ready
  /\ hostAt \in {"sigaction", "setown", "setfl"} => vtty_sig_fds
  /\ hostAt \in {"setown", "setfl"} => sigaction = "signal_io"
  /\ hostAt = "setfl" => arming \subseteq owned

\* The calls of vtty_set_async keep their order, and Destroy takes nothing back.
LEMMA ArmingKept == ASSUME ArmingInv, [AsyncNext]_asyncVars PROVE ArmingInv'
<1> USE DEF ArmingInv, Ready, At
<1>1. ASSUME NEW t \in Term, ChildPrints(t) PROVE ArmingInv'
  BY <1>1 DEF ChildPrints, selfpipe, armed
<1>2. CASE Deliver BY <1>2 DEF Deliver, selfpipe, armed
<1>3. CASE signal_io BY <1>3 DEF signal_io, armed
<1>4. ASSUME NEW t \in Term, SetAsync(t) PROVE ArmingInv'
  BY <1>4 DEF SetAsync, OpenPipe, selfpipe, armed, signal
<1>5. CASE Call BY <1>5 DEF Call, Sigaction, Setown, Setfl, selfpipe, signal
<1>6. ASSUME NEW t \in Term, ReadTerminal(t) PROVE ArmingInv'
  BY <1>6 DEF ReadTerminal, selfpipe, armed, signal
<1>7. ASSUME NEW t \in Term, Create(t) \/ Destroy(t) PROVE ArmingInv'
  BY <1>7 DEF Create, Destroy, selfpipe, armed, signal
<1>8. CASE StartRound \/ TakeByte \/ PipeIsEmpty \/ Sleep \/ Wake
  BY <1>8 DEF StartRound, TakeByte, PipeIsEmpty, Sleep, Wake, selfpipe, armed, signal
<1>9. CASE UNCHANGED asyncVars BY <1>9 DEF asyncVars, selfpipe, armed, signal
<1> QED BY <1>1, <1>2, <1>3, <1>4, <1>5, <1>6, <1>7, <1>8, <1>9 DEF AsyncNext, HostLoop

\* What keeps the host awake or wakes it.
Signalled == io_pending \/ in_handler \/ pipe > 0

\* Output of t is still to be read in this round, or will begin another one.
Noticed(t) == unread[t] > 0 => Signalled \/ (hostAt # "asleep" /\ t \in toread)

\* What NoWakeupLost needs.  A round that empties the pipe has all terminals
\* before it; from then until the host sleeps no output goes unnoticed.
WakingInv ==
  /\ hostAt = "emptying" => live \subseteq toread
  /\ hostAt \in {"reading", "asleep"} => \A t \in joined : Noticed(t)

\* A byte is taken off the pipe only before the round reads, and a write after
\* that raises a signal of its own; a read leaves nothing behind.
LEMMA WakingKept ==
  ASSUME PrintRoom <= ReadLimit, Counts, Places, ArmingInv, WakingInv, [AsyncNext]_asyncVars
  PROVE  WakingInv'
<1>0. /\ PrintRoom \in Nat /\ ReadLimit \in Nat /\ pipe \in Nat
      /\ joined \subseteq live /\ live \subseteq Term
      /\ unread \in [Term -> 0 .. PrintRoom]
  BY AsyncAssumption DEF Counts, Places
<1> USE DEF WakingInv, Noticed, Signalled, At
<1>1. ASSUME NEW t \in Term, ChildPrints(t) PROVE WakingInv'
  <2>1. joined \subseteq owned /\ joined \subseteq async BY DEF ArmingInv
  <2> QED BY <1>0, <1>1, <2>1 DEF ChildPrints, selfpipe, armed
<1>2. CASE Deliver BY <1>0, <1>2 DEF Deliver, selfpipe, armed, kernel
<1>3. CASE signal_io
  <2>1. vtty_sig_fds BY <1>3 DEF signal_io, ArmingInv, Ready
  <2> QED BY <1>0, <1>3, <2>1 DEF signal_io, armed, kernel
<1>4. ASSUME NEW t \in Term, SetAsync(t) PROVE WakingInv'
  BY <1>4 DEF SetAsync, OpenPipe, selfpipe, armed, signal
<1>5. CASE Call BY <1>5 DEF Call, Sigaction, Setown, Setfl, selfpipe, signal
<1>6. ASSUME NEW t \in Term, ReadTerminal(t) PROVE WakingInv'
  <2>1. unread'[t] = 0 /\ \A x \in Term : x # t => unread'[x] = unread[x]
    BY <1>0, <1>6 DEF ReadTerminal
  <2> QED BY <1>0, <1>6, <2>1 DEF ReadTerminal, selfpipe, armed, signal
<1>7. ASSUME NEW t \in Term, Create(t) \/ Destroy(t) PROVE WakingInv'
  BY <1>7 DEF Create, Destroy, selfpipe, armed, signal
<1>8. CASE StartRound \/ TakeByte \/ PipeIsEmpty \/ Sleep \/ Wake
  BY <1>0, <1>8
     DEF StartRound, TakeByte, PipeIsEmpty, Sleep, Wake, selfpipe, armed, signal,
         kernel
<1>9. CASE UNCHANGED asyncVars BY <1>9 DEF asyncVars, selfpipe, armed, signal, kernel
<1> QED BY <1>1, <1>2, <1>3, <1>4, <1>5, <1>6, <1>7, <1>8, <1>9 DEF AsyncNext, HostLoop

AsyncInv == Counts /\ Places /\ Flags /\ ArmingInv

\* No terminal is armed yet.
LEMMA InitAsync == AsyncInit => AsyncInv /\ WakingInv
<1> SUFFICES ASSUME AsyncInit PROVE AsyncInv /\ WakingInv
  OBVIOUS
<1>1. Counts BY AsyncAssumption DEF AsyncInit, Counts
<1>2. Places BY DEF AsyncInit, Places
<1>3. Flags BY Zenon DEF AsyncInit, Flags
<1>4. ArmingInv BY DEF AsyncInit, ArmingInv, Ready
<1>5. WakingInv BY DEF AsyncInit, WakingInv
<1> QED BY <1>1, <1>2, <1>3, <1>4, <1>5 DEF AsyncInv

\* Every variable keeps its type, for every number of terminals and every room
\* of the pipe.
THEOREM AsyncTypes == AsyncSpec => []AsyncTypeOK
<1>1. AsyncInit => AsyncInv
  BY InitAsync
<1>2. AsyncInv /\ [AsyncNext]_asyncVars => AsyncInv'
  BY CountsKept, PlacesKept, FlagsKept, ArmingKept DEF AsyncInv
<1>3. AsyncInv => AsyncTypeOK
  <2> SUFFICES ASSUME AsyncInv PROVE AsyncTypeOK
    OBVIOUS
  <2>1. Counts /\ Places /\ Flags BY DEF AsyncInv
  <2> QED BY <2>1, Zenon DEF Counts, Places, Flags, AsyncTypeOK
<1> QED BY <1>1, <1>2, <1>3, PTL DEF AsyncSpec

\* A signal never finds SIGIO's default action, which ends the process, nor a
\* handler without a pipe, for every number of terminals that are armed and
\* destroyed in any order.
THEOREM SignalsNeverKill == AsyncSpec => []SignalsAreHandled
<1>1. AsyncInit => ArmingInv
  BY InitAsync DEF AsyncInv
<1>2. ArmingInv /\ [AsyncNext]_asyncVars => ArmingInv'
  BY ArmingKept
<1>3. ArmingInv => SignalsAreHandled
  BY DEF ArmingInv, Ready, SignalsAreHandled
<1> QED BY <1>1, <1>2, <1>3, PTL DEF AsyncSpec

\* Where one read takes all that the kernel holds of a child's output, the host
\* never sleeps over output that no signal announces.
THEOREM HostIsWoken ==
  ASSUME PrintRoom <= ReadLimit PROVE AsyncSpec => []NoWakeupLost
<1> DEFINE Inv == AsyncInv /\ WakingInv
<1>1. AsyncInit => Inv
  BY InitAsync
<1>2. Inv /\ [AsyncNext]_asyncVars => Inv'
  BY CountsKept, PlacesKept, FlagsKept, ArmingKept, WakingKept DEF AsyncInv
<1>3. Inv => NoWakeupLost
  <2> SUFFICES ASSUME Inv, hostAt = "asleep", pipe = 0, ~io_pending, ~in_handler,
                      NEW t \in joined
               PROVE  unread[t] = 0
    BY DEF NoWakeupLost
  <2>1. unread[t] \in Nat BY AsyncAssumption DEF AsyncInv, Counts, Places
  <2> QED BY <2>1 DEF WakingInv, Noticed, Signalled
<1> QED BY <1>1, <1>2, <1>3, PTL DEF AsyncSpec
=============================================================================
