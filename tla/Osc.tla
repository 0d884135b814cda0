-------------------------------- MODULE Osc --------------------------------
(***************************************************************************)
(* What an operating system command means: the title of the window, a      *)
(* color, the clipboard.  A command is the escape buffer with its bytes    *)
(* from ] to the terminator; bytes are numbers 0 .. 255.                   *)
(***************************************************************************)
EXTENDS Integers, Sequences, FiniteSets, SequencesExt

CONSTANT TitleSize   \* VTTY_TITLE_BUF_SZ, with the byte that ends the title

ASSUME TitleAssumption == TitleSize \in Nat /\ TitleSize > 1

BEL == 7
ESC == 27
Semicolon == 59
Question == 63
Equals == 61
Backslash == 92
ST == 156    \* the C1 string terminator, and a continuation byte of UTF-8

Digit == 48 .. 57
Blank == {9, 10, 13, 32}
C0 == 1 .. 31
C1 == 128 .. 159

None == <<-1>>   \* no string, no title, no payload

LowestOf(S) == CHOOSE k \in S : \A j \in S : k <= j
HighestOf(S) == CHOOSE k \in S : \A j \in S : k >= j

\* The longest prefix of s of which every byte is in S.
Prefix(s, S) ==
  LET others == {k \in 1 .. Len(s) : s[k] \notin S}
  IN IF others = {} THEN s ELSE SubSeq(s, 1, LowestOf(others) - 1)

\* What is left of s after its first n bytes.
After(s, n) == SubSeq(s, n + 1, Len(s))

Number(digits) == FoldLeft(LAMBDA n, b : 10 * n + b - 48, 0, digits)

-----------------------------------------------------------------------------
(* The string of a command *)

\* ESC \, which ends a string in every mode
LongST(s, k) == s[k] = ESC /\ k < Len(s) /\ s[k + 1] = Backslash

\* vtty_osc_is_term
IsTerm(s, k) == s[k] \in {BEL, ST} \/ LongST(s, k)

\* Where a string ends: 0x9c ends it only in 8-bit mode.
Ends(s, k, utf8) == s[k] = BEL \/ (s[k] = ST /\ ~utf8) \/ LongST(s, k)

\* vtty_osc_read_string: what follows the first semicolon of s, without its
\* control characters and cut to the buffer.
ReadString(s, size, utf8) ==
  LET semi == {k \in 1 .. Len(s) : /\ s[k] = Semicolon
                                   /\ \A j \in 1 .. k - 1 : ~IsTerm(s, j)}
      body == After(s, LowestOf(semi))
      ends == {k \in 1 .. Len(body) : Ends(body, k, utf8)} \cup {Len(body) + 1}
      text == SelectSeq(SubSeq(body, 1, LowestOf(ends) - 1),
                        LAMBDA b : b \notin C0)
  IN IF semi = {} THEN None
     ELSE SubSeq(text, 1, LowestOf({Len(text), size - 1}))

\* The bytes a character with this first byte has.
Width(lead) ==
  IF lead >= 240 THEN 4 ELSE IF lead >= 224 THEN 3 ELSE IF lead >= 192 THEN 2
  ELSE 1

\* Fault: a title that is too long is cut where the buffer ends.
WholeBytes(t, utf8) == t

\* A title that fills the buffer, without the character it was cut in.
WholeCharacters(t, utf8) ==
  LET start == HighestOf({k \in 1 .. Len(t) : t[k] \notin 128 .. 191} \cup {1})
  IN IF utf8 /\ Len(t) = TitleSize - 1 /\ Len(t) - start + 1 < Width(t[start])
     THEN SubSeq(t, 1, start - 1) ELSE t

\* vtty_osc_set_title: the title there is after s, given the one there was.
Titled(old, s, utf8) ==
  LET t == WholeCharacters(ReadString(s, TitleSize, utf8), utf8)
  IN IF ReadString(s, TitleSize, utf8) = None \/ (old = None /\ t = <<>>)
     THEN old ELSE t

-----------------------------------------------------------------------------
(* The clipboard *)

\* vtty_b64_val; NoValue when the byte is not one of the 64.
NoValue == -1

Base64(b) ==
  IF b \in 65 .. 90 THEN b - 65
  ELSE IF b \in 97 .. 122 THEN b - 71
  ELSE IF b \in Digit THEN b + 4
  ELSE IF b = 43 THEN 62 ELSE IF b = 47 THEN 63 ELSE NoValue

Pads(q) == Cardinality({k \in 1 .. 4 : q[k] = Equals})

\* Four characters of which only the last ones are padding.
IsGroup(q) ==
  \A k \in 1 .. 4 : \/ q[k] = Equals
                    \/ /\ Base64(q[k]) # NoValue
                       /\ \A j \in 1 .. k - 1 : q[j] # Equals

\* The bytes of one group, of which padding leaves two or one.
DecodedGroup(q) ==
  LET v == [k \in 1 .. 4 |-> IF q[k] = Equals THEN 0 ELSE Base64(q[k])]
      all == <<v[1] * 4 + v[2] \div 16, (v[2] % 16) * 16 + v[3] \div 4,
               (v[3] % 4) * 64 + v[4]>>
  IN SubSeq(all, 1, IF Pads(q) = 0 THEN 3 ELSE IF Pads(q) = 1 THEN 2 ELSE 1)

\* vtty_b64_decode: up to the first group with padding, or to the end, where
\* no part of a group may be left.
Decoded(s) ==
  LET t == SelectSeq(s, LAMBDA b : b \notin Blank)
      whole == Len(t) \div 4
      group == [g \in 1 .. whole |-> SubSeq(t, 4 * g - 3, 4 * g)]
      padded == {g \in 1 .. whole : Pads(group[g]) > 0}
      last == IF padded = {} THEN whole ELSE LowestOf(padded)
  IN IF \/ \E g \in 1 .. last : ~IsGroup(group[g])
        \/ padded = {} /\ Len(t) % 4 # 0
     THEN None
     ELSE FlattenSeq([g \in 1 .. last |-> DecodedGroup(group[g])])

\* s without blanks at either end
Trimmed(s) ==
  LET ink == {k \in 1 .. Len(s) : s[k] \notin Blank}
  IN IF ink = {} THEN <<>> ELSE SubSeq(s, LowestOf(ink), HighestOf(ink))

\* The clipboard after payload s: a query is refused, none clears, and one
\* that cannot be decoded changes nothing.
Clipped(old, s) ==
  IF s = <<Question>> THEN old
  ELSE IF s = <<>> THEN None
  ELSE IF Decoded(s) = None THEN old ELSE Decoded(s)

\* Whether payload s is stored, and announced: none is, too.
IsStored(s) == s # <<Question>> /\ (s = <<>> \/ Decoded(s) # None)

\* The payload of s, what follows its second semicolon; None without one.
Payload(s) ==
  LET stop(from) == LowestOf({k \in from .. Len(s) : IsTerm(s, k)}
                               \cup {Len(s) + 1})
      semi == {k \in 2 .. stop(1) - 1 : s[k] = Semicolon}
  IN IF s = <<>> \/ s[1] # Semicolon \/ semi = {} THEN None
     ELSE Trimmed(SubSeq(s, LowestOf(semi) + 1, stop(LowestOf(semi) + 1) - 1))

-----------------------------------------------------------------------------
(* The command as a whole: vtty_interpret_xterm_osc *)

Verb(s) == Prefix(After(s, 1), Digit)

\* What follows the number.
Argument(s) == After(s, 1 + Len(Verb(s)))

IsCommand(s, n) == Verb(s) # <<>> /\ Number(Verb(s)) = n

IsTitle(s) == IsCommand(s, 0) \/ IsCommand(s, 2)

IsClipboard(s) == IsCommand(s, 52) /\ Payload(Argument(s)) # None

=============================================================================
