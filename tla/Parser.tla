------------------------------- MODULE Parser -------------------------------
(***************************************************************************)
(* What vtty_render makes of the bytes of the child: it puts characters,   *)
(* obeys control characters and collects escape sequences until they are   *)
(* whole.  Bytes arrive in chunks that end anywhere.  A reset is rendered  *)
(* as a string of sequences from inside the sequence that asked for it.    *)
(* What a sequence does to the screen is in Terminal and Paint; here it is *)
(* a call.                                                                 *)
(***************************************************************************)
EXTENDS Osc

CONSTANTS
  Kinds,      \* terminals: [utf8, rxvt, linux, mask]
  Unit(_),    \* what a child of one sends: [bytes, calls, title, clip]
  SmallSize,  \* ESEQ_BUF_SIZE
  LargeSize,  \* ESEQ_BUF_OSC_MAX
  MaxParams   \* MAX_CSI_ES_PARAMS

Bytes == 0 .. 255

ASSUME ParserAssumption ==
  /\ \A k \in Kinds : /\ {k.utf8, k.rxvt, k.linux} \subseteq BOOLEAN
                      /\ k.mask \subseteq {"title", "clipboard"}
                      /\ \A u \in Unit(k) : u.bytes \in Seq(Bytes)
  /\ SmallSize \in Nat \ {0}
  /\ LargeSize \in Nat /\ LargeSize >= 2 * SmallSize
  /\ MaxParams \in Nat \ {0}

VARIABLES
  kind,     \* the terminal
  p,        \* the state of the parser, which outlives a call of vtty_render
  frames,   \* the calls of vtty_render that run: data left, and what follows
  calls,    \* what was called for the unit under way
  pending,  \* the bytes of it that have not arrived
  unit,     \* that unit
  title,    \* vtty->title, None for NULL
  clip,     \* vtty->clipboard, None for NULL
  before    \* the title and clipboard there were before the unit

parserVars == <<kind, p, frames, calls, pending, unit, title, clip, before>>

-----------------------------------------------------------------------------
(* Bytes *)

\* RXVT_RS1, which resets a terminal.
RS1 == <<ESC, 62,
         ESC, 91, 49, 59, 51, 59, 52, 59, 53, 59, 54, 108,
         ESC, 91, 63, 55, 104,
         ESC, 91, 109,
         ESC, 91, 114,
         ESC, 91, 50, 74,
         ESC, 91, 72>>

Printable == 32 .. 126
Letter == 65 .. 90 \cup 97 .. 122

\* The control characters vtty_interpret_ctrl_char obeys, but for ESC.
Obeyed == {7, 8, 9, 10, 11, 13, 14, 15, 24}

\* What vtty_interpret_escapes_simple does at once: E M A B C D 7 8 and the
\* C1 forms of IND, NEL and RI.
Simple == {69, 77, 65, 66, 67, 68, 55, 56, 132, 133, 141}
Lowerc == 99   \* RIS

\* The handler that is chosen by the first byte of a sequence.
Handler(b) ==
  CASE b \in {93, 157} -> "osc"
    [] b \in {91, 155} -> "csi"
    [] b \in {40, 41} -> "scs"
    [] b \in {80, 144} -> "dcs"
    [] b = 35 -> "dec"
    [] OTHER -> "none"

-----------------------------------------------------------------------------
(* The state of the parser *)

Ground == [escaped |-> FALSE, osc |-> FALSE, handler |-> "none",
           esbuf |-> <<>>, cap |-> SmallSize,
           utf8 |-> FALSE, utf8_buf |-> <<>>, rs1 |-> 0]

\* vtty_escape_cancel, which leaves characters and the scanner alone
Cancel(q) == [q EXCEPT !.escaped = FALSE, !.osc = FALSE, !.handler = "none",
                       !.esbuf = <<>>, !.cap = SmallSize]

\* vtty_escape_start, which leaves the mode of commands alone.
Begin(q) == [Cancel(q) EXCEPT !.escaped = TRUE, !.osc = q.osc]

\* vtty_utf8_cancel
Decoded8(q) == [q EXCEPT !.utf8 = FALSE, !.utf8_buf = <<>>]

Small(n) == LowestOf({n, LargeSize})

\* Fault: any sequence may grow.
MayGrowAny(q) == q.cap < LargeSize

\* vtty_esbuf_grow: only the buffer of a command grows, and not for ever.
MayGrow(q) == q.osc /\ q.cap < LargeSize

Full(q) == Len(q.esbuf) >= q.cap /\ ~MayGrow(q)

\* vtty_esbuf_putc
Stored(q, b) ==
  [q EXCEPT !.esbuf = Append(@, b),
            !.cap = IF Len(q.esbuf) >= @ THEN Small(2 * @) ELSE @]

\* esc_suffix_check: the sequence is whole.  ESC never gets into a device
\* control string, so its check never holds: ESC ends it.
IsWhole(q) ==
  LET s == q.esbuf
      n == Len(s)
  IN CASE q.handler = "csi" -> s[n] \in Letter \cup {64, 96}
       [] q.handler = "scs" -> s[n] \in {48, 49, 50, 65, 66}
       [] q.handler = "dec" -> s[n] \in 51 .. 56
       [] q.handler = "dcs" -> FALSE
       [] q.handler = "osc" -> Ends(s, n, kind.utf8) \/ LongST(s, n - 1)

\* On the Linux console ESC ] R is a whole sequence.
IsPaletteReset(q) ==
  /\ kind.linux /\ q.handler = "osc"
  /\ SubSeq(q.esbuf, Len(q.esbuf) - 1, Len(q.esbuf)) = <<93, 82>>

-----------------------------------------------------------------------------
(* Control sequences: vtty_interpret_csi *)

Separator == {58, 59}
Known == {99, 98, 109, 108, 104, 72, 74, 102, 65, 66, 67, 68, 69, 70, 71, 101,
          97, 100, 96, 75, 64, 80, 76, 77, 88, 114, 115, 117, 94, 84, 116, 90,
          83, 112, 110}

\* A separator starts a parameter of 0.
NextParam(ps) == Append(ps, 0)

\* The parameters of a body, the bytes between the first and the last.  The
\* first that is no digit, separator, ? ! or [ ends them.
Params(body) ==
  IF body = <<>> THEN <<>>
  ELSE FoldLeft(LAMBDA ps, b :
                  IF b \in Digit
                  THEN [ps EXCEPT ![Len(ps)] = 10 * @ + b - 48]
                  ELSE IF b \in Separator THEN NextParam(ps) ELSE ps,
                <<0>>, Prefix(body, Digit \cup Separator \cup {33, 63, 91}))

\* The last byte of a body that is in S, or none.
LastOf(body, S) ==
  LET at == {k \in 1 .. Len(body) : body[k] \in S}
  IN IF at = {} THEN 0 ELSE body[HighestOf(at)]

\* The functions that are not the plain one with the same final byte: those
\* with an intermediate byte, with a marker, with too many parameters.
IsForeign(body, verb) ==
  LET marker == LastOf(body, 60 .. 63)
      intermediate == LastOf(body, 32 .. 47)
  IN \/ intermediate # 0 /\ ~(intermediate = 33 /\ verb = 112)
     \/ marker \notin {0, Question} /\ verb # 99
     \/ marker = Question /\ verb \notin {104, 108, 74, 75, 110, 99}
     \/ Len(Params(body)) > MaxParams
     \/ verb \notin Known

IsDec(body) ==
  \E k \in 1 .. Len(Prefix(body, Digit \cup Separator \cup {33, 63, 91})) :
    body[k] \in {33, Question}

Body(s) == SubSeq(s, 2, Len(s) - 1)

\* DECSTR, which is rendered as a reset.
IsReset(s) == /\ ~IsForeign(Body(s), s[Len(s)])
              /\ s[Len(s)] = 112 /\ IsDec(Body(s))

\* What a control sequence calls: a window hint and a DEC status report do
\* nothing, and p without a mark is taken for Z.
CsiCalls(s) ==
  LET verb == IF s[Len(s)] = 112 THEN 90 ELSE s[Len(s)]
  IN IF IsForeign(Body(s), s[Len(s)]) \/ verb = 116
        \/ (verb = 110 /\ IsDec(Body(s)))
     THEN <<>> ELSE <<<<"csi", verb, Params(Body(s)), IsDec(Body(s))>>>>

-----------------------------------------------------------------------------
(* UTF-8: vtty_utf8_decode *)

\* 0 for a character that is not one: a byte of it is no continuation.
Character(s) ==
  IF \E k \in 2 .. Len(s) : s[k] \notin 128 .. 191 THEN 0
  ELSE LET low(k) == s[k] % 64
       IN CASE Width(s[1]) = 1 -> low(1)
            [] Width(s[1]) = 2 -> 64 * (s[1] % 32) + low(2)
            [] Width(s[1]) = 3 -> 4096 * (s[1] % 16) + 64 * low(2) + low(3)
            [] OTHER -> 262144 * (s[1] % 8) + 4096 * low(2) + 64 * low(3) + low(4)

-----------------------------------------------------------------------------
(* What a byte b does to the parser, and what it calls. *)

\* interpret_csi_RS1_rxvt: how far the string has been seen.
Seen(b) ==
  IF ~kind.rxvt \/ (p.rs1 = 0 /\ b # ESC) \/ b # RS1[p.rs1 + 1]
     \/ p.rs1 + 1 = Len(RS1)
  THEN 0 ELSE p.rs1 + 1

\* The scanner has seen all of it: the standard buffer and the cursor.
Heard(b) ==
  IF kind.rxvt /\ p.rs1 + 1 = Len(RS1) /\ b = RS1[Len(RS1)]
  THEN <<<<"standard">>>> ELSE <<>>

\* The byte is done: the parser is in state q and the calls c were made.
Done(b, q, c) ==
  /\ p' = [q EXCEPT !.rs1 = Seen(b)]
  /\ calls' = calls \o (Heard(b) \o c)

NoStrings == UNCHANGED <<title, clip>>

\* NUL is ignored anywhere, by the scanner too.
SkipNul(b) == b = 0 /\ UNCHANGED <<p, calls>> /\ NoStrings

ControlCalls(b) == IF b \in Obeyed THEN <<<<"ctrl", b>>>> ELSE <<>>

\* A control character, outside a sequence or within one that is no command:
\* ESC starts a sequence and drops the one under way.
Control(b) ==
  /\ b \in C0 /\ ~(p.escaped /\ p.osc)
  /\ Done(b, IF b = ESC THEN Begin(p) ELSE p, ControlCalls(b))
  /\ NoStrings

\* Fault: characters are assembled within sequences, too.
AssemblesAlways == kind.utf8

\* Characters are assembled outside sequences only.
Assembles == kind.utf8 /\ ~p.escaped

\* The bytes of a character so far, with this one.
Assembled(b) == Append(p.utf8_buf, b)

\* Whether the byte belongs to a character of several bytes.
IsUtf8(b) == Assembles /\ (p.utf8 \/ (b > 127 /\ b \notin C1))

\* A byte of a character that is not whole yet.
AssembleMore(b) ==
  /\ b # 0 /\ b \notin C0
  /\ IsUtf8(b) /\ Len(Assembled(b)) < Width(Assembled(b)[1])
  /\ Done(b, [p EXCEPT !.utf8 = TRUE, !.utf8_buf = Assembled(b)], <<>>)
  /\ NoStrings

\* A C1 control in the form of two bytes.
IsLongC1(b) == /\ Len(Assembled(b)) = 2 /\ Width(Assembled(b)[1]) = 2
               /\ Character(Assembled(b)) \in C1

\* The last byte of one, which is put whether it is well formed or not.
AssembleLast(b) ==
  /\ b # 0 /\ b \notin C0
  /\ IsUtf8(b) /\ Len(Assembled(b)) = Width(Assembled(b)[1]) /\ ~IsLongC1(b)
  /\ Done(b, Decoded8(p), <<<<"put", Character(Assembled(b))>>>>)
  /\ NoStrings

\* A byte that is no control, in 8-bit mode, or DEL
PutByte(b) ==
  /\ b # 0 /\ ~p.escaped /\ ~IsUtf8(b)
  /\ b \notin C0 \cup C1
  /\ Done(b, p, <<<<"put", b>>>>)
  /\ NoStrings

\* The state in which the byte is one of a sequence: a C1 control of one or
\* two bytes starts it, and is its first byte.
Within == IF p.escaped THEN p ELSE Begin(Decoded8(p))

IsOfSequence(b) ==
  \/ p.escaped /\ ~(b \in C0 /\ ~p.osc)
  \/ ~p.escaped /\ IF p.utf8 THEN IsUtf8(b) /\ IsLongC1(b) ELSE b \in C1

Sequence(b) == b # 0 /\ IsOfSequence(b)

\* No room: the sequence is dropped.
Overflow(b) ==
  /\ Sequence(b) /\ Full(Within)
  /\ Done(b, Cancel(Within), <<>>)
  /\ NoStrings

\* The first byte: a sequence of one byte, or the kind of a longer one.
First(b) ==
  /\ Sequence(b) /\ ~Full(Within) /\ Within.handler = "none"
  /\ b # Lowerc
  /\ IF b \in Simple
     THEN Done(b, Cancel(Within), <<<<"esc", b>>>>)
     ELSE Done(b, IF Handler(b) = "none" THEN Cancel(Within)
                  ELSE [Stored(Within, b) EXCEPT
                          !.handler = Handler(b),
                          !.osc = @ \/ Handler(b) = "osc"], <<>>)
  /\ NoStrings

\* A later byte, and the sequence is not whole.
Collect(b) ==
  /\ Sequence(b) /\ ~Full(Within) /\ Within.handler # "none"
  /\ LET q == Stored(Within, b)
     IN /\ ~IsWhole(q)
        /\ Done(b, IF IsPaletteReset(q) THEN Cancel(q) ELSE q, <<>>)
  /\ NoStrings

\* The byte that makes it whole, with what was stored.
Whole(b) ==
  /\ Sequence(b) /\ ~Full(Within) /\ Within.handler # "none"
  /\ IsWhole(Stored(Within, b))

Text(b) == Stored(Within, b).esbuf

\* vtty_interpret_esc_scs and vtty_interpret_dec_private, of the text s
OtherCalls(handler, s) ==
  CASE handler = "scs" -> IF s[1] = 40 /\ s[2] \in {48, 66}
                          THEN <<<<"scs", s[2]>>>> ELSE <<>>
    [] handler = "dec" -> IF s[2] = 56 THEN <<<<"decaln">>>> ELSE <<>>

SequenceCalls(handler, s) ==
  IF handler = "csi" THEN CsiCalls(s) ELSE OtherCalls(handler, s)

Dispatch(b) ==
  /\ Whole(b) /\ p.handler \in {"csi", "scs", "dec"}
  /\ ~(p.handler = "csi" /\ IsReset(Text(b)))
  /\ Done(b, Cancel(p), SequenceCalls(p.handler, Text(b)))
  /\ NoStrings

\* Fault: an unchanged title is announced.
AnnouncedAlways(what, old, new) ==
  IF what \in kind.mask THEN <<<<what, new>>>> ELSE <<>>

\* A title that is the one already held is not announced.
Announced(what, old, new) ==
  IF what \in kind.mask /\ old # new THEN <<<<what, new>>>> ELSE <<>>

\* vtty_interpret_xterm_osc
Command(b) ==
  /\ Whole(b) /\ p.handler = "osc"
  /\ LET arg == Argument(Text(b))
         newTitle == IF IsTitle(Text(b)) THEN Titled(title, arg, kind.utf8)
                     ELSE title
         stores == IsClipboard(Text(b)) /\ IsStored(Payload(arg))
         newClip == IF IsClipboard(Text(b)) THEN Clipped(clip, Payload(arg))
                    ELSE clip
         color == ReadString(arg, 128, kind.utf8)
     IN /\ title' = newTitle
        /\ clip' = newClip
        /\ Done(b, Cancel(p),
                Announced("title", title, newTitle)
                  \o (IF stores /\ "clipboard" \in kind.mask
                      THEN <<<<"clipboard", newClip>>>> ELSE <<>>)
                  \o (IF IsCommand(Text(b), 4) /\ color # None
                      THEN <<<<"color", color>>>> ELSE <<>>))

\* DECSTR and RIS: what is called is a reset.
AsksReset(b) ==
  /\ \/ Whole(b) /\ p.handler = "csi" /\ IsReset(Text(b))
     \/ Sequence(b) /\ ~Full(Within) /\ Within.handler = "none" /\ b = Lowerc
  /\ Done(b, Stored(Within, b), <<>>)
  /\ NoStrings

-----------------------------------------------------------------------------
(* The loop of vtty_render: one byte of the innermost of the calls fs, which *)
(* leaves the calls gs.                                                      *)

Left(fs) == fs[Len(fs)].data
Rest(fs) == [fs EXCEPT ![Len(fs)].data = After(@, 1)]

\* A byte that leads to no other call of vtty_render.
Takes(fs, gs) ==
  /\ Left(fs) # <<>>
  /\ LET b == Left(fs)[1]
     IN SkipNul(b) \/ Control(b) \/ AssembleMore(b) \/ AssembleLast(b)
          \/ PutByte(b) \/ Overflow(b) \/ First(b) \/ Collect(b)
          \/ Dispatch(b) \/ Command(b)
  /\ gs = Rest(fs)

\* The reset is rendered before the sequence is done.
Reset(fs, gs) ==
  /\ Left(fs) # <<>>
  /\ AsksReset(Left(fs)[1])
  /\ gs = Append(Rest(fs), [data |-> RS1, ris |-> Within.handler = "none"])

\* The rendering of a reset is over: interpret_csi_RS1_xterm switches to the
\* standard buffer, and the sequence is dropped.
EndReset(fs, gs) ==
  /\ Len(fs) > 1 /\ Left(fs) = <<>>
  /\ calls' = calls \o IF fs[Len(fs)].ris THEN <<<<"standard">>>> ELSE <<>>
  /\ p' = Cancel(p)
  /\ NoStrings
  /\ gs = SubSeq(fs, 1, Len(fs) - 1)

Loop(fs, gs) == Takes(fs, gs) \/ Reset(fs, gs) \/ EndReset(fs, gs)

-----------------------------------------------------------------------------
(* vtty_render as it runs *)

Depth == Len(frames)
Data == frames[Depth].data
Running == Depth > 0 /\ Data # <<>>
Outside == UNCHANGED <<kind, pending, unit, before>>

\* Fault: the fast path is taken where the scanner is within its string.
FastAtAll ==
  /\ Running /\ ~p.escaped /\ ~p.utf8
  /\ Data[1] \in Printable

\* The fast path takes the byte: a printable one, with nothing under way.
Fast ==
  /\ Running /\ ~p.escaped /\ ~p.utf8 /\ p.rs1 = 0
  /\ Data[1] \in Printable

\* One turn of the tight loop
PutRun ==
  /\ Fast
  /\ calls' = calls \o <<<<"put", Data[1]>>>>
  /\ frames' = Rest(frames)
  /\ UNCHANGED p
  /\ NoStrings /\ Outside

\* One turn of the loop around it
Slow == Depth > 0 /\ ~Fast /\ Loop(frames, frames') /\ Outside

\* vtty_render returns to the host.
Return ==
  /\ Depth = 1 /\ Data = <<>>
  /\ frames' = <<>>
  /\ UNCHANGED <<p, calls>>
  /\ NoStrings /\ Outside

-----------------------------------------------------------------------------
(* Specification *)

Nothing == [bytes |-> <<>>, calls |-> <<>>, title |-> {}, clip |-> {}]

ParserInit ==
  /\ kind \in Kinds
  /\ p = Ground
  /\ frames = <<>> /\ calls = <<>> /\ pending = <<>>
  /\ unit = Nothing
  /\ title = None /\ clip = None
  /\ before = <<None, None>>

AtRest == frames = <<>> /\ pending = <<>>

\* The child sends something that this terminal understands.
Send ==
  /\ AtRest
  /\ \E u \in Unit(kind) :
       /\ unit' = u
       /\ pending' = u.bytes
  /\ calls' = <<>>
  /\ before' = <<title, clip>>
  /\ UNCHANGED <<kind, p, frames>>
  /\ NoStrings

\* The host renders what has arrived of it.
Render ==
  /\ frames = <<>>
  /\ \E n \in 1 .. Len(pending) :
       /\ frames' = <<[data |-> SubSeq(pending, 1, n), ris |-> FALSE]>>
       /\ pending' = After(pending, n)
  /\ UNCHANGED <<kind, p, calls, unit, before>>
  /\ NoStrings

ParserNext == PutRun \/ Slow \/ Return \/ Send \/ Render

ParserSpec == ParserInit /\ [][ParserNext]_parserVars

-----------------------------------------------------------------------------
(* Properties *)

\* The escape buffer never holds more than fits, only a command's grows, and
\* what was grown is given back when the sequence ends (vtty_esbuf_grow,
\* vtty_escape_cancel); the scanner never runs off its string, and a reset never
\* renders another one.
BufferFits ==
  /\ Len(p.esbuf) <= p.cap
  /\ p.cap \in SmallSize .. LargeSize
  /\ p.cap > SmallSize => p.osc
  /\ p.osc => p.escaped
  /\ ~p.escaped => p = Cancel(p)
  /\ Len(p.utf8_buf) <= 4
  /\ p.rs1 \in 0 .. Len(RS1) - 1
  /\ Depth <= 2

IsAbout(c, whats) == c[1] \in whats

\* The places of the calls that do not tell the host something.
Deeds == {k \in 1 .. Len(calls) : ~IsAbout(calls[k], {"title", "clipboard"})}

\* What the child sent as one calls what it stands for, once and in order,
\* however its bytes arrive, and leaves nothing behind: no byte of a sequence,
\* of its parameters or of its text is put on the screen, taken for a control,
\* or kept for the next one.  One that is a byte too long for its buffer stands
\* for no call; of a longer one the bytes after that are text, and the unit says
\* so (vtty_render.c:172-176; README, section 5).
SequencesAreWhole ==
  AtRest =>
    /\ Cardinality(Deeds) = Len(unit.calls)
    /\ \A k \in Deeds :
         unit.calls[Cardinality({j \in Deeds : j <= k})] = calls[k]
    /\ ~p.escaped /\ ~p.utf8

\* The host hears of a title once, when it changed, of every payload that is
\* stored, and of nothing else.
HeardOnce ==
  LET told == (1 .. Len(calls)) \ Deeds
      IsTold(c) == \E k \in told : told = {k} /\ calls[k] = c
  IN IF title # before[1] /\ "title" \in kind.mask THEN IsTold(<<"title", title>>)
     ELSE IF unit.clip # {} /\ "clipboard" \in kind.mask
     THEN IsTold(<<"clipboard", clip>>)
     ELSE told = {}

\* Title and clipboard are what was last sent: a title whole up to its limit,
\* a payload byte for byte; what is malformed or asks for it changes nothing;
\* and the host was told of each once.
StringsAreKept ==
  AtRest => /\ title \in (IF unit.title = {} THEN {before[1]} ELSE unit.title)
            /\ clip \in (IF unit.clip = {} THEN {before[2]} ELSE unit.clip)
            /\ HeardOnce

\* The calls of c that are about what.
Said(c, what) == {k \in 1 .. Len(c) : c[k][1] = what}

\* Who held old for it and heard c holds new.
Tells(c, what, old, new) ==
  \/ Said(c, what) = {} /\ new = old
  \/ \E k \in Said(c, what) : /\ c[k][2] = new
                              /\ \A j \in Said(c, what) : j <= k

\* No call of c tells what was known already.
IsNews(c, what, old) ==
  \A k \in Said(c, what) :
    \/ c[k][2] # old /\ \A j \in Said(c, what) : k <= j
    \/ \E j \in Said(c, what) :
         /\ j < k /\ c[j][2] # c[k][2]
         /\ \A i \in Said(c, what) : i <= j \/ k <= i

\* At every byte the host holds the title and the clipboard that the terminal
\* does, if it wants to hear of them, was never told a title it held already,
\* and never of what it did not want (vtty_osc_set_title,
\* vtty_osc_set_clipboard and the event mask).
HostKnows ==
  /\ "title" \in kind.mask => /\ Tells(calls, "title", before[1], title)
                              /\ IsNews(calls, "title", before[1])
  /\ "clipboard" \in kind.mask => Tells(calls, "clipboard", before[2], clip)
  /\ \A what \in {"title", "clipboard"} \ kind.mask : Said(calls, what) = {}
=============================================================================
