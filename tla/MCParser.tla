------------------------------ MODULE MCParser ------------------------------
(* What programs send: text, controls, every kind of sequence, each with    *)
(* the calls it stands for.  Of most sequences that are too long the last   *)
(* byte is the one that does not fit; of one the two after it are text.     *)
EXTENDS Stream

K(utf8, rxvt, linux, mask) ==
  [utf8 |-> utf8, rxvt |-> rxvt, linux |-> linux, mask |-> mask]

MCKinds == {K(TRUE, FALSE, FALSE, {"title", "clipboard"}),
            K(TRUE, TRUE, FALSE, {}),
            K(FALSE, TRUE, TRUE, {"title"})}

U(bytes, called) == [bytes |-> bytes, calls |-> called, title |-> {}, clip |-> {}]
Put(b) == <<"put", b>>
Csi(verb, ps, dec) == <<"csi", verb, ps, dec>>

Star == <<226, 156, 179>>   \* U+2733, whose second byte is 0x9c

\* What a reset calls; the scanner of rxvt hears its last byte first.
Resets(k) == <<Csi(108, <<1, 3, 4, 5, 6>>, FALSE), Csi(104, <<7>>, TRUE),
               Csi(109, <<>>, FALSE), Csi(114, <<>>, FALSE),
               Csi(74, <<2>>, FALSE)>>
             \o (IF k.rxvt THEN <<<<"standard">>>> ELSE <<>>)
             \o <<Csi(72, <<>>, FALSE)>>

Palette ==
  LET rgb == <<49, 59, 114, 103, 98, 58, 102, 47, 102, 47, 102>>
  IN U(<<27, 93, 52, 59>> \o rgb \o <<7>>, <<<<"color", rgb>>>>)

Common(k) ==
  { \* a, b, a line feed and b
    U(<<97, 98, 10, 98>>, <<Put(97), Put(98), <<"ctrl", 10>>, Put(98)>>),
    \* CSI 3 ; 7 H with NUL and BEL inside, and with a colon
    U(<<27, 91, 51, 0, 59, 7, 55, 72>>, <<<<"ctrl", 7>>, Csi(72, <<3, 7>>, FALSE)>>),
    U(<<27, 91, 52, 58, 51, 109, 97>>, <<Csi(109, <<4, 3>>, FALSE), Put(97)>>),
    \* a sequence dropped for another, a parameter too many, no room for the last byte
    U(<<27, 91, 51, 27, 91, 75>>, <<Csi(75, <<>>, FALSE)>>),
    U(<<27, 91, 59, 59, 59, 59, 59, 59, 109>>, <<>>),
    U(<<27, 91>> \o [n \in 1 .. 11 |-> 48] \o <<59>>, <<>>),
    \* ? 25 h, > 4 m, ? u, 2 $ p, 5 p, ? 6 n, 8 t
    U(<<27, 91, 63, 50, 53, 104>>, <<Csi(104, <<25>>, TRUE)>>),
    U(<<27, 91, 62, 52, 109>>, <<>>), U(<<27, 91, 63, 117>>, <<>>),
    U(<<27, 91, 50, 36, 112>>, <<>>), U(<<27, 91, 53, 112>>, <<Csi(90, <<5>>, FALSE)>>),
    U(<<27, 91, 63, 54, 110>>, <<>>), U(<<27, 91, 56, 116>>, <<>>),
    \* resets in their three forms
    U(<<27, 99>>, Resets(k) \o <<<<"standard">>>>), U(RS1, Resets(k)),
    U(<<27, 91, 33, 112, 98>>, Resets(k) \o <<Put(98)>>),
    \* ESC 7, ESC ( 0, ESC # 8, ESC =, ESC >, and a device control string
    U(<<27, 55>>, <<<<"esc", 55>>>>), U(<<27, 40, 48>>, <<<<"scs", 48>>>>),
    U(<<27, 35, 56, 97>>, <<<<"decaln">>, Put(97)>>), U(<<27, 61, 97>>, <<Put(97)>>),
    U(<<27, 62, 97>>, <<Put(97)>>),
    U(<<27, 80, 43, 113, 27, 92, 97>>, <<Put(97)>>),
    \* C1: IND and CSI m
    U(<<132>>, <<<<"esc", 132>>>>), U(<<155, 109>>, <<Csi(109, <<>>, FALSE)>>),
    \* OSC 4 with 1;rgb:f/f/f, OSC 7 and one without a number
    Palette,
    U(<<27, 93, 55, 59, 97, 27, 92>>, <<>>), U(<<27, 93, 112, 7>>, <<>>)}

Titles(k) ==
  LET T(bytes, t) == [U(bytes, <<>>) EXCEPT !.title = {t}]
  IN { \* by BEL and by ESC \, too long, none, the name of the icon
       T(<<27, 93, 48, 59, 97, 7>>, <<97>>),
       T(<<27, 93, 50, 59, 98, 99, 100, 101, 102, 103, 27, 92>>, <<98, 99, 100, 101, 102>>),
       U(<<27, 93, 50, 7>>, <<>>), U(<<27, 93, 49, 59, 97, 7>>, <<>>)}
     \cup IF k.utf8
          THEN {T(<<27, 93, 50, 59>> \o Star \o <<7>>, Star),
                T(<<27, 93, 50, 59, 97, 98, 99>> \o Star \o <<7>>, <<97, 98, 99>>)}
          ELSE {T(<<27, 93, 50, 59, 97, 156>>, <<97>>)}

Payloads(k) ==
  LET C(bytes, c) == [U(<<27, 93, 53, 50, 59, 99, 59>> \o bytes \o <<7>>, <<>>)
                        EXCEPT !.clip = c]
  IN { \* hi!, hi, h, nothing, a query, a broken group, a padded one too early
       C(<<97, 71, 107, 104>>, {<<104, 105, 33>>}), C(<<97, 71, 107, 61>>, {<<104, 105>>}),
       C(<<32, 97, 65, 61, 61, 32>>, {<<104>>}), C(<<>>, {None}),
       C(<<63>>, {}), C(<<97, 71, 107>>, {}), C(<<97, 61, 107, 104>>, {})}

\* No room even for a command: its BEL is the byte that does not fit, or two
\* come after that byte.
TooLong ==
  LET C(n) == <<27, 93, 53, 50, 59, 99, 59>> \o [k \in 1 .. n |-> 97] \o <<7>>
  IN {U(C(18), <<>>), U(C(20), <<Put(97), <<"ctrl", 7>>>>)}

Characters(k) ==
  IF k.utf8
  THEN {U(Star \o <<97>>, <<Put(10035), Put(97)>>), U(<<195, 169>>, <<Put(233)>>),
        U(<<240, 159, 152, 128>>, <<Put(128512)>>),
        U(<<194, 155, 109>>, <<Csi(109, <<>>, FALSE)>>)}
  ELSE {U(<<233, 97>>, <<Put(233), Put(97)>>)} \cup TooLong

Linux(k) == IF k.linux THEN {U(<<27, 93, 82, 97>>, <<Put(97)>>)} ELSE {}

MCUnit(k) ==
  Common(k) \cup Titles(k) \cup Payloads(k) \cup Characters(k) \cup Linux(k)
=============================================================================
