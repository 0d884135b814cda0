----------------------------- MODULE MouseProofs -----------------------------
(* Theorems about Mouse, for every number of terminals, whichever of them   *)
(* may not ask the real terminal for anything.                              *)
EXTENDS Mouse, FiniteSetTheorems, TLAPS

\* What a vtty_t says of the mouse.
Terminal ==
  [alive : BOOLEAN, mode : SUBSET Modes, driver : BOOLEAN, config : BOOLEAN,
   running : BOOLEAN, held : Button \cup {0}, last : Cell \cup {Nowhere}]

\* A terminal that was configured called mouse_driver_init before.
ConfiguredIsStarted == \A t \in Term : term[t].config => state.started

\* As long as every terminal may ask, the last thing asked for is what the
\* counts say; the counts of the others change without a word.
MotionIsWanted == ext = {} => state.motion = Wanted(state)

\* The real terminal reports motion only as it was last asked to; it may have
\* been put back to plain reports since.
AskedFor(c, s) == c.tracking \in {1002, 1003} => c.tracking = s.motion

\* One terminal's part of DriverIsWhole; one that is gone has no mode left.
WholeDriver(v) ==
  /\ v.driver <=> v.running
  /\ v.driver => v.config /\ v.mode \cap {"SGR", "VT200"} # {}
  /\ v.mode \cap Motion # {} => v.driver
  /\ v.held # 0 => v.driver
  /\ v.alive \/ v.mode = {}

DriversAreWhole == \A t \in Term : WholeDriver(term[t])

MouseInv ==
  /\ MouseTypeOK
  /\ CountsMatch
  /\ DriversAreWhole
  /\ ConfiguredIsStarted
  /\ MotionIsWanted
  /\ AskedFor(curses, state)

\* The host starts without terminals: nothing is counted or asked for.
LEMMA InitMouse == MouseInit => MouseInv
<1> SUFFICES ASSUME MouseInit PROVE MouseInv
  OBVIOUS
<1>1. \A t \in Term : term[t] = Gone
  BY DEF MouseInit
<1>2. Gone \in Terminal /\ Gone.mode = {} /\ ~Gone.driver /\ ~Gone.config
      /\ ~Gone.running /\ Gone.held = 0
  BY DEF Gone, FreshMouse, Terminal
<1>3. MouseTypeOK
  <2>1. term \in [Term -> Terminal]
    BY <1>2 DEF MouseInit
  <2>2. state \in [started : BOOLEAN, origin : Term \cup {Nobody}, refs : Int,
                   btn : Int, any : Int, motion : {0, 1002, 1003}]
    BY DEF MouseInit
  <2>3. curses \in [mask : {"off", "all", "host"}, known : BOOLEAN,
                    tracking : {0, 1000, 1002, 1003}]
    <3>1. CASE curses = [mask |-> "off", known |-> FALSE, tracking |-> 0]
      BY <3>1
    <3>2. CASE curses = [mask |-> "host", known |-> TRUE, tracking |-> 1000]
      BY <3>2
    <3> QED BY <3>1, <3>2 DEF MouseInit
  <2> QED BY <2>1, <2>2, <2>3 DEF MouseInit, MouseTypeOK, Terminal
<1>4. \A m : InMode(m) = {}
  BY <1>1, <1>2 DEF InMode
<1>5. CountsMatch
  BY <1>4, FS_EmptySet DEF MouseInit, CountsMatch
<1>6. DriversAreWhole /\ ConfiguredIsStarted
  BY <1>1, <1>2 DEF DriversAreWhole, WholeDriver, ConfiguredIsStarted
<1>7. MotionIsWanted
  BY DEF MouseInit, MotionIsWanted, Wanted
<1>8. AskedFor(curses, state)
  BY DEF MouseInit, AskedFor
<1> QED BY <1>3, <1>5, <1>6, <1>7, <1>8 DEF MouseInv

-----------------------------------------------------------------------------
(* Counting *)

\* The terminals in mode m, as f has them.
ModeUsers(f, m) == {u \in Term : m \in f[u].mode}

\* The terminals as they are when only t changes.
Changed(f, t, w) == [f EXCEPT ![t] = w]

\* The terminals in a mode, when one terminal changes.
LEMMA ModeCount ==
  ASSUME NEW f \in [Term -> Terminal], NEW t \in Term, NEW w \in Terminal, NEW m
  PROVE  /\ Cardinality(ModeUsers(f, m)) \in Nat
         /\ Cardinality(ModeUsers(Changed(f, t, w), m)) =
              Cardinality(ModeUsers(f, m)) - One(m, f[t].mode) + One(m, w.mode)
<1> DEFINE before == ModeUsers(f, m)
           after == ModeUsers(Changed(f, t, w), m)
<1>0. IsFiniteSet(before)
  BY MouseAssumption, FS_Subset DEF ModeUsers
<1>1. Cardinality(before) \in Nat
  BY <1>0, FS_CardinalityType
<1>2. /\ before \subseteq Term /\ after \subseteq Term
      /\ t \in after <=> m \in w.mode
      /\ t \in before <=> m \in f[t].mode
      /\ \A u \in Term \ {t} : u \in after <=> u \in before
  BY DEF ModeUsers, Changed
<1> HIDE DEF before, after
<1>3. CASE (m \in f[t].mode) <=> (m \in w.mode)
  <2>1. after = before
    BY <1>2, <1>3
  <2>2. Cardinality(after) = Cardinality(before)
    BY <2>1, Zenon
  <2> QED BY <1>1, <1>3, <2>2 DEF One, before, after
<1>4. CASE (m \notin f[t].mode) /\ (m \in w.mode)
  <2>1. after = before \cup {t} /\ t \notin before
    BY <1>2, <1>4
  <2>2. Cardinality(after) = Cardinality(before) + 1
    BY <1>0, <2>1, FS_AddElement
  <2> QED BY <1>1, <1>4, <2>2 DEF One, before, after
<1>5. CASE (m \in f[t].mode) /\ (m \notin w.mode)
  <2>1. after = before \ {t} /\ t \in before
    BY <1>2, <1>5
  <2>2. Cardinality(after) = Cardinality(before) - 1
    BY <1>0, <2>1, FS_RemoveElement
  <2> QED BY <1>1, <1>5, <2>2 DEF One, before, after
<1> QED BY <1>3, <1>4, <1>5

SharedState ==
  [started : BOOLEAN, origin : Term \cup {Nobody}, refs : Int,
   btn : Int, any : Int, motion : {0, 1002, 1003}]

\* In this step terminal t becomes w and the driver is told of its motion.  s
\* is the shared state before, but for what mouse_driver_init changed of it.
MotionStep(t, w, s) ==
  /\ term' = Changed(term, t, w)
  /\ ext' = ext
  /\ s \in SharedState
  /\ s.btn = state.btn /\ s.any = state.any /\ s.motion = state.motion
  /\ s.started \/ term[t].mode \cap Motion = w.mode \cap Motion
  /\ LET n == MotionState(s, t, term[t].mode, w.mode \cap Motion)
     IN state'.btn = n.btn /\ state'.any = n.any /\ state'.motion = n.motion

\* A change of the motion a terminal wants keeps the counts right and, if every
\* terminal may ask, what was asked for what they want.
LEMMA MotionKept ==
  ASSUME MouseInv, NEW t \in Term, NEW w \in Terminal, NEW s, MotionStep(t, w, s)
  PROVE  CountsMatch' /\ MotionIsWanted'
<1> DEFINE n == MotionState(s, t, term[t].mode, w.mode \cap Motion)
           c == Counted(s, term[t].mode, w.mode \cap Motion)
<1>0. MouseTypeOK /\ CountsMatch /\ MotionIsWanted
  BY DEF MouseInv
<1>1. \A u \in Term : term'[u] = IF u = t THEN w ELSE term[u]
  BY <1>0 DEF MouseTypeOK, MotionStep, Changed
<1>2. /\ state'.btn = n.btn /\ state'.any = n.any /\ state'.motion = n.motion
      /\ ext' = ext /\ s \in SharedState
      /\ s.btn = state.btn /\ s.any = state.any /\ s.motion = state.motion
      /\ s.started \/ term[t].mode \cap Motion = w.mode \cap Motion
  BY DEF MotionStep
<1>3. /\ c.btn = s.btn - One("BTN_EVENT", term[t].mode)
                       + One("BTN_EVENT", w.mode)
      /\ c.any = s.any - One("ANY_EVENT", term[t].mode)
                       + One("ANY_EVENT", w.mode)
      /\ c.motion = s.motion
  BY DEF Counted, Motion, One
<1>4. /\ Cardinality(InMode("BTN_EVENT")) \in Nat
      /\ Cardinality(InMode("ANY_EVENT")) \in Nat
      /\ Cardinality(InMode("BTN_EVENT")') = c.btn
      /\ Cardinality(InMode("ANY_EVENT")') = c.any
  <2>1. term' = Changed(term, t, w)
    BY DEF MotionStep
  <2>2. \A m : /\ Cardinality(ModeUsers(term, m)) \in Nat
               /\ Cardinality(ModeUsers(Changed(term, t, w), m)) =
                    Cardinality(ModeUsers(term, m))
                      - One(m, term[t].mode) + One(m, w.mode)
    <3>1. term \in [Term -> Terminal]
      BY <1>0 DEF MouseTypeOK, Terminal
    <3> QED BY <3>1, ModeCount
  <2>3. /\ InMode("BTN_EVENT") = ModeUsers(term, "BTN_EVENT")
        /\ InMode("ANY_EVENT") = ModeUsers(term, "ANY_EVENT")
        /\ InMode("BTN_EVENT")' = ModeUsers(Changed(term, t, w), "BTN_EVENT")
        /\ InMode("ANY_EVENT")' = ModeUsers(Changed(term, t, w), "ANY_EVENT")
    <3>1. /\ InMode("BTN_EVENT") = ModeUsers(term, "BTN_EVENT")
          /\ InMode("ANY_EVENT") = ModeUsers(term, "ANY_EVENT")
      BY DEF InMode, ModeUsers
    <3>2. /\ InMode("BTN_EVENT")' = ModeUsers(term', "BTN_EVENT")
          /\ InMode("ANY_EVENT")' = ModeUsers(term', "ANY_EVENT")
      BY DEF InMode, ModeUsers
    <3> QED BY <2>1, <3>1, <3>2
  <2>4. /\ Cardinality(InMode("BTN_EVENT")) \in Nat
        /\ Cardinality(InMode("BTN_EVENT")') = Cardinality(InMode("BTN_EVENT"))
             - One("BTN_EVENT", term[t].mode) + One("BTN_EVENT", w.mode)
        /\ Cardinality(InMode("ANY_EVENT")) \in Nat
        /\ Cardinality(InMode("ANY_EVENT")') = Cardinality(InMode("ANY_EVENT"))
             - One("ANY_EVENT", term[t].mode) + One("ANY_EVENT", w.mode)
    BY <2>2, <2>3, Zenon
  <2> QED BY <1>0, <1>2, <1>3, <2>4 DEF CountsMatch
<1>5. CASE term[t].mode \cap Motion = w.mode \cap Motion
  <2>1. n = s
    BY <1>5 DEF MotionState
  <2>2. ("BTN_EVENT" \in term[t].mode) = ("BTN_EVENT" \in w.mode)
        /\ ("ANY_EVENT" \in term[t].mode) = ("ANY_EVENT" \in w.mode)
    BY <1>5 DEF Motion
  <2>3. InMode("BTN_EVENT")' = InMode("BTN_EVENT")
        /\ InMode("ANY_EVENT")' = InMode("ANY_EVENT")
    BY <1>1, <2>2 DEF InMode
  <2>4. CountsMatch'
    BY <1>0, <1>2, <2>1, <2>3 DEF CountsMatch
  <2>5. MotionIsWanted'
    BY <1>0, <1>2, <2>1 DEF MotionIsWanted, Wanted
  <2> QED BY <2>4, <2>5
<1>6. CASE term[t].mode \cap Motion # w.mode \cap Motion /\ t \in ext
  <2>1. n = c
    BY <1>2, <1>6 DEF MotionState
  <2>2. CountsMatch'
    BY <1>2, <1>4, <2>1 DEF CountsMatch
  <2>3. MotionIsWanted'
    BY <1>2, <1>6 DEF MotionIsWanted
  <2> QED BY <2>2, <2>3
<1>7. CASE term[t].mode \cap Motion # w.mode \cap Motion /\ t \notin ext
  <2>1. n = [c EXCEPT !.motion = Wanted(c)]
    BY <1>2, <1>7 DEF MotionState
  <2>2. n = [s EXCEPT !.btn = c.btn, !.any = c.any, !.motion = Wanted(c)]
    BY <1>2, <1>3, <2>1 DEF Counted, SharedState
  <2> HIDE DEF c, n
  <2>3. n.btn = c.btn /\ n.any = c.any /\ n.motion = Wanted(c)
    BY <1>2, <2>2 DEF SharedState
  <2>4. CountsMatch'
    BY <1>2, <1>4, <2>3 DEF CountsMatch
  <2>5. MotionIsWanted'
    BY <1>2, <2>3 DEF MotionIsWanted, Wanted
  <2> QED BY <2>4, <2>5
<1> QED BY <1>5, <1>6, <1>7

-----------------------------------------------------------------------------
(* Events *)

\* What an event changes of a terminal: the button held and the cell last
\* reported, and only of one whose driver runs.
LEMMA EventKeepsModes ==
  ASSUME NEW v \in Terminal, NEW e \in Event
  PROVE  /\ After(v, e) \in Terminal
         /\ After(v, e).mode = v.mode /\ After(v, e).driver = v.driver
         /\ After(v, e).config = v.config /\ After(v, e).running = v.running
         /\ After(v, e).alive = v.alive
         /\ ~v.running => After(v, e).held = v.held
<1> DEFINE SameBut(w) == \E h \in Button \cup {0}, c \in Cell \cup {Nowhere} :
                           w = [v EXCEPT !.held = h, !.last = c]
<1>0. SameBut(v) /\ v.held \in Button \cup {0} /\ v.last \in Cell \cup {Nowhere}
      /\ e.cell \in Cell \cup {Nowhere}
  <2>1. v = [v EXCEPT !.held = v.held, !.last = v.last]
    BY DEF Terminal
  <2>2. v.held \in Button \cup {0} /\ v.last \in Cell \cup {Nowhere}
    BY DEF Terminal
  <2> QED BY <2>1, <2>2 DEF Event
<1>1. SameBut(Decoded(v, e))
  <2>1. CASE e.cell = Nowhere
    BY <1>0, <2>1 DEF Decoded
  <2>2. CASE e.cell # Nowhere /\ e.kind = "press"
    <3>1. Decoded(v, e) = [v EXCEPT !.held = e.button, !.last = e.cell]
      BY <2>2 DEF Decoded
    <3>2. e.button \in Button
      BY <2>2 DEF Event
    <3> QED BY <1>0, <3>1, <3>2
  <2>3. CASE e.cell # Nowhere /\ e.kind = "release"
    <3> DEFINE h == IF v.held = e.button THEN 0 ELSE v.held
    <3>1. Decoded(v, e) = [v EXCEPT !.held = h]
      BY <2>3 DEF Decoded, Terminal
    <3>2. [v EXCEPT !.held = h] = [v EXCEPT !.held = h, !.last = v.last]
      BY DEF Terminal
    <3> QED BY <1>0, <3>1, <3>2
  <2>4. CASE e.cell # Nowhere /\ e.kind = "wheel"
    BY <1>0, <2>4 DEF Decoded
  <2>5. CASE e.cell # Nowhere /\ e.kind \in {"move", "hover"}
    <3> DEFINE h == IF e.kind = "move" THEN e.button ELSE v.held
               heard == v.mode \cap Motion # {} /\ (h # 0 \/ "ANY_EVENT" \in v.mode)
               c == IF heard THEN e.cell ELSE v.last
    <3>1. Decoded(v, e) = [v EXCEPT !.held = h, !.last = c]
      BY <2>5 DEF Decoded, Terminal
    <3>2. h \in Button \cup {0}
      BY <1>0, <2>5 DEF Event
    <3> QED BY <1>0, <3>1, <3>2
  <2> QED BY <2>1, <2>2, <2>3, <2>4, <2>5 DEF Event
<1>2. SameBut(After(v, e))
  BY <1>0, <1>1 DEF After
<1>3. PICK h \in Button \cup {0}, c \in Cell \cup {Nowhere} :
        After(v, e) = [v EXCEPT !.held = h, !.last = c]
  BY <1>2
<1>4. ~v.running => After(v, e) = v
  BY DEF After
<1> QED BY <1>3, <1>4 DEF Terminal

-----------------------------------------------------------------------------
(* The steps *)

Curses ==
  [mask : {"off", "all", "host"}, known : BOOLEAN,
   tracking : {0, 1000, 1002, 1003}]

\* ncurses and the real terminal stay in their ranges, whoever asks.
LEMMA MaskedType ==
  ASSUME NEW c \in Curses, NEW m \in {"off", "all", "host"}
  PROVE  Masked(c, m) \in Curses
<1>1. CASE m = "off" /\ ~c.known
  BY <1>1 DEF Masked
<1>2. CASE ~(m = "off" /\ ~c.known)
  <2> DEFINE k == IF m = "off" THEN 0 ELSE 1000
  <2>1. Masked(c, m) = [mask |-> m, known |-> TRUE, tracking |-> k]
    BY <1>2 DEF Masked
  <2>2. k \in {0, 1000}
    OBVIOUS
  <2> HIDE DEF k
  <2> QED BY <2>1, <2>2 DEF Curses
<1> QED BY <1>1, <1>2

\* Counting touches nothing but the counts ...
LEMMA CountedType ==
  ASSUME NEW s \in SharedState, NEW old, NEW new
  PROVE  /\ Counted(s, old, new) \in SharedState
         /\ Counted(s, old, new).started = s.started
         /\ Counted(s, old, new).motion = s.motion
         /\ Counted(s, old, new).origin = s.origin
<1> DEFINE b == s.btn - One("BTN_EVENT", old) + One("BTN_EVENT", new)
           a == s.any - One("ANY_EVENT", old) + One("ANY_EVENT", new)
<1>1. b \in Int /\ a \in Int
  BY DEF One, SharedState
<1>2. Counted(s, old, new) = [s EXCEPT !.btn = b, !.any = a]
  BY DEF Counted, SharedState
<1> HIDE DEF a, b
<1> DEFINE r == [s EXCEPT !.btn = b]
<1>3. /\ r \in SharedState /\ r.started = s.started
      /\ r.motion = s.motion /\ r.origin = s.origin
  BY <1>1 DEF SharedState
<1>4. Counted(s, old, new) = [r EXCEPT !.any = a]
  BY <1>2 DEF SharedState
<1> HIDE DEF r
<1> QED BY <1>1, <1>3, <1>4 DEF SharedState

\* ... whatever motion is asked for ...
LEMMA MotionType ==
  ASSUME NEW s \in SharedState, NEW c \in Curses, NEW t, NEW old, NEW new
  PROVE  /\ MotionState(s, t, old, new) \in SharedState
         /\ MotionState(s, t, old, new).started = s.started
         /\ MotionCurses(s, c, t, old, new) \in Curses
<1>2. Counted(s, old, new) \in SharedState
      /\ Counted(s, old, new).started = s.started
  BY CountedType
<1>3. \A n : Wanted(n) \in {0, 1002, 1003}
  BY DEF Wanted
<1>4. /\ MotionState(s, t, old, new) \in SharedState
      /\ MotionState(s, t, old, new).started = s.started
  <2> DEFINE n == Counted(s, old, new)
  <2>1. n \in SharedState /\ n.started = s.started /\ Wanted(n) \in {0, 1002, 1003}
    BY <1>2, <1>3
  <2> HIDE DEF n
  <2>2. /\ [n EXCEPT !.motion = Wanted(n)] \in SharedState
        /\ [n EXCEPT !.motion = Wanted(n)].started = s.started
    BY <2>1 DEF SharedState
  <2> DEFINE r == [n EXCEPT !.motion = Wanted(n)]
  <2>3. \/ MotionState(s, t, old, new) = s
        \/ MotionState(s, t, old, new) = n
        \/ MotionState(s, t, old, new) = r
    BY Zenon DEF MotionState, n
  <2> HIDE DEF r
  <2>4. r \in SharedState /\ r.started = s.started
    BY <2>2 DEF r
  <2> QED BY <2>1, <2>3, <2>4
<1>5. MotionCurses(s, c, t, old, new) \in Curses
  <2> DEFINE n == Counted(s, old, new)
             k == IF Wanted(n) = 0 /\ c.known THEN 1000 ELSE Wanted(n)
  <2>1. k \in {0, 1000, 1002, 1003}
    BY <1>3
  <2> HIDE DEF k
  <2>2. [c EXCEPT !.tracking = k] \in Curses
    BY <2>1 DEF Curses
  <2>3. MotionCurses(s, c, t, old, new) \in {c, [c EXCEPT !.tracking = k]}
    BY DEF MotionCurses, SyncTerminal, k
  <2> QED BY <2>2, <2>3
<1> QED BY <1>4, <1>5

\* ... and what an event leaves.
LEMMA CursesAfterType ==
  ASSUME MouseTypeOK, NEW t \in Term
  PROVE  CursesAfter(t) \in Curses
<1>1. curses \in Curses /\ curses.mask \in {"off", "all", "host"}
  BY DEF MouseTypeOK, Curses
<1>2. Saved(t) \in Curses
  BY <1>1, MaskedType DEF Saved
<1>3. Restored(t) \in Curses
  BY <1>1, <1>2, MaskedType DEF Restored
<1> QED BY <1>1, <1>2, <1>3 DEF CursesAfter

\* ncurses never asks for motion.
LEMMA MaskedAsks ==
  ASSUME NEW c \in Curses, NEW m, NEW s, AskedFor(c, s)
  PROVE  AskedFor(Masked(c, m), s)
BY DEF Masked, AskedFor, Curses

\* mouse_driver_sync_host asks for what it notes down.
LEMMA MotionAsks ==
  ASSUME NEW s \in SharedState, NEW c \in Curses, NEW t, NEW old, NEW new,
         AskedFor(c, s)
  PROVE  AskedFor(MotionCurses(s, c, t, old, new), MotionState(s, t, old, new))
<1> DEFINE n == Counted(s, old, new)
<1>1. n.motion = s.motion /\ n \in SharedState
  BY CountedType
<1>2. CASE ~s.started \/ old \cap Motion = new
  BY <1>2 DEF MotionState, MotionCurses
<1>3. CASE ~(~s.started \/ old \cap Motion = new) /\ t \in ext
  <2>1. MotionState(s, t, old, new) = n /\ MotionCurses(s, c, t, old, new) = c
    BY <1>3 DEF MotionState, MotionCurses
  <2> QED BY <1>1, <2>1 DEF AskedFor
<1>4. CASE ~(~s.started \/ old \cap Motion = new) /\ t \notin ext
  <2>1. /\ MotionState(s, t, old, new) = [n EXCEPT !.motion = Wanted(n)]
        /\ MotionCurses(s, c, t, old, new) = SyncTerminal(c, n)
    BY <1>4 DEF MotionState, MotionCurses
  <2> HIDE DEF n
  <2>2. Wanted(n) \in {0, 1002, 1003}
    BY DEF Wanted
  <2>3. [n EXCEPT !.motion = Wanted(n)].motion = Wanted(n)
    BY <1>1 DEF SharedState
  <2>4. CASE Wanted(n) = n.motion
    BY <1>1, <2>1, <2>3, <2>4 DEF SyncTerminal, AskedFor
  <2>5. CASE Wanted(n) # n.motion
    <3> DEFINE k == IF Wanted(n) = 0 /\ c.known THEN 1000 ELSE Wanted(n)
    <3>1. SyncTerminal(c, n) = [c EXCEPT !.tracking = k]
      BY <2>5 DEF SyncTerminal
    <3>2. k \in {0, 1000} \/ k = Wanted(n)
      BY <2>2
    <3> HIDE DEF k
    <3>3. SyncTerminal(c, n).tracking = k
      BY <3>1 DEF Curses
    <3> QED BY <2>1, <2>3, <3>2, <3>3 DEF AskedFor
  <2> QED BY <2>4, <2>5
<1> QED BY <1>2, <1>3, <1>4

\* An event puts plain reports back at most.
LEMMA CursesAfterAsks ==
  ASSUME MouseTypeOK, AskedFor(curses, state), NEW t \in Term
  PROVE  AskedFor(CursesAfter(t), state)
<1>1. curses \in Curses
  BY DEF MouseTypeOK, Curses
<1>2. Saved(t) \in Curses /\ AskedFor(Saved(t), state)
  BY <1>1, MaskedType, MaskedAsks DEF Saved
<1>3. AskedFor(Restored(t), state)
  BY <1>2, MaskedAsks DEF Restored
<1> QED BY <1>2, <1>3 DEF CursesAfter

\* A step in which one terminal changes keeps the invariant if it leaves that
\* terminal's driver whole and what it configured started.
LEMMA StepKeepsInv ==
  ASSUME MouseInv, NEW t \in Term, NEW w \in Terminal, NEW s,
         MotionStep(t, w, s), WholeDriver(w),
         state' \in SharedState, curses' \in Curses,
         AskedFor(curses, state)',
         w.config \/ state.started => state'.started
  PROVE  MouseInv'
<1>0. MouseTypeOK /\ DriversAreWhole /\ ConfiguredIsStarted
  BY DEF MouseInv
<1>1. /\ term \in [Term -> Terminal] /\ term' \in [Term -> Terminal]
      /\ \A u \in Term : term'[u] = IF u = t THEN w ELSE term[u]
      /\ ext' = ext
  BY <1>0 DEF MouseTypeOK, Terminal, MotionStep, Changed
<1>2. MouseTypeOK'
  BY <1>0, <1>1 DEF MouseTypeOK, Terminal, SharedState, Curses
<1>3. DriversAreWhole'
  BY <1>0, <1>1 DEF DriversAreWhole
<1>4. ConfiguredIsStarted'
  BY <1>0, <1>1 DEF ConfiguredIsStarted
<1>5. CountsMatch' /\ MotionIsWanted'
  BY MotionKept
<1> QED BY <1>2, <1>3, <1>4, <1>5 DEF MouseInv

\* mouse_driver_init starts and counts, and settles once whose the mouse is.
LEMMA InitType ==
  ASSUME state \in SharedState, NEW t \in Term
  PROVE  /\ InitState(t) \in SharedState /\ InitState(t).started
         /\ InitState(t).btn = state.btn /\ InitState(t).any = state.any
         /\ InitState(t).motion = state.motion
         /\ InitState(t).origin = IF state.started THEN state.origin
                                  ELSE IF Claims(t) THEN t ELSE Nobody
<1> DEFINE s == InitState(t)
<1> DEFINE o == IF state.started THEN state.origin
                ELSE IF Claims(t) THEN t ELSE Nobody
<1>1. o \in Term \cup {Nobody}
  BY DEF SharedState
<1>2. s = [state EXCEPT !.started = TRUE, !.origin = o, !.refs = state.refs + 1]
  BY DEF InitState, SharedState
<1> HIDE DEF o
<1> DEFINE a == [state EXCEPT !.started = TRUE]
           b == [a EXCEPT !.origin = o]
<1>3. a \in SharedState /\ a.started /\ a.btn = state.btn
      /\ a.any = state.any /\ a.motion = state.motion /\ a.refs = state.refs
  <2>1. ASSUME NEW x \in BOOLEAN PROVE [state EXCEPT !.started = x] \in SharedState
    BY DEF SharedState
  <2>2. a \in SharedState
    BY <2>1
  <2> QED BY <2>2 DEF SharedState
<1> HIDE DEF a
<1>4. b \in SharedState /\ b.started /\ b.btn = state.btn /\ b.origin = o
      /\ b.any = state.any /\ b.motion = state.motion /\ b.refs = state.refs
  BY <1>1, <1>3 DEF SharedState
<1>5. s = [b EXCEPT !.refs = state.refs + 1]
  BY <1>2 DEF a, SharedState
<1> HIDE DEF b
<1>6. /\ s \in SharedState /\ s.started /\ s.btn = state.btn /\ s.any = state.any
      /\ s.motion = state.motion /\ s.origin = o
  <2> HIDE DEF s
  <2> QED BY <1>4, <1>5 DEF SharedState
<1> QED BY <1>6 DEF o

\* DECSET of any of the mouse modes that install the driver.
LEMMA InstallKeepsInv ==
  ASSUME MouseInv, NEW t \in Term, NEW flag \in {"VT200", "SGR"},
         NEW new \in SUBSET Motion, Install(t, flag, new)
  PROVE  MouseInv'
<1> DEFINE v == term[t]
           old == term[t].mode
           s == InitState(t)
           w == Installed(v, flag, new)
<1>0. /\ MouseTypeOK /\ v \in Terminal /\ old \in SUBSET Modes
      /\ state \in SharedState /\ curses \in Curses
  BY DEF MouseInv, MouseTypeOK, Terminal, SharedState, Curses
<1>1. /\ term' = [term EXCEPT ![t] = w]
      /\ state' = MotionState(s, t, old, new)
      /\ curses' = MotionCurses(s, InitCurses(t), t, old, new)
      /\ ext' = ext
  <2>1. term' = [term EXCEPT ![t] = w]
    BY DEF Install
  <2>2. state' = MotionState(s, t, old, new)
    BY DEF Install
  <2>3. curses' = MotionCurses(s, InitCurses(t), t, old, new)
    BY DEF Install
  <2> QED BY <2>1, <2>2, <2>3 DEF Install
<1>2. /\ w.mode = (old \ Motion) \cup {flag} \cup new
      /\ w.driver /\ w.config /\ w.running /\ w.alive = term[t].alive
      /\ w.mode \in SUBSET Modes
  BY <1>0 DEF Installed, Terminal, Modes, Motion
<1>3. w \in Terminal
  BY <1>0, <1>2 DEF Installed, Terminal
<1>4. /\ s \in SharedState /\ s.started
      /\ s.btn = state.btn /\ s.any = state.any /\ s.motion = state.motion
  BY <1>0, InitType
<1>5. w.mode \cap Motion = new /\ w.mode \cap {"SGR", "VT200"} # {}
  BY <1>2 DEF Motion
<1>6. InitCurses(t) \in Curses /\ AskedFor(InitCurses(t), s)
  <2>1. AskedFor(curses, s)
    BY <1>4 DEF MouseInv, AskedFor
  <2> HIDE DEF s
  <2> QED BY <1>0, <2>1, MaskedType, MaskedAsks DEF InitCurses
<1>7. WholeDriver(w)
  BY <1>2, <1>5 DEF WholeDriver, Install
<1> HIDE DEF w, s
<1>8. state' \in SharedState /\ state'.started /\ curses' \in Curses
  BY <1>1, <1>4, <1>6, MotionType
<1>9. MotionStep(t, w, s)
  BY <1>1, <1>4, <1>5 DEF MotionStep, Changed
<1>10. AskedFor(curses', state')
  BY <1>1, <1>4, <1>6, MotionAsks
<1> QED BY <1>3, <1>7, <1>8, <1>9, <1>10, StepKeepsInv DEF AskedFor

\* DECRST of any of the mouse modes.
LEMMA StopKeepsInv ==
  ASSUME MouseInv, NEW t \in Term, Stop(t)
  PROVE  MouseInv'
<1> DEFINE w == Stopped(term[t])
<1>0. /\ MouseTypeOK /\ ConfiguredIsStarted /\ term[t] \in Terminal
      /\ state \in SharedState /\ curses \in Curses /\ AskedFor(curses, state)
  BY DEF MouseInv, MouseTypeOK, Terminal, SharedState, Curses
<1>1. /\ w.mode = {} /\ ~w.driver /\ ~w.running /\ w.held = 0
      /\ w.config = term[t].config /\ w \in Terminal
  BY <1>0 DEF Stopped, Terminal
<1>2. WholeDriver(w)
  BY <1>1 DEF WholeDriver
<1>3. w.mode \cap Motion = {}
  BY <1>1
<1>4. state.started
  BY <1>0 DEF ConfiguredIsStarted, Stop
<1>5. /\ term' = [term EXCEPT ![t] = w] /\ ext' = ext
      /\ state' = MotionState(state, t, term[t].mode, {})
      /\ curses' = MotionCurses(state, curses, t, term[t].mode, {})
  BY DEF Stop
<1> HIDE DEF w
<1>6. state' \in SharedState /\ state'.started /\ curses' \in Curses
  BY <1>0, <1>4, <1>5, MotionType
<1>7. MotionStep(t, w, state)
  BY <1>0, <1>3, <1>4, <1>5 DEF MotionStep, Changed
<1>8. AskedFor(curses', state')
  BY <1>0, <1>5, MotionAsks
<1> QED BY <1>1, <1>2, <1>6, <1>7, <1>8, StepKeepsInv DEF AskedFor

\* A step that leaves the shared state, the modes and the drivers alone.
LEMMA QuietKeepsInv ==
  ASSUME MouseInv, NEW t \in Term, NEW w \in Terminal, WholeDriver(w),
         w.mode \cap Motion = term[t].mode \cap Motion,
         w.config => state.started,
         term' = [term EXCEPT ![t] = w], UNCHANGED <<state, ext>>,
         curses' \in Curses, AskedFor(curses', state)
  PROVE  MouseInv'
<1>0. state \in SharedState
  BY DEF MouseInv, MouseTypeOK, SharedState
<1>1. MotionState(state, t, term[t].mode, w.mode \cap Motion) = state
  BY DEF MotionState
<1>2. MotionStep(t, w, state)
  BY <1>0, <1>1 DEF MotionStep, Changed
<1>3. AskedFor(curses', state')
  OBVIOUS
<1> QED BY <1>0, <1>2, <1>3, StepKeepsInv DEF AskedFor

\* The end of a terminal, whether it ever used the mouse or not.
LEMMA DestroyKeepsInv ==
  ASSUME MouseInv, NEW t \in Term, Destroy(t)
  PROVE  MouseInv'
<1> DEFINE n == MotionState(state, t, term[t].mode, {})
<1>0. /\ MouseTypeOK /\ ConfiguredIsStarted /\ WholeDriver(term[t]) /\ term[t] \in Terminal
      /\ state \in SharedState /\ curses \in Curses /\ AskedFor(curses, state)
  BY DEF MouseInv, MouseTypeOK, DriversAreWhole, Terminal, SharedState, Curses
<1>1. /\ Gone.mode = {} /\ ~Gone.driver /\ ~Gone.running /\ Gone.held = 0
      /\ ~Gone.config /\ Gone \in Terminal
  BY DEF Gone, FreshMouse, Terminal
<1>2. WholeDriver(Gone) /\ Gone.mode \cap Motion = {}
  BY <1>1 DEF WholeDriver
<1>3. state.started \/ term[t].mode \cap Motion = {}
  BY <1>0 DEF ConfiguredIsStarted, WholeDriver
<1>4. Freed(t) = n /\ n \in SharedState /\ n.started = state.started
  <2>1. ~term[t].config => n = state
    BY <1>0 DEF MotionState, WholeDriver
  <2>2. n \in SharedState /\ n.started = state.started
    BY <1>0, MotionType
  <2> QED BY <2>1, <2>2 DEF Freed
<1>5. FreedCurses(t) \in Curses /\ AskedFor(FreedCurses(t), Freed(t))
  BY <1>0, MotionType, MotionAsks DEF FreedCurses, Freed
<1>6. /\ term' = [term EXCEPT ![t] = Gone] /\ ext' = ext
      /\ state' = [Freed(t) EXCEPT !.refs = IF state.started THEN @ - 1 ELSE @]
  BY DEF Destroy
<1>7. curses' \in Curses /\ AskedFor(curses', Freed(t))
  BY <1>0, <1>5, MaskedType, MaskedAsks DEF Destroy
<1> HIDE DEF n
<1>8. PICK r \in Int : state' = [n EXCEPT !.refs = r]
  <2>1. n.refs \in Int
    BY <1>4 DEF SharedState
  <2> DEFINE r == IF state.started THEN n.refs - 1 ELSE n.refs
  <2>2. r \in Int /\ state' = [n EXCEPT !.refs = r]
    BY <1>4, <1>6, <2>1
  <2> HIDE DEF r
  <2> QED BY <2>2
<1>9. /\ state' \in SharedState /\ state'.started = state.started
      /\ state'.btn = n.btn /\ state'.any = n.any /\ state'.motion = n.motion
  <2>1. state' \in SharedState
    BY <1>4, <1>8 DEF SharedState
  <2> QED BY <1>4, <1>8, <2>1 DEF SharedState
<1>10. MotionStep(t, Gone, state)
  BY <1>0, <1>2, <1>3, <1>6, <1>9 DEF MotionStep, Changed, n
<1>11. AskedFor(curses', state')
  BY <1>4, <1>7, <1>9 DEF AskedFor
<1> QED BY <1>1, <1>2, <1>7, <1>9, <1>10, <1>11, StepKeepsInv DEF AskedFor

\* Every step keeps the invariant.
LEMMA NextKeepsMouse == MouseInv /\ [MouseNext]_mouseVars => MouseInv'
<1> SUFFICES ASSUME MouseInv, [MouseNext]_mouseVars PROVE MouseInv'
  OBVIOUS
<1>0. /\ MouseTypeOK /\ ConfiguredIsStarted /\ curses \in Curses /\ AskedFor(curses, state)
      /\ \A t \in Term : term[t] \in Terminal /\ WholeDriver(term[t])
  BY DEF MouseInv, MouseTypeOK, Terminal, Curses, DriversAreWhole
<1>1. ASSUME NEW t \in Term, Create(t) PROVE MouseInv'
  <2>1. /\ FreshMouse.mode = {} /\ ~FreshMouse.driver
        /\ ~FreshMouse.running /\ FreshMouse.held = 0
        /\ ~FreshMouse.config /\ FreshMouse \in Terminal /\ FreshMouse.alive
    BY DEF FreshMouse, Terminal
  <2>2. WholeDriver(FreshMouse)
    BY <2>1 DEF WholeDriver
  <2>3. FreshMouse.mode \cap Motion = term[t].mode \cap Motion
    BY <1>0, <1>1, <2>1 DEF Create, WholeDriver
  <2> QED BY <1>0, <1>1, <2>1, <2>2, <2>3, QuietKeepsInv DEF Create
<1>2. ASSUME NEW t \in Term, SetReporting(t) \/ SetSGR(t) PROVE MouseInv'
  BY <1>2, InstallKeepsInv DEF SetReporting, SetSGR
<1>3. ASSUME NEW t \in Term, SetMotion(t) PROVE MouseInv'
  BY <1>3, InstallKeepsInv DEF SetMotion
<1>4. ASSUME NEW t \in Term, SetAltScroll(t) \/ ResetAltScroll(t) PROVE MouseInv'
  <2>1. PICK m \in SUBSET Modes :
          /\ m \in {term[t].mode \cup {"ALTSCROLL"}, term[t].mode \ {"ALTSCROLL"}}
          /\ term' = [term EXCEPT ![t].mode = m]
    <3>1. term[t].mode \in SUBSET Modes
      BY <1>0 DEF Terminal
    <3> QED BY <1>4, <3>1 DEF SetAltScroll, ResetAltScroll, Modes
  <2> DEFINE w == [term[t] EXCEPT !.mode = m]
  <2>2. w.mode = m /\ m \cap Motion = term[t].mode \cap Motion
        /\ m \cap {"SGR", "VT200"} = term[t].mode \cap {"SGR", "VT200"}
    BY <1>0, <2>1 DEF Terminal, Motion
  <2>3. w \in Terminal /\ term[t].alive
        /\ w.driver = term[t].driver /\ w.config = term[t].config
        /\ w.running = term[t].running /\ w.held = term[t].held
        /\ w.alive = term[t].alive
    BY <1>0, <1>4 DEF Terminal, SetAltScroll, ResetAltScroll
  <2>4. WholeDriver(w)
    BY <1>0, <2>2, <2>3 DEF WholeDriver
  <2>5. term' = [term EXCEPT ![t] = w] /\ UNCHANGED <<state, curses, ext>>
    BY <1>4, <2>1 DEF SetAltScroll, ResetAltScroll
  <2>6. w.config => state.started
    BY <1>0, <2>3 DEF ConfiguredIsStarted
  <2> HIDE DEF w
  <2> QED BY <1>0, <2>2, <2>3, <2>4, <2>5, <2>6, QuietKeepsInv
<1>5. ASSUME NEW t \in Term, NEW w \in Terminal, term[t].alive,
             w.mode = term[t].mode, w.driver = term[t].driver,
             w.config = term[t].config, w.running = term[t].running,
             w.alive = term[t].alive,
             ~term[t].running => w.held = term[t].held,
             term' = [term EXCEPT ![t] = w], UNCHANGED <<state, ext>>,
             curses' = CursesAfter(t)
      PROVE  MouseInv'
  <2>1. WholeDriver(w)
    BY <1>0, <1>5 DEF WholeDriver
  <2>2. curses' \in Curses /\ AskedFor(curses', state)
    BY <1>0, <1>5, CursesAfterType, CursesAfterAsks
  <2>3. w.config => state.started
    BY <1>0, <1>5 DEF ConfiguredIsStarted
  <2> QED BY <1>5, <2>1, <2>2, <2>3, QuietKeepsInv
<1>6. ASSUME NEW t \in Term, NEW e \in Event, Handle(t, e) PROVE MouseInv'
  <2> DEFINE w == After(term[t], e)
  <2>1. term' = [term EXCEPT ![t] = w] /\ UNCHANGED <<state, ext>>
        /\ curses' = CursesAfter(t) /\ term[t].alive
    BY <1>6 DEF Handle
  <2>2. /\ w \in Terminal
        /\ w.mode = term[t].mode /\ w.driver = term[t].driver
        /\ w.config = term[t].config /\ w.running = term[t].running
        /\ w.alive = term[t].alive
        /\ ~term[t].running => w.held = term[t].held
    BY <1>0, EventKeepsModes
  <2> HIDE DEF w
  <2> QED BY <1>5, <2>1, <2>2
<1>7. ASSUME NEW t \in Term, NEW b \in Button, NEW c \in Cell \cup {Nowhere},
             Click(t, b, c)
      PROVE  MouseInv'
  <2> DEFINE press == [kind |-> "press", button |-> b, cell |-> c]
             release == [kind |-> "release", button |-> b, cell |-> c]
             v == After(term[t], press)
             w == After(v, release)
  <2>1. term' = [term EXCEPT ![t] = w] /\ UNCHANGED <<state, ext>>
        /\ curses' = CursesAfter(t) /\ term[t].alive
    BY <1>7 DEF Click
  <2>2. press \in Event /\ release \in Event
    BY DEF Event
  <2> HIDE DEF press, release
  <2>3. /\ v \in Terminal
        /\ v.mode = term[t].mode /\ v.driver = term[t].driver
        /\ v.config = term[t].config /\ v.running = term[t].running
        /\ v.alive = term[t].alive
        /\ ~term[t].running => v.held = term[t].held
    BY <1>0, <2>2, EventKeepsModes
  <2> HIDE DEF v
  <2>4. /\ w \in Terminal
        /\ w.mode = v.mode /\ w.driver = v.driver
        /\ w.config = v.config /\ w.running = v.running
        /\ w.alive = v.alive
        /\ ~v.running => w.held = v.held
    BY <2>2, <2>3, EventKeepsModes
  <2> HIDE DEF w
  <2> QED BY <1>5, <2>1, <2>3, <2>4
<1>8. CASE UNCHANGED mouseVars
  BY <1>8 DEF mouseVars, MouseInv, MouseTypeOK, CountsMatch, InMode,
              DriversAreWhole,
     ConfiguredIsStarted, MotionIsWanted, AskedFor
<1>9. ASSUME NEW t \in Term, MouseEvent(t) PROVE MouseInv'
  BY <1>6, <1>7, <1>9 DEF MouseEvent
<1> QED BY <1>1, <1>2, <1>3, <1>4, <1>8, <1>9, StopKeepsInv,
           DestroyKeepsInv DEF MouseNext

-----------------------------------------------------------------------------
(* What follows *)

\* The inductive invariant holds throughout.
THEOREM MouseInvariant == MouseSpec => []MouseInv
BY InitMouse, NextKeepsMouse, PTL DEF MouseSpec

\* Every field keeps its type, the count of references going below zero included.
THEOREM MouseTyping == MouseSpec => []MouseTypeOK
<1>1. MouseInv => MouseTypeOK
  BY DEF MouseInv
<1> QED BY <1>1, MouseInvariant, PTL

\* The counts are the numbers of terminals in each motion mode, for any number
\* of terminals and any history of theirs.
THEOREM CountsAreRight == MouseSpec => []CountsMatch
<1>1. MouseInv => CountsMatch
  BY DEF MouseInv
<1> QED BY <1>1, MouseInvariant, PTL

\* Where every terminal may ask, the real terminal reports motion only while one
\* of them is in the mode it reports.
THEOREM MotionStops == MouseSpec => []MotionStopsWithTheLast
<1>1. MouseInv => MotionStopsWithTheLast
  <2> SUFFICES ASSUME MouseInv, ext = {} PROVE
        /\ curses.tracking = 1003 => InMode("ANY_EVENT") # {}
        /\ curses.tracking = 1002 => InMode("BTN_EVENT") # {}
    BY DEF MotionStopsWithTheLast
  <2>1. curses.tracking \in {1002, 1003} => curses.tracking = Wanted(state)
    BY DEF MouseInv, AskedFor, MotionIsWanted
  <2>2. /\ curses.tracking = 1003 => state.any > 0
        /\ curses.tracking = 1002 => state.btn > 0
    BY <2>1 DEF Wanted
  <2>3. /\ state.btn = Cardinality(InMode("BTN_EVENT"))
        /\ state.any = Cardinality(InMode("ANY_EVENT"))
    BY DEF MouseInv, CountsMatch
  <2> QED BY <2>2, <2>3, FS_EmptySet
<1> QED BY <1>1, MouseInvariant, PTL

\* As long as every terminal leaves the mouse to the host, nobody claimed it.
NobodyClaims == ext = Term => state.origin = Nobody

\* A host that owns the mouse for every one of its terminals never sees them
\* change it: not their modes, not their events, not their end.
THEOREM HostIsLeftAlone == MouseSpec => HostKeepsItsMouse
<1>1. MouseInit => NobodyClaims
  BY DEF MouseInit, NobodyClaims
<1>2. MouseInv /\ NobodyClaims /\ [MouseNext]_mouseVars =>
        NobodyClaims' /\ [ext = Term => UNCHANGED curses]_mouseVars
  <2> SUFFICES ASSUME MouseInv, NobodyClaims, [MouseNext]_mouseVars
               PROVE  /\ NobodyClaims'
                      /\ ext = Term => UNCHANGED curses \/ UNCHANGED mouseVars
    OBVIOUS
  <2>0. state \in SharedState
    BY DEF MouseInv, MouseTypeOK, SharedState
  <2>1. CASE UNCHANGED mouseVars
    BY <2>1 DEF mouseVars, NobodyClaims
  <2>2. ASSUME NEW t, NEW old, NEW new, NEW s \in SharedState
        PROVE  MotionState(s, t, old, new).origin = s.origin
    <3> DEFINE n == Counted(s, old, new)
    <3>1. n \in SharedState /\ n.origin = s.origin
      BY CountedType
    <3>2. MotionState(s, t, old, new) \in {s, n, [n EXCEPT !.motion = Wanted(n)]}
      BY DEF MotionState
    <3> HIDE DEF n
    <3> QED BY <3>1, <3>2 DEF SharedState
  <2> DEFINE Step(t) ==
        \/ Create(t) \/ Destroy(t) \/ SetReporting(t) \/ SetSGR(t) \/ SetMotion(t)
        \/ SetAltScroll(t) \/ ResetAltScroll(t) \/ Stop(t) \/ MouseEvent(t)
  <2>3. SUFFICES ASSUME NEW t \in Term, ext = Term, Step(t)
                 PROVE  UNCHANGED curses /\ state'.origin = Nobody
    <3>1. ASSUME NEW t \in Term, Step(t) PROVE ext' = ext
      BY <3>1 DEF Create, Destroy, SetReporting, SetSGR, SetMotion, Install,
         SetAltScroll, ResetAltScroll, Stop, MouseEvent, Handle, Click
    <3>2. MouseNext => \E t \in Term : Step(t)
      BY DEF MouseNext
    <3> HIDE DEF Step
    <3> QED BY <2>1, <3>1, <3>2 DEF NobodyClaims
  <2>4. t \in ext /\ state.origin = Nobody
    BY <2>3 DEF NobodyClaims
  <2>5. ASSUME NEW flag, NEW new, Install(t, flag, new)
        PROVE  UNCHANGED curses /\ state'.origin = Nobody
    <3> DEFINE s == InitState(t)
    <3>1. ~Claims(t)
      BY <2>4 DEF Claims
    <3>2. s \in SharedState /\ s.origin = Nobody
      BY <2>0, <2>4, <3>1, InitType
    <3>3. curses' = MotionCurses(s, InitCurses(t), t, term[t].mode, new)
          /\ state' = MotionState(s, t, term[t].mode, new)
      BY <2>5 DEF Install
    <3> HIDE DEF s
    <3>4. curses' = curses
      BY <2>4, <3>1, <3>3 DEF MotionCurses, InitCurses
    <3> QED BY <2>2, <3>2, <3>3, <3>4
  <2>6. CASE SetReporting(t) \/ SetSGR(t) \/ SetMotion(t)
    BY <2>5, <2>6 DEF SetReporting, SetSGR, SetMotion
  <2>7. CASE Create(t) \/ SetAltScroll(t) \/ ResetAltScroll(t)
    BY <2>4, <2>7 DEF Create, SetAltScroll, ResetAltScroll
  <2>8. CASE Stop(t)
    BY <2>0, <2>2, <2>4, <2>8 DEF Stop, MotionCurses
  <2>9. CASE Destroy(t)
    <3>1. curses' = FreedCurses(t)
      BY <2>4, <2>9 DEF Destroy
    <3>2. FreedCurses(t) = curses
      BY <2>4 DEF FreedCurses, MotionCurses
    <3>3. Freed(t) \in SharedState /\ Freed(t).origin = Nobody
      BY <2>0, <2>2, <2>4, MotionType DEF Freed, MouseInv, MouseTypeOK, Curses
    <3>4. state' = [Freed(t) EXCEPT !.refs = IF state.started THEN @ - 1 ELSE @]
      BY <2>9 DEF Destroy
    <3> QED BY <3>1, <3>2, <3>3, <3>4 DEF SharedState
  <2>10. CASE MouseEvent(t)
    <3>1. curses' = CursesAfter(t) /\ UNCHANGED state
      BY <2>10 DEF MouseEvent, Handle, Click
    <3>2. Saved(t) = curses /\ Restored(t) = curses
      BY <2>4 DEF Saved, Restored
    <3> QED BY <2>4, <3>1, <3>2 DEF CursesAfter
  <2> QED BY <2>3, <2>6, <2>7, <2>8, <2>9, <2>10
<1> QED BY <1>1, <1>2, MouseInvariant, PTL DEF MouseSpec, HostKeepsItsMouse

\* A driver is installed, running and able to report all at once, and only one
\* that is holds a button.
THEOREM DriversStayWhole == MouseSpec => []DriverIsWhole
<1>1. MouseInv => DriverIsWhole
  BY DEF MouseInv, DriversAreWhole, WholeDriver, DriverIsWhole
<1> QED BY <1>1, MouseInvariant, PTL

\* An event leaves ncurses' mask as it found it: the driver that is handed one
\* is running and can report, so the mask it saved is always given back.
THEOREM MaskIsKept == MouseSpec => []EventsKeepTheMask
<1>1. MouseInv => EventsKeepTheMask
  <2> SUFFICES ASSUME MouseInv, NEW t \in Term, term[t].driver
               PROVE  CursesAfter(t).mask = curses.mask
    BY DEF EventsKeepTheMask
  <2>1. CursesAfter(t) = Restored(t)
    BY DEF CursesAfter, MouseInv, DriversAreWhole, WholeDriver
  <2>2. ASSUME NEW c, NEW m, c.mask = "off" \/ m # "off" \/ c.known
        PROVE  Masked(c, m).mask = m
    BY <2>2 DEF Masked
  <2>3. Masked(curses, "all").known
    BY DEF Masked
  <2> QED BY <2>1, <2>2, <2>3 DEF Restored, Saved
<1> QED BY <1>1, MouseInvariant, PTL

\* A move the child was told of, or did not listen to, says nothing again.
LEMMA SecondMoveIsSilent ==
  ASSUME NEW v \in Terminal, NEW e \in Event, e.kind \in {"move", "hover"}
  PROVE  Report(After(v, e), e) = Silent
<1> DEFINE w == After(v, e)
           h == IF e.kind = "move" THEN e.button ELSE v.held
           heard == v.mode \cap Motion # {} /\ (h # 0 \/ "ANY_EVENT" \in v.mode)
<1>0. w.mode = v.mode /\ w.running = v.running
  BY EventKeepsModes
<1>1. CASE ~(v.running /\ v.mode \cap {"SGR", "VT200"} # {})
  BY <1>0, <1>1 DEF Report
<1>2. CASE e.cell = Nowhere
  BY <1>2 DEF Report, Heard
<1>3. CASE v.running /\ v.mode \cap {"SGR", "VT200"} # {} /\ e.cell # Nowhere
  <2>1. w = [v EXCEPT !.held = h, !.last = IF heard THEN e.cell ELSE v.last]
    BY <1>3 DEF After, Decoded, Terminal
  <2>2. w.held = h /\ (heard => w.last = e.cell)
    BY <2>1 DEF Terminal
  <2>3. Decoded(w, e).held = h
    <3>1. w \in Terminal
      BY EventKeepsModes
    <3> HIDE DEF w
    <3>2. PICK l : Decoded(w, e) =
                     [w EXCEPT !.held = IF e.kind = "move" THEN e.button ELSE w.held,
                               !.last = l]
      BY <1>3, <3>1 DEF Decoded, Terminal
    <3> QED BY <2>2, <3>1, <3>2 DEF Terminal
  <2> HIDE DEF w, h
  <2>4. ~Heard(w, e)
    BY <1>0, <2>2, <2>3 DEF Heard
  <2> QED BY <2>4 DEF Report, w
<1> QED BY <1>1, <1>2, <1>3

\* After the release of the button that was held, a pointer that only moves is
\* of no interest to a child that asked for drags.
LEMMA ReleaseEndsTheDrag ==
  ASSUME NEW v \in Terminal, NEW e \in Event, e.kind = "release",
         e.button = v.held, Report(v, e) # Silent, "ANY_EVENT" \notin v.mode,
         NEW c \in Cell
  PROVE  Report(After(v, e), [kind |-> "hover", button |-> 0, cell |-> c]) = Silent
<1> DEFINE w == After(v, e)
           f == [kind |-> "hover", button |-> 0, cell |-> c]
<1>1. v.running /\ v.mode \cap {"SGR", "VT200"} # {} /\ e.cell # Nowhere
  BY DEF Report, Heard
<1>2. w = [v EXCEPT !.held = IF v.held = e.button THEN 0 ELSE v.held]
  BY <1>1 DEF After, Decoded
<1>3. w.held = 0 /\ w.mode = v.mode /\ w \in Terminal
  BY <1>2, EventKeepsModes DEF Terminal
<1> HIDE DEF w
<1>4. f.kind = "hover" /\ f.cell = c /\ c # Nowhere
  BY NamesDiffer
<1> HIDE DEF f
<1>5. Decoded(w, f).held = w.held
  <2>1. PICK l : Decoded(w, f) = [w EXCEPT !.held = w.held, !.last = l]
    BY <1>3, <1>4 DEF Decoded, Terminal
  <2> QED BY <1>3, <2>1 DEF Terminal
<1>6. ~Heard(w, f)
  BY <1>3, <1>4, <1>5 DEF Heard
<1> QED BY <1>6 DEF Report, w, f

\* A child hears of motion once per cell, and of no drag after the release of
\* the button it was dragging.
THEOREM MotionIsToldOnce == MouseSpec => []MotionOncePerCell
<1>1. MouseInv => MotionOncePerCell
  <2> SUFFICES ASSUME MouseInv, NEW t \in Term, NEW e \in Event
               PROVE  LET v == term[t]
                          w == After(v, e)
                      IN /\ e.kind \in {"move", "hover"} => Report(w, e) = Silent
                         /\ /\ e.kind = "release" /\ e.button = v.held
                            /\ Report(v, e) # Silent
                            /\ "ANY_EVENT" \notin v.mode
                            => \A c \in Cell :
                                 Report(w, [kind |-> "hover", button |-> 0,
                                            cell |-> c]) = Silent
    BY DEF MotionOncePerCell
  <2>1. term[t] \in Terminal
    BY DEF MouseInv, MouseTypeOK, Terminal
  <2> QED BY <2>1, SecondMoveIsSilent, ReleaseEndsTheDrag
<1> QED BY <1>1, MouseInvariant, PTL

=============================================================================
