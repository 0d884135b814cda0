------------------------------- MODULE Mouse --------------------------------
(***************************************************************************)
(* The mouse driver.  The terminals of one host share the real terminal's  *)
(* mouse: `state' is the process-wide mouse_state, `curses' is what        *)
(* ncurses and the real terminal were last asked for, and `term' holds     *)
(* what each vtty_t keeps (mouse_mode, mouse_driver and mouse_config).     *)
(* A terminal is a place in memory: one that was destroyed can be created  *)
(* again, and a pointer to it that was kept then points at the new one.    *)
(***************************************************************************)
EXTENDS Integers, FiniteSets

CONSTANTS
  Term,      \* the terminals the host may create
  Cell,      \* the cells of a window the pointer can be in
  FarCell,   \* those beyond column or row 223
  Button,    \* 1 .. 3
  RefLimit   \* bound on the count of references, either way

ASSUME MouseAssumption ==
  /\ IsFiniteSet(Term)
  /\ FarCell \subseteq Cell
  /\ Button \subseteq Nat \ {0}
  /\ RefLimit \in Nat

Nowhere == "nowhere"   \* last_x = last_y = -1, or a pointer off the window
Nobody  == "nobody"    \* an origin of NULL: the host owns the mouse

ASSUME NamesDiffer == Nowhere \notin Cell /\ Nobody \notin Term

VARIABLES
  term,    \* per terminal: what its vtty_t says of the mouse
  state,   \* mouse_state, the record all terminals share
  curses,  \* the mask of ncurses, and the tracking of the real terminal
  ext      \* the terminals created with VTTY_FLAG_EXTMOUSE

mouseVars == <<term, state, curses, ext>>

Motion == {"BTN_EVENT", "ANY_EVENT"}

\* The bits of mouse_mode.  Mode 1001 sets one more, which nothing reads.
Modes == Motion \cup {"VT200", "SGR", "ALTSCROLL"}

\* A vtty_t from calloc: no mode, no driver and no configuration.
FreshMouse ==
  [alive |-> TRUE, mode |-> {}, driver |-> FALSE, config |-> FALSE,
   running |-> FALSE, held |-> 0, last |-> Nowhere]

Gone == [FreshMouse EXCEPT !.alive = FALSE]

Event ==
  [kind : {"press", "release", "move"}, button : Button,
   cell : Cell \cup {Nowhere}]
    \cup [kind : {"hover", "wheel"}, button : {0}, cell : Cell \cup {Nowhere}]

-----------------------------------------------------------------------------
(* The real terminal *)

\* mousemask(): ncurses enables or disables the terminal's button reporting
\* on every call, which replaces a motion mode asked for behind its back.
Masked(c, m) ==
  IF m = "off" /\ ~c.known
  THEN c
  ELSE [mask |-> m, known |-> TRUE, tracking |-> IF m = "off" THEN 0 ELSE 1000]

\* What the instances need, as counted.
Wanted(s) ==
  IF s.any > 0 THEN 1003 ELSE IF s.btn > 0 THEN 1002 ELSE 0

\* Fault: the terminal is asked for more, and never for less again.
SyncOnlyUp(c, s) ==
  IF Wanted(s) <= s.motion THEN c ELSE [c EXCEPT !.tracking = Wanted(s)]

\* mouse_driver_sync_host writes the terminal's new mode.  Resetting the last
\* one turns the mouse off, so ncurses' button reporting is asked for again.
SyncTerminal(c, s) ==
  IF Wanted(s) = s.motion
  THEN c
  ELSE [c EXCEPT !.tracking = IF Wanted(s) = 0 /\ c.known
                              THEN 1000 ELSE Wanted(s)]

-----------------------------------------------------------------------------
(* The shared state *)

\* Fault: a host that enabled the mouse behind the back of ncurses is not asked.
ClaimsUnasked(t) == ~state.started /\ ~curses.known

\* mouse_driver_init by t: the first one ever claims the mouse, unless the
\* host has it; every call counts.
Claims(t) == ~state.started /\ ~curses.known /\ t \notin ext

InitState(t) ==
  [state EXCEPT
     !.started = TRUE,
     !.origin = IF state.started THEN @ ELSE IF Claims(t) THEN t ELSE Nobody,
     !.refs = @ + 1]

InitCurses(t) == IF Claims(t) THEN Masked(curses, "all") ELSE curses

\* How often m is among the modes: once, or not at all.
One(m, modes) == IF m \in modes THEN 1 ELSE 0

\* Fault: the mode that is replaced stays counted.
CountedTwice(s, old, new) ==
  [s EXCEPT
     !.btn = @ + One("BTN_EVENT", new),
     !.any = @ + One("ANY_EVENT", new)]

Counted(s, old, new) ==
  [s EXCEPT
     !.btn = @ - One("BTN_EVENT", old) + One("BTN_EVENT", new),
     !.any = @ - One("ANY_EVENT", old) + One("ANY_EVENT", new)]

\* mouse_driver_set_motion: t, whose mode is old, selects the motion in new;
\* s and c are the shared state and the terminal before.
MotionState(s, t, old, new) ==
  IF ~s.started \/ old \cap Motion = new
  THEN s
  ELSE LET n == Counted(s, old, new)
       IN IF t \in ext THEN n ELSE [n EXCEPT !.motion = Wanted(n)]

MotionCurses(s, c, t, old, new) ==
  IF ~s.started \/ old \cap Motion = new \/ t \in ext
  THEN c
  ELSE SyncTerminal(c, Counted(s, old, new))

-----------------------------------------------------------------------------
(* What a child is told *)

Silent == "nothing"

\* Fault: only a press remembers its cell.
DecodedByPress(v, e) ==
  IF e.cell = Nowhere
  THEN v
  ELSE CASE e.kind = "press" -> [v EXCEPT !.held = e.button, !.last = e.cell]
         [] e.kind = "release" ->
              [v EXCEPT !.held = IF @ = e.button THEN 0 ELSE @]
         [] e.kind = "move" -> [v EXCEPT !.held = e.button]
         [] e.kind \in {"wheel", "hover"} -> v

\* mouse_driver_decode: the terminal after an event, before it is encoded.
\* Motion names the held button if it can; a press is where a drag begins; a
\* release of another button than the one held changes nothing.
Decoded(v, e) ==
  IF e.cell = Nowhere
  THEN v
  ELSE CASE e.kind = "press" -> [v EXCEPT !.held = e.button, !.last = e.cell]
         [] e.kind = "release" ->
              [v EXCEPT !.held = IF @ = e.button THEN 0 ELSE @]
         [] e.kind = "wheel" -> v
         [] e.kind \in {"move", "hover"} ->
              LET h == IF e.kind = "move" THEN e.button ELSE v.held
                  heard == v.mode \cap Motion # {}
                           /\ (h # 0 \/ "ANY_EVENT" \in v.mode)
              IN [v EXCEPT !.held = h,
                           !.last = IF heard THEN e.cell ELSE @]

\* Whether the decoder has something to say of e.
Heard(v, e) ==
  /\ e.cell # Nowhere
  /\ e.kind \in {"move", "hover"} =>
       LET h == Decoded(v, e).held
       IN /\ v.mode \cap Motion # {}
          /\ h # 0 \/ "ANY_EVENT" \in v.mode
          /\ e.cell # v.last

\* mouse_driver_SGR and mouse_driver_vt200: how the child is told.
Encoding(v, e) ==
  CASE e.kind = "wheel" /\ ("SGR" \notin v.mode \/ "ALTSCROLL" \in v.mode) ->
         "cursor key"
    [] "SGR" \in v.mode -> "sgr"
    [] e.cell \in FarCell -> Silent
    [] OTHER -> "bytes"

Report(v, e) ==
  IF v.running /\ v.mode \cap {"SGR", "VT200"} # {} /\ Heard(v, e)
  THEN Encoding(v, e) ELSE Silent

\* The terminal after its driver was handed an event.
After(v, e) ==
  IF v.running /\ v.mode \cap {"SGR", "VT200"} # {} THEN Decoded(v, e) ELSE v

-----------------------------------------------------------------------------
(* Operations *)

MouseInit ==
  /\ term = [t \in Term |-> Gone]
  /\ state = [started |-> FALSE, origin |-> Nobody, refs |-> 0,
              btn |-> 0, any |-> 0, motion |-> 0]
  /\ curses \in {[mask |-> "off", known |-> FALSE, tracking |-> 0],
                 [mask |-> "host", known |-> TRUE, tracking |-> 1000]}
  /\ ext \in SUBSET Term

\* vtty_init
Create(t) ==
  /\ ~term[t].alive
  /\ term' = [term EXCEPT ![t] = FreshMouse]
  /\ UNCHANGED <<state, curses, ext>>

\* A terminal whose driver is started, with the modes it is told to report.
Installed(v, flag, new) ==
  [v EXCEPT !.mode = (v.mode \ Motion) \cup {flag} \cup new,
            !.driver = TRUE, !.config = TRUE, !.running = TRUE]

\* DECSET 1000, 1002, 1003 and 1006: initialise, start, install the driver and
\* select what is reported.  new is the motion the mode stands for, or what
\* there was.
Install(t, flag, new) ==
  /\ term[t].alive
  /\ state.refs < RefLimit
  /\ LET old == term[t].mode
         s == InitState(t)
     IN /\ term' = [term EXCEPT ![t] = Installed(@, flag, new)]
        /\ state' = MotionState(s, t, old, new)
        /\ curses' = MotionCurses(s, InitCurses(t), t, old, new)
  /\ UNCHANGED ext

SetReporting(t) == Install(t, "VT200", term[t].mode \cap Motion)

SetSGR(t) == Install(t, "SGR", term[t].mode \cap Motion)

SetMotion(t) == \E m \in Motion : Install(t, "VT200", {m})

\* DECSET 1007: a flag, and no driver.
SetAltScroll(t) ==
  /\ term[t].alive
  /\ term' = [term EXCEPT ![t].mode = @ \cup {"ALTSCROLL"}]
  /\ UNCHANGED <<state, curses, ext>>

\* DECRST 1007
ResetAltScroll(t) ==
  /\ term[t].alive
  /\ term' = [term EXCEPT ![t].mode = @ \ {"ALTSCROLL"}]
  /\ UNCHANGED <<state, curses, ext>>

\* Fault: the button stays held while nobody listens.
StoppedHolding(v) ==
  [v EXCEPT !.mode = {}, !.driver = FALSE, !.running = FALSE]

Stopped(v) ==
  [v EXCEPT !.mode = {}, !.driver = FALSE, !.held = 0, !.running = FALSE]

\* mouse_driver_stop, by DECRST of any of the mouse modes.
Stop(t) ==
  /\ term[t].alive
  /\ term[t].config
  /\ term' = [term EXCEPT ![t] = Stopped(@)]
  /\ state' = MotionState(state, t, term[t].mode, {})
  /\ curses' = MotionCurses(state, curses, t, term[t].mode, {})
  /\ UNCHANGED ext

\* mouse_driver_free: the motion is given back only with a configuration, one
\* reference always.
Freed(t) ==
  IF term[t].config THEN MotionState(state, t, term[t].mode, {}) ELSE state

FreedCurses(t) ==
  IF term[t].config
  THEN MotionCurses(state, curses, t, term[t].mode, {})
  ELSE curses

\* vtty_destroy
Destroy(t) ==
  /\ term[t].alive
  /\ state.refs > -RefLimit
  /\ term' = [term EXCEPT ![t] = Gone]
  /\ state' = [Freed(t) EXCEPT !.refs = IF state.started THEN @ - 1 ELSE @]
  /\ curses' = IF state.started /\ state.refs = 1 /\ state.origin # Nobody
               THEN Masked(FreedCurses(t), "off")
               ELSE FreedCurses(t)
  /\ UNCHANGED ext

\* mouse_driver_save_state by t
Saved(t) ==
  IF t \in ext \/ state.origin = t THEN curses ELSE Masked(curses, "all")

\* mouse_driver_restore_state by t, after its save
Restored(t) ==
  IF t \in ext \/ state.origin = t
  THEN Saved(t) ELSE Masked(Saved(t), curses.mask)

\* What an event leaves of the real terminal's mouse: a driver without an
\* encoding would return with the mask unrestored.
CursesAfter(t) ==
  CASE ~term[t].running -> curses
    [] term[t].mode \cap {"SGR", "VT200"} # {} -> Restored(t)
    [] OTHER -> Saved(t)

\* mouse_driver_default: an event from ncurses or from the host.
Handle(t, e) ==
  /\ term[t].alive
  /\ term[t].driver
  /\ term' = [term EXCEPT ![t] = After(@, e)]
  /\ curses' = CursesAfter(t)
  /\ UNCHANGED <<state, ext>>

\* vtty_write_mouse_event: a click the host paired up is a press and a release.
Click(t, b, c) ==
  /\ term[t].alive
  /\ term[t].driver
  /\ LET press == [kind |-> "press", button |-> b, cell |-> c]
         release == [kind |-> "release", button |-> b, cell |-> c]
     IN term' = [term EXCEPT ![t] = After(After(@, press), release)]
  /\ curses' = CursesAfter(t)
  /\ UNCHANGED <<state, ext>>

MouseEvent(t) ==
  \/ \E e \in Event : Handle(t, e)
  \/ \E b \in Button, c \in Cell \cup {Nowhere} : Click(t, b, c)

MouseNext ==
  \E t \in Term :
    \/ Create(t) \/ Destroy(t)
    \/ SetReporting(t) \/ SetSGR(t) \/ SetMotion(t) \/ SetAltScroll(t)
    \/ ResetAltScroll(t) \/ Stop(t)
    \/ MouseEvent(t)

MouseSpec == MouseInit /\ [][MouseNext]_mouseVars

-----------------------------------------------------------------------------
(* Properties *)

\* Every field has its type.  The count of references may fall below zero:
\* a terminal that never used the mouse gives one back as well.
MouseTypeOK ==
  /\ term \in [Term -> [alive : BOOLEAN, mode : SUBSET Modes, driver : BOOLEAN,
                       config : BOOLEAN, running : BOOLEAN,
                       held : Button \cup {0}, last : Cell \cup {Nowhere}]]
  /\ state \in [started : BOOLEAN, origin : Term \cup {Nobody}, refs : Int,
                btn : Int, any : Int, motion : {0, 1002, 1003}]
  /\ curses \in [mask : {"off", "all", "host"}, known : BOOLEAN,
                 tracking : {0, 1000, 1002, 1003}]
  /\ ext \subseteq Term

InMode(m) == {t \in Term : m \in term[t].mode}

\* The counts of mouse_state are the numbers of terminals in each motion mode,
\* whatever was set twice, replaced, reset, stopped or destroyed with its
\* motion still on (btn_event_count and any_event_count).
CountsMatch ==
  /\ state.btn = Cardinality(InMode("BTN_EVENT"))
  /\ state.any = Cardinality(InMode("ANY_EVENT"))

\* Where libvterm may ask for motion for each terminal, the real terminal
\* reports it only while one of them wants it, however that one went: replaced
\* by the other mode, reset, stopped or destroyed (mouse_driver_sync_host).
MotionStopsWithTheLast ==
  ext = {} =>
    /\ curses.tracking = 1003 => InMode("ANY_EVENT") # {}
    /\ curses.tracking = 1002 => InMode("BTN_EVENT") # {}

\* A host that owns the mouse keeps it as it set it, whatever its terminals ask
\* for, are told and leave behind (mouse_driver.c:80-82, 374-379).
HostKeepsItsMouse == [][ext = Term => UNCHANGED curses]_mouseVars

\* Where libvterm owns the mouse, and listens to it, the real terminal reports
\* the motion a child wants (mouse_driver.c:75-78, CHANGELOG:86-88).
MotionFollowsTheChildren ==
  state.origin # Nobody /\ curses.mask # "off" =>
    /\ InMode("ANY_EVENT") \ ext # {} => curses.tracking = 1003
    /\ InMode("BTN_EVENT") \ ext # {} => curses.tracking \in {1002, 1003}

\* A driver is installed, started and told how to encode all at once, and a
\* stopped one holds no button: a later drag cannot begin with a press that
\* was made before (mouse_driver_stop, mouse_driver_default).
DriverIsWhole ==
  \A t \in Term :
    LET v == term[t]
    IN /\ v.driver <=> v.running
       /\ v.driver => v.config /\ v.mode \cap {"SGR", "VT200"} # {}
       /\ v.mode \cap Motion # {} => v.driver
       /\ v.held # 0 => v.driver

\* Handling an event leaves ncurses' mask as the host or the owner set it, for
\* every terminal that is not the owner (mouse_driver_save_state, _restore).
EventsKeepTheMask ==
  \A t \in Term : term[t].driver => CursesAfter(t).mask = curses.mask

\* A child hears of motion once per cell, and of a drag no more once it heard
\* the release of the button that is held (mouse_driver_decode).
MotionOncePerCell ==
  \A t \in Term : \A e \in Event :
    LET v == term[t]
        w == After(v, e)
    IN /\ e.kind \in {"move", "hover"} => Report(w, e) = Silent
       /\ /\ e.kind = "release" /\ e.button = v.held /\ Report(v, e) # Silent
          /\ "ANY_EVENT" \notin v.mode
          => \A c \in Cell :
               Report(w, [kind |-> "hover", button |-> 0, cell |-> c]) = Silent

=============================================================================
