# libvterm in TLA+

libvterm is a terminal emulator as a C library. A host program (a window manager, a multiplexer)
creates a `vtty_t`, which forks a child on a pseudo terminal. The host calls the library to read
what the child printed, to render it into a screen of cells, to paint these on a curses window and
to send keys, pastes and mouse events to the child. This directory models the parts of the library
whose state outlives a call, checks them with TLC on small instances, and proves what matters most
of them with TLAPS for every size.

Contents: 1 the system, 2 the modules, 3 the runs, 4 the proofs, 5 where the code does something
else than its documents say, 6 what is not modelled, 7 the plan and what is left of it.

## 1. The system

### Components

| component | state | operations | correct when |
|---|---|---|---|
| scrollback ring (`vtty_buffer.c`, `vtty_history.c`) | rows rotated by `head`, used rows `fill`, capacity | capture of a row, change of capacity, change of width | a reader sees the newest lines, in order, whatever the rotation |
| row shifts (`vtty_csi_SU/SD/IL/DL.c`, `vtty_buffer_shift_*`) | the rows of a buffer, loop variables | copy loops over overlapping rows, clear loops | the region moves as a whole; no row outside it changes; no index leaves the buffer |
| terminal control state (`vtty_cursor.c`, `vtty_scroll.c`, `vtty_csi_*.c`, `vtty_dec_*.c`, `vtty_resize.c`) | per buffer: size, cursor, saved cursor, margins, flags; which buffer is active; the kernel's window size | every character, cursor, margin and mode sequence, resets, resize | cursor and margins index rows of the buffer; the buffers, scrollback and kernel agree on the size; the alternate screen leaves the standard one alone |
| screen content (`vtty_erase.c`, `vtty_csi_E*.c`, `vtty_csi_?CH.c`, `vtty_render.c`, `vtty_buffer.c`) | cells and dirty bits of both buffers, rows wider than what is visible | prints, erasures, insertions, deletions, scrolls, switch, resize, capture | every changed cell is marked; text survives resizes; a captured line is whole |
| window painting (`vtty_wnd.c`) | the curses window | update, update of every cell, scrollback view | painting marked cells alone leaves the whole screen on the window, with one cursor |
| attributes and colors (`vtty_csi_SGR.c`, `color_map.c`) | colors and attributes of the pen, colors the child redefined | SGR, OSC 4 | each item is taken once with its operands; what is drawn exists and is told apart from its background |
| color cache (`color_cache.c`, `nc_wrapper.c`) | one table of pairs shared by all terminals, and its mirror in curses | find, add, split, rebind, free of one terminal's pairs | a pair in use keeps its colors; the host's own pairs come back |
| input parser (`vtty_render.c`, `vtty_escape*.c`, `vtty_csi.c`, `vtty_utf8.c`) | escape buffer, mode, parameters, scanner of reset strings | one byte | the same bytes do the same however they are split over reads |
| OSC strings (`vtty_osc.c`) | title, clipboard, decoder | OSC 0, 1, 2, 4, 7, 52, 777 | limits hold, the decoder accepts exactly base64, the host hears of a change once |
| pty input and output (`vtty_read.c`, `vtty_reply.c`, `vtty_write.c`) | read buffer, reply buffer, position in a write | `vtty_read_pipe`, replies to DSR and DA, `vtty_write_data`, `vtty_write_pipe` | output is rendered once and in order; a write is whole; every call returns; every query is answered |
| asynchronous input (`vtty_aio.c`) | self-pipe, signal handler, flags of each pty | `vtty_set_async`, `signal_io` | no wakeup is lost, no signal comes before its handler |
| mouse driver (`mouse_driver*.c`, `vtty_write.c`) | per terminal mode and encoding; one host mouse with a count | start, stop, event | the real terminal reports motion while some terminal wants it and no longer; a host that owns its mouse keeps it |
| life cycle (`vtty.c`, `vtty_exec.c`, `vtty_hook.c`) | the `vtty_t` | init, fork, destroy, hooks | what is allocated is freed once |
| accessors, keymaps, glyph substitution, utilities, demo, tests | none that outlives a call | - | - |

### How they interact

* `vtty_read_pipe` reads at most `MAX_PIPE_READ` bytes and calls `vtty_render` on them. The parser
  turns each byte into a character or, at the end of a sequence, into a call of one handler.
* A handler changes the control state (cursor, margins, modes) and the cells of the active buffer,
  and marks the cells it changed. A row pushed off the top of the screen is captured by the ring.
* SGR fits most colors asked for to the real terminal and then asks the cache for their pair. Cells
  keep the number of a pair; the cache is shared by all terminals of the host.
* A query (DSR, DA) makes a handler write to the pty in the middle of rendering.
* A reset renders a string from inside the rendering: the parser calls itself.
* Mouse modes of any child turn the one host mouse on; each event goes to the terminal it falls on.
* The host calls `vtty_resize`, `vtty_set_history_size`, the scroll and erase calls, and the writes,
  between two calls of `vtty_read_pipe`. It is one thread. So what a handler sees is never half
  done, but any order of handlers and host calls can occur.
* The child runs at the same time: it reads, writes, exits and sets the size of its own terminal
  between any two system calls of the host. With asynchronous input, so does the signal handler.
* `vtty_wnd_update` paints the marked cells of the active buffer and clears the marks.

### What is hard

There is no lock and no thread in this code. What goes wrong goes wrong through *order*:

* handlers that leave a state the next one does not expect (margins and a cursor below them, a
  saved cursor and a resize, a switch of buffers and a resize made while the other was active);
* bytes of one sequence that arrive in different reads, with controls in their middle;
* caches of what is already done (dirty bits, a ring rotated by `head`, a pair found before, a
  descriptor read once before a loop over parameters);
* state that several terminals share (mouse, pairs, redefined colors, the self-pipe);
* loops that read from the memory they write (row shifts);
* system calls that do half of what they are asked, with another process on the other side;
* allocations that fail in the middle of a change.

`PROJECT.json` lists each as a hazard at its line, with the properties that would show it.

## 2. The modules

| module | what it is |
|---|---|
| `HistoryLog` | what the scrollback promises: a log of lines by age, of which the newest `cap` are kept |
| `HistoryRing` | how it is kept: `cells`, `rows`, `head`, `fill` of the history descriptor. `Log == INSTANCE HistoryLog` maps age `a` to logical row `rows - 1 - a`, the address `vtty_copy_scrollback` uses |
| `Region` | what scrolling a part of the screen means, in one step |
| `RowMove` | SU, SD, IL and DL as they run: a clamp, a copy loop of one row per step, a clear loop. `Whole == INSTANCE Region` shows the screen as it was until the loops are done |
| `Terminal` | the control state of both buffers; one action per character, sequence or host call, one step per parameter of a mode sequence |
| `Paint` | cells, dirty bits and window; one operator per handler that stores a cell, as a composition of the stores the code uses (`vtty_fill_span`, `VCELL_SET_ALL`, row copies) |
| `Screen` | the text of all three buffers with rows wider than what is visible, through resizes, switches, scrolls and captures |
| `Pen` | SGR item by item, the fitting of colors, the colors a child redefines |
| `Colors` | the cache of color pairs and its list, the pairs of curses, several terminals |
| `Parser` | the escape buffer, the modes and the nested rendering, byte by byte; which handler is called |
| `Stream` | what the parser promises: the loop of `vtty_render` over all that was sent, in one read and without the fast path |
| `Osc` | what a command does once it is complete: title, clipboard with base64, announcements |
| `PtyIO` | host, child and the two kernel queues; one step per system call or rendered byte |
| `Async` | the calls of `vtty_set_async`, the handler, its pipe, and a host that sleeps on it |
| `Mouse` | the modes and encodings of several terminals, the counts of the host mouse, the decoder of events |

`Parser` extends `Osc` and `Stream` extends `Parser`; the others stand alone and meet at what they take from each other: `Paint` takes every
position and region `Terminal` allows, `Screen` and `HistoryRing` share the capture, `Pen` ends where
`Colors` begins, `Parser` ends in calls that are the actions of the others.
`MC...` modules give the constants their values for TLC. Four of them put parts that share no variable into one search,
`MCText` (`HistoryRing`, `RowMove`, `Screen`), `MCCurses` (`Paint`, `Mouse`), `MCInk` (`Colors`, `Pen`) and `MCHost` (`Parser`,
`PtyIO`, `Async`): `part` says which of them takes the steps, the others rest in an initial state. So such a search is the sum
of the searches of its parts, never their product, and says of each what a search of its own would. The modules take names
like `ScreenSpec` and `MouseInit` so that they can be extended together. The theorems are in `HistoryRingProofs` (also those of
`Screen`, whose captures it shares), `RowMoveProofs`, `TerminalProofs`, `PaintProofs`, `ColorsProofs` (with `Pen`),
`MouseProofs`, `ParserProofs` and `PtyIOProofs` (with `Async`).
Operators marked *Fault* are plausible bugs of the definition that follows them, kept to show that each
property can fail.

### How a module reads against the code

* **HistoryRing.** `PhysFrom` is `vtty_desc_row_phys`; `Linear` is what `vtty_buffer_realloc` leaves
  (logical order, blanks below). `ShrinkHistory` and `GrowHistory` are the two branches of
  `vtty_set_history_size`, which moves `head` *before* (shrink) or *after* (grow) the reallocation.
  `Relinearise` is the reallocation to a new width in `vtty_resize`. A line is one value.
* **RowMove.** The tests of the loops are the code's, rearranged for integers. IL and DL take the
  cursor row as their top and do not clamp; SU and SD clamp. The calls shift inside any region.
* **Terminal.** Each variable is a field of `vtty_desc_t` as a function of the buffer. `pending`
  holds a mode sequence between two of its parameters, with the buffer read before the loop
  (`idx`), since a 47 in the middle switches buffers under it. `EnterAlt` and `LeaveAlt` are
  `vtty_buffer_set_active`. An allocation that fails is a choice of `AllocOutcome`. The cursor moves
  of a handler are complete; its cells are in Paint. RXVT terminals have a scanner for the reset
  string, which acts one byte earlier: `Rxvt` in `HardReset`.
* **Paint.** Positions and regions are not computed here: a handler takes any that `Terminal` allows,
  so what holds in Paint holds for whatever Terminal does. A cell is one value, character with
  attributes and colors; `WithChar` is a cell with the character of another, all that DCH moves. `Shown` is what curses does to a
  window when it is handed cells, among them wide ones and ones that cover half of a wide one. It takes every cell: that `setcchar`
  refuses none is assumed, so the rewrite at `vtty_wnd.c:212-219` is left out.
* **Screen.** A row is as long as the greatest width its buffer had (`max_cols`), `cols` of it are
  visible. `Realloc` is `vtty_buffer_realloc`, `Captured` is `vtty_buffer_history_append`, `Onto` is one turn of
  a shift, which copies whole rows only while nothing is hidden. The history is a queue here, oldest
  first, of which the last `inUse` rows are used. `seen` records of each row of the standard buffer what was visible when that row was last stored to,
  `lines` of each captured line what was visible of it.
* **Pen.** `ink` is what SGR reads and writes of `vtty_desc_t`: pair, colors asked for, colors given,
  attributes. Each turn of its loop (`SGR`) takes the parameter at `arg` with the operands its form consumes, told from how many
  are left as the code tells it. `wish` is a history variable: the colors the child asked for last, and which of the two in a form that is
  fitted, whatever the code has noted. A negative answer of `find_nearest_color` and a failed `split_pair` are left out. `map` is the list of redefined colors, and `next` (`next_color`) the counter all terminals
  take from.
* **Colors.** `order` is the list from its head; a find moves a pair, an addition rebinds the last one that is
  free. `curses` is the table of the real library. Which of the free colors is nearest to one asked for is a
  choice over all of them: `color_math.c` decides only that. The part of erase and SGR that claims a pair is
  modelled with the cache; a host's `pair_select` may answer with any pair of `HostPick` (`Selected`). The pens of the two buffers of a terminal
  are one here.
* **Parser.** A child sends units (a text, a sequence, a command, a reset) that are split over calls anywhere
  (`Render` takes any prefix of what waits). A unit is a string of bytes, numbers up to 255. What one byte does is an operator of that byte (`Control`, `First`,
  `Collect`, `Command`, ...); `Loop` is one turn of the loop of `vtty_render` over the innermost of its calls, which `frames`
  holds, `PutRun` one turn of its tight loop, and `calls` records the handlers called. `Stream` takes the same `Loop` over
  `Joined`: the data of the calls with all that has not arrived behind the outermost. Since both are about the same parser the
  abstract one is a specification over the state function `Joined` rather than an instance with variables of its own.
  `Osc` works on the same bytes, since the limit of a title, padding and the alphabet of base64 are what its properties are about.
* **PtyIO.** The child's i-th byte is the number i, so order and loss show. `read()` takes what
  FIONREAD counted, rendering goes byte by byte, a byte of `Queries` ends in a reply. Writes are one
  buffer for a key and three for a bracketed paste, over the write-all loop of `_vtty_write_pty`.
  The child is a program that blocks in the call it made; that, the kernel's queues and what `tcdrain` waits for are external.
* **Async.** One step per system call of `vtty_set_async`; the pipe and the flags of its ends are one, since nothing can raise a
  signal before the first pty is armed. SIGIO pends at most once and is held back while the
  handler runs; the host takes no step then. The host's loop (empty the pipe, read every terminal, sleep) is external,
  from `vtty.h:302-306` and the demo.
* **Mouse.** A mode set or reset is the call `mouse_driver_start` or `_stop` makes of it, with the counts of the one
  host state. An event is a button or a motion in a cell; the bytes of the report are data, but the encoding
  that is chosen for them is not. The mask of curses is exchanged and given back as the code does it. `ext` are the terminals with
  `VTTY_FLAG_EXTMOUSE`; ones with `VTTY_FLAG_NOCURSES`, which only `mouse_driver_sync_host` tells apart (`mouse_driver.c:90`), are left out.

## 3. The runs

All on two workers, each below four minutes. Six searches find no error:

| run | states | question |
|---|---|---|
| `text` | 940 478 | Does the ring implement the log, do the loops of SU, SD, IL and DL stay in the buffer and implement `Region`, does text hidden by a shrink come back, and is a captured line kept whole? |
| `cursor` | 934 200 | Does the cursor stay on the screen, and the standard buffer untouched behind the alternate one? |
| `sizes` | 4 513 728 | Do buffers, scrollback and kernel agree on the size, and do the margins fit it, after resizes by host and child in either buffer? |
| `curses` | 102 121 | Does an update of the marked cells leave the whole screen on the window, with one cursor? Are the counts of the shared mouse right, does motion stop with the last that wants it, does a host keep the mouse it owns, and does a child hear of motion once per cell? |
| `ink` | 652 118 | Do fitted colors stay faithful and different, and is each item of SGR taken once where its form can be told? Does the cache say what curses shows, and does a pair in use keep its colors? |
| `host` | 236 245 | Are sequences whole however they are split, and do neither reads nor the fast path show? Is output shown in order, are writes whole, and does only a wait of host and child for each other hang? Is every signal handled and no wakeup lost? |

Six stop at a state or a behaviour where the code does something else than its documents say (section 5):

| run | property | what happens |
|---|---|---|
| `pty_full` | `WriteReturns` | host and child each wait for room in the queue the other should empty |
| `pty_reply` | `QueryAnswered` | a reply that was cut short starts over |
| `screen_wider` | `LinesAreKept` | a child that widened its terminal has its lines cut when they are captured |
| `mouse_motion` | `MotionFollowsTheChildren` | an event of another terminal ends the motion reports |
| `pen_contrast` | `DrawnColorsDiffer` | two colors asked for as different are drawn the same |
| `sgr_items` | `EveryItemCounts` | a color by red, green and blue takes the item after it for its own |

What the properties say:

* `UsedRowsAreTheTail`: the rows within `vtty_get_history_used` hold captured lines and no others
  do. `ImplementsLog`: every step of the ring is a step of the log or none. `HeadInRange`,
  that the rotation is a row of the block whenever somebody indexes by it, is proved.
* `AccessInBounds` and `ImplementsRegion`. `LoopInv`, what each loop has done so far, row by row, is proved.
* `RowOnGrid`, `ColOnGrid`: cursor and saved cursor of every buffer with cells; the stores index by
  them unchecked. `AltIsolation`: an action property, nothing done while the alternate buffer is active
  touches the standard one's cursor, saved cursor, margins or flags. The type invariants are proved where a
  module has proofs (`TerminalTyping`, and as a part of the inductive invariant elsewhere); no run repeats them.
* `MarginsFit`; `UnshortIsWhole`: without `SCROLL_SHORT` the region is the whole buffer, on which
  `vtty_resize_full` relies; `GeometryAgreement`: unless the child set the size of its terminal last, the active
  buffer, the scrollback and the kernel have the same one.
* `TextComesBack`: what was seen of a row of the standard buffer is there again when the columns are, unless that
  row was stored to; a store to another one does not excuse it. `LinesAreKept`: the scrollback has each line as wide as it was seen when captured.
* `DirtyIsSound`: between updates, a cell without its mark is on the window as it is in the buffer.
  `PaintIsComplete`: after an update every cell is. `OneCursor`.
* `FittedColorsDiffer`: two colors that were both last asked for in forms the code fits (`38;5`, `38;2`, the bright ones) are drawn as
  one exactly when they were asked for as one, by the child's record of its items (`wish`) and not the code's. It says nothing of 30 to 37 and
  40 to 47, which are not fitted: that is `DrawnColorsDiffer`, which the code breaks. `FittingIsFaithful`; `MappedColorsAreKept` (a
  redefined color keeps its number). `ToldItemsCount`: where an item is no color by red, green and blue, or one whose form can be
  told from how many parameters are left, the loop goes on with the next item. Without that condition it is `EveryItemCounts`.
* `ListIsWhole`, `CacheMirrorsCurses`, `NoOrphans` (no pair is owned by a terminal that is gone),
  `HostPairsComeBack` (after the last terminal), `OwnedPairsKeepTheirColors`. That the pair for hidden text stays black
  (`ReservedStaysBlack`) is proved.
* `SequencesAreWhole`: the calls made are those of the units sent, in order, none more or less. What is left of a unit that is more than
  a byte too long is among these calls, as text. `BufferFits`;
  `StringsAreKept` for title and clipboard, each told once. `ImplementsStream`: every step is one of the loop over all that was
  sent, or changes nothing. `HostKnows`: at every byte, not only between units, the host that asked for it holds what the
  terminal holds, without having been told it twice.
* `OutputInOrder`, `WritesAreWhole`. `OnlyBothWaitingHangs`: a write the host has begun returns, or host and child wait for each other, each for
  room in the queue the other should empty; nothing else holds it up. `OutputIsShown`: what the child wrote is rendered in the end, with its
  queries answered, unless the child is gone or waits like that. `WriteReturns` and `QueryAnswered` (every byte of a reply, once and in order)
  are what the documents say.
* `SignalsAreHandled`; `NoWakeupLost`: the host is not asleep over output that nothing will wake it for;
  `OutputIsRead`.
* `CountsMatch`. `MotionStopsWithTheLast`: where every terminal leaves the mouse to libvterm (`ext` is empty), the real terminal, not the driver's
  note of it, reports motion only while a terminal is in the mode it reports; with `ext` it may go on, as section 5 says. `MotionFollowsTheChildren`, that it does report it while one is, is broken by the code. `HostKeepsItsMouse`: a host that owns its mouse
  sees neither the mask nor the tracking change. `MotionOncePerCell`.
  `DriverIsWhole` and `EventsKeepTheMask` are proved.

### Bounds, and why they are enough

* `HistoryRing`: capacities 1 to 5, two lines. Every rotation of every capacity meets every shrink and
  growth; two distinguishable lines tell any two rows apart, as every filling is reached.
* `RowMove`: four rows, counts 1 to 5: a region with rows left out on both sides, counts below, at and
  above its height, IL and DL with the cursor below the region. Every screen is an initial state.
* `Terminal`: screens of 2x2, 1x3, 3x2, resized up to 1x4. Three rows let a region leave out
  a row at either edge or both; two columns hold a wide glyph. Coordinates
  beyond the buffer are clamped to its edge by the moves, so counts of 1 reach what larger ones do
  by repetition. The code has tabs every 8 columns; `TabSize` is a constant so that a narrow screen can hold a
  stop. `cursor` has no resize, because the cursor does leave the screen with one, and mode sequences of one
  parameter, because with more the alternate buffer does not leave the standard one alone (section
  5). It has mode 20 but not 7, which would multiply its states tenfold; the theorems have both. Sizes by the host are 2x2, 1x3 and 1x4. `sizes` leaves the plain
  cursor moves out (`GeometrySpec`): no guard or value of a size, margin or flag reads the cursor, so they would
  only multiply the states. It keeps the two moves that take the column off the buffer (CBT, REP), and has
  resizes by the child to a size no host asks for (so that `GeometryAgreement` tells who was last), sequences of two
  parameters with 7, 25, 47 and 1034, and the resets of an rxvt. Mode 20 is left out, as `UnshortIsWhole` does not hold with
  it. `Overshoot` bounds how far the
  column drifts: it is 1 there, so that the column does leave the screen, and 0 in `cursor`, which has neither.
* `Screen`: one or two rows and columns, a history of two rows, one character against blanks. Each buffer is
  narrower, as wide as and wider than each other in some state; the alternate screen fills the history at
  once. In `text` the child narrows its terminal; that it widens it is `screen_wider`.
* `Paint`: a screen of 2x2, one letter, counts of 1, all cursor positions with the pending wrap, all
  regions. `Wide` is empty: with wide characters the code forgets cells (section 5). A print that does not wrap does not depend on the region and is tried with one.
  `SettledFlip` is a state constraint: the search does not go on from states where the standard
  buffer was left with marks still set, or with cells that differ. When it returns it is marked whole, so neither its marks nor which
  of its cells differ from the window matter; the proof has no such constraint.
* `Pen`: real terminals of 8, 16 and 256 colors with each of the C8, C16 and TRUECOLOR flags, sequences of
  several items with every form of color, a color by red, green and blue at the end and before other items. Private
  colors start at 254, so that they run out after two; the cache finds a near color or none. `sgr_items` has the terminal of 256 colors alone, since what it
  shows needs no flag.
* `Colors`: two terminals, four pairs, colors 0 and 7, a host with one pair that looks like another's. Four
  pairs are pair 0, one of the host (the answer of its `pair_select`), one reserved and one to fight over. The proofs have any `HostPick`.
* `Parser`: buffers of 12 and 24 bytes, 6 parameters, titles of 6 bytes, one unit at a time, split anywhere. A title
  is below and above its limit, a sequence one byte and a command one and three bytes too long. NULs, controls inside sequences, both terminators and C1 bytes occur.
* `PtyIO`: three bytes of output of which the second ends a query, queues of three bytes, reads of
  two, replies of two, two writes of one or two bytes with brackets of one: every call meets a full
  queue, a short write inside a bracket, a clamped read. `ShortReads` is `FALSE`: a read from a Linux
  pty returns the bytes FIONREAD has counted before it, since nobody else reads; with `TRUE` the model
  shows what the code would do elsewhere (bytes rendered twice and lost, `vtty_read.c:164`). The kernel
  holds two bytes of the child's three (`OutRoom`), so that the child waits as well as the host. In `pty_reply` it holds all three: what it
  shows does not need that wait.
* `Async`: two terminals of three writes each, kernel room for two (`PrintRoom`), reads that take what the kernel holds
  (`ReadLimit`; it holds 4096 bytes on Linux, `MAX_PIPE_READ` is 32768), a pipe with room for every signal; `pipe()` may fail.
* `Mouse`: two terminals, two cells in reach of the classic encoding and out of it, one button; `RefLimit`
  bounds how far the unbalanced count runs away: 1 either way in `curses`, 2 in `mouse_motion`.
  `ScrollsAlone` is a state constraint of `curses`: mode 1007, which no property reads, is set only in a terminal without other modes. The proofs have neither bound.
* Deadlock is checked everywhere except in `host`, `pty_full` and `pty_reply`: there the child may have exited, or wait for
  input for ever while the host has no more to write, and the host sleeps once the children are done.
* `AllocMayFail` is `FALSE` in the runs: what a failed allocation breaks is in section 5.

### Fairness

`PtyIO` and `Async` have liveness properties; `MCHost` keeps the fairness of each for its own steps. In `PtyIO`, `WF(InCall)`: the host is a running thread, and a
call in progress goes on when its system call can return. `WF(NoticeExit \/ ReadPipe)`: the host's loop keeps calling
`vtty_read_pipe`, as the demo's and every documented loop does. `WF(Child)`: the child proceeds when the call
it blocks in can return; it need not ever choose to read rather than to write, but its output is finite.
Nothing makes the child exit or the host write. In `Async`, the kernel delivers a pending signal, and the handler, the calls
and the host's loop take the steps they can (weak fairness). Strong fairness of `StartRound` says that a host which
creates and destroys terminals without end makes rounds of its loop in between; nothing makes a child write.

## 4. The proofs

Every theorem holds for all values of the constants that satisfy its module's assumption (sizes and
counts are positive, blanks are not lines, and so on) and its own `ASSUME`.

| theorem | property | its ASSUME |
|---|---|---|
| `HeadStaysInBlock`, `UsedTail`, `RingImplementsLog` | `HeadInRange`, `UsedRowsAreTheTail`, `ImplementsLog` | no failed allocation |
| `MoveInBounds`, `LoopsReadIntactRows`, `RowMoveImplementsRegion` | `AccessInBounds`, `LoopInv`, `ImplementsRegion` | none |
| `TerminalTyping` | `TypeOK` | none |
| `MarginsAlwaysFit` | `MarginsFit` | no failed allocation |
| `ShortFlagIsRight` | `UnshortIsWhole` | and mode 20 is not used |
| `SizesAgree` | `GeometryAgreement` | no failed allocation, there is a pty |
| `CursorRowStays` | `RowOnGrid` | and nobody resizes |
| `CursorColumnStays` | `ColOnGrid` | and neither REP nor CBT is used, no wide glyph on one column |
| `StandardIsIsolated` | `AltIsolation` | mode sequences have one parameter |
| `CleanCellsAreShown`, `UpdateShowsScreen`, `CursorIsAlone` | `DirtyIsSound`, `PaintIsComplete`, `OneCursor` | characters are one column wide |
| `ListStaysWhole`, `CacheIsCoherent`, `NoPairIsOrphaned`, `HiddenTextStaysHidden`, `HostIsRestored`, `ColorsAreKept` | the other five of `Colors`, and `ReservedStaysBlack` | none |
| `CountsAreRight`, `MotionStops`, `HostIsLeftAlone`, `DriversStayWhole`, `MaskIsKept`, `MotionIsToldOnce` | `CountsMatch`, `MotionStopsWithTheLast`, `HostKeepsItsMouse`, `DriverIsWhole`, `EventsKeepTheMask`, `MotionOncePerCell` | none |
| `OutputStaysInOrder` | `OutputInOrder` | a read returns what FIONREAD counted |
| `CompleteWritesAreWhole` | `WritesAreWhole` | none |
| `AsyncTypes`, `SignalsNeverKill` | `AsyncTypeOK`, `SignalsAreHandled` | none |
| `HostIsWoken` | `NoWakeupLost` | one read takes all that the kernel holds (`PrintRoom <= ReadLimit`) |
| `FittedColorsStayApart`, `MapStaysSound`, `GraysStayGray` | `FittedColorsDiffer`, `MappedColorsAreKept`, `FittingIsFaithful` | none |
| `ScreenTyping`, `TextIsKept` | `ScreenTypeOK`, `TextComesBack` | none |
| `CapturedLinesAreKept` | `LinesAreKept` | the child makes its terminal no wider than it was (`ChildStaysNarrow`) |
| `SequencesStayBounded`, `SplitsDoNotShow`, `HostIsTold` | `BufferFits`, `ImplementsStream`, `HostKnows` | none |
| `UnitsAreWhole`, `CommandsAreKept` | `SequencesAreWhole`, `StringsAreKept` | a unit is characters, controls and sequences, or one command that fits (`SendsWhole`) |
| `CharactersComeBack`, `PayloadsComeBack` | that the decoders undo UTF-8 and base64 | none |

The arguments:

* **Ring.** `RingInv` is the typing of the block with `head < rows`; a fill or a row is only meaningful
  under it. Four lemmas say how each operation moves the *logical* rows (append: up by one; shrink: the top
  goes; growth: blanks on top; resize: nothing), the only place where the rotation is unfolded. The two
  other properties follow from these lemmas alone.
* **Row moves.** `MoveInv` is the typing with `LoopInv`, which says of each row whether the loop has passed
  it. The key step is that a loop reads a row it has not written yet (`r + n > r` upwards, `r - n < r`
  downwards). When the clear loop ends, `LoopInv` is `Region`'s definition.
* **Margins.** `RegionInv` couples `MarginsFit` with `UnshortIsWhole`, for both live buffers: a resize drops a
  top margin on the strength of the first, and moves a bottom margin on the strength of the second, so
  neither alone is inductive. Mode 20 clears `SCROLL_SHORT` with the margins left in place, so the
  second half is bound to its absence.
* **Sizes.** `GeometryAgreement` is inductive with the types: a resize by the child makes it say nothing, the next one by the
  host restores it at once, and a switch of buffers hands the size on.
* **Cursor.** `FullInv` adds that both buffers, also the alternate one while it has no cells,
  have their cursor and saved cursor on the rows of one constant size (`GridInv`): the next entry
  finds the old cursor. `PlainSteps` says once, for all characters and moves, that a cursor on
  the grid with fitting margins stays on it. For the column, `ColumnInv` says the same of `ccol`, which may
  rest at the width (the pending wrap).
* **Isolation.** A step of the alternate buffer names the standard one only through the buffer that was read
  before the loop over the parameters. `OneParam` says that a sequence in hand has one parameter
  and that its buffer is the active one, so the two cannot differ.
* **Painting.** `Marks(s, t)` says that t differs from s in marked cells only. It is transitive, each
  primitive establishes it, and a handler is a composition of primitives: `BecomesKeeps` carries it to
  `PaintInv`. The one step that clears marks is the update, and it clears none of a cell it did not
  paint, since without wide characters it skips none (`NothingSkipped`). A DCH that moves characters alone marks the same cells.
* **Colors.** `CacheInv` is the typing with the list as a bijection (every pair is on it once), the count of
  references as the number of living terminals, and the properties. The list must be whole for a rebinding to find
  the pair it takes; the count decides when the host's pairs come back, so it must be right for them.
* **Mouse.** `MouseInv` adds to the counts that a driver is whole (`DriversAreWhole`), that a terminal with a mode has
  been started (`ConfiguredIsStarted`), that the driver last asked for what the counts say where it may ask for all (`MotionIsWanted`), and
  that the real terminal reports motion only as it was last asked to (`AskedFor`); ncurses may have put it back to plain reports since, so nothing
  stronger is true. A stop gives back what its start took only if the driver still says what that was. For the host that owns its mouse,
  `NobodyClaims` says that no terminal ever became the origin.
* **Pty.** `OutputInv` splits what the child wrote into rendered, in the buffer and in the kernel, by the place the host is in.
  `WritesInv` says of the write in hand that the bytes sent are its first ones (`InProgress`); `Run` is kept by everything
  others send (`RunGrows`) and extended by the host's own `Write` (`RunGoesOn`).
* **Signals.** `ArmingInv` follows `vtty_set_async` call by call: a pty gets its owner, and with it the right to raise SIGIO, after
  the handler and the pipe are there, and `Destroy` takes neither back. `WakingInv` is about the host's round: while it empties the
  pipe all terminals are before it; from its first read until it wakes, output of an armed terminal is still to be read in the round or has a
  signal that is pending, handled or in the pipe (`Noticed`). A byte is taken off the pipe only before the reads, and a read leaves nothing behind.
* **Pen.** While both colors were last asked for in forms that are fitted, what the code has noted of them is the child's `wish`, and what is given is what
  `FitColors` made of the two; the items that are not fitted take their color out of `fitted` and make the property say nothing until both
  are asked for again (`PlainKept`, `FittedKept`). `FitColors` makes two colors one only when they were asked for as one: the readable color is never the
  background (`ReadableDiffers`, `FitColorsDiffer`). The map is sound (`MapIsSound`) as every entry stands for
  a color below `next` that is still defined as the entry says; definitions, here or by another terminal, only take colors from `next` on.
  That grays stay gray is arithmetic about every color at once (`GrayFits`, `CubeRoundTrip`, `RampRoundTrip`), with the nearest
  color as a least element of a set of candidates.
* **Screen.** `ScreenInv` says that a buffer is a block of rows of one length with a visible width within it (`Shape`), and that
  each row of the standard one begins with what was seen of it since it was last stored to (`Shown`). It is inductive because a reallocation keeps what it hides
  and a shift copies whole rows only while nothing is hidden. `HistoryInv` adds that the history is as wide as anything that may be captured into it:
  both live buffers, the kernel's size, and the size at the start.
* **Parser.** `ParserInv` says of the state that what is in the buffers fits and that nothing is left of a sequence outside of one
  (`IsGood`), one lemma per function of `vtty_escape.c`; growing pays for the byte that asked for it because sizes at least double
  until `LargeSize` (`StoredGood`). That resets do not nest is in `AreCalls`: a request for one ends in `c` or `p`, and `RXVT_RS1` has neither, so while
  it is rendered no byte can ask for another.
* **Reads.** A split only moves bytes between `pending` and the outermost call, which `Joined` does not see; a turn of the loop over
  a call that has a byte is the same turn with more behind it (`ExtendedLoop`), as a byte never looks at the next. A nested call
  is the case with two calls, where the outermost only waits. The fast path is the ordinary turn of a printable byte outside of a
  sequence, a character and a reset string (`FastIsPut`): with `rs1 # 0` it would hide the byte from the scanner, which the mutant
  of `ImplementsStream` shows.
* **Host.** `HostInv` reads the record of calls as news: what a string of calls tells (`Tells`) composes with what the next
  one tells (`TellsBoth`, `NewsBoth`), so it is enough that each byte tells what it changes. All bytes but the last of a
  command tell nothing (`IsQuiet`), and that one tells a title that differs from the held one or a payload it stored (`CommandTells`).
* **Units.** What the bytes of a unit stand for is stated without the parser: a *piece* is a character with its encoding (`IsText`), a
  control or a sequence with its last byte in the only place where it may be (`IsRest`), and `LeadsTo` chains any number of
  them; a command ends once and in its last byte (`IsLine`). `WholeInv` says where in its piece the parser is: between two of them at rest (`Between`), or
  with the first bytes of one in its buffer (`WithinCharacter`, `WithinSequence`, `WithinCommand`), and that the calls made so far, the rest of
  this piece and the pieces to come make the calls of the unit. It is an invariant of the abstract parser, where no byte depends on the split;
  `SplitsDoNotShow` carries it over. The scanner of resets stays in it as far as one ESC.
* **Decoders.** `Utf8(c)` and `Group(s)` are what an encoder writes. The proofs are arithmetic of digits to the base of 64: each
  byte of a code carries one (`Div64`, `Low64`, `CodedValue`), and the decoder puts together the number they were cut from.

Each `ASSUME` is there because the code breaks the property without it:

* `AllocMayFail = FALSE`. `vtty_set_history_size` sets `head` around a reallocation whose result it does not
  look at: when it fails on growth, `head = rows` and the next capture writes past the block; on a shrink
  the rotation has moved and the oldest lines become the newest. In `vtty_resize_full` a failed
  reallocation keeps the rows but takes the new bottom margin.
* `20 \notin Modes`. Setting mode 20 is an AND with the flag (`vtty_dec_SM.c:79`).
* `ChildSizes = {}` for the cursor. A child that sets the size of its own terminal gets the alternate buffer at that size,
  with the cursor of its last use.
* `NoPty = FALSE`. Without a pty the descriptor is 0, and the alternate buffer gets the size of standard input.
* `HostSizes = {}` for the cursor. A shrink in the alternate buffer leaves the standard one's cursor
  below its last row (`vtty_buffer.c:340`); a saved cursor is not clamped by any resize.
* `RepCounts = {}` and `TabCounts = {}` for the column: REP and CBT move it without a clamp. On a screen of one column
  the right half of a wide glyph has no place.
* `MaxParams <= 1` for the isolation. The buffer is read once before the loop (`vtty_dec_SM.c:28`), so what follows a 47
  in the same sequence acts on the buffer just left.
* `Wide = {}` for painting. A print over half of a wide glyph is forgotten (`vtty_wnd.c:156`).
* `ShortReads = FALSE`. Only the count of the last read is rendered (`vtty_read.c:164`).
* `PrintRoom <= ReadLimit`. A round reads each terminal once: what a read leaves behind raises no signal again (4096
  and 32768 bytes on Linux).
* `ChildStaysNarrow`. When a child makes its own terminal wider and enters the alternate screen, the history keeps its width and the captured rows are cut to it
  (`vtty_buffer.c:579`); the run `screen_wider` has the trace.
* `SendsWhole`. A command that is longer than the buffer is dropped where the buffer is full, with the rest of it on the screen
  (`vtty_render.c:172`), and one with ESC ] R within is taken for a palette reset on the console: neither can be whole. What a unit of the other kinds
  does is left to the run: a reset, which is rendered within itself; a sequence that is dropped for another, has NUL or a control within, or begins with
  a C1 byte; a command with ESC > within, which the scanner of resets takes for its beginning; and commands and other pieces in one unit.
  All other commands of the run are of the form the theorems speak of.

Two assumptions of `Parser` are not about behaviour: a buffer may grow to twice its first size at least (the code has 128 bytes and 256 KiB), and
what a child sends is bytes.

Model-checked only: liveness (`OnlyBothWaitingHangs`, `OutputIsShown`, `OutputIsRead`), which is out of the prover's reach; `ToldItemsCount`
of `Pen`, where a fold over the parameters says where the items of a sequence begin, which needs induction over them; and the two
properties of `Parser` for the units that `SendsWhole` leaves out.

## 5. Where the code does something else

All of this was met while modelling, and is faithful in the modules; the runs show what holds beside it.

Against a comment, the changelog or the header, with the run that stops at it:

* `pty_full`. `vtty_write.c:482`: the host waits without a timeout for room in the pty and reads nothing meanwhile, while the child waits
  for room in its output: neither goes on. `vtty.c:221-224` says that such writes are kept "from hanging the host", and so does CHANGELOG:214-216.
* `pty_reply`. `vtty_reply.c:20`: after a short write the reply starts again from its first byte: with two bytes and room for one, the child gets the
  first one twice and never the second. `vtty_csi_DSR.c:15-18` says that applications read until the reply arrives.
* `screen_wider`. `vtty_buffer.c:579`: a child that widens its own terminal and enters the alternate screen has its lines cut when
  they are captured, since the scrollback kept its width, against the comment at 559-560.
* `mouse_motion`. `mouse_driver.c:388`: each event for a terminal that does not own the mask calls `mousemask`, which makes ncurses send its plain request
  again. 1002 or 1003 is replaced on the real terminal while `host_motion` says it is on, so it is not asked for again, against
  `mouse_driver.c:75-78` and CHANGELOG:86-88.
* `pen_contrast`. `vtty_csi_SGR.c:470`: SGR 40 to 47 stores its color without a look at the other one: 90 and then 47 on eight colors is white on white
  (CHANGELOG:35: two colors asked for as different are never drawn the same).
* `sgr_items`. `vtty_csi_SGR.c:664`: `38;2;r;g;b` followed by other parameters is misread, or the rest is dropped, since its form is told from how many
  are left (CHANGELOG:314-316).

Against one, without a run of its own:

* A command more than a byte longer than its buffer is dropped where the buffer is full, and the rest of its payload is
  put on the screen (`vtty_render.c:172-176`, against the comment before it and CHANGELOG:190-192). The run `host` has such a unit, which says what it
  puts there; a unit without these calls violates `SequencesAreWhole`.
* `vtty_csi_REP.c:50`: the copy loop stops at the width, the cursor does not: it advances by the unclamped count, though the comment at line 32 is about
  the right edge. In `sizes` the column does leave the screen; with `RepCounts` in `cursor`, `ColOnGrid` fails.
* `vtty_wnd.c:156`: a character printed over the right half of a wide one is skipped and its mark dropped; when the left half is overwritten it
  stays invisible (CHANGELOG:400: cells that change are marked and rendered). With wide glyphs, `PaintIsComplete` fails.
* `mouse_driver.c:434`: the count of references rises with each mouse mode that is set (`mouse_driver_init`) and falls with each terminal that is destroyed,
  also one that never set any. Create a, a sets mode 1000, create b, destroy b, and it is 0: the mask is given up while a still wants
  events, against `:106-109`. After that a later start does not arm it again. `CountsMatch` is about the counts of motion.
* `vtty_csi_SGR.c:227`: SGR 90, then 37, then `48;5;8` on eight colors draws black on black. 37 stores the very number that 90 was given, so the
  foreground still counts as the bright black asked for before, which is also what the background asks for; the comment at 213-215
  says that a plain color set since "is taken as it is".

Others are below, by subject.

Cursor, modes and buffers:

* `vtty_history.c:50`, `vtty_resize.c:64`: the failed reallocations of section 4.
* `vtty_csi_CBT.c:27-32`: CBT at column 0 counts 0 as a whole stop away and moves to column -8.
* `vtty_buffer.c:340`: a shrink made in the alternate buffer leaves the standard buffer's cursor below the last row on return.
* `vtty_scroll.c:82`, `:18`: RI with the cursor above the top margin moves it *down* to the margin; LF and NEL
  below the bottom margin move it up to it.
* `vtty_csi_REP.c:50`: at column 0 REP repeats the cell before the row.
* `vtty_csi_ED.c:73`: erase below starts at column 0 of the cursor's row, not at the cursor.
* `vtty_render.c:272`: on a buffer of one column a wide glyph's right half is stored beyond the row.
* `vtty_dec_SM.c:28`: `CSI ? 47;3 h` erases and homes the buffer just left.
* `vtty_dec_SM.c:79`: setting mode 20 clears every other flag.
* `vtty_csi_RS1.c:50`: RIS in the alternate buffer resets that one and then switches: the standard
  buffer keeps its margins and cursor.
* `vtty_buffer.c:318`: after a resize by the child, the scrollback keeps the old width when the standard
  buffer gets the new one; without a pty the size is read from descriptor 0.

Text:

* `vtty_buffer.c:468`: a scroll moves only what is visible of rows that are wider, and a clear clears only that; when the
  columns come back, text beside a line belongs to another one. `TextComesBack` speaks of rows nobody stored to.
* `vtty_buffer.c:581`: a row captured from a narrower block leaves the tail of the oldest line beside it in the ring;
  it shows when the terminal is wider again. This needs a resize in the alternate screen that is undone before it is left.
* A shrink of the height drops the rows at the bottom, with the cursor's; they are not captured.
* `vtty_buffer.c:792`: `vtty_copy_scrollback` copies as many columns as the history has into rows as wide as the standard buffer; a resize
  made in the alternate buffer reaches the first and not the second, so the two do not "share geometry" (`vtty_wnd.c:311`) until it
  is left. The host can tell by `vtty_get_active_buffer`.

Input and output:

* `vtty_reply.c:35`: a write that fails subtracts -1: the loop never ends. `QueryAnswered` asks nothing
  once the child is gone.
* `vtty_read.c:57`: the exit is noticed first; what the child printed last may never be read.
  `OutputInOrder` counts such bytes as still in the kernel.
* `vtty_aio.c:86`: with the pipe full the handler retries for ever, and the reader it waits for is the thread it
  interrupted. With `PipeRoom` below the number of signals `OutputIsRead` fails. A real pipe holds 65536 bytes.
* `vtty_aio.c:62`: `F_SETFL` with `O_ASYNC` alone takes `O_NONBLOCK` from the pty (`vtty.c:221-226` set it); writes then wait in `write()` itself.
* What a child writes before its pty is armed raises no signal: a host must read once after `vtty_set_async`, as the loop here does.

Mouse:

* Terminals of different `EXTMOUSE` flags leave the motion of the real terminal stale as well.
* A release outside the window leaves `held` set; an event beyond column 223 in the classic encoding changes `held` and the last cell though nothing is reported.

Colors:

* A pair that one terminal found and another owns is reset with its owner. `find_pair(0, 0)` may return a pair nobody has used, which an
  addition rebinds later. The pair of `default_colors` may be recycled (comment at `vtty_csi_SGR.c:415-426`).
* When TRUECOLOR runs out of colors the rest of the sequence is swallowed: `next_color` only grows.
* Private colors 90 to 107 of C16 terminals have the numbers of `38;5;90` to `107`. TRUECOLOR numbers on hosts of 17 to 255 colors are fitted once
  more as if they were xterm's. A second OSC 4 for a number that is mapped has no effect.

Parser:

* The branch for a stray ESC and the suffix checks of DCS can not be reached. A DCS longer than its buffer spills like a command.
* A character cut short by ESC or a control leaves the UTF-8 mode on with its bytes in the buffer; the reset scanner misses a string that begins
  right after a partial one (`vtty_csi_RS1.c:18`); the Linux palette string `ESC ] P` never ends on a terminal that is
  not linux, and `]R` inside a title cancels it on one that is. The units of the run leave these out.

## 6. What is not modelled

* **Life cycle** (`vtty.c`, `vtty_exec.c`, `vtty_hook.c`): straight-line code. Creation and destruction are actions of `Mouse`, `Colors` and `Async`,
  for the state they share. Hooks that call back into the library are not modelled: the documents do not say which calls they may make.
* **Numbers without a width**: parameters of a sequence are accumulated in an `int` (`vtty_csi.c:82`); the model has integers. A number that overflows has
  more digits than the buffers of the runs.
* **Color search**: `find_lru`, `load_palette` and the distance of colors (`color_math.c`) decide *which* pair or
  color; `Colors` takes any they may return, a host's selector included. The callback that `vtty_set_pair_splitter` stores is never called by the code.
* **Spans and styles** of the painter group cells for curses and choose none. **Glyph substitution** and **keymaps** are static tables.
* **The bytes** of mouse reports and replies other than their encoding and length.
* **Mouse on hosts without curses** (`VTTY_FLAG_NOCURSES`), which ask the real terminal for nothing; cells that curses refuses; the pen of the alternate buffer apart
  from the standard one's.
* **Timeouts** of `poll` in `vtty_read_pipe`: a call that returns with nothing read changes nothing.
* **Accessors, debug dumps, string and list utilities, demo, tests** keep no state of the terminal.

## 7. The plan and what is left of it

In the order of importance, all with their runs: `HistoryRing`, `RowMove`, `Terminal`, `Paint`, `PtyIO`, `Parser` with `Osc`, `Mouse`,
`Colors`, `Pen`, `Async`, `Screen`; and the theorems of section 4. Left:

1. The composition of `Terminal` with `Screen`: the cursor's position deciding which rows are stored and scrolled off.
2. A parser that goes on after an overflowing parameter and a cut character, with the reading of both in `Terminal`.
3. Hooks that call the library from inside a handler, once it is said what they may do.
