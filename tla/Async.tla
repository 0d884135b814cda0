-------------------------------- MODULE Async --------------------------------
(***************************************************************************)
(* Signal driven input: vtty_set_async arms a pty so that new output of    *)
(* the child raises SIGIO, the handler signal_io turns each signal into a  *)
(* byte of one pipe shared by all terminals, and the host sleeps on that   *)
(* pipe instead of polling.  The children write and the kernel delivers    *)
(* the signal between any two system calls of the host; while the handler  *)
(* runs, the host does not.                                                *)
(***************************************************************************)
EXTENDS Integers, FiniteSets

CONSTANTS
  Term,          \* the terminals
  PrintLimit,    \* how much each child writes, at most
  PrintRoom,     \* what the kernel holds of a child's output
  ReadLimit,     \* MAX_PIPE_READ
  PipeRoom,      \* how many bytes the pipe holds
  PipeMayFail    \* whether pipe() may fail

ASSUME AsyncAssumption ==
  /\ {PrintLimit, PrintRoom, ReadLimit, PipeRoom} \subseteq Nat \ {0}
  /\ PipeMayFail \in BOOLEAN

VARIABLES
  live,          \* the terminals the host has created and not destroyed
  written,       \* how much each child has written
  unread,        \* how much of it waits in the kernel
  vtty_sig_fds,  \* whether the pipe is there
  nonblock,      \* the ends of it that are non-blocking
  pipe,          \* how many bytes are in it
  sigaction,     \* what SIGIO does: "default" ends the process
  owned,         \* the terminals whose signals go to this process
  async,         \* the terminals whose pty raises signals
  joined,        \* history: those whose vtty_set_async returned the pipe
  io_pending,       \* whether SIGIO is pending
  in_handler,    \* whether signal_io is running
  hostAt,        \* where the host is
  arming,        \* the terminal vtty_set_async is called for, or none
  toread         \* the terminals the host's round has still to read

kernel == <<written, unread>>
selfpipe == <<vtty_sig_fds, nonblock, pipe>>
armed == <<sigaction, owned, async>>
signal == <<io_pending, in_handler>>
asyncVars == <<live, kernel, selfpipe, armed, joined, signal, hostAt, arming, toread>>

AsyncInit ==
  /\ live = {} /\ written = [t \in Term |-> 0] /\ unread = [t \in Term |-> 0]
  /\ vtty_sig_fds = FALSE /\ nonblock = {} /\ pipe = 0
  /\ sigaction = "default" /\ owned = {} /\ async = {} /\ joined = {}
  /\ io_pending = FALSE /\ in_handler = FALSE
  /\ hostAt = "awake" /\ arming = {} /\ toread = {}

-----------------------------------------------------------------------------
(* The children and the kernel: external to the library. *)

\* Signals of one kind do not queue: a pending one covers what comes after.
ChildPrints(t) ==
  /\ t \in live /\ written[t] < PrintLimit /\ unread[t] < PrintRoom
  /\ written' = [written EXCEPT ![t] = @ + 1]
  /\ unread' = [unread EXCEPT ![t] = @ + 1]
  /\ io_pending' = (io_pending \/ t \in async \intersect owned)
  /\ UNCHANGED <<live, selfpipe, armed, joined, in_handler, hostAt, arming, toread>>

\* A second SIGIO waits until the handler of the first has returned.
Deliver ==
  /\ io_pending /\ ~in_handler /\ sigaction = "signal_io"
  /\ io_pending' = FALSE /\ in_handler' = TRUE
  /\ UNCHANGED <<live, kernel, selfpipe, armed, joined, hostAt, arming, toread>>

-----------------------------------------------------------------------------
(* The library *)

\* Without the pipe the write fails for good and the signal is dropped.  With
\* a full one it is EAGAIN, and the handler tries again until somebody reads.
signal_io ==
  /\ in_handler
  /\ vtty_sig_fds => pipe < PipeRoom
  /\ pipe' = IF vtty_sig_fds THEN pipe + 1 ELSE pipe
  /\ in_handler' = FALSE
  /\ UNCHANGED <<live, kernel, vtty_sig_fds, nonblock, armed, joined, io_pending,
                 hostAt, arming, toread>>

\* The host's own steps: it is awake, or in a call, and not in the handler.
At(place) == hostAt = place /\ ~in_handler

\* Fault: the flags of the writing end alone are set.
OpenPipeReadBlocks ==
  /\ vtty_sig_fds' = TRUE /\ pipe' = 0 /\ nonblock' = {"W"}

\* pipe() and the flags of its two ends, in one step: no pty is armed yet, so
\* nothing raises a signal in between.
OpenPipe ==
  /\ vtty_sig_fds' = TRUE /\ pipe' = 0 /\ nonblock' = {"R", "W"}

\* Fault: the pty is armed before the handler is installed.
ArmFirst(t) ==
  /\ At("awake") /\ t \in live \ joined
  /\ IF vtty_sig_fds THEN UNCHANGED selfpipe ELSE OpenPipe
  /\ owned' = owned \union {t} /\ async' = async \union {t}
  /\ hostAt' = "sigaction" /\ arming' = {t}
  /\ UNCHANGED <<live, kernel, sigaction, joined, signal, toread>>

\* vtty_set_async: the first caller makes the pipe.  When that fails the call
\* ends with -1.
SetAsync(t) ==
  /\ At("awake") /\ t \in live \ joined
  /\ \/ /\ IF vtty_sig_fds THEN UNCHANGED selfpipe ELSE OpenPipe
        /\ hostAt' = "sigaction" /\ arming' = {t}
     \/ /\ PipeMayFail /\ ~vtty_sig_fds
        /\ UNCHANGED <<selfpipe, hostAt, arming>>
  /\ UNCHANGED <<live, kernel, armed, joined, signal, toread>>

Sigaction ==
  /\ At("sigaction")
  /\ sigaction' = "signal_io" /\ hostAt' = "setown"
  /\ UNCHANGED <<live, kernel, selfpipe, owned, async, joined, signal, arming,
                 toread>>

Setown ==
  /\ At("setown")
  /\ owned' = owned \union arming /\ hostAt' = "setfl"
  /\ UNCHANGED <<live, kernel, selfpipe, sigaction, async, joined, signal,
                 arming, toread>>

\* Fault: only the caller that made the pipe arms its pty.
SetflOnce ==
  /\ At("setfl")
  /\ async' = IF joined = {} THEN arming ELSE async
  /\ joined' = joined \union arming
  /\ hostAt' = "awake" /\ arming' = {}
  /\ UNCHANGED <<live, kernel, selfpipe, sigaction, owned, signal, toread>>

Setfl ==
  /\ At("setfl")
  /\ async' = async \union arming /\ joined' = joined \union arming
  /\ hostAt' = "awake" /\ arming' = {}
  /\ UNCHANGED <<live, kernel, selfpipe, sigaction, owned, signal, toread>>

\* vtty_read_pipe does not wait in this mode: it takes what is there.
ReadTerminal(t) ==
  /\ At("reading") /\ t \in toread
  /\ unread' = [unread EXCEPT ![t] = IF @ > ReadLimit THEN @ - ReadLimit ELSE 0]
  /\ toread' = toread \ {t}
  /\ UNCHANGED <<live, written, selfpipe, armed, joined, signal, hostAt, arming>>

\* A child may write before anybody can arm its pty.  One that has written is
\* not started again: this bounds the signals.
Create(t) ==
  /\ At("awake") /\ t \notin live /\ written[t] = 0
  /\ live' = live \union {t}
  /\ UNCHANGED <<kernel, selfpipe, armed, joined, signal, hostAt, arming, toread>>

\* The pty is closed; a signal it raised may still be under way.
Destroy(t) ==
  /\ At("awake") /\ t \in live
  /\ live' = live \ {t} /\ unread' = [unread EXCEPT ![t] = 0]
  /\ owned' = owned \ {t} /\ async' = async \ {t} /\ joined' = joined \ {t}
  /\ UNCHANGED <<written, selfpipe, sigaction, signal, hostAt, arming, toread>>

-----------------------------------------------------------------------------
(* The host's loop, external: it empties the pipe, reads every terminal     *)
(* once, and sleeps in poll() on the pipe.                                  *)

StartRound ==
  /\ At("awake")
  /\ hostAt' = IF vtty_sig_fds THEN "emptying" ELSE "reading"
  /\ toread' = live
  /\ UNCHANGED <<live, kernel, selfpipe, armed, joined, signal, arming>>

TakeByte ==
  /\ At("emptying") /\ pipe > 0
  /\ pipe' = pipe - 1
  /\ UNCHANGED <<live, kernel, vtty_sig_fds, nonblock, armed, joined, signal,
                 hostAt, arming, toread>>

\* Reading an empty pipe returns if its reading end does not block.
PipeIsEmpty ==
  /\ At("emptying") /\ pipe = 0 /\ "R" \in nonblock
  /\ hostAt' = "reading"
  /\ UNCHANGED <<live, kernel, selfpipe, armed, joined, signal, arming, toread>>

Sleep ==
  /\ At("reading") /\ toread = {}
  /\ hostAt' = IF joined # {} THEN "asleep" ELSE "awake"
  /\ UNCHANGED <<live, kernel, selfpipe, armed, joined, signal, arming, toread>>

Wake ==
  /\ At("asleep") /\ pipe > 0
  /\ hostAt' = "awake"
  /\ UNCHANGED <<live, kernel, selfpipe, armed, joined, signal, arming, toread>>

-----------------------------------------------------------------------------
(* Specification *)

Call == Sigaction \/ Setown \/ Setfl
HostLoop ==
  \/ StartRound \/ TakeByte \/ PipeIsEmpty \/ Sleep \/ Wake
  \/ \E t \in Term : ReadTerminal(t)

AsyncNext ==
  \/ Deliver \/ signal_io \/ Call \/ HostLoop
  \/ \E t \in Term : ChildPrints(t) \/ Create(t) \/ Destroy(t) \/ SetAsync(t)

\* The kernel delivers a pending signal, the handler and the host's thread
\* run when they can, and the host does not create and destroy terminals for
\* ever without a round of its loop.
AsyncFairness ==
  /\ WF_asyncVars(Deliver) /\ WF_asyncVars(signal_io)
  /\ WF_asyncVars(Call) /\ WF_asyncVars(HostLoop) /\ SF_asyncVars(StartRound)

AsyncSpec == AsyncInit /\ [][AsyncNext]_asyncVars /\ AsyncFairness

-----------------------------------------------------------------------------
(* Properties *)

AsyncTypeOK ==
  /\ live \subseteq Term /\ toread \subseteq Term /\ arming \subseteq Term
  /\ written \in [Term -> 0 .. PrintLimit] /\ unread \in [Term -> 0 .. PrintRoom]
  /\ vtty_sig_fds \in BOOLEAN /\ nonblock \subseteq {"R", "W"}
  /\ pipe \in 0 .. PipeRoom
  /\ sigaction \in {"default", "signal_io"}
  /\ owned \subseteq live /\ async \subseteq live /\ joined \subseteq live
  /\ io_pending \in BOOLEAN /\ in_handler \in BOOLEAN
  /\ hostAt \in {"awake", "sigaction", "setown", "setfl", "emptying", "reading", "asleep"}

\* The host does not sleep over output that nothing will wake it for, however
\* the writes of several children fall between the arming of a pty, the
\* handler and the host's round (vtty.h:302-306, the pipe serves to detect the
\* arrival of new data).
NoWakeupLost ==
  hostAt = "asleep" /\ pipe = 0 /\ ~io_pending /\ ~in_handler
    => \A t \in joined : unread[t] = 0

\* The first signal finds the handler and the pipe: SIGIO without a handler
\* ends the process (vtty_aio.c:43-62, the order of the calls).
SignalsAreHandled ==
  io_pending \/ in_handler => sigaction = "signal_io" /\ vtty_sig_fds

\* What a child writes on an armed pty is read: neither the handler nor the
\* host's reads of the pipe wait for ever while the pipe has room
\* (vtty_aio.c:47, both ends are made non-blocking).
OutputIsRead == \A t \in Term : t \in joined /\ unread[t] > 0 ~> unread[t] = 0
=============================================================================
