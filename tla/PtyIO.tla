-------------------------------- MODULE PtyIO --------------------------------
(***************************************************************************)
(* The host, the child and the two kernel queues of the pty between them:  *)
(* vtty_read_pipe with the rendering and the replies it causes, and the    *)
(* write-all loop under vtty_write_data and vtty_write_pipe.  The host is  *)
(* one thread, so a call it makes is a run of steps between which only the *)
(* child moves.                                                            *)
(***************************************************************************)
EXTENDS Integers, Sequences

CONSTANTS
  OutLimit,      \* how many bytes the child writes, at most
  Queries,       \* which of them end a DSR or DA query
  ReplyLen,      \* length of the reply to a query
  OutRoom,       \* what the kernel holds of the child's output
  InRoom,        \* what the kernel holds of the child's input
  MaxRead,       \* MAX_PIPE_READ
  DataLens,      \* the lengths the host passes to vtty_write_data
  BracketLen,    \* the length of each bracketed paste wrapper
  CallLimit,     \* how many times the host writes, at most
  ShortReads,    \* whether read() may return less than FIONREAD counted
  ChildMayExit   \* whether the child may exit, at any time

ASSUME PtyAssumption ==
  /\ OutLimit \in Nat /\ CallLimit \in Nat
  /\ Queries \subseteq 1 .. OutLimit
  /\ DataLens \subseteq Nat \ {0}
  /\ {ReplyLen, OutRoom, InRoom, MaxRead, BracketLen} \subseteq Nat \ {0}
  /\ ShortReads \in BOOLEAN /\ ChildMayExit \in BOOLEAN

VARIABLES
  child,     \* what the child is doing
  out,       \* bytes the child has written; its i-th byte is the number i
  consumed,  \* bytes the child has read
  host,      \* where the host is: "idle" outside every call
  got,       \* bytes the host has read
  read_buf,
  bytes_remaining,
  bytes_read,      \* what the last read() returned
  data,            \* the index vtty_render has reached
  shown,           \* history: the bytes rendered
  reply_buf_sz,
  asked,           \* the query being answered
  jobs,            \* history: the buffers of each write the host began
  job,             \* the buffers a write has still to deliver
  total,           \* bytes of the first of them already delivered
  sent,            \* history: the bytes the kernel took for the child
  complete,        \* history: the writes that returned success
  child_exited     \* STATE_CHILD_EXITED

output == <<out, got>>
reading == <<read_buf, bytes_remaining, bytes_read, data>>
replying == <<reply_buf_sz, asked>>
writing == <<jobs, job, total, complete>>
vars == <<child, consumed, host, output, reading, shown, replying, writing, sent,
          child_exited>>

Least(a, b) == IF a < b THEN a ELSE b

Init ==
  /\ child = "computing" /\ out = 0 /\ consumed = 0
  /\ host = "idle" /\ got = 0
  /\ read_buf = <<>> /\ bytes_remaining = 0 /\ bytes_read = 0 /\ data = 1
  /\ shown = <<>>
  /\ reply_buf_sz = 0 /\ asked = 0
  /\ jobs = <<>> /\ job = <<>> /\ total = 0 /\ complete = {}
  /\ sent = <<>> /\ child_exited = FALSE

-----------------------------------------------------------------------------
(* The child and the kernel: external to the library.  A program that does  *)
(* blocking input and output: it waits in the call it has made.             *)

\* What the kernel can still take from the host, and whether it refuses.
Room == InRoom - (Len(sent) - consumed)
Gone == child = "exited"

\* The number of the write in hand.
CallsMade == Len(jobs)

ChildChooses ==
  /\ child = "computing"
  /\ child' \in {"reading"} \union (IF out < OutLimit THEN {"writing"} ELSE {})
  /\ UNCHANGED <<consumed, host, output, reading, shown, replying, writing,
                 sent, child_exited>>

ChildWrites ==
  /\ child = "writing"
  /\ out - got < OutRoom
  /\ child' = "computing" /\ out' = out + 1
  /\ UNCHANGED <<consumed, host, got, reading, shown, replying, writing, sent,
                 child_exited>>

ChildReads ==
  /\ child = "reading"
  /\ consumed < Len(sent)
  /\ child' = "computing" /\ consumed' = consumed + 1
  /\ UNCHANGED <<host, output, reading, shown, replying, writing, sent,
                 child_exited>>

ChildExits ==
  /\ ChildMayExit /\ ~Gone
  /\ child' = "exited"
  /\ UNCHANGED <<consumed, host, output, reading, shown, replying, writing,
                 sent, child_exited>>

-----------------------------------------------------------------------------
(* vtty_read_pipe *)

\* waitpid comes first: once the child is gone nothing more is read.
NoticeExit ==
  /\ host = "idle" /\ Gone /\ ~child_exited
  /\ child_exited' = TRUE
  /\ UNCHANGED <<child, consumed, host, output, reading, shown, replying,
                 writing, sent>>

\* Fault: the bytes of the last call are left at the head of the buffer.
ReadPipeKeepsBuffer ==
  /\ host = "idle" /\ ~Gone /\ out > got
  /\ host' = "reading"
  /\ bytes_remaining' = Least(out - got, MaxRead)
  /\ bytes_read' = 0 /\ data' = 1
  /\ UNCHANGED <<child, consumed, output, read_buf, shown, replying, writing,
                 sent, child_exited>>

\* Fault: nothing is read before the buffer can be filled.
ReadPipeWaitsForFull ==
  /\ host = "idle" /\ ~Gone /\ out - got >= MaxRead
  /\ host' = "reading"
  /\ bytes_remaining' = MaxRead
  /\ read_buf' = <<>> /\ bytes_read' = 0 /\ data' = 1
  /\ UNCHANGED <<child, consumed, output, shown, replying, writing, sent,
                 child_exited>>

\* The child lives and FIONREAD counts something.
ReadPipe ==
  /\ host = "idle" /\ ~Gone /\ out > got
  /\ host' = "reading"
  /\ bytes_remaining' = Least(out - got, MaxRead)
  /\ read_buf' = <<>> /\ bytes_read' = 0 /\ data' = 1
  /\ UNCHANGED <<child, consumed, output, shown, replying, writing, sent,
                 child_exited>>

\* One read(): the buffer is rendered when all that was counted is here.
Read ==
  /\ host = "reading"
  /\ \E n \in IF ShortReads THEN 1 .. bytes_remaining ELSE {bytes_remaining} :
       /\ read_buf' = read_buf \o [i \in 1 .. n |-> got + i]
       /\ got' = got + n
       /\ bytes_remaining' = bytes_remaining - n
       /\ bytes_read' = n
       /\ host' = IF n = bytes_remaining THEN "rendering" ELSE "reading"
  /\ UNCHANGED <<child, out, consumed, data, shown, replying, writing, sent,
                 child_exited>>

\* One byte of vtty_render(vtty, read_buf, bytes_read), or its return.  The
\* byte that ends a query fills reply_buf and calls vtty_reply_buffer.
RenderByte ==
  /\ host = "rendering"
  /\ IF data > bytes_read
     THEN /\ host' = "idle"
          /\ UNCHANGED <<reading, shown, replying>>
     ELSE /\ shown' = Append(shown, read_buf[data])
          /\ data' = data + 1
          /\ IF read_buf[data] \in Queries
             THEN /\ host' = "replying"
                  /\ reply_buf_sz' = ReplyLen
                  /\ asked' = read_buf[data]
             ELSE UNCHANGED <<host, replying>>
          /\ UNCHANGED <<read_buf, bytes_remaining, bytes_read>>
  /\ UNCHANGED <<child, consumed, output, writing, sent, child_exited>>

\* One turn of vtty_reply_buffer.  A write always starts at the head of
\* reply_buf; without room it is EAGAIN and tried again; any other error
\* subtracts -1.  The tcdrain after each write is left out: what it waits for
\* on a master is the kernel's.
Reply ==
  LET n == Least(Room, reply_buf_sz) IN
  /\ host = "replying"
  /\ Gone \/ Room > 0
  /\ IF Gone
     THEN /\ reply_buf_sz' = Least(reply_buf_sz + 1, ReplyLen + 1)
          /\ UNCHANGED <<host, sent>>
     ELSE /\ sent' = sent \o [i \in 1 .. n |-> <<asked, "reply", i>>]
          /\ reply_buf_sz' = reply_buf_sz - n
          /\ host' = IF n = reply_buf_sz THEN "rendering" ELSE "replying"
  /\ UNCHANGED <<child, consumed, output, reading, shown, asked, writing,
                 child_exited>>

-----------------------------------------------------------------------------
(* vtty_write_data and vtty_write_pipe, over _vtty_write_pty *)

\* A paste of n bytes is three buffers when the child has set mode 2004; a
\* key is one.
Buffers(n, bracket) ==
  IF bracket THEN <<[part |-> "start", len |-> BracketLen],
                    [part |-> "data", len |-> n],
                    [part |-> "end", len |-> BracketLen]>>
             ELSE <<[part |-> "data", len |-> n]>>

WriteData(n, bracket) ==
  /\ host = "idle" /\ CallsMade < CallLimit
  /\ host' = "writing"
  /\ jobs' = Append(jobs, Buffers(n, bracket))
  /\ job' = Buffers(n, bracket) /\ total' = 0
  /\ UNCHANGED <<child, consumed, output, reading, shown, replying, complete,
                 sent, child_exited>>

\* Fault: one write() per buffer, as before the write-all loop.
WriteOnce ==
  LET n == Least(Room, Head(job).len)
  IN
  /\ host = "writing" /\ ~Gone
  /\ sent' = sent \o [i \in 1 .. n |-> <<CallsMade, Head(job).part, i>>]
  /\ total' = 0 /\ job' = Tail(job)
  /\ host' = IF Len(job) = 1 THEN "idle" ELSE "writing"
  /\ complete' = IF Len(job) = 1 THEN complete \union {CallsMade} ELSE complete
  /\ UNCHANGED <<child, consumed, output, reading, shown, replying, jobs,
                 child_exited>>

\* The kernel takes what it has room for; the loop goes on from there, with
\* the next buffer, or returns.
Write ==
  LET n == Least(Room, Head(job).len - total)
      finished == n = Head(job).len - total
      last == finished /\ Len(job) = 1
  IN
  /\ host = "writing" /\ ~Gone /\ Room > 0
  /\ sent' = sent \o [i \in 1 .. n |-> <<CallsMade, Head(job).part, total + i>>]
  /\ total' = IF finished THEN 0 ELSE total + n
  /\ job' = IF finished THEN Tail(job) ELSE job
  /\ host' = IF last THEN "idle" ELSE "writing"
  /\ complete' = IF last THEN complete \union {CallsMade} ELSE complete
  /\ UNCHANGED <<child, consumed, output, reading, shown, replying, jobs,
                 child_exited>>

\* EAGAIN: wait for POLLOUT, without a timeout.
WaitForRoom ==
  /\ host = "writing" /\ ~Gone /\ Room <= 0
  /\ host' = "polling"
  /\ UNCHANGED <<child, consumed, output, reading, shown, replying, writing,
                 sent, child_exited>>

\* Fault: only room ends the wait, not the end of the child.
WokenByRoomOnly ==
  /\ host = "polling" /\ Room > 0 /\ ~Gone
  /\ host' = "writing"
  /\ UNCHANGED <<child, consumed, output, reading, shown, replying, writing,
                 sent, child_exited>>

Woken ==
  /\ host = "polling" /\ (Room > 0 \/ Gone)
  /\ host' = "writing"
  /\ UNCHANGED <<child, consumed, output, reading, shown, replying, writing,
                 sent, child_exited>>

\* EIO: the call returns -1 and the rest of the job is dropped.
WriteFails ==
  /\ host = "writing" /\ Gone
  /\ host' = "idle" /\ job' = <<>> /\ total' = 0
  /\ UNCHANGED <<child, consumed, output, reading, shown, replying, jobs,
                 complete, sent, child_exited>>

-----------------------------------------------------------------------------
(* Specification *)

Child == ChildWrites \/ ChildReads \/ ChildChooses
InCall == Read \/ RenderByte \/ Reply \/ Write \/ WaitForRoom \/ Woken \/ WriteFails

Next ==
  \/ Child \/ ChildExits
  \/ NoticeExit \/ ReadPipe \/ InCall
  \/ \E n \in DataLens, bracket \in BOOLEAN : WriteData(n, bracket)

\* The host's thread runs, its loop keeps calling vtty_read_pipe, and the
\* child gets on with whatever call it has made once the call can return.
Fairness == WF_vars(InCall) /\ WF_vars(NoticeExit \/ ReadPipe) /\ WF_vars(Child)

Spec == Init /\ [][Next]_vars /\ Fairness

-----------------------------------------------------------------------------
(* Properties *)

WriteBuffer == [part : {"start", "data", "end"}, len : Nat \ {0}]

TypeOK ==
  /\ child \in {"computing", "reading", "writing", "exited"}
  /\ host \in {"idle", "reading", "rendering", "replying", "writing", "polling"}
  /\ out \in 0 .. OutLimit /\ got \in 0 .. out
  /\ consumed \in 0 .. Len(sent)
  /\ Len(sent) - consumed <= InRoom
  /\ read_buf \in Seq(1 .. OutLimit) /\ shown \in Seq(1 .. OutLimit)
  /\ bytes_remaining \in 0 .. out - got
  /\ bytes_read \in 0 .. MaxRead /\ data \in 1 .. bytes_read + 1
  /\ reply_buf_sz \in 0 .. ReplyLen + 1 /\ asked \in Queries \union {0}
  /\ jobs \in Seq(Seq(WriteBuffer)) /\ Len(jobs) <= CallLimit
  /\ complete \subseteq DOMAIN jobs
  /\ job \in Seq(WriteBuffer) /\ total \in Nat
  /\ child_exited \in BOOLEAN

\* What vtty_render still has to take from the buffer.
InHand == IF host = "reading" THEN read_buf ELSE SubSeq(read_buf, data, bytes_read)

\* Every byte the child wrote is rendered, in the buffer or in the kernel,
\* once and in order, however the reads, the clamp to MAX_PIPE_READ and the
\* replies in between fall (vtty_read.c:106-164).
OutputInOrder ==
  shown \o InHand \o [i \in 1 .. out - got |-> got + i] = [i \in 1 .. out |-> i]

\* The bytes of a write of these buffers, and which bytes are of a write.
BufferBytes(call, buffer) == [i \in 1 .. buffer.len |-> <<call, buffer.part, i>>]
Promised(call, bufs) ==
  IF Len(bufs) = 1 THEN BufferBytes(call, bufs[1])
  ELSE BufferBytes(call, bufs[1]) \o BufferBytes(call, bufs[2]) \o BufferBytes(call, bufs[3])
IsOf(byte, call) == byte[1] = call /\ byte[2] # "reply"

\* In s the first l of these bytes follow byte k, and no other is of the write.
Run(s, call, bytes, k, l) ==
  /\ k + l <= Len(s)
  /\ \A i \in 1 .. l : s[k + i] = bytes[i]
  /\ \A i \in DOMAIN s : IsOf(s[i], call) => i \in k + 1 .. k + l

\* A write that returned success delivered every byte once and in order, with
\* no reply and no other write between its first and its last, however little
\* room the kernel had at each turn (vtty_write.c:448-453).
WritesAreWhole ==
  \A call \in complete :
    LET bytes == Promised(call, jobs[call]) IN
    \E k \in 0 .. Len(sent) : Run(sent, call, bytes, k, Len(bytes))

\* Host and child each wait for room in the queue the other should empty: the
\* host reads nothing while it polls or retries a reply.
BothWait ==
  /\ host \in {"polling", "replying"} /\ Room <= 0
  /\ child = "writing" /\ out - got >= OutRoom

\* A write the host has begun returns, or it and the child wait for each other:
\* nothing else holds it up, not the end of the child, not a queue that is
\* full for a while (vtty_write.c:473-490).
OnlyBothWaitingHangs ==
  host \in {"writing", "polling"} ~> (host = "idle" \/ BothWait)

\* What the child wrote is rendered, with the queries within answered and the
\* call returned, unless the child is gone or waits for the host that waits
\* for it (vtty_read.c:106-164).
OutputIsShown ==
  \A i \in 1 .. OutLimit :
    out >= i ~> ((Len(shown) >= i /\ host = "idle") \/ Gone \/ BothWait)

\* A write the host has begun returns: writes do not hang the host
\* (vtty.c:221-224).
WriteReturns == host \in {"writing", "polling"} ~> host = "idle"

\* A query the child has written is answered by the bytes of its reply, each
\* once and in order, unless the child is gone: an application reads until the
\* reply arrives (vtty_csi_DSR.c:15-18).
ReplyTo(q) == SelectSeq(sent, LAMBDA byte : byte[1] = q /\ byte[2] = "reply")
Answer(q) == [i \in 1 .. ReplyLen |-> <<q, "reply", i>>]
QueryAnswered == \A q \in Queries : out >= q ~> (ReplyTo(q) = Answer(q) \/ Gone)
=============================================================================
