---------------------------- MODULE DBDMAProofs ----------------------------
(***************************************************************************)
(* Proofs about the DMA channel: for every set of command lists, request   *)
(* sizes, status bits and select registers, transfers are exact, an idle   *)
(* channel moves nothing and no command that could run is left behind.     *)
(***************************************************************************)
EXTENDS DBDMA, TLAPS

\* The setting of the theorems, which is also that of the run: devices ask
\* dma_is_ready() before they call xfer_retry(), as those of the repository
\* do, and the guest does not write WAKE while it keeps the channel paused.
Checked == DeviceChecks /\ ~WakePaused

-----------------------------------------------------------------------------
(* The inductive invariant, in terms of a value c of the channel's fields. *)

\* The counters of a command in progress agree: what is left to move, the
\* residue, the place in the buffer and the bytes moved. A command that moves
\* no data has nothing queued.
Counted(c) ==
    c.in_progress =>
        /\ c.cur \in Addr
        /\ c.cur_cmd \in IoOp =>
              /\ c.queue_data = c.moved
              /\ c.res_count = c.queue_len
              /\ c.queue_data + c.queue_len = prog[c.cur].req
        /\ c.cur_cmd \notin IoOp => c.queue_len = 0

\* A command in progress is not the last of its list, so that the channel may
\* step over it.
NotLast(c) == c.in_progress => c.cmd_ptr < LastAddr

Exact(c) == c.written.res = c.written.req - c.written.moved

Sound(c) == c \in ChannelType /\ Counted(c) /\ NotLast(c) /\ Exact(c)

\* Outside of the loop an active channel has a command in progress.
ActiveBusy == pc # "run" /\ IsActive(ch) => ch.in_progress

\* Within a pass the loop only goes on after a command has been finished.
PassGoesOn == pc = "run" /\ cmds_run > 0 => ~ch.in_progress

\* A streaming client that waits for the loop finds data queued only for a
\* command in progress on a channel that is active.
StreamQueued ==
    pc # "idle" /\ ret # "none" =>
        /\ ~ch.connected
        /\ ch.queue_len = 0 \/ (IsActive(ch) /\ ch.in_progress)

\* There is such a client when the loop is followed by a delivery.
DeliverAsked == pc = "deliver" => ret # "none"

DmaInv ==
    /\ TypeOK /\ Sound(ch)
    /\ ActiveBusy /\ PassGoesOn /\ StreamQueued /\ DeliverAsked

\* No data command has wait bits. (With them interpret_until_blocked() may not
\* return: run dbdma_hang.)
NoDataWaits == \A p \in Programs : \A a \in Addr : p[a].op \in IoOp => p[a].w = 0

\* Then only transfers are ever in progress,
OnlyTransfers == ch.in_progress => ch.cur_cmd \in IoOp /\ prog[ch.cur].op = ch.cur_cmd

\* and a connected device has data to move or has asked for another pass.
DeviceBusy ==
    ch.connected /\ IsActive(ch) =>
        /\ pc = "passed" => ch.again \/ ch.queue_len > 0
        /\ pc = "idle" => ch.queue_len > 0

WorkInv == DmaInv /\ OnlyTransfers /\ DeviceBusy

-----------------------------------------------------------------------------
(* Commands in guest memory, and what the methods of the channel do.       *)

\* The end of a command leaves these fields alone, and the channel's activity.
Follows(u, c) ==
    /\ u.queue_len = c.queue_len /\ u.queue_data = c.queue_data
    /\ u.res_count = c.res_count /\ u.moved = c.moved
    /\ u.cur = c.cur /\ u.cur_cmd = c.cur_cmd /\ u.xfer_dir = c.xfer_dir
    /\ u.again = c.again /\ u.connected = c.connected
    /\ IsActive(u) = IsActive(c)

Kept(u, c) == Follows(u, c) /\ u.stat = c.stat

\* A command of a list; only the last one is at the last address for certain
\* and that is a STOP.
LEMMA Commands ==
    ASSUME prog \in Programs, NEW a \in Addr
    PROVE  /\ prog[a].op \in Op /\ prog[a].req \in 0..MaxReq /\ prog[a].arg \in Addr
           /\ prog[a].op # "STOP" => a < LastAddr
<1>1. prog[a] \in Command
  BY DBDMAAssumption
<1>2. prog[LastAddr].op = "STOP"
  BY DBDMAAssumption
<1>3. prog[a].op # "STOP" => a < LastAddr
  <2>1. a # LastAddr => a < LastAddr
    BY DBDMAAssumption DEF Addr
  <2> QED
    BY <1>2, <2>1
<1>4. prog[a].op \in Op /\ prog[a].req \in 0..MaxReq /\ prog[a].arg \in Addr
  BY <1>1 DEF Command
<1> QED
  BY <1>3, <1>4

\* update_cmd() writes the residue of a data command.
LEMMA UpdateCmdSound ==
    ASSUME prog \in Programs, NEW c \in ChannelType, c.cur \in Addr, Exact(c),
           c.cur_cmd \in IoOp => c.res_count = prog[c.cur].req - c.moved
    PROVE  LET u == UpdateCmd(c) IN
           /\ u \in ChannelType /\ Exact(u)
           /\ Kept(u, c) /\ u.cmd_ptr = c.cmd_ptr /\ u.in_progress = c.in_progress
<1>1. CASE c.cur_cmd \in IoOp
  <2> DEFINE w == [req |-> prog[c.cur].req, moved |-> c.moved, res |-> c.res_count]
             u == UpdateCmd(c)
  <2>1. u = [c EXCEPT !.written = w]
    BY <1>1, Zenon DEF UpdateCmd
  <2>2. w \in [req : 0..MaxReq, moved : 0..MaxReq, res : 0..MaxReq]
    BY Commands DEF ChannelType
  <2>3. w.res = w.req - w.moved
    BY <1>1
  <2> HIDE DEF w, u
  <2>4. u \in ChannelType
    BY <2>1, <2>2, Zenon DEF ChannelType
  <2>5. u.written = w
    BY <2>1 DEF ChannelType
  <2>6. Kept(u, c) /\ u.cmd_ptr = c.cmd_ptr /\ u.in_progress = c.in_progress
    BY <2>1 DEF ChannelType, Kept, Follows, IsActive
  <2>7. Exact(u)
    BY <2>3, <2>5 DEF Exact
  <2> QED
    BY <2>4, <2>6, <2>7 DEF u
<1>2. CASE c.cur_cmd \notin IoOp
  BY <1>2 DEF UpdateCmd, Kept, Follows, IsActive
<1> QED
  BY <1>1, <1>2

\* update_irq() changes nothing but the interrupt.
LEMMA UpdateIrqSound ==
    ASSUME NEW c \in ChannelType
    PROVE  LET u == UpdateIrq(c) IN
           /\ u \in ChannelType
           /\ Kept(u, c) /\ u.cmd_ptr = c.cmd_ptr /\ u.in_progress = c.in_progress
           /\ u.written = c.written
<1> DEFINE x == c.irq \/ (c.cur_cmd # "STOP" /\ Cond(prog[c.cur].i, int_select, c))
<1>1. x \in BOOLEAN
  <2>1. CASE x
    BY <2>1, Zenon
  <2>2. CASE ~x
    BY <2>2, Zenon
  <2> QED
    BY <2>1, <2>2, Zenon
<1>2. UpdateIrq(c) = [c EXCEPT !.irq = x]
  BY Zenon DEF UpdateIrq
<1> HIDE DEF x
<1>3. UpdateIrq(c) \in ChannelType
  BY <1>1, <1>2, Zenon DEF ChannelType
<1> QED
  BY <1>2, <1>3 DEF ChannelType, Kept, Follows, IsActive

\* The residue of the current command may be told to the driver.
Settled(c) == c.cur_cmd \in IoOp => c.res_count = prog[c.cur].req - c.moved

\* finish_cmd(): the command is done, and the channel at the next one, unless
\* it has to wait.
LEMMA FinishSound ==
    ASSUME prog \in Programs, NEW c \in ChannelType, c.cur \in Addr, Exact(c), Settled(c),
           c.cur_cmd # "STOP" => c.cmd_ptr < LastAddr
    PROVE  LET f == FinishCmd(c) IN
           /\ f \in ChannelType /\ Exact(f) /\ Kept(f, c)
           /\ Waits(c) => f = c
           /\ ~Waits(c) => ~f.in_progress
<1>1. CASE Waits(c)
  BY <1>1 DEF FinishCmd, Kept, Follows, IsActive
<1>2. CASE ~Waits(c)
  <2> DEFINE u == UpdateCmd(c)
             p == IF Branches(c) THEN prog[c.cur].arg ELSE u.cmd_ptr + 1
             v == IF c.cur_cmd = "STOP" THEN u ELSE [u EXCEPT !.cmd_ptr = p]
             i == UpdateIrq(v)
             f == [i EXCEPT !.in_progress = FALSE]
  <2>1. FinishCmd(c) = f
    BY <1>2, Zenon DEF FinishCmd
  <2>2. u \in ChannelType /\ Exact(u) /\ Kept(u, c) /\ u.cmd_ptr = c.cmd_ptr
    BY UpdateCmdSound DEF Settled
  <2> HIDE DEF u
  <2>3. c.cur_cmd # "STOP" => p \in Addr
    BY <2>2, Commands, DBDMAAssumption, SMTT(30) DEF ChannelType, Addr
  <2> HIDE DEF p
  <2>4. v \in ChannelType /\ Exact(v) /\ Kept(v, c)
    <3>1. CASE c.cur_cmd = "STOP"
      BY <2>2, <3>1
    <3>2. CASE c.cur_cmd # "STOP"
      <4>1. v = [u EXCEPT !.cmd_ptr = p]
        BY <3>2
      <4> HIDE DEF v
      <4> QED
        BY <2>2, <2>3, <3>2, <4>1 DEF ChannelType, Exact, Kept, Follows, IsActive
    <3> QED
      BY <3>1, <3>2
  <2> HIDE DEF v
  <2>5. i \in ChannelType /\ Exact(i) /\ Kept(i, c)
    BY <2>4, UpdateIrqSound DEF Exact, Kept, Follows, IsActive
  <2> HIDE DEF i
  <2>6. f \in ChannelType /\ Exact(f) /\ Kept(f, c) /\ ~f.in_progress
    BY <2>5 DEF ChannelType, Exact, Kept, Follows, IsActive
  <2> HIDE DEF f
  <2> QED
    BY <1>2, <2>1, <2>6
<1> QED
  BY <1>1, <1>2

\* A command in progress, whose counters agree, may be finished.
LEMMA CountedSettled ==
    ASSUME prog \in Programs, NEW c \in ChannelType, Counted(c), NotLast(c), c.in_progress
    PROVE  c.cur \in Addr /\ Settled(c) /\ c.cmd_ptr < LastAddr
BY Commands DEF Counted, NotLast, Settled, ChannelType

\* finish_cmd() keeps the counters of a command in progress.
LEMMA FinishKeeps ==
    ASSUME prog \in Programs, NEW c, Sound(c), c.in_progress
    PROVE  LET f == FinishCmd(c) IN
           /\ Sound(f) /\ Kept(f, c)
           /\ Waits(c) => f = c
           /\ ~Waits(c) => ~f.in_progress
<1>1. c \in ChannelType /\ Exact(c) /\ c.cur \in Addr /\ Settled(c) /\ c.cmd_ptr < LastAddr
  BY CountedSettled DEF Sound
<1> DEFINE f == FinishCmd(c)
<1>2. /\ f \in ChannelType /\ Exact(f) /\ Kept(f, c)
      /\ Waits(c) => f = c
      /\ ~Waits(c) => ~f.in_progress
  BY <1>1, FinishSound
<1> HIDE DEF f
<1>3. Counted(f) /\ NotLast(f)
  BY <1>2 DEF Sound, Counted, NotLast
<1> QED
  BY <1>2, <1>3 DEF Sound, f

\* finish_ended_cmd(): the bits that the device has reported are gone again,
\* and none of them is one of the channel's own.
LEMMA FinishEndedKeeps ==
    ASSUME prog \in Programs, NEW c, Sound(c), c.in_progress
    PROVE  Sound(FinishEndedCmd(c)) /\ Follows(FinishEndedCmd(c), c)
<1>1. CASE ~c.xfer_ended
  <2>1. FinishEndedCmd(c) = FinishCmd(c)
    BY <1>1 DEF FinishEndedCmd
  <2> QED
    BY <2>1, FinishKeeps DEF Kept
<1>2. CASE c.xfer_ended
  <2> DEFINE d == [c EXCEPT !.xfer_ended = FALSE, !.end_stat = {},
                            !.stat = @ \cup c.end_stat]
             f == FinishCmd(d)
             x == [f EXCEPT !.stat = @ \ c.end_stat]
  <2>1. FinishEndedCmd(c) = x
    BY <1>2, Zenon DEF FinishEndedCmd
  <2>2. c \in ChannelType /\ c.end_stat \subseteq SBits
    BY DEF Sound, ChannelType
  <2>3. c.stat \cup c.end_stat \in SUBSET ({"RUN", "PAUSE", "ACTIVE", "DEAD"} \cup SBits)
    BY <2>2 DEF ChannelType
  <2>4. {} \in SUBSET SBits
    OBVIOUS
  <2>5. d \in ChannelType
    BY <2>2, <2>3, <2>4, Zenon DEF ChannelType
  <2>6. /\ d.queue_len = c.queue_len /\ d.queue_data = c.queue_data
        /\ d.res_count = c.res_count /\ d.moved = c.moved /\ d.cur = c.cur
        /\ d.cur_cmd = c.cur_cmd /\ d.xfer_dir = c.xfer_dir /\ d.again = c.again
        /\ d.connected = c.connected /\ d.in_progress = c.in_progress
        /\ d.cmd_ptr = c.cmd_ptr /\ d.written = c.written
        /\ d.stat = c.stat \cup c.end_stat
    BY <2>2 DEF ChannelType
  <2> HIDE DEF d
  <2>7. Sound(d) /\ d.in_progress
    BY <2>5, <2>6 DEF Sound, Counted, NotLast, Exact
  <2>8. Sound(f) /\ Kept(f, d)
    BY <2>7, FinishKeeps
  <2> HIDE DEF f
  <2>9. x \in ChannelType
    BY <2>8 DEF Sound, ChannelType
  <2>10. /\ x.queue_len = f.queue_len /\ x.queue_data = f.queue_data
         /\ x.res_count = f.res_count /\ x.moved = f.moved /\ x.cur = f.cur
         /\ x.cur_cmd = f.cur_cmd /\ x.xfer_dir = f.xfer_dir /\ x.again = f.again
         /\ x.connected = f.connected /\ x.in_progress = f.in_progress
         /\ x.cmd_ptr = f.cmd_ptr /\ x.written = f.written
         /\ x.stat = f.stat \ c.end_stat
    BY <2>8 DEF Sound, ChannelType
  <2> HIDE DEF x
  <2>11. Sound(x)
    BY <2>8, <2>9, <2>10 DEF Sound, Counted, NotLast, Exact
  <2>12. IsActive(x) = IsActive(c)
    <3>1. "ACTIVE" \notin c.end_stat /\ "DEAD" \notin c.end_stat
      BY <2>2, DBDMAAssumption
    <3>2. x.stat = (c.stat \cup c.end_stat) \ c.end_stat
      BY <2>6, <2>8, <2>10 DEF Kept
    <3> QED
      BY <3>1, <3>2 DEF IsActive
  <2>13. Follows(x, c)
    BY <2>6, <2>8, <2>10, <2>12 DEF Kept, Follows
  <2> QED
    BY <2>1, <2>11, <2>13
<1> QED
  BY <1>1, <1>2

\* Bytes are moved within what is queued.
LEMMA MoveSound ==
    ASSUME prog \in Programs, NEW c, Sound(c), c.in_progress, NEW n \in 0..c.queue_len
    PROVE  LET m == Move(c, n) IN
           /\ Sound(m) /\ m.in_progress
           /\ m.queue_len = c.queue_len - n /\ m.moved = c.moved + n
           /\ m.cur = c.cur /\ m.cur_cmd = c.cur_cmd /\ m.stat = c.stat
           /\ m.again = c.again /\ m.connected = c.connected
<1> DEFINE m == Move(c, n)
<1>1. c \in ChannelType /\ c.cur \in Addr /\ prog[c.cur].req \in 0..MaxReq
  BY Commands DEF Sound, Counted
<1>2. /\ n \in Nat /\ MaxReq \in Nat
      /\ c.queue_len \in 0..MaxReq /\ c.queue_data \in 0..MaxReq
      /\ c.res_count \in 0..MaxReq /\ c.moved \in 0..MaxReq
  BY <1>1, DBDMAAssumption DEF ChannelType
<1>3. /\ c.queue_data + n \in 0..MaxReq /\ c.res_count - n \in 0..MaxReq
      /\ c.queue_len - n \in 0..MaxReq /\ c.moved + n \in 0..MaxReq
  <2>1. CASE c.cur_cmd \in IoOp
    <3>1. /\ c.queue_data = c.moved /\ c.res_count = c.queue_len
          /\ c.queue_data + c.queue_len = prog[c.cur].req
      BY <2>1 DEF Sound, Counted
    <3> QED
      BY <1>1, <1>2, <3>1
  <2>2. CASE c.cur_cmd \notin IoOp
    <3>1. c.queue_len = 0 /\ n = 0
      BY <2>2 DEF Sound, Counted
    <3> QED
      BY <1>2, <3>1
  <2> QED
    BY <2>1, <2>2
<1>4. m \in ChannelType
  BY <1>1, <1>3, Zenon DEF Move, ChannelType
<1>5. /\ m.in_progress = c.in_progress
      /\ m.queue_len = c.queue_len - n /\ m.moved = c.moved + n
      /\ m.queue_data = c.queue_data + n /\ m.res_count = c.res_count - n
      /\ m.cur = c.cur /\ m.cur_cmd = c.cur_cmd /\ m.stat = c.stat
      /\ m.again = c.again /\ m.connected = c.connected
      /\ m.cmd_ptr = c.cmd_ptr /\ m.written = c.written
  BY <1>1 DEF Move, ChannelType
<1> HIDE DEF m
<1>6. Counted(m)
  <2>1. CASE c.cur_cmd \in IoOp
    <3>1. /\ c.queue_data = c.moved /\ c.res_count = c.queue_len
          /\ c.queue_data + c.queue_len = prog[c.cur].req
      BY <2>1 DEF Sound, Counted
    <3> QED
      BY <1>1, <1>2, <1>5, <2>1, <3>1 DEF Counted
  <2>2. CASE c.cur_cmd \notin IoOp
    <3>1. c.queue_len = 0 /\ n = 0
      BY <2>2 DEF Sound, Counted
    <3> QED
      BY <1>1, <1>2, <1>5, <2>2, <3>1 DEF Counted
  <2> QED
    BY <2>1, <2>2
<1>7. NotLast(m) /\ Exact(m)
  BY <1>5 DEF Sound, NotLast, Exact
<1> QED
  BY <1>4, <1>5, <1>6, <1>7 DEF Sound, m

\* xfer_from_device() and xfer_to_device(): the device moves bytes of a command
\* in progress and may end it.
LEMMA XferSound ==
    ASSUME prog \in Programs, NEW c, Sound(c), c.in_progress, NEW n \in 0..c.queue_len,
           NEW dir \in IoOp, NEW ended \in BOOLEAN, NEW s \in SUBSET SBits
    PROVE  LET x == XferDevice(c, dir, n, ended, s) IN
           /\ Sound(x)
           /\ x.moved = c.moved + n /\ x.cur = c.cur /\ x.cur_cmd = c.cur_cmd
           /\ x.again = c.again /\ x.connected = c.connected
           /\ IsActive(x) = IsActive(c)
<1> DEFINE m == Move(c, n)
           e == m.xfer_ended \/ ended
           t == IF ended THEN s ELSE m.end_stat
           d == [m EXCEPT !.xfer_dir = dir, !.xfer_ended = e, !.end_stat = t]
<1>1. XferDevice(c, dir, n, ended, s)
        = IF d.queue_len = 0 \/ d.xfer_ended THEN FinishEndedCmd(d) ELSE d
  BY Zenon DEF XferDevice
<1>2. /\ Sound(m) /\ m.in_progress
      /\ m.moved = c.moved + n
      /\ m.cur = c.cur /\ m.cur_cmd = c.cur_cmd /\ m.stat = c.stat
      /\ m.again = c.again /\ m.connected = c.connected
  BY MoveSound
<1> HIDE DEF m
<1>3. m \in ChannelType
  BY <1>2 DEF Sound
<1>4. e \in BOOLEAN
  <2>1. CASE e
    BY <2>1, Zenon
  <2>2. CASE ~e
    BY <2>2, Zenon
  <2> QED
    BY <2>1, <2>2, Zenon
<1>5. t \in SUBSET SBits /\ dir \in IoOp \cup {"UNDEF"}
  BY <1>3 DEF ChannelType
<1> HIDE DEF e, t
<1>6. d \in ChannelType
  BY <1>3, <1>4, <1>5, Zenon DEF ChannelType
<1>7. /\ d.queue_len = m.queue_len /\ d.queue_data = m.queue_data
      /\ d.res_count = m.res_count /\ d.moved = m.moved /\ d.cur = m.cur
      /\ d.cur_cmd = m.cur_cmd /\ d.again = m.again
      /\ d.connected = m.connected /\ d.in_progress = m.in_progress
      /\ d.cmd_ptr = m.cmd_ptr /\ d.written = m.written /\ d.stat = m.stat
  BY <1>3 DEF ChannelType
<1> HIDE DEF d
<1>8. Sound(d) /\ d.in_progress /\ IsActive(d) = IsActive(c)
  BY <1>2, <1>6, <1>7 DEF Sound, Counted, NotLast, Exact, IsActive
<1>9. Sound(FinishEndedCmd(d)) /\ Follows(FinishEndedCmd(d), d)
  BY <1>8, FinishEndedKeeps
<1>10. CASE XferDevice(c, dir, n, ended, s) = d
  BY <1>2, <1>7, <1>8, <1>10
<1>11. CASE XferDevice(c, dir, n, ended, s) = FinishEndedCmd(d)
  BY <1>2, <1>7, <1>8, <1>9, <1>11 DEF Follows
<1> QED
  BY <1>1, <1>10, <1>11

\* fetch_cmd(), and a data command that queues its buffer.
Fetched(c) == [c EXCEPT !.cur = c.cmd_ptr, !.cur_cmd = prog[c.cmd_ptr].op]
Queued(c) ==
    [Fetched(c) EXCEPT !.queue_data = 0, !.queue_len = prog[c.cmd_ptr].req,
                       !.res_count = prog[c.cmd_ptr].req, !.moved = 0]

\* The fields that a fetched command starts with.
LEMMA FetchedFields ==
    ASSUME prog \in Programs, NEW c \in ChannelType
    PROVE  LET f == Fetched(c) IN
           /\ f \in ChannelType
           /\ f.cur = c.cmd_ptr /\ f.cur_cmd = prog[c.cmd_ptr].op
           /\ f.queue_len = c.queue_len /\ f.in_progress = c.in_progress
           /\ f.cmd_ptr = c.cmd_ptr /\ f.stat = c.stat /\ f.again = c.again
           /\ f.connected = c.connected /\ f.written = c.written
<1>1. c.cmd_ptr \in Addr /\ c.cmd_ptr \in Addr \cup {None}
  BY DEF ChannelType
<1>2. prog[c.cmd_ptr].op \in Op
  BY <1>1, Commands
<1>3. Fetched(c) \in ChannelType
  BY <1>1, <1>2, Zenon DEF Fetched, ChannelType
<1> QED
  BY <1>3 DEF Fetched, ChannelType

\* And those of a data command, which has moved nothing yet.
LEMMA QueuedFields ==
    ASSUME prog \in Programs, NEW c \in ChannelType
    PROVE  LET q == Queued(c) IN
           /\ q \in ChannelType
           /\ q.cur = c.cmd_ptr /\ q.cur_cmd = prog[c.cmd_ptr].op
           /\ q.queue_len = prog[c.cmd_ptr].req /\ q.res_count = prog[c.cmd_ptr].req
           /\ q.queue_data = 0 /\ q.moved = 0 /\ q.in_progress = c.in_progress
           /\ q.cmd_ptr = c.cmd_ptr /\ q.stat = c.stat /\ q.again = c.again
           /\ q.connected = c.connected /\ q.written = c.written
<1> DEFINE f == Fetched(c)
<1>1. /\ f \in ChannelType
      /\ f.cur = c.cmd_ptr /\ f.cur_cmd = prog[c.cmd_ptr].op
      /\ f.in_progress = c.in_progress
      /\ f.cmd_ptr = c.cmd_ptr /\ f.stat = c.stat /\ f.again = c.again
      /\ f.connected = c.connected /\ f.written = c.written
  BY FetchedFields
<1>2. prog[c.cmd_ptr].req \in 0..MaxReq /\ 0 \in 0..MaxReq
  BY Commands, DBDMAAssumption DEF ChannelType
<1> HIDE DEF f
<1>3. Queued(c) = [f EXCEPT !.queue_data = 0, !.queue_len = prog[c.cmd_ptr].req,
                            !.res_count = prog[c.cmd_ptr].req, !.moved = 0]
  BY Zenon DEF Queued, f
<1> DEFINE q == Queued(c)
<1>4. q \in ChannelType
  BY <1>1, <1>2, <1>3, Zenon DEF ChannelType
<1>5. /\ q.cur = f.cur /\ q.cur_cmd = f.cur_cmd
      /\ q.queue_len = prog[c.cmd_ptr].req /\ q.res_count = prog[c.cmd_ptr].req
      /\ q.queue_data = 0 /\ q.moved = 0 /\ q.in_progress = f.in_progress
      /\ q.cmd_ptr = f.cmd_ptr /\ q.stat = f.stat /\ q.again = f.again
      /\ q.connected = f.connected /\ q.written = f.written
  BY <1>1, <1>3 DEF ChannelType
<1> HIDE DEF q
<1>6. /\ q.cur = c.cmd_ptr /\ q.cur_cmd = prog[c.cmd_ptr].op
      /\ q.queue_len = prog[c.cmd_ptr].req /\ q.res_count = prog[c.cmd_ptr].req
      /\ q.queue_data = 0 /\ q.moved = 0 /\ q.in_progress = c.in_progress
      /\ q.cmd_ptr = c.cmd_ptr /\ q.stat = c.stat /\ q.again = c.again
      /\ q.connected = c.connected /\ q.written = c.written
  BY <1>1, <1>5
<1> QED
  BY <1>4, <1>6 DEF q

\* A command that is finished where it is fetched: a data command of no bytes,
\* a quad, a NOP or a STOP.
LEMMA FinishFetched ==
    ASSUME prog \in Programs, NEW c, Sound(c), c.in_progress => c.queue_len = 0,
           NEW d \in ChannelType,
           d.cur = c.cmd_ptr /\ d.cmd_ptr = c.cmd_ptr /\ d.cur_cmd = prog[c.cmd_ptr].op,
           d.written = c.written /\ d.connected = c.connected /\ d.again = c.again,
           Settled(d), d.in_progress => c.in_progress /\ d.cur_cmd # "STOP",
           d.cur_cmd \in IoOp => d.queue_len = 0 /\ d.queue_data = 0 /\ d.moved = 0
                                 /\ d.res_count = 0,
           d.cur_cmd \notin IoOp => d.queue_len = c.queue_len
    PROVE  /\ Sound(FinishCmd(d)) /\ Kept(FinishCmd(d), d)
           /\ FinishCmd(d).in_progress => c.in_progress
<1> DEFINE f == FinishCmd(d)
<1>1. c \in ChannelType /\ c.cmd_ptr \in Addr /\ Exact(d)
  BY DEF Sound, Exact, ChannelType
<1>2. d.cur_cmd # "STOP" => d.cmd_ptr < LastAddr
  BY <1>1, Commands
<1>3. /\ f \in ChannelType /\ Exact(f) /\ Kept(f, d)
      /\ Waits(d) => f = d
      /\ ~Waits(d) => ~f.in_progress
  BY <1>1, <1>2, FinishSound
<1>4. Counted(d) /\ NotLast(d)
  <2>1. d.cur_cmd \in IoOp => prog[d.cur].req = 0
    BY <1>1, Commands, DBDMAAssumption DEF Settled
  <2> QED
    BY <1>1, <1>2, <2>1 DEF Counted, NotLast
<1> HIDE DEF f
<1>5. Counted(f) /\ NotLast(f) /\ (f.in_progress => c.in_progress)
  BY <1>3, <1>4 DEF Counted, NotLast
<1> QED
  BY <1>3, <1>5 DEF Sound, f

\* What the channel looks like after a command has been executed, from c to x.
Executed(c, x) ==
    /\ Sound(x) /\ x.connected = c.connected
    \* on a channel without a device data is only queued for a transfer
    /\ \/ HasDevice
       \/ x.queue_len \in {0, c.queue_len}
       \/ x.in_progress /\ IsActive(x)
    \* what is in progress is a transfer, and a device's asks for another pass
    /\ ~c.in_progress /\ x.in_progress =>
          /\ x.cur_cmd \in IoOp /\ prog[x.cur].op = x.cur_cmd
          /\ HasDevice => x.again

\* interpret_cmd() from fetch_cmd() on, for each kind of command.
LEMMA ExecuteSound ==
    ASSUME prog \in Programs, NEW c, Sound(c), IsActive(c),
           c.in_progress => c.queue_len = 0,
           NEW n \in 0..(IF HasDevice THEN prog[c.cmd_ptr].req ELSE 0),
           NEW ended \in BOOLEAN, NEW s \in SUBSET SBits
    PROVE  Executed(c, Execute(c, n, ended, s))
<1> DEFINE k == prog[c.cmd_ptr]
           x == Execute(c, n, ended, s)
           f == Fetched(c)
           q == Queued(c)
<1>1. c \in ChannelType /\ c.cmd_ptr \in Addr
  BY DEF Sound, ChannelType
<1>2. k.op \in Op /\ k.req \in 0..MaxReq /\ (k.op # "STOP" => c.cmd_ptr < LastAddr)
  BY <1>1, Commands
<1>3. /\ f \in ChannelType
      /\ f.cur = c.cmd_ptr /\ f.cur_cmd = k.op
      /\ f.queue_len = c.queue_len /\ f.in_progress = c.in_progress
      /\ f.cmd_ptr = c.cmd_ptr /\ f.stat = c.stat /\ f.again = c.again
      /\ f.connected = c.connected /\ f.written = c.written
  BY <1>1, FetchedFields
<1>4. /\ q \in ChannelType
      /\ q.cur = c.cmd_ptr /\ q.cur_cmd = k.op
      /\ q.queue_len = k.req /\ q.res_count = k.req
      /\ q.queue_data = 0 /\ q.moved = 0 /\ q.in_progress = c.in_progress
      /\ q.cmd_ptr = c.cmd_ptr /\ q.stat = c.stat /\ q.again = c.again
      /\ q.connected = c.connected /\ q.written = c.written
  BY <1>1, QueuedFields
<1>5. x = CASE k.op \in IoOp /\ k.req > 0 ->
                 IF HasDevice
                 THEN [XferDevice([q EXCEPT !.in_progress = TRUE], k.op, n, ended, s)
                          EXCEPT !.again = TRUE]
                 ELSE [q EXCEPT !.in_progress = TRUE]
            [] k.op \in IoOp /\ k.req = 0 -> FinishCmd(q)
            [] k.op \in QuadOp -> FinishCmd([f EXCEPT !.res_count = k.req])
            [] k.op = "NOP"    -> FinishCmd(f)
            [] k.op = "STOP"   -> FinishCmd([f EXCEPT !.stat = @ \ {"ACTIVE"},
                                                     !.in_progress = FALSE])
            [] k.op = "KEYED"  -> f
            [] k.op = "BAD"    -> [f EXCEPT !.stat = (@ \cup {"DEAD"}) \ {"ACTIVE"}]
  BY Zenon DEF Execute, Fetched, Queued
<1> HIDE DEF f, q, x
<1>6. ASSUME k.op \in IoOp, k.req > 0
      PROVE  Executed(c, x)
  <2> DEFINE p == [q EXCEPT !.in_progress = TRUE]
  <2>1. p \in ChannelType
    BY <1>4 DEF ChannelType
  <2>2. /\ p.cur = q.cur /\ p.cur_cmd = q.cur_cmd /\ p.queue_len = q.queue_len
        /\ p.res_count = q.res_count /\ p.queue_data = q.queue_data /\ p.moved = q.moved
        /\ p.in_progress /\ p.cmd_ptr = q.cmd_ptr /\ p.stat = q.stat
        /\ p.connected = q.connected /\ p.written = q.written
    BY <1>4 DEF ChannelType
  <2> HIDE DEF p
  <2>3. Sound(p) /\ IsActive(p)
    <3>1. Counted(p)
      BY <1>1, <1>2, <1>4, <1>6, <2>2, DBDMAAssumption DEF Counted
    <3>2. NotLast(p)
      BY <1>2, <1>4, <1>6, <2>2 DEF NotLast, IoOp
    <3>3. Exact(p) /\ IsActive(p)
      BY <1>4, <2>2 DEF Sound, Exact, IsActive
    <3> QED
      BY <2>1, <3>1, <3>2, <3>3 DEF Sound
  <2>4. CASE HasDevice
    <3> DEFINE y == XferDevice(p, k.op, n, ended, s)
    <3>1. x = [y EXCEPT !.again = TRUE]
      BY <1>5, <1>6, <2>4 DEF p, IoOp, QuadOp
    <3>2. n \in 0..p.queue_len
      BY <1>4, <2>2, <2>4
    <3>3. Sound(y) /\ y.cur = p.cur /\ y.cur_cmd = p.cur_cmd /\ y.connected = p.connected
      BY <1>6, <2>2, <2>3, <3>2, XferSound
    <3> HIDE DEF y
    <3>4. x \in ChannelType
      BY <3>1, <3>3 DEF Sound, ChannelType
    <3>5. /\ x.queue_len = y.queue_len /\ x.queue_data = y.queue_data
          /\ x.res_count = y.res_count /\ x.moved = y.moved /\ x.cur = y.cur
          /\ x.cur_cmd = y.cur_cmd /\ x.again
          /\ x.connected = y.connected /\ x.in_progress = y.in_progress
          /\ x.cmd_ptr = y.cmd_ptr /\ x.written = y.written
      BY <3>1, <3>3 DEF Sound, ChannelType
    <3>6. Sound(x)
      BY <3>3, <3>4, <3>5 DEF Sound, Counted, NotLast, Exact
    <3> QED
      BY <1>4, <1>6, <2>2, <2>4, <3>3, <3>5, <3>6 DEF Executed
  <2>5. CASE ~HasDevice
    <3>1. x = p
      BY <1>5, <1>6, <2>5 DEF p, IoOp, QuadOp
    <3> QED
      BY <1>4, <1>6, <2>2, <2>3, <2>5, <3>1 DEF Executed
  <2> QED
    BY <2>4, <2>5
\* what is finished at once
<1>7. ASSUME NEW d, x = FinishCmd(d), Sound(FinishCmd(d)), Kept(FinishCmd(d), d),
             FinishCmd(d).in_progress => c.in_progress, d.connected = c.connected,
             d.queue_len \in {0, c.queue_len}
      PROVE  Executed(c, x)
  BY <1>7 DEF Executed, Kept, Follows
<1>8. ASSUME k.op \in IoOp, k.req = 0
      PROVE  Executed(c, x)
  <2>1. x = FinishCmd(q)
    BY <1>5, <1>8 DEF IoOp, QuadOp
  <2>2. Settled(q) /\ q.cur_cmd # "STOP"
    BY <1>4, <1>8 DEF Settled, IoOp
  <2>3. /\ Sound(FinishCmd(q)) /\ Kept(FinishCmd(q), q)
        /\ FinishCmd(q).in_progress => c.in_progress
    BY <1>4, <1>8, <2>2, FinishFetched
  <2> QED
    BY <1>4, <1>7, <1>8, <2>1, <2>3
<1>9. ASSUME k.op \in QuadOp
      PROVE  Executed(c, x)
  <2> DEFINE d == [f EXCEPT !.res_count = k.req]
  <2>1. x = FinishCmd(d)
    BY <1>5, <1>9 DEF IoOp, QuadOp
  <2>2. d \in ChannelType
    BY <1>2, <1>3 DEF ChannelType
  <2>3. /\ d.cur = f.cur /\ d.cur_cmd = f.cur_cmd /\ d.queue_len = f.queue_len
        /\ d.in_progress = f.in_progress /\ d.cmd_ptr = f.cmd_ptr
        /\ d.connected = f.connected /\ d.written = f.written /\ d.again = f.again
    BY <1>3 DEF ChannelType
  <2> HIDE DEF d
  <2>4. d.cur_cmd \notin IoOp /\ d.cur_cmd # "STOP" /\ Settled(d)
    BY <1>3, <1>9, <2>3 DEF IoOp, QuadOp, Settled
  <2>5. /\ Sound(FinishCmd(d)) /\ Kept(FinishCmd(d), d)
        /\ FinishCmd(d).in_progress => c.in_progress
    BY <1>3, <2>2, <2>3, <2>4, FinishFetched
  <2> QED
    BY <1>3, <1>7, <2>1, <2>3, <2>5
<1>10. ASSUME k.op = "NOP"
       PROVE  Executed(c, x)
  <2>1. x = FinishCmd(f)
    BY <1>5, <1>10 DEF IoOp, QuadOp
  <2>2. f.cur_cmd \notin IoOp /\ f.cur_cmd # "STOP" /\ Settled(f)
    BY <1>3, <1>10 DEF IoOp, Settled
  <2>3. /\ Sound(FinishCmd(f)) /\ Kept(FinishCmd(f), f)
        /\ FinishCmd(f).in_progress => c.in_progress
    BY <1>3, <2>2, FinishFetched
  <2> QED
    BY <1>3, <1>7, <2>1, <2>3
<1>11. ASSUME k.op = "STOP"
       PROVE  Executed(c, x)
  <2> DEFINE d == [f EXCEPT !.stat = @ \ {"ACTIVE"}, !.in_progress = FALSE]
  <2>1. x = FinishCmd(d)
    BY <1>5, <1>11 DEF IoOp, QuadOp
  <2>2. f.stat \ {"ACTIVE"} \in SUBSET ({"RUN", "PAUSE", "ACTIVE", "DEAD"} \cup SBits)
    BY <1>3 DEF ChannelType
  <2>3. d \in ChannelType
    BY <1>3, <2>2, Zenon DEF ChannelType
  <2>4. /\ d.cur = f.cur /\ d.cur_cmd = f.cur_cmd /\ d.queue_len = f.queue_len
        /\ ~d.in_progress /\ d.cmd_ptr = f.cmd_ptr
        /\ d.connected = f.connected /\ d.written = f.written /\ d.again = f.again
    BY <1>3 DEF ChannelType
  <2> HIDE DEF d
  <2>5. d.cur_cmd \notin IoOp /\ Settled(d)
    BY <1>3, <1>11, <2>4 DEF IoOp, Settled
  <2>6. /\ Sound(FinishCmd(d)) /\ Kept(FinishCmd(d), d)
        /\ FinishCmd(d).in_progress => c.in_progress
    BY <1>3, <2>3, <2>4, <2>5, FinishFetched
  <2> QED
    BY <1>3, <1>7, <2>1, <2>4, <2>6
<1>12. ASSUME k.op \in {"KEYED", "BAD"}
       PROVE  Executed(c, x)
  <2> DEFINE t == (f.stat \cup {"DEAD"}) \ {"ACTIVE"}
  <2>1. x = IF k.op = "KEYED" THEN f ELSE [f EXCEPT !.stat = t]
    BY <1>5, <1>12 DEF IoOp, QuadOp
  <2>2. t \in SUBSET ({"RUN", "PAUSE", "ACTIVE", "DEAD"} \cup SBits)
    BY <1>3 DEF ChannelType
  <2> HIDE DEF t
  <2>3. x \in ChannelType
    BY <1>3, <2>1, <2>2 DEF ChannelType
  <2>4. /\ x.cur = f.cur /\ x.cur_cmd = f.cur_cmd /\ x.queue_len = f.queue_len
        /\ x.in_progress = f.in_progress /\ x.cmd_ptr = f.cmd_ptr
        /\ x.connected = f.connected /\ x.written = f.written
    BY <1>3, <2>1 DEF ChannelType
  <2>5. Sound(x)
    BY <1>1, <1>2, <1>3, <1>12, <2>3, <2>4 DEF Sound, Counted, NotLast, Exact, IoOp
  <2> QED
    BY <1>3, <2>4, <2>5 DEF Executed
<1> QED
  <2>1. k.op \in Op /\ (k.req > 0 \/ k.req = 0)
    BY <1>2, DBDMAAssumption
  <2> QED
    BY <1>6, <1>8, <1>9, <1>10, <1>11, <1>12, <2>1 DEF Op, x

-----------------------------------------------------------------------------
(* Steps that several actions share.                                       *)

\* d has the transfer of c, or none.
SameTransfer(d, c) ==
    d.in_progress =>
        /\ c.in_progress /\ d.cmd_ptr = c.cmd_ptr
        /\ d.cur = c.cur /\ d.cur_cmd = c.cur_cmd /\ d.queue_len = c.queue_len
        /\ d.queue_data = c.queue_data /\ d.res_count = c.res_count /\ d.moved = c.moved

\* Other fields do not matter for soundness.
LEMMA SoundSame ==
    ASSUME NEW c, Sound(c), NEW d \in ChannelType, d.written = c.written,
           SameTransfer(d, c)
    PROVE  Sound(d)
BY DEF Sound, Counted, NotLast, Exact, SameTransfer

\* Soundness reads the command list, which stays.
LEMMA SoundNext ==
    ASSUME NEW c, Sound(c), prog' = prog, ch' = c
    PROVE  Sound(ch)'
<1>1. (Counted(ch))' /\ (NotLast(ch))' /\ (Exact(ch))'
  BY DEF Sound, Counted, NotLast, Exact
<1>2. (ch \in ChannelType)'
  BY DEF Sound
<1> QED
  BY <1>1, <1>2 DEF Sound

\* the invariant's part about a transfer, for registers c
Transfer(c) == c.in_progress => c.cur_cmd \in IoOp /\ prog[c.cur].op = c.cur_cmd

\* interpret_until_blocked() is called.
LEMMA LoopStarts ==
    ASSUME DmaInv, NEW c, Sound(c), NEW r \in {"none", "pull", "push"}, StartLoop(c, r),
           UNCHANGED <<prog, selVars>>,
           r # "none" => /\ ~c.connected
                         /\ c.queue_len = 0 \/ (IsActive(c) /\ c.in_progress)
    PROVE  /\ DmaInv' /\ DeviceBusy'
           /\ Transfer(c) => OnlyTransfers'
<1>1. /\ ch' = [c EXCEPT !.again = FALSE] /\ pc' = "run" /\ ret' = r /\ cmds_run' = 0
      /\ prog' = prog /\ UNCHANGED <<wait_select, branch_select, int_select>>
  BY DEF StartLoop, selVars
<1>2. c \in ChannelType
  BY DEF Sound
<1>3. ch' \in ChannelType
  BY <1>1, <1>2 DEF ChannelType
<1>4. /\ ch'.written = c.written /\ ch'.in_progress = c.in_progress
      /\ ch'.connected = c.connected /\ ch'.queue_len = c.queue_len
      /\ ch'.cur = c.cur /\ ch'.cur_cmd = c.cur_cmd /\ ch'.stat = c.stat
      /\ ch'.queue_data = c.queue_data /\ ch'.res_count = c.res_count
      /\ ch'.moved = c.moved /\ ch'.cmd_ptr = c.cmd_ptr
  BY <1>1, <1>2 DEF ChannelType
<1>5. Sound(ch')
  BY <1>3, <1>4, SoundSame DEF SameTransfer
<1>6. Sound(ch)'
  BY <1>1, <1>5, SoundNext
<1>7. TypeOK'
  <2>1. (ch \in ChannelType)'
    BY <1>3
  <2> QED
    BY <1>1, <2>1, DBDMAAssumption DEF DmaInv, TypeOK
<1>8. ActiveBusy' /\ PassGoesOn' /\ StreamQueued' /\ DeliverAsked' /\ DeviceBusy'
  BY <1>1, <1>4 DEF ActiveBusy, PassGoesOn, StreamQueued, DeliverAsked, DeviceBusy, IsActive
<1>9. Transfer(c) => OnlyTransfers'
  BY <1>1, <1>4 DEF Transfer, OnlyTransfers
<1> QED
  BY <1>6, <1>7, <1>8, <1>9 DEF DmaInv

\* A store or a callback that does not start the loop.
LEMMA IdleStep ==
    ASSUME DmaInv, pc = "idle", NEW c, Sound(c), ch' = c,
           UNCHANGED <<prog, selVars, pc, ret, cmds_run>>,
           IsActive(c) => IsActive(ch) /\ c.in_progress = ch.in_progress,
           c.queue_len = ch.queue_len, c.connected = ch.connected,
           c.in_progress => ch.in_progress /\ c.cur = ch.cur /\ c.cur_cmd = ch.cur_cmd
    PROVE  /\ DmaInv'
           /\ OnlyTransfers => OnlyTransfers'
           /\ DeviceBusy => DeviceBusy'
<1>1. /\ prog' = prog /\ pc' = "idle" /\ ret' = ret /\ cmds_run' = cmds_run
      /\ UNCHANGED <<wait_select, branch_select, int_select>>
  BY DEF selVars
<1>2. Sound(ch)'
  BY <1>1, SoundNext
<1>3. TypeOK'
  <2>1. (ch \in ChannelType)'
    BY DEF Sound
  <2> QED
    BY <1>1, <2>1 DEF DmaInv, TypeOK
<1>4. ActiveBusy' /\ PassGoesOn' /\ StreamQueued' /\ DeliverAsked'
  BY <1>1 DEF DmaInv, ActiveBusy, PassGoesOn, StreamQueued, DeliverAsked, IsActive
<1>5. OnlyTransfers => OnlyTransfers'
  BY <1>1 DEF OnlyTransfers
<1>6. DeviceBusy => DeviceBusy'
  BY <1>1 DEF DeviceBusy, IsActive
<1> QED
  BY <1>2, <1>3, <1>4, <1>5, <1>6 DEF DmaInv

-----------------------------------------------------------------------------
(* Every action keeps the invariants.                                      *)

Keeps ==
    /\ DmaInv'
    /\ NoDataWaits /\ OnlyTransfers /\ DeviceBusy => OnlyTransfers' /\ DeviceBusy'

\* One command of the loop.
LEMMA InterpretStep ==
    ASSUME DmaInv, NEW n, NEW ended \in BOOLEAN, NEW s \in SUBSET SBits,
           Interpret(n, ended, s)
    PROVE  Keeps
<1> DEFINE c == IF ch.in_progress THEN FinishCmd(ch) ELSE ch
           x == Execute(c, n, ended, s)
<1>1. /\ pc = "run" /\ IsActive(ch) /\ cmds_run + 1 <= MAX_CMDS_PER_RUN
      /\ ~(ch.in_progress /\ ch.queue_len > 0)
      /\ n \in 0..(IF HasDevice THEN prog[c.cmd_ptr].req ELSE 0)
      /\ ch' = x /\ cmds_run' = cmds_run + 1
      /\ pc' = IF x.in_progress THEN "passed" ELSE "run"
      /\ prog' = prog /\ ret' = ret /\ UNCHANGED <<wait_select, branch_select, int_select>>
  <2>1. /\ ch' = x /\ pc' = IF ch'.in_progress THEN "passed" ELSE "run"
        /\ n \in 0..(IF HasDevice THEN prog[c.cmd_ptr].req ELSE 0)
    BY Zenon DEF Interpret
  <2>2. pc' = IF x.in_progress THEN "passed" ELSE "run"
    BY <2>1, Zenon
  <2>3. /\ pc = "run" /\ IsActive(ch) /\ cmds_run + 1 <= MAX_CMDS_PER_RUN
        /\ ~(ch.in_progress /\ ch.queue_len > 0) /\ cmds_run' = cmds_run + 1
        /\ UNCHANGED <<prog, selVars, ret>>
    BY Zenon DEF Interpret, CountCmd
  <2> QED
    BY <2>1, <2>2, <2>3, Zenon DEF selVars
<1>2. prog \in Programs /\ Sound(ch) /\ ch.queue_len \in Nat
  BY DBDMAAssumption DEF DmaInv, TypeOK, Sound, ChannelType
<1>3. ch.in_progress => ch.queue_len = 0
  BY <1>1, <1>2
<1>4. /\ Sound(c) /\ c.queue_len = ch.queue_len /\ c.connected = ch.connected
      /\ c.in_progress => c.queue_len = 0
      /\ IsActive(c)
      /\ ch.in_progress /\ ~Waits(ch) => ~c.in_progress
      /\ ~ch.in_progress => ~c.in_progress
  <2>1. CASE ch.in_progress
    <3>1. c = FinishCmd(ch)
      BY <2>1
    <3> HIDE DEF c
    <3>2. Sound(c) /\ Kept(c, ch) /\ (~Waits(ch) => ~c.in_progress)
      BY <1>2, <2>1, <3>1, FinishKeeps
    <3> QED
      BY <1>1, <1>3, <2>1, <3>2 DEF Kept, Follows
  <2>2. CASE ~ch.in_progress
    <3>1. c = ch
      BY <2>2
    <3> HIDE DEF c
    <3> QED
      BY <1>1, <1>2, <2>2, <3>1
  <2> QED
    BY <2>1, <2>2
<1> HIDE DEF c
<1>5. Executed(c, x)
  BY <1>1, <1>2, <1>4, ExecuteSound
<1> HIDE DEF x
<1>6. Sound(ch)'
  BY <1>1, <1>5, SoundNext DEF Executed
<1>7. TypeOK'
  <2>1. (ch \in ChannelType)'
    BY <1>1, <1>5 DEF Executed, Sound
  <2>2. cmds_run' \in 0..MAX_CMDS_PER_RUN
    BY <1>1, DBDMAAssumption DEF DmaInv, TypeOK
  <2> QED
    BY <1>1, <2>1, <2>2 DEF DmaInv, TypeOK
<1>8. ActiveBusy' /\ PassGoesOn' /\ DeliverAsked'
  BY <1>1 DEF ActiveBusy, PassGoesOn, DeliverAsked
<1>9. StreamQueued'
  <2> SUFFICES ASSUME ret # "none"
               PROVE  /\ ~x.connected
                      /\ x.queue_len = 0 \/ (IsActive(x) /\ x.in_progress)
    BY <1>1 DEF StreamQueued, IsActive
  <2>1. ~ch.connected /\ ch.queue_len = 0
    BY <1>1, <1>3 DEF DmaInv, StreamQueued
  <2> QED
    BY <1>4, <1>5, <2>1 DEF Executed, HasDevice
<1>10. NoDataWaits /\ OnlyTransfers => OnlyTransfers' /\ DeviceBusy'
  <2> SUFFICES ASSUME NoDataWaits, OnlyTransfers
               PROVE  OnlyTransfers' /\ DeviceBusy'
    OBVIOUS
  <2>1. ~c.in_progress
    <3>1. CASE ch.in_progress
      <4>1. ch.cur \in Addr /\ prog[ch.cur].op \in IoOp
        BY <1>2, <3>1 DEF OnlyTransfers, Sound, Counted
      <4>2. prog[ch.cur].w = 0
        BY <1>2, <4>1 DEF NoDataWaits
      <4>3. ~Waits(ch)
        BY <4>2 DEF Waits, Cond
      <4> QED
        BY <1>4, <3>1, <4>3
    <3> QED
      BY <1>4, <3>1
  <2>2. x.in_progress => /\ x.cur_cmd \in IoOp /\ prog[x.cur].op = x.cur_cmd
                         /\ ch.connected => x.again
    BY <1>5, <2>1 DEF Executed, HasDevice
  <2>3. x.connected = ch.connected
    BY <1>4, <1>5 DEF Executed
  <2> QED
    BY <1>1, <2>2, <2>3 DEF OnlyTransfers, DeviceBusy
<1> QED
  BY <1>6, <1>7, <1>8, <1>9, <1>10 DEF Keeps, DmaInv

\* The ends of a pass and of the loop.
LEMMA PassStep ==
    ASSUME DmaInv, Blocked \/ Runaway \/ PassEnd
    PROVE  Keeps
<1>1. prog \in Programs /\ Sound(ch) /\ ch \in ChannelType /\ ch.queue_len \in Nat
  BY DBDMAAssumption DEF DmaInv, TypeOK, Sound, ChannelType
<1>2. /\ prog' = prog /\ ret' = ret
      /\ UNCHANGED <<wait_select, branch_select, int_select>>
  BY DEF Blocked, Runaway, PassEnd, selVars
<1>3. CASE Blocked
  <2>1. /\ pc = "run" /\ pc' = "passed" /\ ch' = ch /\ cmds_run' = cmds_run
        /\ ~IsActive(ch) \/ (ch.in_progress /\ ch.queue_len > 0)
    BY <1>3 DEF Blocked
  <2>2. Sound(ch)'
    BY <1>1, <1>2, <2>1, SoundNext
  <2>3. TypeOK'
    BY <1>2, <2>1 DEF DmaInv, TypeOK
  <2>4. ActiveBusy' /\ PassGoesOn' /\ StreamQueued' /\ DeliverAsked'
    BY <1>2, <2>1
       DEF DmaInv, ActiveBusy, PassGoesOn, StreamQueued, DeliverAsked, IsActive
  <2>5. DeviceBusy' /\ (OnlyTransfers => OnlyTransfers')
    BY <1>2, <2>1 DEF DeviceBusy, OnlyTransfers, IsActive
  <2> QED
    BY <2>2, <2>3, <2>4, <2>5 DEF Keeps, DmaInv
<1>4. CASE Runaway
  <2> DEFINE t == (ch.stat \cup {"DEAD"}) \ {"ACTIVE"}
  <2>1. /\ pc = "run" /\ pc' = "passed" /\ cmds_run' = cmds_run
        /\ ch' = [ch EXCEPT !.stat = t, !.again = FALSE]
        /\ cmds_run + 1 > MAX_CMDS_PER_RUN
    BY <1>4 DEF Runaway, CountCmd
  <2>2. t \in SUBSET ({"RUN", "PAUSE", "ACTIVE", "DEAD"} \cup SBits) /\ "ACTIVE" \notin t
    BY <1>1 DEF ChannelType
  <2> HIDE DEF t
  <2>3. ch' \in ChannelType
    BY <1>1, <2>1, <2>2, Zenon DEF ChannelType
  <2>4. /\ ch'.written = ch.written /\ ch'.in_progress = ch.in_progress
        /\ ch'.connected = ch.connected /\ ch'.queue_len = ch.queue_len
        /\ ch'.cur = ch.cur /\ ch'.cur_cmd = ch.cur_cmd /\ ch'.stat = t
        /\ ch'.queue_data = ch.queue_data /\ ch'.res_count = ch.res_count
        /\ ch'.moved = ch.moved /\ ch'.cmd_ptr = ch.cmd_ptr
    BY <1>1, <2>1 DEF ChannelType
  <2>5. Sound(ch')
    BY <1>1, <2>3, <2>4, SoundSame DEF SameTransfer
  <2>6. Sound(ch)'
    BY <1>2, <2>5, SoundNext
  <2>7. TypeOK'
    <3>1. (ch \in ChannelType)'
      BY <2>3
    <3> QED
      BY <1>2, <2>1, <3>1 DEF DmaInv, TypeOK
  <2>8. ~ch.in_progress
    BY <2>1, DBDMAAssumption DEF DmaInv, PassGoesOn, TypeOK
  <2>9. ActiveBusy' /\ PassGoesOn' /\ StreamQueued' /\ DeliverAsked'
    BY <1>2, <2>1, <2>2, <2>4, <2>8
       DEF DmaInv, ActiveBusy, PassGoesOn, StreamQueued, DeliverAsked, IsActive
  <2>10. DeviceBusy' /\ OnlyTransfers'
    BY <2>2, <2>4, <2>8 DEF DeviceBusy, OnlyTransfers, IsActive
  <2> QED
    BY <2>6, <2>7, <2>9, <2>10 DEF Keeps, DmaInv
<1>5. CASE PassEnd /\ ch.again
  <2>1. pc = "passed" /\ StartLoop(ch, ret) /\ ret \in {"none", "pull", "push"}
    BY <1>2, <1>5 DEF PassEnd, StartLoop, DmaInv, TypeOK
  <2>2. ret # "none" => /\ ~ch.connected
                        /\ ch.queue_len = 0 \/ (IsActive(ch) /\ ch.in_progress)
    BY <2>1 DEF DmaInv, StreamQueued
  <2>3. /\ DmaInv' /\ DeviceBusy'
        /\ Transfer(ch) => OnlyTransfers'
    BY <1>1, <1>2, <2>1, <2>2, LoopStarts DEF selVars
  <2> QED
    BY <2>3 DEF Keeps, Transfer, OnlyTransfers
<1>6. CASE PassEnd /\ ~ch.again
  <2>1. /\ pc = "passed" /\ ch' = ch /\ cmds_run' = cmds_run
        /\ pc' = IF ret = "none" THEN "idle" ELSE "deliver"
    BY <1>6 DEF PassEnd
  <2>2. Sound(ch)'
    BY <1>1, <1>2, <2>1, SoundNext
  <2>3. TypeOK'
    BY <1>2, <2>1 DEF DmaInv, TypeOK
  <2>4. ActiveBusy' /\ PassGoesOn' /\ StreamQueued' /\ DeliverAsked'
    BY <1>2, <2>1
       DEF DmaInv, ActiveBusy, PassGoesOn, StreamQueued, DeliverAsked, IsActive
  <2>5. (DeviceBusy => DeviceBusy') /\ (OnlyTransfers => OnlyTransfers')
    BY <1>2, <1>6, <2>1 DEF DeviceBusy, OnlyTransfers, IsActive
  <2> QED
    BY <2>2, <2>3, <2>4, <2>5 DEF Keeps, DmaInv
<1> QED
  BY <1>3, <1>4, <1>5, <1>6

\* What Deliver hands out: bytes of a transfer in progress, or nothing.
LEMMA DeliverMoves ==
    ASSUME DmaInv, pc = "deliver", NEW n \in 0..ch.queue_len
    PROVE  LET m == Move(ch, n) IN
           /\ Sound(m) /\ m.in_progress = ch.in_progress
           /\ m.cur = ch.cur /\ m.cur_cmd = ch.cur_cmd /\ m.stat = ch.stat
           /\ m.connected = ch.connected /\ ~ch.connected
           /\ m.moved = ch.moved + n /\ (n = 0 \/ IsActive(ch))
<1> DEFINE m == Move(ch, n)
<1>1. prog \in Programs /\ Sound(ch) /\ ch \in ChannelType
  BY DEF DmaInv, TypeOK, Sound
<1>2. ~ch.connected /\ (ch.queue_len = 0 \/ (IsActive(ch) /\ ch.in_progress))
  BY DEF DmaInv, DeliverAsked, StreamQueued
<1>3. CASE IsActive(ch) /\ ch.in_progress
  <2>1. /\ Sound(m) /\ m.in_progress /\ m.moved = ch.moved + n
        /\ m.cur = ch.cur /\ m.cur_cmd = ch.cur_cmd /\ m.stat = ch.stat
        /\ m.connected = ch.connected
    BY <1>1, <1>3, MoveSound
  <2>2. m.in_progress = ch.in_progress
    BY <1>1 DEF Move, ChannelType
  <2> QED
    BY <1>2, <1>3, <2>1, <2>2
<1>4. CASE ch.queue_len = 0
  <2>1. n = 0
    BY <1>4
  <2>2. /\ ch.queue_data + n = ch.queue_data /\ ch.res_count - n = ch.res_count
        /\ ch.queue_len - n = ch.queue_len /\ ch.moved + n = ch.moved
    BY <1>1, <2>1, DBDMAAssumption DEF ChannelType
  <2>3. /\ ch.queue_data + n \in 0..MaxReq /\ ch.res_count - n \in 0..MaxReq
        /\ ch.queue_len - n \in 0..MaxReq /\ ch.moved + n \in 0..MaxReq
    BY <1>1, <2>2 DEF ChannelType
  <2>4. m \in ChannelType
    BY <1>1, <2>3, Zenon DEF Move, ChannelType
  <2>5. /\ m.in_progress = ch.in_progress
        /\ m.queue_len = ch.queue_len - n /\ m.moved = ch.moved + n
        /\ m.queue_data = ch.queue_data + n /\ m.res_count = ch.res_count - n
        /\ m.cur = ch.cur /\ m.cur_cmd = ch.cur_cmd /\ m.stat = ch.stat
        /\ m.again = ch.again /\ m.connected = ch.connected
        /\ m.cmd_ptr = ch.cmd_ptr /\ m.written = ch.written
    BY <1>1 DEF Move, ChannelType
  <2> HIDE DEF m
  <2>6. Sound(m)
    BY <1>1, <2>2, <2>4, <2>5, SoundSame DEF SameTransfer
  <2> QED
    BY <1>2, <2>1, <2>5, <2>6 DEF m
<1> QED
  BY <1>2, <1>3, <1>4

\* pull_data() and push_data() after the loop.
LEMMA DeliverStep ==
    ASSUME DmaInv, Deliver
    PROVE  Keeps
<1>1. PICK n \in 0..ch.queue_len :
        IF ret = "push" /\ n = ch.queue_len
        THEN StartLoop(Move(ch, n), "none")
        ELSE ch' = Move(ch, n) /\ pc' = "idle" /\ ret' = "none" /\ UNCHANGED cmds_run
  BY DEF Deliver
<1>2. /\ pc = "deliver" /\ prog' = prog
      /\ UNCHANGED <<wait_select, branch_select, int_select>>
  BY DEF Deliver, selVars
<1> DEFINE m == Move(ch, n)
<1>3. /\ Sound(m) /\ m.in_progress = ch.in_progress
      /\ m.cur = ch.cur /\ m.cur_cmd = ch.cur_cmd /\ m.stat = ch.stat
      /\ m.connected = ch.connected /\ ~ch.connected
  BY <1>2, DeliverMoves
<1> HIDE DEF m
<1>4. CASE StartLoop(m, "none")
  <2>1. /\ DmaInv' /\ DeviceBusy'
        /\ Transfer(m) => OnlyTransfers'
    BY <1>2, <1>3, <1>4, LoopStarts DEF selVars
  <2>2. OnlyTransfers => Transfer(m)
    BY <1>3 DEF Transfer, OnlyTransfers
  <2> QED
    BY <2>1, <2>2 DEF Keeps
<1>5. CASE ch' = m /\ pc' = "idle" /\ ret' = "none" /\ cmds_run' = cmds_run
  <2>1. Sound(ch)'
    BY <1>2, <1>3, <1>5, SoundNext
  <2>2. TypeOK'
    <3>1. (ch \in ChannelType)'
      BY <1>3, <1>5 DEF Sound
    <3> QED
      BY <1>2, <1>5, <3>1 DEF DmaInv, TypeOK
  <2>3. ActiveBusy' /\ PassGoesOn' /\ StreamQueued' /\ DeliverAsked'
    BY <1>2, <1>3, <1>5
       DEF DmaInv, ActiveBusy, PassGoesOn, StreamQueued, DeliverAsked, IsActive
  <2>4. DeviceBusy' /\ (OnlyTransfers => OnlyTransfers')
    BY <1>2, <1>3, <1>5 DEF DeviceBusy, OnlyTransfers, IsActive
  <2> QED
    BY <2>1, <2>2, <2>3, <2>4 DEF Keeps, DmaInv
<1> QED
  BY <1>1, <1>4, <1>5 DEF m

\* A device or a streaming client calls the channel.
LEMMA CallStep ==
    ASSUME DmaInv, Checked,
           \/ \E n \in 0..MaxReq, ended \in BOOLEAN, s \in SUBSET SBits :
                 XferRetry(n, ended, s)
           \/ \E r \in {"pull", "push"} : Stream(r)
    PROVE  Keeps
<1>1. prog \in Programs /\ Sound(ch) /\ ch \in ChannelType
  BY DEF DmaInv, TypeOK, Sound
<1>2. ASSUME NEW n \in 0..MaxReq, NEW ended \in BOOLEAN, NEW s \in SUBSET SBits,
             XferRetry(n, ended, s)
      PROVE  Keeps
  <2> DEFINE x == XferDevice(ch, ch.xfer_dir, n, ended, s)
  <2>1. /\ pc = "idle" /\ IsActive(ch) /\ ch.xfer_dir # "UNDEF" /\ n \in 0..ch.queue_len
        /\ StartLoop(x, "none") /\ UNCHANGED <<prog, selVars>>
    BY <1>2 DEF XferRetry, DmaIsReady, Checked
  <2>2. ch.in_progress /\ ch.xfer_dir \in IoOp
    BY <1>1, <2>1 DEF DmaInv, ActiveBusy, ChannelType
  <2>3. Sound(x) /\ x.cur = ch.cur /\ x.cur_cmd = ch.cur_cmd
    BY <1>1, <2>1, <2>2, XferSound
  <2> HIDE DEF x
  <2>4. /\ DmaInv' /\ DeviceBusy'
        /\ Transfer(x) => OnlyTransfers'
    BY <2>1, <2>3, LoopStarts
  <2>5. OnlyTransfers => Transfer(x)
    BY <2>2, <2>3 DEF Transfer, OnlyTransfers
  <2> QED
    BY <2>4, <2>5 DEF Keeps
<1>3. ASSUME NEW r \in {"pull", "push"}, Stream(r)
      PROVE  Keeps
  <2>1. /\ pc = "idle" /\ IsActive(ch) /\ ~ch.connected
        /\ StartLoop(ch, r) /\ UNCHANGED <<prog, selVars>>
    BY <1>3 DEF Stream, HasDevice
  <2>2. ch.in_progress
    BY <2>1 DEF DmaInv, ActiveBusy
  <2>3. /\ DmaInv' /\ DeviceBusy'
        /\ Transfer(ch) => OnlyTransfers'
    BY <1>1, <2>1, <2>2, LoopStarts
  <2> QED
    BY <2>3 DEF Keeps, Transfer, OnlyTransfers
<1> QED
  BY <1>2, <1>3

\* The fields of a transfer and the device's are those of c.
Rest(d, c) ==
    /\ d.in_progress = c.in_progress /\ d.cur = c.cur /\ d.cur_cmd = c.cur_cmd
    /\ d.queue_len = c.queue_len /\ d.connected = c.connected /\ d.moved = c.moved
    /\ d.is_paused = c.is_paused

StatType == SUBSET ({"RUN", "PAUSE", "ACTIVE", "DEAD"} \cup SBits)

\* Only the status bits change.
LEMMA StatSound ==
    ASSUME NEW c, Sound(c), NEW t \in StatType
    PROVE  LET d == [c EXCEPT !.stat = t] IN Sound(d) /\ Rest(d, c) /\ d.stat = t
<1> DEFINE d == [c EXCEPT !.stat = t]
<1>1. c \in ChannelType /\ c.stat \in StatType
  BY DEF Sound, ChannelType, StatType
<1>2. d \in ChannelType
  BY <1>1, Zenon DEF ChannelType, StatType
<1>3. /\ Rest(d, c) /\ d.stat = t /\ d.cmd_ptr = c.cmd_ptr /\ d.written = c.written
      /\ d.queue_data = c.queue_data /\ d.res_count = c.res_count
  BY <1>1 DEF ChannelType, Rest
<1> HIDE DEF d
<1>4. Sound(d)
  BY <1>2, <1>3, SoundSame DEF SameTransfer, Rest
<1> QED
  BY <1>3, <1>4 DEF d

\* set_stat(), the interrupt timer and FLUSH.
LEMMA SmallSteps ==
    ASSUME DmaInv, (\E s \in SUBSET SBits : SetStat(s)) \/ InterruptFires \/ Flush
    PROVE  Keeps /\ ch'.moved = ch.moved
<1>1. prog \in Programs /\ Sound(ch) /\ ch \in ChannelType /\ ch.stat \in StatType
  BY DEF DmaInv, TypeOK, Sound, ChannelType, StatType
<1>2. pc = "idle" /\ UNCHANGED <<prog, selVars, pc, ret, cmds_run>>
  BY DEF SetStat, InterruptFires, Flush
<1>3. ASSUME NEW s \in SUBSET SBits, SetStat(s)
      PROVE  Keeps /\ ch'.moved = ch.moved
  <2> DEFINE t == (ch.stat \ SBits) \cup s
             d == [ch EXCEPT !.stat = t]
  <2>1. ch' = d
    BY <1>3 DEF SetStat
  <2>2. t \in StatType
    BY <1>1 DEF StatType
  <2>3. Sound(d) /\ Rest(d, ch) /\ d.stat = t
    BY <1>1, <2>2, StatSound
  <2> HIDE DEF d
  <2>4. IsActive(d) => IsActive(ch)
    BY <2>3, DBDMAAssumption DEF IsActive
  <2> QED
    BY <1>2, <2>1, <2>3, <2>4, IdleStep DEF Rest, Keeps
<1>4. CASE InterruptFires
  <2> DEFINE d == [ch EXCEPT !.irq = FALSE]
  <2>1. ch' = d
    BY <1>4 DEF InterruptFires
  <2>2. d \in ChannelType
    BY <1>1 DEF ChannelType
  <2>3. /\ Rest(d, ch) /\ d.stat = ch.stat /\ d.cmd_ptr = ch.cmd_ptr
        /\ d.written = ch.written /\ d.queue_data = ch.queue_data
        /\ d.res_count = ch.res_count
    BY <1>1 DEF ChannelType, Rest
  <2> HIDE DEF d
  <2>4. Sound(d)
    BY <1>1, <2>2, <2>3, SoundSame DEF SameTransfer, Rest
  <2> QED
    BY <1>2, <2>1, <2>3, <2>4, IdleStep DEF Rest, Keeps, IsActive
<1>5. CASE Flush
  <2> DEFINE u == UpdateCmd(ch)
  <2>1. ch' = u /\ IsActive(ch)
    BY <1>5 DEF Flush
  <2>2. ch.in_progress
    BY <1>2, <2>1 DEF DmaInv, ActiveBusy
  <2>3. Counted(ch) /\ NotLast(ch) /\ Exact(ch) /\ ch.cur \in Addr /\ Settled(ch)
    BY <1>1, <2>2, CountedSettled DEF Sound
  <2>4. /\ u \in ChannelType /\ Exact(u) /\ Kept(u, ch)
        /\ u.cmd_ptr = ch.cmd_ptr /\ u.in_progress = ch.in_progress
    BY <1>1, <2>3, UpdateCmdSound DEF Settled
  <2> HIDE DEF u
  <2>5. Sound(u)
    BY <2>3, <2>4 DEF Sound, Counted, NotLast, Kept, Follows
  <2> QED
    BY <1>2, <2>1, <2>4, <2>5, IdleStep DEF Kept, Follows, Keeps
<1> QED
  BY <1>3, <1>4, <1>5

\* RUN = 1.
LEMMA SetRunStep ==
    ASSUME DmaInv, NEW cp \in BOOLEAN, SetRun(cp)
    PROVE  Keeps /\ ch'.moved = ch.moved
<1> DEFINE t == IF cp THEN ch.stat \ {"PAUSE"} ELSE ch.stat
           c == [ch EXCEPT !.stat = t]
           d == [c EXCEPT !.stat = @ \cup {"ACTIVE", "RUN"}]
<1>1. prog \in Programs /\ Sound(ch) /\ ch \in ChannelType /\ ch.stat \in StatType
  BY DEF DmaInv, TypeOK, Sound, ChannelType, StatType
<1>2. /\ pc = "idle" /\ UNCHANGED <<prog, selVars>>
      /\ IF "ACTIVE" \in c.stat THEN ch' = c /\ UNCHANGED <<pc, ret, cmds_run>>
                                ELSE Start(d)
  BY DEF SetRun
<1>3. t \in StatType /\ ("ACTIVE" \in t <=> "ACTIVE" \in ch.stat)
      /\ ("DEAD" \in t <=> "DEAD" \in ch.stat)
  BY <1>1 DEF StatType
<1> HIDE DEF t
<1>4. Sound(c) /\ Rest(c, ch) /\ c.stat = t
  BY <1>1, <1>3, StatSound
<1> HIDE DEF c
<1>5. CASE "ACTIVE" \in c.stat
  BY <1>2, <1>3, <1>4, <1>5, IdleStep DEF Rest, Keeps, IsActive
<1>6. CASE "ACTIVE" \notin c.stat
  <2>1. c.stat \cup {"ACTIVE", "RUN"} \in StatType
    BY <1>3, <1>4 DEF StatType
  <2>2. Sound(d) /\ Rest(d, c) /\ d.stat = c.stat \cup {"ACTIVE", "RUN"}
    BY <1>4, <2>1, StatSound
  <2> HIDE DEF d
  <2>3. CASE "PAUSE" \in d.stat
    <3> DEFINE e == [d EXCEPT !.stat = @ \ {"ACTIVE"}]
    <3>1. ch' = e /\ UNCHANGED <<pc, ret, cmds_run>>
      BY <1>2, <1>6, <2>3 DEF Start
    <3>2. d.stat \ {"ACTIVE"} \in StatType
      BY <2>1, <2>2 DEF StatType
    <3>3. Sound(e) /\ Rest(e, d) /\ e.stat = d.stat \ {"ACTIVE"}
      BY <2>2, <3>2, StatSound
    <3> HIDE DEF e
    <3> QED
      BY <1>2, <1>4, <2>2, <3>1, <3>3, IdleStep DEF Rest, Keeps, IsActive
  <2>4. CASE "PAUSE" \notin d.stat
    <3> DEFINE e == [d EXCEPT !.queue_len = 0, !.in_progress = FALSE]
    <3>1. StartLoop(e, "none")
      BY <1>2, <1>6, <2>4 DEF Start
    <3>2. d \in ChannelType /\ 0 \in 0..MaxReq
      BY <2>2, DBDMAAssumption DEF Sound
    <3>3. e \in ChannelType
      BY <3>2, Zenon DEF ChannelType
    <3>4. ~e.in_progress /\ e.written = d.written /\ e.moved = d.moved
      BY <3>2 DEF ChannelType
    <3> HIDE DEF e
    <3>5. Sound(e)
      BY <2>2, <3>3, <3>4, SoundSame DEF SameTransfer
    <3>6. /\ DmaInv' /\ DeviceBusy'
          /\ Transfer(e) => OnlyTransfers'
      BY <1>2, <3>1, <3>5, LoopStarts
    <3>7. ch'.moved = e.moved
      BY <3>1, <3>3 DEF StartLoop, ChannelType
    <3> QED
      BY <1>4, <2>2, <3>4, <3>6, <3>7 DEF Keeps, Transfer, Rest
  <2> QED
    BY <2>3, <2>4
<1> QED
  BY <1>5, <1>6

\* RUN = 0 and PAUSE = 1: the channel is not active any more.
LEMMA StopSteps ==
    ASSUME DmaInv, ClearRun \/ SetPause
    PROVE  Keeps /\ ch'.moved = ch.moved
<1>1. prog \in Programs /\ Sound(ch) /\ ch \in ChannelType /\ ch.stat \in StatType
  BY DEF DmaInv, TypeOK, Sound, ChannelType, StatType
<1>2. pc = "idle" /\ UNCHANGED <<prog, selVars, pc, ret, cmds_run>>
  BY DEF ClearRun, SetPause
<1>3. CASE ClearRun
  <2> DEFINE i == UpdateIrq(ch)
             c == IF "ACTIVE" \in ch.stat THEN [i EXCEPT !.in_progress = FALSE] ELSE ch
             d == [c EXCEPT !.stat = @ \ {"RUN", "ACTIVE", "DEAD"}]
  <2>1. ch' = d
    BY <1>3 DEF ClearRun
  <2>2. /\ Sound(c) /\ c.stat = ch.stat /\ c.queue_len = ch.queue_len
        /\ c.connected = ch.connected /\ c.moved = ch.moved
        /\ c.in_progress => ch.in_progress /\ c.cur = ch.cur /\ c.cur_cmd = ch.cur_cmd
    <3>1. CASE "ACTIVE" \in ch.stat
      <4>1. i \in ChannelType /\ Kept(i, ch) /\ i.written = ch.written
        BY <1>1, UpdateIrqSound
      <4> HIDE DEF i
      <4>2. c = [i EXCEPT !.in_progress = FALSE]
        BY <3>1
      <4> HIDE DEF c
      <4>3. c \in ChannelType
        BY <4>1, <4>2 DEF ChannelType
      <4>4. /\ ~c.in_progress /\ c.stat = i.stat /\ c.queue_len = i.queue_len
            /\ c.connected = i.connected /\ c.written = i.written /\ c.moved = i.moved
        BY <4>1, <4>2 DEF ChannelType
      <4>5. Sound(c)
        BY <1>1, <4>1, <4>3, <4>4, SoundSame DEF SameTransfer
      <4> QED
        BY <4>1, <4>4, <4>5 DEF Kept, Follows
    <3>2. CASE "ACTIVE" \notin ch.stat
      <4>1. c = ch
        BY <3>2
      <4> QED
        BY <1>1, <4>1
    <3> QED
      BY <3>1, <3>2
  <2> HIDE DEF c
  <2>3. c.stat \ {"RUN", "ACTIVE", "DEAD"} \in StatType
    BY <1>1, <2>2 DEF StatType
  <2>4. Sound(d) /\ Rest(d, c) /\ d.stat = c.stat \ {"RUN", "ACTIVE", "DEAD"}
    BY <2>2, <2>3, StatSound
  <2> HIDE DEF d
  <2>5. ~IsActive(d)
    BY <2>4 DEF IsActive
  <2> QED
    BY <1>2, <2>1, <2>2, <2>4, <2>5, IdleStep DEF Rest, Keeps
<1>4. CASE SetPause
  <2> DEFINE b == ch.is_paused \/ "ACTIVE" \in ch.stat
             t == (ch.stat \cup {"PAUSE"}) \ {"ACTIVE"}
             d == [ch EXCEPT !.is_paused = b, !.stat = t]
  <2>1. ch' = d
    BY <1>4, Zenon DEF SetPause
  <2>2. b \in BOOLEAN
    <3>1. CASE b
      BY <3>1, Zenon
    <3>2. CASE ~b
      BY <3>2, Zenon
    <3> QED
      BY <3>1, <3>2, Zenon
  <2>3. t \in StatType /\ "ACTIVE" \notin t
    BY <1>1 DEF StatType
  <2> HIDE DEF b, t
  <2>4. d \in ChannelType
    BY <1>1, <2>2, <2>3, Zenon DEF ChannelType, StatType
  <2>5. /\ d.in_progress = ch.in_progress /\ d.cur = ch.cur /\ d.cur_cmd = ch.cur_cmd
        /\ d.queue_len = ch.queue_len /\ d.connected = ch.connected
        /\ d.moved = ch.moved /\ d.stat = t /\ d.cmd_ptr = ch.cmd_ptr
        /\ d.written = ch.written /\ d.queue_data = ch.queue_data
        /\ d.res_count = ch.res_count
    BY <1>1 DEF ChannelType
  <2> HIDE DEF d
  <2>6. Sound(d) /\ ~IsActive(d)
    BY <1>1, <2>3, <2>4, <2>5, SoundSame DEF SameTransfer, IsActive
  <2> QED
    BY <1>2, <2>1, <2>5, <2>6, IdleStep DEF Keeps
<1> QED
  BY <1>3, <1>4

\* PAUSE = 0 and WAKE = 1: the channel goes on with the transfer it had.
LEMMA ResumeSteps ==
    ASSUME DmaInv, Checked, ClearPause \/ Wake
    PROVE  Keeps /\ ch'.moved = ch.moved
<1>1. prog \in Programs /\ Sound(ch) /\ ch \in ChannelType /\ ch.stat \in StatType
  BY DEF DmaInv, TypeOK, Sound, ChannelType, StatType
<1>2. pc = "idle" /\ UNCHANGED <<prog, selVars>>
  BY DEF ClearPause, Wake
\* a channel that goes on
<1>3. ASSUME NEW d, Sound(d), Resume(d), "PAUSE" \notin d.stat, d.moved = ch.moved,
             d.in_progress = ch.in_progress, d.cur = ch.cur, d.cur_cmd = ch.cur_cmd
      PROVE  Keeps /\ ch'.moved = ch.moved
  <2>1. StartLoop(d, "none")
    BY <1>3 DEF Resume
  <2>2. /\ DmaInv' /\ DeviceBusy'
        /\ Transfer(d) => OnlyTransfers'
    BY <1>2, <1>3, <2>1, LoopStarts
  <2>3. OnlyTransfers => Transfer(d)
    BY <1>3 DEF Transfer, OnlyTransfers
  <2>4. ch'.moved = d.moved
    BY <1>3, <2>1 DEF StartLoop, Sound, ChannelType
  <2> QED
    BY <1>3, <2>2, <2>3, <2>4 DEF Keeps
<1>4. CASE Wake
  <2> DEFINE d == [ch EXCEPT !.stat = @ \cup {"ACTIVE"}]
  <2>1. Resume(d) /\ "PAUSE" \notin ch.stat
    BY <1>4 DEF Wake, Checked
  <2>2. ch.stat \cup {"ACTIVE"} \in StatType
    BY <1>1 DEF StatType
  <2>3. Sound(d) /\ Rest(d, ch) /\ d.stat = ch.stat \cup {"ACTIVE"}
    BY <1>1, <2>2, StatSound
  <2> HIDE DEF d
  <2> QED
    BY <1>3, <2>1, <2>3 DEF Rest
<1>5. CASE ClearPause
  <2> DEFINE c == [ch EXCEPT !.stat = @ \ {"PAUSE"}]
             t == c.stat \cup {"ACTIVE"}
             d == [c EXCEPT !.is_paused = FALSE, !.stat = t]
  <2>1. IF "ACTIVE" \notin c.stat /\ c.is_paused THEN Resume(d)
        ELSE ch' = c /\ UNCHANGED <<pc, ret, cmds_run>>
    BY <1>5, Zenon DEF ClearPause
  <2>2. ch.stat \ {"PAUSE"} \in StatType
    BY <1>1 DEF StatType
  <2>3. Sound(c) /\ Rest(c, ch) /\ c.stat = ch.stat \ {"PAUSE"}
    BY <1>1, <2>2, StatSound
  <2> HIDE DEF c
  <2>4. CASE "ACTIVE" \notin c.stat /\ c.is_paused
    <3>1. t \in StatType /\ "PAUSE" \notin t
      BY <1>1, <2>3 DEF StatType
    <3>2. c \in ChannelType
      BY <2>3 DEF Sound
    <3> HIDE DEF t
    <3>3. d \in ChannelType
      BY <3>1, <3>2, Zenon DEF ChannelType, StatType
    <3>4. /\ d.in_progress = c.in_progress /\ d.cur = c.cur /\ d.cur_cmd = c.cur_cmd
          /\ d.queue_len = c.queue_len /\ d.moved = c.moved /\ d.stat = t
          /\ d.cmd_ptr = c.cmd_ptr /\ d.written = c.written
          /\ d.queue_data = c.queue_data /\ d.res_count = c.res_count
      BY <3>2 DEF ChannelType
    <3> HIDE DEF d
    <3>5. Sound(d)
      BY <2>3, <3>3, <3>4, SoundSame DEF SameTransfer
    <3>6. Resume(d)
      BY <2>1, <2>4
    <3> QED
      BY <1>3, <2>3, <3>1, <3>4, <3>5, <3>6 DEF Rest
  <2>5. CASE ~("ACTIVE" \notin c.stat /\ c.is_paused)
    <3>1. ch' = c /\ UNCHANGED <<pc, ret, cmds_run>>
      BY <2>1, <2>5
    <3> QED
      BY <1>2, <2>3, <3>1, IdleStep DEF Rest, Keeps, IsActive
  <2> QED
    BY <2>4, <2>5
<1> QED
  BY <1>4, <1>5

\* CMD_PTR_LO and the select registers.
LEMMA RegisterSteps ==
    ASSUME DmaInv,
           \/ \E p \in Programs, a \in Addr : SetCmdPtr(p, a)
           \/ \E w, b, i \in Selects : SetSelect(w, b, i)
    PROVE  Keeps /\ ch'.moved = ch.moved
<1>1. prog \in Programs /\ Sound(ch) /\ ch \in ChannelType
  BY DEF DmaInv, TypeOK, Sound
<1>2. ASSUME NEW w \in Selects, NEW b \in Selects, NEW i \in Selects, SetSelect(w, b, i)
      PROVE  Keeps /\ ch'.moved = ch.moved
  <2>1. /\ prog' = prog /\ ch' = ch /\ pc' = pc /\ ret' = ret /\ cmds_run' = cmds_run
        /\ {wait_select', branch_select', int_select'} \subseteq Selects
    BY <1>2 DEF SetSelect
  <2>2. Sound(ch)'
    BY <1>1, <2>1, SoundNext
  <2>3. TypeOK'
    BY <2>1 DEF DmaInv, TypeOK
  <2>4. ActiveBusy' /\ PassGoesOn' /\ StreamQueued' /\ DeliverAsked'
    BY <2>1 DEF DmaInv, ActiveBusy, PassGoesOn, StreamQueued, DeliverAsked, IsActive
  <2>5. (DeviceBusy => DeviceBusy') /\ (OnlyTransfers => OnlyTransfers')
    BY <2>1 DEF DeviceBusy, OnlyTransfers, IsActive
  <2> QED
    BY <2>1, <2>2, <2>3, <2>4, <2>5 DEF Keeps, DmaInv
<1>3. ASSUME NEW p \in Programs, NEW a \in Addr, SetCmdPtr(p, a)
      PROVE  Keeps /\ ch'.moved = ch.moved
  <2>1. /\ pc = "idle" /\ prog' = p /\ ch' = [ch EXCEPT !.cmd_ptr = a]
        /\ ch.in_progress => p = prog /\ a < LastAddr
        /\ pc' = pc /\ ret' = ret /\ cmds_run' = cmds_run
        /\ UNCHANGED <<wait_select, branch_select, int_select>>
    BY <1>3 DEF SetCmdPtr, selVars
  <2>2. ch' \in ChannelType
    BY <1>1, <2>1 DEF ChannelType
  <2>3. /\ Rest(ch', ch) /\ ch'.stat = ch.stat /\ ch'.cmd_ptr = a
        /\ ch'.written = ch.written /\ ch'.queue_data = ch.queue_data
        /\ ch'.res_count = ch.res_count
    BY <1>1, <2>1 DEF ChannelType, Rest
  <2>4. Sound(ch)'
    <3>1. (Counted(ch))'
      BY <1>1, <2>1, <2>3 DEF Sound, Counted, Rest
    <3>2. (NotLast(ch))' /\ (Exact(ch))'
      BY <1>1, <2>1, <2>3 DEF Sound, NotLast, Exact, Rest
    <3>3. (ch \in ChannelType)'
      BY <2>2
    <3> QED
      BY <3>1, <3>2, <3>3 DEF Sound
  <2>5. TypeOK'
    <3>1. (ch \in ChannelType)'
      BY <2>2
    <3> QED
      BY <2>1, <3>1 DEF DmaInv, TypeOK
  <2>6. ActiveBusy' /\ PassGoesOn' /\ StreamQueued' /\ DeliverAsked'
    BY <2>1, <2>3
       DEF DmaInv, ActiveBusy, PassGoesOn, StreamQueued, DeliverAsked, IsActive, Rest
  <2>7. (DeviceBusy => DeviceBusy') /\ (OnlyTransfers => OnlyTransfers')
    BY <2>1, <2>3 DEF DeviceBusy, OnlyTransfers, IsActive, Rest
  <2> QED
    BY <2>3, <2>4, <2>5, <2>6, <2>7 DEF Keeps, DmaInv, Rest
<1> QED
  BY <1>2, <1>3

-----------------------------------------------------------------------------
(* Theorems.                                                               *)

\* The invariants hold initially,
LEMMA DmaInit == Init => DmaInv /\ OnlyTransfers /\ DeviceBusy
<1> SUFFICES ASSUME Init
             PROVE  DmaInv /\ OnlyTransfers /\ DeviceBusy
  OBVIOUS
<1>1. /\ ch.stat = {} /\ ~ch.in_progress
      /\ ch.written = [req |-> 0, moved |-> 0, res |-> 0]
  BY DEF Init
<1>2. ch \in ChannelType
  <2>1. 0 \in 0..MaxReq /\ 0 \in Addr
    BY DBDMAAssumption DEF Addr
  <2>2. "STOP" \in Op /\ None \in Addr \cup {None} /\ "UNDEF" \in IoOp \cup {"UNDEF"}
    BY DEF Op
  <2>3. PICK d \in Connected :
          ch = [stat |-> {}, cmd_ptr |-> 0, queue_len |-> 0, queue_data |-> 0,
                res_count |-> 0, in_progress |-> FALSE, is_paused |-> FALSE,
                again |-> FALSE, xfer_ended |-> FALSE, end_stat |-> {},
                cur |-> None, cur_cmd |-> "STOP", xfer_dir |-> "UNDEF",
                irq |-> FALSE, connected |-> d,
                moved |-> 0, written |-> [req |-> 0, moved |-> 0, res |-> 0]]
    BY DEF Init
  <2>4. [req |-> 0, moved |-> 0, res |-> 0]
          \in [req : 0..MaxReq, moved : 0..MaxReq, res : 0..MaxReq]
    BY <2>1
  <2> QED
    BY <2>1, <2>2, <2>3, <2>4, Zenon DEF ChannelType
<1>3. TypeOK
  BY <1>2, DBDMAAssumption DEF Init, TypeOK
<1>4. Sound(ch)
  BY <1>1, <1>2 DEF Sound, Counted, NotLast, Exact
<1> QED
  BY <1>1, <1>3, <1>4
     DEF Init, DmaInv, ActiveBusy, PassGoesOn, StreamQueued, DeliverAsked,
         OnlyTransfers, DeviceBusy, IsActive

\* and every step keeps them.
LEMMA DmaStep ==
    ASSUME Checked, DmaInv, [Next]_vars
    PROVE  Keeps
<1>1. CASE UNCHANGED vars
  <2>1. /\ prog' = prog /\ ch' = ch /\ pc' = pc /\ ret' = ret /\ cmds_run' = cmds_run
        /\ UNCHANGED <<wait_select, branch_select, int_select>>
    BY <1>1 DEF vars, selVars
  <2>2. Sound(ch)'
    BY <2>1, SoundNext DEF DmaInv
  <2>3. TypeOK'
    BY <2>1 DEF DmaInv, TypeOK
  <2>4. ActiveBusy' /\ PassGoesOn' /\ StreamQueued' /\ DeliverAsked'
    BY <2>1 DEF DmaInv, ActiveBusy, PassGoesOn, StreamQueued, DeliverAsked, IsActive
  <2>5. (DeviceBusy => DeviceBusy') /\ (OnlyTransfers => OnlyTransfers')
    BY <2>1 DEF DeviceBusy, OnlyTransfers, IsActive
  <2> QED
    BY <2>2, <2>3, <2>4, <2>5 DEF Keeps, DmaInv
<1>2. CASE Run
  BY <1>2, InterpretStep, PassStep, DeliverStep DEF Run
<1>3. CASE Device
  BY <1>3, CallStep, SmallSteps DEF Device
<1>4. CASE Guest
  BY <1>4, SmallSteps, SetRunStep, StopSteps, ResumeSteps, RegisterSteps DEF Guest
<1> QED
  BY <1>1, <1>2, <1>3, <1>4 DEF Next

\* However pulls, retries, pauses, flushes and early ends cut a transfer up, each
\* byte is moved from or to its place, and resCount in guest memory tells how
\* many were: for command lists of any length and requests of any size.
THEOREM TransfersExact ==
    ASSUME Checked
    PROVE  Spec => []TransferExact
<1>1. Init => DmaInv
  BY DmaInit
<1>2. DmaInv /\ [Next]_vars => DmaInv'
  BY DmaStep DEF Keeps
<1>3. DmaInv => TransferExact
  <2> SUFFICES ASSUME DmaInv
               PROVE  TransferExact
    OBVIOUS
  <2>1. BufferExact
    <3> SUFFICES ASSUME ch.in_progress, ch.queue_len > 0
                 PROVE  ch.queue_data + ch.queue_len = prog[ch.cur].req
      BY DEF BufferExact
    <3>1. ch.cur_cmd \in IoOp
      BY DBDMAAssumption DEF DmaInv, Sound, Counted
    <3> QED
      BY <3>1 DEF DmaInv, Sound, Counted
  <2> QED
    BY <2>1 DEF DmaInv, TransferExact, ResidueExact, Sound, Exact
<1> QED
  BY <1>1, <1>2, <1>3, PTL DEF Spec

\* No byte moves on a channel that is not active: not after the guest cleared
\* RUN or set PAUSE, and not after the channel died.
THEOREM NothingMovesIdle ==
    ASSUME Checked
    PROVE  Spec => IdleMovesNothing
<1>1. Init => DmaInv
  BY DmaInit
<1>2. DmaInv /\ [Next]_vars => DmaInv'
  BY DmaStep DEF Keeps
<1>3. DmaInv /\ [Next]_vars => [ch'.moved > ch.moved => IsActive(ch)]_vars
  <2> SUFFICES ASSUME DmaInv, Next, ch'.moved > ch.moved, ~IsActive(ch)
               PROVE  FALSE
    OBVIOUS
  <2>1. prog \in Programs /\ Sound(ch) /\ ch.moved \in Nat
    BY DBDMAAssumption DEF DmaInv, TypeOK, Sound, ChannelType
  <2>2. ASSUME ch'.moved = ch.moved
        PROVE  FALSE
    BY <2>1, <2>2
  <2>3. CASE Run
    <3>1. CASE Blocked
      BY <2>2, <3>1 DEF Blocked
    <3>2. CASE PassEnd
      BY <2>1, <2>2, <3>2 DEF PassEnd, Sound, ChannelType
    <3>3. CASE Deliver
      <4>1. PICK n \in 0..ch.queue_len :
              StartLoop(Move(ch, n), "none") \/ ch' = Move(ch, n)
        BY <3>3 DEF Deliver
      <4> DEFINE m == Move(ch, n)
      <4>2. Sound(m) /\ m.moved = ch.moved + n /\ n = 0
        BY <3>3, DeliverMoves DEF Deliver
      <4> HIDE DEF m
      <4>3. ch'.moved = m.moved
        <5>1. StartLoop(m, "none") \/ ch' = m
          BY <4>1 DEF m
        <5>2. ASSUME StartLoop(m, "none")
              PROVE  ch'.moved = m.moved
          BY <4>2, <5>2 DEF StartLoop, Sound, ChannelType
        <5> QED
          BY <5>1, <5>2
      <4> QED
        BY <2>1, <2>2, <4>2, <4>3
    <3> QED
      BY <2>3, <3>1, <3>2, <3>3 DEF Run, Interpret, Runaway
  <2>4. CASE Device
    <3>1. ASSUME NEW r \in {"pull", "push"}, Stream(r)
          PROVE  FALSE
      BY <3>1 DEF Stream
    <3>2. ASSUME NEW n \in 0..MaxReq, NEW ended \in BOOLEAN, NEW s \in SUBSET SBits,
                 XferRetry(n, ended, s)
          PROVE  FALSE
      BY <3>2 DEF XferRetry, DmaIsReady, Checked
    <3> QED
      BY <2>2, <2>4, <3>1, <3>2, SmallSteps DEF Device
  <2>5. CASE Guest
    BY <2>2, <2>5, SmallSteps, SetRunStep, StopSteps, ResumeSteps, RegisterSteps DEF Guest
  <2> QED
    BY <2>3, <2>4, <2>5 DEF Next
<1> QED
  BY <1>1, <1>2, <1>3, PTL DEF Spec, IdleMovesNothing

\* With no wait bits on data commands the interpreter leaves an active channel
\* only at a transfer that is still pending, and where a device is connected
\* there is data for it to move: nobody has to wake the channel up.
THEOREM NoWorkLost ==
    ASSUME Checked, NoDataWaits
    PROVE  Spec => []NoLostWork
<1>1. Init => WorkInv
  BY DmaInit DEF WorkInv
<1>2. WorkInv /\ [Next]_vars => WorkInv'
  BY DmaStep DEF Keeps, WorkInv
<1>3. WorkInv => NoLostWork
  BY DEF WorkInv, DmaInv, ActiveBusy, DeviceBusy, NoLostWork, HasDevice
<1> QED
  BY <1>1, <1>2, <1>3, PTL DEF Spec
=============================================================================
