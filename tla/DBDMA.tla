------------------------------- MODULE DBDMA -------------------------------
(***************************************************************************)
(* One descriptor-based DMA channel (devices/common/dbdma.{h,cpp}): the    *)
(* registers the guest writes, the interpreter of command lists in guest   *)
(* memory, and the two ways data leaves and enters it: through a connected *)
(* DmaDevice that moves data when asked and asks the channel to retry      *)
(* later, or through pull_data()/push_data() calls of a streaming client.  *)
(*                                                                         *)
(* Guest stores, timer callbacks and device code all run on the CPU        *)
(* thread, so none of them interleaves with a running interpreter loop;    *)
(* each command the loop executes is a step. The channel's fields are one  *)
(* record, ch, and its methods are operators on that record.               *)
(***************************************************************************)
EXTENDS Integers

CONSTANTS
    LastAddr,       \* command slots of guest memory: 0..LastAddr
    Programs,       \* command lists the guest may have written there
    SBits,          \* general purpose status bits s0..s7
    Selects,        \* values of the wait, branch and interrupt select registers
    MaxReq,         \* largest request count of a command
    MAX_CMDS_PER_RUN,
    Connected,      \* whether a DmaDevice (SCSI, IDE, Ethernet, serial) is
                    \* connected: one or both cases
    DeviceChecks,   \* the device asks dma_is_ready() before xfer_retry()
    WakePaused      \* the guest may write WAKE while PAUSE is set

Addr == 0..LastAddr
None == -1

\* The _MORE and _LAST forms differ only for the device; KEYED stands for a
\* data command with a key that is not implemented.
IoOp   == {"OUTPUT", "INPUT"}
QuadOp == {"STORE_QUAD", "LOAD_QUAD"}
Op     == IoOp \cup QuadOp \cup {"KEYED", "NOP", "STOP", "BAD"}

\* w, b and i: 0 never, 1 if the condition holds, 2 if it does not, 3 always
Command == [op : Op, req : 0..MaxReq, w : 0..3, b : 0..3, i : 0..3, arg : Addr]

Select == [mask : SUBSET SBits, value : SUBSET SBits]

\* A list ends in STOP; a LOAD_QUAD or STORE_QUAD with branch bits makes the
\* emulator give up (ABORT_F), so no list has one.
ASSUME DBDMAAssumption ==
    /\ LastAddr \in Nat
    /\ MaxReq \in Nat
    /\ MAX_CMDS_PER_RUN \in Nat \ {0}
    /\ Programs \subseteq [Addr -> Command]
    /\ \A p \in Programs :
          /\ p[LastAddr].op = "STOP"
          /\ \A a \in Addr : p[a].op \in QuadOp => p[a].b = 0
    /\ SBits \cap {"RUN", "PAUSE", "ACTIVE", "DEAD"} = {}
    /\ Selects \subseteq Select
    /\ Connected \subseteq BOOLEAN
    /\ {DeviceChecks, WakePaused} \subseteq BOOLEAN

VARIABLES
    prog,           \* the command list in guest memory
    ch,             \* the fields of DMAChannel
    wait_select, branch_select, int_select,
    pc,             \* "idle", or "run" while interpret_until_blocked() runs
    ret,            \* what its caller does next: nothing, or a transfer
    cmds_run        \* commands executed in this pass of the loop

selVars == <<wait_select, branch_select, int_select>>
vars == <<prog, ch, selVars, pc, ret, cmds_run>>

-----------------------------------------------------------------------------
(* Methods of the channel.                                                 *)

Init ==
    /\ prog \in Programs
    /\ ch \in {[stat |-> {}, cmd_ptr |-> 0, queue_len |-> 0, queue_data |-> 0,
               res_count |-> 0, in_progress |-> FALSE, is_paused |-> FALSE,
               again |-> FALSE, xfer_ended |-> FALSE, end_stat |-> {},
               cur |-> None, cur_cmd |-> "STOP", xfer_dir |-> "UNDEF",
               irq |-> FALSE, connected |-> d,
               \* history: bytes moved since the command was fetched, and
               \* what was last written to a command's resCount
               moved |-> 0, written |-> [req |-> 0, moved |-> 0, res |-> 0]] : d \in Connected}
    /\ wait_select \in Selects
    /\ branch_select \in Selects
    /\ int_select \in Selects
    /\ pc = "idle"
    /\ ret = "none"
    /\ cmds_run = 0

\* connect() has been called: the machine is wired up once
HasDevice == ch.connected

\* is_active()
IsActive(c) == "ACTIVE" \in c.stat /\ "DEAD" \notin c.stat

\* the w, b and i bits of a command against a select register
Cond(mode, sel, c) ==
    LET match == c.stat \cap sel.mask = sel.value \cap sel.mask
    IN  mode = 3 \/ (mode = 1 /\ match) \/ (mode = 2 /\ ~match)

\* update_cmd(): xferStatus is not kept here, resCount is
UpdateCmd(c) ==
    IF c.cur_cmd \in IoOp
    THEN [c EXCEPT !.written = [req |-> prog[c.cur].req, moved |-> c.moved,
                                res |-> c.res_count]]
    ELSE c

\* update_irq(): an interrupt that is still queued is coalesced
UpdateIrq(c) ==
    [c EXCEPT !.irq =
        @ \/ (c.cur_cmd # "STOP" /\ Cond(prog[c.cur].i, int_select, c))]

\* the command has to wait although its data has been moved
Waits(c) == c.cur_cmd # "STOP" /\ Cond(prog[c.cur].w, wait_select, c)

Branches(c) == Cond(prog[c.cur].b, branch_select, c)

\* finish_cmd()
FinishCmd(c) ==
    IF Waits(c) THEN c
    ELSE LET u == UpdateCmd(c)
             v == IF c.cur_cmd = "STOP" THEN u
                  ELSE [u EXCEPT !.cmd_ptr = IF Branches(c) THEN prog[c.cur].arg
                                             ELSE @ + 1]
         IN  [UpdateIrq(v) EXCEPT !.in_progress = FALSE]

\* finish_ended_cmd(): the bits a device reported describe this command only
FinishEndedCmd(c) ==
    IF ~c.xfer_ended THEN FinishCmd(c)
    ELSE LET f == FinishCmd([c EXCEPT !.xfer_ended = FALSE, !.end_stat = {},
                                      !.stat = @ \cup c.end_stat])
         IN  [f EXCEPT !.stat = @ \ c.end_stat]

\* mutant: the residue is not counted down
MoveKeepsResidue(c, n) ==
    [c EXCEPT !.queue_data = @ + n, !.queue_len = @ - n, !.moved = @ + n]

\* n bytes leave or enter the queued buffer
Move(c, n) ==
    [c EXCEPT !.queue_data = @ + n, !.res_count = @ - n, !.queue_len = @ - n,
              !.moved = @ + n]

\* xfer_from_device(), xfer_to_device() up to their call of
\* interpret_until_blocked(): the device moves n bytes and may end the command
\* early with end_xfer(s)
XferDevice(c, dir, n, ended, s) ==
    LET d == [Move(c, n) EXCEPT !.xfer_dir = dir,
                                !.xfer_ended = @ \/ ended,
                                !.end_stat = IF ended THEN s ELSE @]
    IN  IF d.queue_len = 0 \/ d.xfer_ended THEN FinishEndedCmd(d) ELSE d

\* interpret_cmd(), from fetch_cmd() on
Execute(c, n, ended, s) ==
    LET k == prog[c.cmd_ptr]
        f == [c EXCEPT !.cur = c.cmd_ptr, !.cur_cmd = k.op]
        q == [f EXCEPT !.queue_data = 0, !.queue_len = k.req,
                       !.res_count = k.req, !.moved = 0]
    IN  CASE k.op \in IoOp /\ k.req > 0 ->
               IF HasDevice
               THEN [XferDevice([q EXCEPT !.in_progress = TRUE], k.op, n, ended, s)
                        EXCEPT !.again = TRUE]
               ELSE [q EXCEPT !.in_progress = TRUE]
          [] k.op \in IoOp /\ k.req = 0 -> FinishCmd(q)
          [] k.op \in QuadOp -> FinishCmd([f EXCEPT !.res_count = k.req])
          [] k.op = "NOP"    -> FinishCmd(f)
          [] k.op = "STOP"   -> FinishCmd([f EXCEPT !.stat = @ \ {"ACTIVE"},
                                                   !.in_progress = FALSE])
          [] k.op = "KEYED"  -> f
          [] k.op = "BAD"    -> [f EXCEPT !.stat = (@ \cup {"DEAD"}) \ {"ACTIVE"}]

-----------------------------------------------------------------------------
(* interpret_until_blocked(). A call made while the loop runs only sets    *)
(* interpret_again, which Execute does for the transfers it starts.        *)

StartLoop(c, r) ==
    /\ ch' = [c EXCEPT !.again = FALSE]
    /\ pc' = "run"
    /\ ret' = r
    /\ cmds_run' = 0

\* mutant: the commands of a pass are not counted
CountNothing(n) == n

\* ++cmds_run
CountCmd(n) == n + 1

\* mutant: one command is interpreted, not all that are ready
InterpretOnce(n, ended, s) ==
    /\ pc = "run"
    /\ IsActive(ch)
    /\ CountCmd(cmds_run) <= MAX_CMDS_PER_RUN
    /\ ~(ch.in_progress /\ ch.queue_len > 0)
    /\ LET c == IF ch.in_progress THEN FinishCmd(ch) ELSE ch
           k == prog[c.cmd_ptr]
       IN  /\ n \in 0..(IF HasDevice THEN k.req ELSE 0)
           /\ ended => HasDevice /\ k.op = "INPUT" /\ k.req > 0
           /\ ch' = Execute(c, n, ended, s)
    /\ cmds_run' = CountCmd(cmds_run)
    /\ pc' = "passed"
    /\ UNCHANGED <<prog, selVars, ret>>

\* while (is_active()) interpret_cmd(): the queued data of the last command has
\* been moved, so that it is finished and the next one is fetched
Interpret(n, ended, s) ==
    /\ pc = "run"
    /\ IsActive(ch)
    /\ CountCmd(cmds_run) <= MAX_CMDS_PER_RUN
    /\ ~(ch.in_progress /\ ch.queue_len > 0)
    /\ LET c == IF ch.in_progress THEN FinishCmd(ch) ELSE ch
           k == prog[c.cmd_ptr]
       IN  /\ n \in 0..(IF HasDevice THEN k.req ELSE 0)
           /\ ended => HasDevice /\ k.op = "INPUT" /\ k.req > 0
           /\ ch' = Execute(c, n, ended, s)
    /\ cmds_run' = CountCmd(cmds_run)
    /\ pc' = IF ch'.in_progress THEN "passed" ELSE "run"
    /\ UNCHANGED <<prog, selVars, ret>>

\* the loop stops at a transfer that is still pending, or because the channel
\* is not active
Blocked ==
    /\ pc = "run"
    /\ \/ ~IsActive(ch)
       \/ ch.in_progress /\ ch.queue_len > 0 /\ CountCmd(cmds_run) <= MAX_CMDS_PER_RUN
    /\ pc' = "passed"
    /\ UNCHANGED <<prog, ch, selVars, ret, cmds_run>>

\* the bound on the commands of a pass
Runaway ==
    /\ pc = "run"
    /\ IsActive(ch)
    /\ CountCmd(cmds_run) > MAX_CMDS_PER_RUN
    /\ ch' = [ch EXCEPT !.stat = (@ \cup {"DEAD"}) \ {"ACTIVE"}, !.again = FALSE]
    /\ pc' = "passed"
    /\ UNCHANGED <<prog, selVars, ret, cmds_run>>

\* while (interpret_again)
PassEnd ==
    /\ pc = "passed"
    /\ IF ch.again
       THEN /\ ch' = [ch EXCEPT !.again = FALSE]
            /\ cmds_run' = 0
            /\ pc' = "run"
       ELSE /\ pc' = IF ret = "none" THEN "idle" ELSE "deliver"
            /\ UNCHANGED <<ch, cmds_run>>
    /\ UNCHANGED <<prog, selVars, ret>>

\* pull_data() and push_data() after the interpreter has run: move what was
\* asked for, or all there is; push_data() then continues an exhausted command
Deliver ==
    /\ pc = "deliver"
    /\ \E n \in 0..ch.queue_len :
          /\ ret = "push" /\ ch.queue_len > 0 => n > 0
          /\ IF ret = "push" /\ n = ch.queue_len
             THEN StartLoop(Move(ch, n), "none")
             ELSE /\ ch' = Move(ch, n)
                  /\ pc' = "idle"
                  /\ ret' = "none"
                  /\ UNCHANGED cmds_run
    /\ UNCHANGED <<prog, selVars>>

-----------------------------------------------------------------------------
(* Calls of devices and streaming clients.                                 *)

\* dma_is_ready()
DmaIsReady ==
    /\ IsActive(ch)
    /\ ch.xfer_dir # "UNDEF"
    /\ ch.cur_cmd \notin {"NOP", "STOP"}

\* xfer_retry(), from a device that has data or room again
XferRetry(n, ended, s) ==
    /\ pc = "idle"
    /\ HasDevice
    /\ DeviceChecks => DmaIsReady
    /\ ch.xfer_dir # "UNDEF"
    /\ n \in 0..ch.queue_len
    /\ ended => ch.xfer_dir = "INPUT"
    /\ StartLoop(XferDevice(ch, ch.xfer_dir, n, ended, s), "none")
    /\ UNCHANGED <<prog, selVars>>

\* mutant: the state of the channel is not looked at
StreamUnchecked(r) ==
    /\ pc = "idle"
    /\ ~HasDevice
    /\ StartLoop(ch, r)
    /\ UNCHANGED <<prog, selVars>>

\* pull_data(), push_data() on a channel that is active
Stream(r) ==
    /\ pc = "idle"
    /\ ~HasDevice
    /\ IsActive(ch)
    /\ StartLoop(ch, r)
    /\ UNCHANGED <<prog, selVars>>

\* set_stat(), update_ch_stat(): a device drives its status lines
SetStat(s) ==
    /\ pc = "idle"
    /\ ch' = [ch EXCEPT !.stat = (@ \ SBits) \cup s]
    /\ UNCHANGED <<prog, selVars, pc, ret, cmds_run>>

\* the interrupt timer fires: ack_dma_int()
InterruptFires ==
    /\ pc = "idle"
    /\ ch.irq
    /\ ch' = [ch EXCEPT !.irq = FALSE]
    /\ UNCHANGED <<prog, selVars, pc, ret, cmds_run>>

-----------------------------------------------------------------------------
(* reg_write(): stores of the guest. Setting RUN and PAUSE in one store    *)
(* makes the emulator give up (ABORT_F) and is left out.                   *)

\* FLUSH: memory is brought up to date in the middle of an input command
Flush ==
    /\ pc = "idle"
    /\ ch.cur_cmd = "INPUT"
    /\ IsActive(ch)
    /\ ch' = UpdateCmd(ch)
    /\ UNCHANGED <<prog, selVars, pc, ret, cmds_run>>

\* start()
Start(c) ==
    IF "PAUSE" \in c.stat
    THEN /\ ch' = [c EXCEPT !.stat = @ \ {"ACTIVE"}]
         /\ UNCHANGED <<pc, ret, cmds_run>>
    ELSE StartLoop([c EXCEPT !.queue_len = 0, !.in_progress = FALSE], "none")

\* resume()
Resume(c) ==
    IF "PAUSE" \in c.stat
    THEN ch' = c /\ UNCHANGED <<pc, ret, cmds_run>>
    ELSE StartLoop(c, "none")

\* RUN = 1, which may come with PAUSE = 0
SetRun(clear_pause) ==
    /\ pc = "idle"
    /\ LET c == [ch EXCEPT !.stat = IF clear_pause THEN @ \ {"PAUSE"} ELSE @]
       IN  IF "ACTIVE" \in c.stat
           THEN ch' = c /\ UNCHANGED <<pc, ret, cmds_run>>
           ELSE Start([c EXCEPT !.stat = @ \cup {"ACTIVE", "RUN"}])
    /\ UNCHANGED <<prog, selVars>>

\* RUN = 0: a command in progress is aborted but may interrupt. On a channel
\* that is ACTIVE without having fetched a command the store dereferences a
\* null cur_host, and the emulator ends.
ClearRun ==
    /\ pc = "idle"
    /\ "ACTIVE" \in ch.stat => ch.cur # None
    /\ LET c == IF "ACTIVE" \in ch.stat
                THEN [UpdateIrq(ch) EXCEPT !.in_progress = FALSE]
                ELSE ch
       IN  ch' = [c EXCEPT !.stat = @ \ {"RUN", "ACTIVE", "DEAD"}]
    /\ UNCHANGED <<prog, selVars, pc, ret, cmds_run>>

\* PAUSE = 1
SetPause ==
    /\ pc = "idle"
    /\ ch' = [ch EXCEPT !.is_paused = @ \/ "ACTIVE" \in ch.stat,
                        !.stat = (@ \cup {"PAUSE"}) \ {"ACTIVE"}]
    /\ UNCHANGED <<prog, selVars, pc, ret, cmds_run>>

\* PAUSE = 0
ClearPause ==
    /\ pc = "idle"
    /\ LET c == [ch EXCEPT !.stat = @ \ {"PAUSE"}]
       IN  IF "ACTIVE" \notin c.stat /\ c.is_paused
           THEN Resume([c EXCEPT !.is_paused = FALSE, !.stat = @ \cup {"ACTIVE"}])
           ELSE ch' = c /\ UNCHANGED <<pc, ret, cmds_run>>
    /\ UNCHANGED <<prog, selVars>>

\* WAKE = 1
Wake ==
    /\ pc = "idle"
    /\ "ACTIVE" \notin ch.stat
    /\ WakePaused \/ "PAUSE" \notin ch.stat
    /\ Resume([ch EXCEPT !.stat = @ \cup {"ACTIVE"}])
    /\ UNCHANGED <<prog, selVars>>

\* CMD_PTR_LO, ignored while the channel is active. The guest points the
\* channel at a list it has written, though it leaves the list of a paused
\* command alone.
SetCmdPtr(p, a) ==
    /\ pc = "idle"
    /\ "ACTIVE" \notin ch.stat
    /\ ch.in_progress => p = prog /\ a < LastAddr
    /\ prog' = p
    /\ ch' = [ch EXCEPT !.cmd_ptr = a]
    /\ UNCHANGED <<selVars, pc, ret, cmds_run>>

\* INT_SELECT, BRANCH_SELECT, WAIT_SELECT
SetSelect(w, b, i) ==
    /\ pc = "idle"
    /\ wait_select' = w
    /\ branch_select' = b
    /\ int_select' = i
    /\ UNCHANGED <<prog, ch, pc, ret, cmds_run>>

-----------------------------------------------------------------------------
Run ==
    \/ \E n \in 0..MaxReq, ended \in BOOLEAN, s \in SUBSET SBits :
          Interpret(n, ended, s)
    \/ Blocked \/ Runaway \/ PassEnd \/ Deliver

Device ==
    \/ \E n \in 0..MaxReq, ended \in BOOLEAN, s \in SUBSET SBits :
          XferRetry(n, ended, s)
    \/ \E r \in {"pull", "push"} : Stream(r)
    \/ \E s \in SUBSET SBits : SetStat(s)
    \/ InterruptFires

Guest ==
    \/ Flush \/ ClearRun \/ SetPause \/ ClearPause \/ Wake
    \/ \E cp \in BOOLEAN : SetRun(cp)
    \/ \E p \in Programs, a \in Addr : SetCmdPtr(p, a)
    \/ \E w, b, i \in Selects : SetSelect(w, b, i)

Next == Run \/ Device \/ Guest

Spec == Init /\ [][Next]_vars

\* The interpreter loop is straight-line code of the CPU thread.
FairSpec == Spec /\ WF_vars(Run)

-----------------------------------------------------------------------------
(* Properties.                                                             *)

ChannelType ==
    [stat : SUBSET ({"RUN", "PAUSE", "ACTIVE", "DEAD"} \cup SBits),
     cmd_ptr : Addr, queue_len : 0..MaxReq, queue_data : 0..MaxReq,
     res_count : 0..MaxReq, in_progress : BOOLEAN, is_paused : BOOLEAN,
     again : BOOLEAN, xfer_ended : BOOLEAN, end_stat : SUBSET SBits,
     cur : Addr \cup {None}, cur_cmd : Op, xfer_dir : IoOp \cup {"UNDEF"},
     irq : BOOLEAN, moved : 0..MaxReq,
     written : [req : 0..MaxReq, moved : 0..MaxReq, res : 0..MaxReq],
     connected : Connected]

\* Types of the variables: among others, the command pointer stays in the
\* list and the residue never wraps below zero.
TypeOK ==
    /\ prog \in Programs
    /\ ch \in ChannelType
    /\ {wait_select, branch_select, int_select} \subseteq Selects
    /\ pc \in {"idle", "run", "passed", "deliver"}
    /\ ret \in {"none", "pull", "push"}
    /\ cmds_run \in 0..MAX_CMDS_PER_RUN

\* What the driver reads from a command's resCount, after it completed, after
\* the device ended it early (end_xfer(): "The unfilled remainder stays in
\* cmd.resCount") or after a flush, is the request less the bytes moved.
ResidueExact == ch.written.res = ch.written.req - ch.written.moved

\* The next byte of a transfer comes from the right place of the buffer,
\* however pulls, retries, pauses and restarts cut the transfer up.
BufferExact ==
    IsActive(ch) /\ ch.in_progress /\ ch.queue_len > 0 =>
        ch.queue_data + ch.queue_len = prog[ch.cur].req

\* Both: however a transfer is cut up, each byte is moved from or to its place
\* and the driver is told how many were.
TransferExact == TypeOK /\ ResidueExact /\ BufferExact

\* The interpreter leaves an active channel only at a transfer that is still
\* pending: a command that could run is never left waiting for a wakeup that
\* nobody sends.
NoLostWork ==
    pc = "idle" /\ IsActive(ch) =>
        ch.in_progress /\ (HasDevice => ch.queue_len > 0)

\* Data only moves on an active channel: never after the guest cleared RUN or
\* set PAUSE (pull_data(): "dead or idle channel? -> no more data").
IdleMovesNothing == [][ch'.moved > ch.moved => IsActive(ch)]_vars

\* interpret_until_blocked() returns: a list that branches back on itself is
\* cut off (dbdma.cpp: "Upper bound on commands executed in one uninterrupted
\* run of a channel"), and nested requests for another pass come to an end.
LoopEnds == pc # "idle" ~> pc = "idle"

=============================================================================
