------------------------------ MODULE ScsiBus ------------------------------
(***************************************************************************)
(* The parallel SCSI bus (devices/common/scsi/scsibus.cpp) and the targets *)
(* on it (scsiphysdevice.cpp, with the block storage behind a disk). All   *)
(* of it is passive: register accesses of the guest and timer callbacks    *)
(* call down into it, and it calls back the host adapter. Its methods are  *)
(* operators on a record s of the bus, the targets and the adapter; a      *)
(* module of the adapter holds that record in a variable.                  *)
(*                                                                         *)
(*   s.bus  the fields of ScsiBus                                          *)
(*   s.dev  the fields of the targets; data is counted, not kept           *)
(*   s.hba  the adapter, of which only cur_bus_phase is known here         *)
(***************************************************************************)
EXTENDS Integers, Sequences, FiniteSetsExt

CONSTANTS
    Target,     \* IDs of the targets
    Chunk,      \* capacity of the block cache of a disk
    MaxXfer     \* largest transfer of a command

Host == 7       \* ID of the adapter

ASSUME ScsiBusAssumption ==
    /\ Target \subseteq 0..(Host - 1)
    /\ {Chunk, MaxXfer} \subseteq Nat \ {0}

Id == Target \cup {Host}

Least(a, b) == IF a < b THEN a ELSE b

Line == {"IO", "CD", "MSG", "ATN", "ACK", "REQ", "SEL", "BSY", "RST"}

\* the lines by which a target announces the phase
PhaseLines(phase) ==
    CASE phase = "COMMAND"     -> {"CD"}
      [] phase = "DATA_IN"     -> {"IO"}
      [] phase = "STATUS"      -> {"CD", "IO"}
      [] phase = "MESSAGE_OUT" -> {"CD", "MSG"}
      [] phase = "MESSAGE_IN"  -> {"CD", "MSG", "IO"}
      [] OTHER                 -> {}

XferPhase == {"COMMAND", "DATA_IN", "DATA_OUT", "STATUS", "MESSAGE_OUT", "MESSAGE_IN"}
Phase == XferPhase \cup {"BUS_FREE", "ARBITRATION", "SELECTION", "RESET"}

BusInit == [phase |-> "BUS_FREE", lines |-> [i \in Id |-> {}], ctrl_lines |-> {},
            data_lines |-> {}, arb_winner_id |-> -1, initiator_id |-> -1,
            target_id |-> -1]

\* sdtr: steps of sdtr_response_seq that are still to come
DevInit == [t \in Target |->
               [phase |-> "BUS_FREE", settle |-> FALSE, sdtr |-> <<>>,
                data_size |-> 0, incoming_size |-> 0, xfer_len |-> 0,
                remain_size |-> 0]]

-----------------------------------------------------------------------------
(* Control lines and phases of the bus.                                    *)

\* test_ctrl_lines()
Lines(s) == UNION {s.bus.lines[i] : i \in Id}

\* change_bus_phase() and what its listeners do: a target that is being
\* selected starts bus_settle_timer, the adapter notes the phase
ChangeBusPhase(s, id) ==
    LET selected(t) == t # id /\ s.bus.phase = "SELECTION" /\ t \in s.bus.data_lines
    IN  [s EXCEPT
            !.dev = [t \in Target |-> [@[t] EXCEPT !.settle = @ \/ selected(t)]],
            !.hba.cur_bus_phase = IF id = Host THEN @ ELSE s.bus.phase]

\* assert_ctrl_line(): only RST reaches ctrl_lines at once
AssertLines(s, id, mask) ==
    LET a == [s EXCEPT !.bus.lines[id] = @ \cup mask]
    IN  IF "RST" \in mask /\ mask # s.bus.ctrl_lines
        THEN ChangeBusPhase([a EXCEPT !.bus.ctrl_lines = @ \cup {"RST"},
                                      !.bus.phase = "RESET"], id)
        ELSE a

\* release_ctrl_line()
ReleaseLines(s, id, mask) ==
    LET r == [s EXCEPT !.bus.lines[id] = @ \ mask]
    IN  IF "RST" \notin s.bus.ctrl_lines
        THEN [r EXCEPT !.bus.ctrl_lines = Lines(r)]
        ELSE IF "RST" \in Lines(r)
        THEN r
        ELSE ChangeBusPhase([r EXCEPT !.bus.ctrl_lines = Lines(r),
                                      !.bus.phase = "BUS_FREE"], id)

\* ScsiBus::switch_phase()
SwitchBus(s, id, phase) ==
    LET old == PhaseLines(s.bus.phase)
        r == IF old = {} THEN s ELSE ReleaseLines(s, id, old)
        a == IF PhaseLines(phase) = {} THEN r ELSE AssertLines(r, id, PhaseLines(phase))
    IN  ChangeBusPhase([a EXCEPT !.bus.phase = phase], id)

\* begin_arbitration() on a free bus
BeginArbitration(s) ==
    ChangeBusPhase([s EXCEPT !.bus.data_lines = @ \cup {Host},
                             !.bus.phase = "ARBITRATION"], Host)

\* end_arbitration(): the highest ID wins
EndArbitration(s) == [s EXCEPT !.bus.arb_winner_id = Max(s.bus.data_lines)]

\* begin_selection(), which does nothing unless the arbitration was won
BeginSelection(s, target, atn) ==
    IF s.bus.phase # "ARBITRATION" \/ s.bus.arb_winner_id # Host
    THEN s
    ELSE LET a == AssertLines(s, Host, {"SEL"})
             b == IF atn THEN AssertLines(a, Host, {"ATN"}) ELSE a
         IN  ChangeBusPhase([b EXCEPT !.bus.data_lines = {Host, target},
                                      !.bus.initiator_id = Host,
                                      !.bus.phase = "SELECTION"], Host)

\* mutant: any target will do
EndSelectionAny(s, target) == s.bus.target_id # -1

\* end_selection()
EndSelection(s, target) == s.bus.target_id = target

\* disconnect()
Disconnect(s, id) ==
    LET r == ReleaseLines(s, id, Line)
    IN  IF {"BSY", "SEL"} \cap r.bus.ctrl_lines = {}
        THEN ChangeBusPhase([r EXCEPT !.bus.phase = "BUS_FREE"], id)
        ELSE r

-----------------------------------------------------------------------------
(* Targets.                                                                *)

\* ScsiPhysDevice::switch_phase(), prepare_xfer()
SwitchPhase(s, t, phase) ==
    LET b == SwitchBus(s, t, phase)
    IN  [b EXCEPT !.dev[t] =
            [@ EXCEPT !.phase = phase,
                      !.data_size = CASE phase \in {"COMMAND", "DATA_OUT"} -> 0
                                      [] phase = "STATUS"  -> 1
                                      [] phase = "DATA_IN" -> s.dev[t].xfer_len
                                      [] OTHER             -> @,
                      !.incoming_size = IF phase = "DATA_OUT"
                                        THEN s.dev[t].xfer_len ELSE @]]

\* the callback of bus_settle_timer; Confirm is what confirm_selection() makes
\* the adapter do
Answers(s) == {"BSY", "IO"} \cap Lines(s) = {}

Confirmed(s, t) == AssertLines([s EXCEPT !.bus.target_id = t], t, {"BSY"})

FirstPhase(s, t) ==
    SwitchPhase([s EXCEPT !.dev[t].sdtr = <<>>], t,
                IF "ATN" \in Lines(s) THEN "MESSAGE_OUT" ELSE "COMMAND")

\* what a command may ask for: to read or to write blocks, a reply or a list
\* of parameters in the data buffer, or nothing
Request == [op : {"READ", "WRITE", "REPLY", "PARAMS"}, len : 1..MaxXfer]
              \cup [op : {"NONE"}, len : {0}]

\* process_command(); read_begin() and write_begin() of the block storage
ProcessCommand(s, t, req) ==
    LET first == Least(req.len, Chunk)
        n == [s EXCEPT !.dev[t].sdtr = <<>>]
        x == [n EXCEPT !.dev[t].xfer_len = first,
                       !.dev[t].remain_size = req.len - first]
        y == [n EXCEPT !.dev[t].xfer_len = req.len]
        done == CASE req.op = "READ"   -> SwitchPhase(x, t, "DATA_IN")
                  [] req.op = "WRITE"  -> SwitchPhase(x, t, "DATA_OUT")
                  [] req.op = "REPLY"  -> SwitchPhase(y, t, "DATA_IN")
                  [] req.op = "PARAMS" -> SwitchPhase(y, t, "DATA_OUT")
                  [] req.op = "NONE"   -> SwitchPhase(n, t, "STATUS")
    IN  AssertLines(done, t, {"REQ"})

\* allow_phase_change(); the adapters never assert ACK and ATN together
AllowPhaseChange(s, t) == s.dev[t].data_size = 0 /\ "ACK" \notin Lines(s)

\* next_step() where the target gives up the bus
GoFree(s, t) ==
    SwitchPhase([ReleaseLines(s, t, Line) EXCEPT !.dev[t].sdtr = <<>>], t, "BUS_FREE")

\* next_step() but for the COMMAND phase, which ends in ProcessCommand
NextStep(s, t) ==
    LET d == s.dev[t]
        seq == d.sdtr # <<>> /\ d.phase = d.sdtr[1]
        more == seq /\ Len(d.sdtr) > 1
        n == IF seq THEN [s EXCEPT !.dev[t].sdtr = Tail(@)] ELSE s
    IN  IF s.bus.phase = "MESSAGE_IN" /\ ~AllowPhaseChange(s, t)
        THEN s
        ELSE IF more
        THEN SwitchPhase(n, t, d.sdtr[2])
        ELSE CASE d.phase = "DATA_OUT" ->
                    IF d.data_size >= d.incoming_size THEN SwitchPhase(n, t, "STATUS") ELSE n
               [] d.phase = "DATA_IN" ->
                    IF d.data_size = 0 THEN SwitchPhase(n, t, "STATUS") ELSE n
               [] d.phase = "STATUS" ->
                    SwitchPhase([ReleaseLines(n, t, {"REQ"}) EXCEPT !.dev[t].data_size = 1],
                                t, "MESSAGE_IN")
               [] d.phase = "MESSAGE_OUT" -> SwitchPhase(n, t, "COMMAND")
               [] d.phase \in {"MESSAGE_IN", "BUS_FREE"} -> GoFree(n, t)
               [] OTHER -> n

\* send_data(): a disk goes on with its next chunk of blocks by itself
Supply(d, count) == Least(count, d.data_size + d.remain_size)

SendData(d, count) ==
    LET n == Supply(d, count)
        c == n - d.data_size
        loaded == Least(d.remain_size, (c \div Chunk + 1) * Chunk)
    IN  IF c < 0
        THEN [d EXCEPT !.data_size = @ - n]
        ELSE [d EXCEPT !.data_size = loaded - c, !.remain_size = @ - loaded]

\* rcv_data() in the DATA_OUT phase
Accepted(d, count) == Least(count, d.incoming_size - d.data_size + d.remain_size)

RcvData(d, count) ==
    LET n == Accepted(d, count)
        c == n - (d.incoming_size - d.data_size)
        start == (c \div Chunk) * Chunk
        loaded == Least(d.remain_size, start + Chunk)
    IN  IF c < 0
        THEN [d EXCEPT !.data_size = @ + n]
        ELSE IF c = d.remain_size
        THEN [d EXCEPT !.data_size = d.incoming_size, !.remain_size = 0]
        ELSE [d EXCEPT !.data_size = c - start, !.incoming_size = loaded - start,
                       !.remain_size = @ - loaded]

=============================================================================
