-------------------------------- MODULE Mesh --------------------------------
(***************************************************************************)
(* The MESH host adapter (devices/common/scsi/mesh.cpp) and the sequencer  *)
(* it is built on (scsibusctrl.cpp), with the bus and the targets of       *)
(* ScsiBus, driven by a guest that follows the protocol: it issues one     *)
(* sequencer command at a time, chosen by the phase that the lines show,   *)
(* waits for the interrupt, and moves the bytes that the command needs     *)
(* through the FIFO or by DMA.                                             *)
(***************************************************************************)
EXTENDS ScsiBus

CONSTANTS
    Dest,           \* IDs that the guest tries to select
    Requests,       \* commands that it sends
    CdbLen,         \* bytes of a command, and of a synchronous transfer
    SdtrLen,        \* request (5 in the code)
    DATA_FIFO_DEPTH,
    XferMod,        \* 2^16 in the code: xfer_count wraps
    ShortData       \* the guest may ask for more than the target has

ASSUME MeshAssumption ==
    /\ Target \subseteq Dest /\ Dest \subseteq 0..(Host - 1)
    /\ Requests \subseteq Request
    /\ {CdbLen, SdtrLen} \subseteq 1..DATA_FIFO_DEPTH
    /\ XferMod \in Nat /\ MaxXfer <= XferMod
    /\ CdbLen < XferMod /\ SdtrLen < XferMod
    /\ ShortData \in BOOLEAN

VARIABLES
    scsi,   \* [bus, dev, hba]: the bus, the targets and the adapter
    drv     \* what the driver knows and does

vars == <<scsi, drv>>

Init ==
    /\ scsi = [bus |-> BusInit, dev |-> DevInit,
               hba |-> [cur_bus_phase |-> "BUS_FREE", cur_state |-> "BUS_FREE",
                        next_state |-> "IDLE", seq_timer |-> FALSE,
                        dst_id |-> 0, assert_atn |-> FALSE, is_dma_cmd |-> FALSE,
                        fifo_pos |-> 0, to_xfer |-> 0, xfer_count |-> 0,
                        int_stat |-> {}, exception |-> {},
                        \* history: bytes that the adapter counted, and that
                        \* the target moved, in this data command; bytes of
                        \* the target's command that are still to be moved
                        counted |-> 0, moved |-> 0, owed |-> 0]]
    /\ drv = [at |-> "free", cmd |-> "none", left |-> 0, msg |-> "ident"]

-----------------------------------------------------------------------------
(* The sequencer.                                                          *)

\* MeshController::step_completed(), report_error()
StepCompleted(s) == [s EXCEPT !.hba.int_stat = @ \cup {"CMD_DONE"}]

ReportError(s, e) == [s EXCEPT !.hba.exception = @ \cup {e},
                               !.hba.int_stat = @ \cup {"EXCEPTION", "CMD_DONE"}]

\* seq_defer_state()
Defer(s, state) == [s EXCEPT !.hba.next_state = state, !.hba.seq_timer = TRUE]

Enter(s, state) == [s EXCEPT !.hba.cur_state = state]

\* target_next_step()
TargetNextStep(s) == IF s.bus.target_id = -1 THEN s ELSE NextStep(s, s.bus.target_id)

XferEnd(s) == StepCompleted(TargetNextStep(Enter(s, "XFER_END")))

SelEnd(s) ==
    IF EndSelection(s, s.hba.dst_id)
    THEN StepCompleted(ReleaseLines(Enter(s, "SEL_END"), Host, {"SEL"}))
    ELSE ReportError(Enter(Disconnect(s, Host), "IDLE"), "SEL_TIMEOUT")

\* ScsiBusController::send_data(): the target takes n bytes out of the FIFO
TakeFifo(s, n) ==
    LET k == Least(s.hba.fifo_pos, n)
    IN  [s EXCEPT !.hba.fifo_pos = @ - k, !.hba.to_xfer = @ - k]

\* xfer_data() of the target in the MESSAGE_OUT phase: it takes one message
SendMsg(s, msg) ==
    LET t == s.bus.target_id
        x == TakeFifo(s, IF msg = "sdtr" THEN SdtrLen ELSE 1)
        y == IF msg = "sdtr"
             THEN [x EXCEPT !.dev[t].sdtr = <<"MESSAGE_OUT", "MESSAGE_IN", "COMMAND">>,
                            !.dev[t].data_size = SdtrLen]
             ELSE x
        z == ReleaseLines(y, Host, {"ATN"})
    IN  IF s.hba.fifo_pos = 0
        THEN s
        ELSE IF z.hba.to_xfer <= 0 THEN StepCompleted(TargetNextStep(z)) ELSE z

\* xfer_data() of the target in the COMMAND phase
SendCmd(s, req) ==
    LET x == TakeFifo(s, CdbLen)
        y == [ProcessCommand(x, s.bus.target_id, req) EXCEPT !.hba.owed = req.len]
    IN  IF y.hba.fifo_pos = 0 THEN StepCompleted(y) ELSE y

\* ScsiBus::pull_data(), ScsiBus::push_data()
Pull(s, n) ==
    IF n = 0 THEN s
    ELSE [s EXCEPT !.dev[s.hba.dst_id] = SendData(@, n),
                   !.hba.moved = @ + Supply(s.dev[s.hba.dst_id], n),
                   !.hba.owed  = IF s.dev[s.hba.dst_id].phase = "DATA_IN"
                                 THEN @ - Supply(s.dev[s.hba.dst_id], n) ELSE @]

Push(s, n) ==
    IF n = 0 THEN s
    ELSE [s EXCEPT !.dev[s.hba.dst_id] = RcvData(@, n),
                   !.hba.moved = @ + Accepted(s.dev[s.hba.dst_id], n),
                   !.hba.owed  = @ - Accepted(s.dev[s.hba.dst_id], n)]

Count(s, n) == [s EXCEPT !.hba.to_xfer = @ - n, !.hba.counted = @ + n]

\* ScsiBusController::rcv_data()
Fill(s) ==
    LET n == Least(s.hba.to_xfer, DATA_FIFO_DEPTH - s.hba.fifo_pos)
    IN  IF "REQ" \notin Lines(s)
        THEN s
        ELSE [Count(Pull(s, n), n) EXCEPT !.hba.fifo_pos = @ + n]

\* RCV_DATA; rcv_data() has failed when it has moved nothing
Receive(s) ==
    IF s.bus.phase # s.hba.cur_bus_phase
    THEN s
    ELSE IF "REQ" \notin Lines(s) \/ s.hba.to_xfer = 0
    THEN XferEnd(s)
    ELSE Fill(s)

\* SEND_DATA
Send(s) ==
    LET n == s.hba.fifo_pos
        x == [Count(Push(s, n), n) EXCEPT !.hba.fifo_pos = 0]
    IN  IF n > 0 /\ Accepted(s.dev[s.hba.dst_id], n) = 0
        THEN s
        ELSE IF x.hba.to_xfer <= 0 THEN XferEnd(x) ELSE x

\* RCV_STATUS, in the STATUS phase, and RCV_MESSAGE
RcvStatus(s) == Enter(StepCompleted(TargetNextStep(Fill(s))), "IDLE")

RcvMessage(s) ==
    LET x == IF s.hba.cur_bus_phase = "MESSAGE_IN" THEN AssertLines(s, Host, {"REQ"}) ELSE s
        y == ReleaseLines(Fill(x), Host, {"REQ"})
    IN  Enter(StepCompleted(AssertLines(y, Host, {"ACK"})), "IDLE")

\* xfer_from(), xfer_to(): the DMA channel moves up to n bytes
XferFrom(s, n) ==
    LET f == Least(s.hba.fifo_pos, n)
        k == Least(s.hba.to_xfer, n - f)
        x == [s EXCEPT !.hba.fifo_pos = @ - f]
        y == IF k > 0 /\ Supply(s.dev[s.hba.dst_id], k) > 0 THEN Count(Pull(x, k), k) ELSE x
        z == [y EXCEPT !.hba.xfer_count = y.hba.to_xfer]
    IN  IF ~s.hba.is_dma_cmd \/ s.hba.cur_state # "RCV_DATA" \/ n = 0
        THEN s
        ELSE IF z.hba.to_xfer = 0 /\ z.hba.fifo_pos = 0 THEN XferEnd(z) ELSE z

XferTo(s, n) ==
    LET k == Least(s.hba.to_xfer, n)
        y == Count(Push(s, k), k)
        z == [y EXCEPT !.hba.xfer_count = y.hba.to_xfer]
    IN  IF ~s.hba.is_dma_cmd \/ s.hba.cur_state # "SEND_DATA" \/ n = 0
              \/ k <= 0 \/ Accepted(s.dev[s.hba.dst_id], k) = 0
        THEN s
        ELSE IF z.hba.to_xfer = 0 THEN XferEnd(z) ELSE z

\* XFER_BEGIN; the channel may be waiting already, with room for n bytes
XferBegin(s, n) ==
    LET x == [s EXCEPT !.hba.cur_bus_phase = s.bus.phase]
    IN  CASE s.bus.phase = "DATA_OUT" -> XferTo(Enter(x, "SEND_DATA"), n)
          [] s.bus.phase = "DATA_IN"  -> XferFrom(Fill(Enter(x, "RCV_DATA")), n)
          [] OTHER                    -> Enter(x, "XFER_BEGIN")

\* sequencer(), as the FIFO calls it: when it is full or has been emptied. In
\* the other states the driver leaves the FIFO alone or nothing happens (IDLE).
FifoMoves(s, msg, req) ==
    CASE s.hba.cur_state = "SEND_MSG"  -> SendMsg(s, msg)
      [] s.hba.cur_state = "SEND_CMD"  -> SendCmd(s, req)
      [] s.hba.cur_state = "SEND_DATA" -> Send(s)
      [] s.hba.cur_state = "RCV_DATA"  -> Receive(s)
      [] s.hba.cur_state = "XFER_END"  -> XferEnd(s)
      [] OTHER                         -> s

-----------------------------------------------------------------------------
(* Timers. The settle delay is shorter than any delay of the sequencer,    *)
(* and a target starts it no later than the adapter starts its own, so it  *)
(* is the first to run out.                                                *)

\* the callback of seq_defer_state()
SeqTimerFires ==
    /\ scsi.hba.seq_timer
    /\ \A t \in Target : ~scsi.dev[t].settle
    /\ LET state == scsi.hba.next_state
           s == Enter([scsi EXCEPT !.hba.seq_timer = FALSE], state)
           won == EndArbitration(s)
       IN  scsi' =
             CASE state = "BUS_FREE"  ->
                    Defer(s, IF s.bus.phase = "BUS_FREE" THEN "ARB_BEGIN" ELSE "BUS_FREE")
               [] state = "ARB_BEGIN" ->
                    IF s.bus.phase = "BUS_FREE"
                    THEN Defer(BeginArbitration(s), "ARB_END")
                    ELSE Defer(ReleaseLines(s, Host, Line), "BUS_FREE")
               [] state = "ARB_END"   ->
                    IF won.bus.arb_winner_id = Host /\ "SEL" \notin Lines(won)
                    THEN StepCompleted(AssertLines(won, Host, {"SEL"}))
                    ELSE ReportError(ReleaseLines(won, Host, Line), "ARB_LOST")
               [] state = "SEL_END"   -> SelEnd(s)
    /\ UNCHANGED drv

\* the callback of bus_settle_timer. confirm_selection() makes the adapter end
\* the selection before the target goes on.
SettleTimerFires(t) ==
    /\ scsi.dev[t].settle
    /\ LET s == [scsi EXCEPT !.dev[t].settle = FALSE]
           c == Confirmed(s, t)
           h == IF s.bus.initiator_id # -1 /\ s.hba.dst_id = t
                THEN SelEnd([c EXCEPT !.hba.seq_timer = FALSE])
                ELSE c
       IN  scsi' = IF Answers(s) THEN FirstPhase(h, t) ELSE s
    /\ UNCHANGED drv

-----------------------------------------------------------------------------
(* Commands of the driver: stores to the Sequence register.                *)

\* perform_command(): every command starts like this. The driver writes n to
\* the transfer count first.
Command(n, dma) ==
    [scsi EXCEPT !.hba.int_stat = @ \ {"CMD_DONE"}, !.hba.is_dma_cmd = dma,
                 !.hba.xfer_count = n % XferMod,
                 !.hba.counted = 0, !.hba.moved = 0]

\* the driver has seen its last command to its end
Ready == drv.cmd = "none" /\ scsi.hba.fifo_pos = 0

\* the phase that the driver reads from BusStatus0
Shows(phase) ==
    /\ drv.at = "connected"
    /\ Lines(scsi) \cap {"IO", "CD", "MSG"} = PhaseLines(phase)

Issue(cmd, n) == drv' = [drv EXCEPT !.cmd = cmd, !.left = n]

Arbitrate ==
    /\ Ready /\ drv.at = "free" /\ "RST" \notin Lines(scsi)
    /\ LET s == Enter(ReleaseLines(Command(0, FALSE), Host, Line), "BUS_FREE")
       IN  scsi' = Defer(s, IF s.bus.phase = "BUS_FREE" THEN "ARB_BEGIN" ELSE "BUS_FREE")
    /\ Issue("Arbitrate", 0)

Select(d, atn) ==
    /\ Ready /\ drv.at = "won"
    /\ LET s == [Command(0, FALSE) EXCEPT !.hba.dst_id = d, !.hba.assert_atn = atn]
       IN  scsi' = Defer(BeginSelection(Enter(s, "SEL_BEGIN"), d, atn), "SEL_END")
    /\ Issue("Select", 0)

\* the FIFO is empty: the sequencer is left waiting for the bytes
MessageOut(msg) ==
    /\ Ready /\ Shows("MESSAGE_OUT")
    /\ LET n == IF msg = "sdtr" THEN SdtrLen ELSE 1
       IN  /\ scsi' = Enter([Command(n, FALSE) EXCEPT !.hba.to_xfer = n], "SEND_MSG")
           /\ drv' = [drv EXCEPT !.cmd = "MessageOut", !.left = n, !.msg = msg]

SendCommand ==
    /\ Ready /\ Shows("COMMAND")
    /\ scsi' = Enter(Command(CdbLen, FALSE), "SEND_CMD")
    /\ Issue("Command", CdbLen)

\* DataIn and DataOut; room is what a waiting DMA channel takes at once
DataIn(n, dma, room) ==
    /\ Ready /\ Shows("DATA_IN")
    /\ room > 0 => dma
    /\ LET d == scsi.dev[scsi.hba.dst_id]
       IN  n <= d.data_size + d.remain_size \/ ShortData
    /\ scsi' = XferBegin([Command(n, dma) EXCEPT !.hba.to_xfer = n], room)
    /\ Issue("DataIn", 0)

DataOut(n, dma, room) ==
    /\ Ready /\ Shows("DATA_OUT")
    /\ room > 0 => dma
    /\ LET d == scsi.dev[scsi.hba.dst_id]
       IN  n <= d.incoming_size - d.data_size + d.remain_size \/ ShortData
    /\ scsi' = XferBegin([Command(n, dma) EXCEPT !.hba.to_xfer = n], room)
    /\ Issue("DataOut", IF dma THEN 0 ELSE n)

Status ==
    /\ Ready /\ Shows("STATUS")
    /\ scsi' = RcvStatus(Enter([Command(1, FALSE) EXCEPT !.hba.to_xfer = 1], "RCV_STATUS"))
    /\ Issue("Status", 0)

\* the driver reads as many bytes as the message has
MessageIn ==
    /\ Ready /\ Shows("MESSAGE_IN")
    /\ "ACK" \notin Lines(scsi)
    /\ LET n == scsi.dev[scsi.hba.dst_id].data_size
       IN  scsi' = RcvMessage(Enter([Command(n, FALSE) EXCEPT !.hba.to_xfer = n],
                                    "RCV_MESSAGE"))
    /\ Issue("MessageIn", 0)

\* BusFree: the message is accepted; the driver expects a free bus
BusFree ==
    /\ Ready /\ Shows("MESSAGE_IN")
    /\ "ACK" \in Lines(scsi)
    /\ LET c == Command(0, FALSE)
           r == IF "ATN" \in Lines(c) THEN c ELSE ReleaseLines(c, Host, {"ACK"})
           s == IF "ATN" \in Lines(r) \/ r.bus.phase = "MESSAGE_IN"
                THEN TargetNextStep(r) ELSE r
       IN  scsi' = IF "BSY" \in Lines(s)
                   THEN [s EXCEPT !.hba.exception = @ \cup {"PHASE_MM"},
                                  !.hba.int_stat = @ \cup {"EXCEPTION"}]
                   ELSE StepCompleted(s)
    /\ Issue("BusFree", 0)

\* FlushFIFO
FlushFIFO ==
    /\ drv.cmd = "none" /\ scsi.hba.fifo_pos > 0
    /\ scsi' = [Command(0, FALSE) EXCEPT !.hba.fifo_pos = 0]
    /\ UNCHANGED drv

\* ResetMesh: reset() of the adapter, between two transactions
ResetMesh ==
    /\ Ready /\ drv.at = "free"
    /\ scsi' = StepCompleted(
                 [Command(0, FALSE) EXCEPT !.hba.fifo_pos = 0, !.hba.to_xfer = 0,
                                           !.hba.int_stat = {}, !.hba.exception = {},
                                           !.hba.cur_state = "BUS_FREE"])
    /\ UNCHANGED drv

\* update_bus_status(): RST of BusStatus1 is set and, later, cleared
SetRst ==
    /\ Ready /\ drv.at = "free"
    /\ "RST" \notin Lines(scsi)
    /\ scsi' = AssertLines(scsi, Host, {"RST"})
    /\ UNCHANGED drv

ClearRst ==
    /\ "RST" \in Lines(scsi)
    /\ scsi' = ReleaseLines(scsi, Host, {"RST"})
    /\ UNCHANGED drv

-----------------------------------------------------------------------------
(* What the driver does for a command, and at its end.                     *)

\* mutant: a full FIFO waits for one more byte
FifoPushLate(s, msg, req) ==
    LET x == [s EXCEPT !.hba.fifo_pos = @ + 1, !.hba.xfer_count = (@ - 1) % XferMod]
    IN  IF s.hba.fifo_pos = DATA_FIFO_DEPTH THEN FifoMoves(s, msg, req)
        ELSE IF x.hba.xfer_count = 0 THEN FifoMoves(x, msg, req)
        ELSE x

\* fifo_push()
FifoPush(s, msg, req) ==
    LET x == [s EXCEPT !.hba.fifo_pos = @ + 1, !.hba.xfer_count = (@ - 1) % XferMod]
    IN  IF s.hba.fifo_pos = DATA_FIFO_DEPTH THEN FifoMoves(s, msg, req)
        ELSE IF x.hba.xfer_count = 0 \/ x.hba.fifo_pos = DATA_FIFO_DEPTH
        THEN FifoMoves(x, msg, req)
        ELSE x

\* a byte is written to the FIFO while FIFOCount shows room
FifoWrite(req) ==
    /\ drv.left > 0
    /\ scsi.hba.fifo_pos < DATA_FIFO_DEPTH
    /\ scsi' = FifoPush(scsi, drv.msg, req)
    /\ drv' = [drv EXCEPT !.left = @ - 1]

\* fifo_pop()
FifoRead ==
    /\ scsi.hba.fifo_pos > 0
    /\ drv.left = 0 /\ ~scsi.hba.is_dma_cmd
    /\ LET s == [scsi EXCEPT !.hba.fifo_pos = @ - 1]
       IN  scsi' = IF s.hba.fifo_pos = 0
                   THEN FifoMoves(s, drv.msg, [op |-> "NONE", len |-> 0]) ELSE s
    /\ UNCHANGED drv

\* the DMA channel asks for or offers n bytes
Dma(n) ==
    /\ scsi.hba.cur_state \in {"RCV_DATA", "SEND_DATA"}
    /\ scsi.hba.is_dma_cmd
    /\ scsi' = IF scsi.hba.cur_state = "RCV_DATA" THEN XferFrom(scsi, n) ELSE XferTo(scsi, n)
    /\ UNCHANGED drv

\* the Interrupt register is read and cleared
Acknowledge ==
    /\ drv.cmd # "none"
    /\ scsi.hba.int_stat # {}
    /\ LET failed == "EXCEPTION" \in scsi.hba.int_stat
       IN  drv' = [drv EXCEPT !.cmd = "none",
                     !.at = CASE drv.cmd = "Arbitrate" -> IF failed THEN "free" ELSE "won"
                              [] drv.cmd = "Select"    -> IF failed THEN "free" ELSE "connected"
                              [] drv.cmd = "BusFree"   -> IF failed THEN "connected" ELSE "free"
                              [] OTHER                 -> @]
    /\ scsi' = [scsi EXCEPT !.hba.int_stat = {}, !.hba.exception = {}]

-----------------------------------------------------------------------------
Timers == SeqTimerFires \/ \E t \in Target : SettleTimerFires(t)

Service ==
    \/ \E req \in Requests : FifoWrite(req)
    \/ FifoRead \/ Acknowledge
    \/ \E n \in 1..MaxXfer : Dma(n)

Driver ==
    \/ Arbitrate \/ SendCommand \/ Status \/ MessageIn \/ BusFree \/ FlushFIFO
    \/ \E d \in Dest, atn \in BOOLEAN : Select(d, atn)
    \/ \E msg \in {"ident", "sdtr"} : MessageOut(msg)
    \/ \E n \in 1..MaxXfer, dma \in BOOLEAN, room \in 0..MaxXfer :
          DataIn(n, dma, room) \/ DataOut(n, dma, room)

Reset == ResetMesh \/ SetRst \/ ClearRst

Next == Timers \/ Service \/ Driver \/ Reset

Spec == Init /\ [][Next]_vars

\* Timers run out, and the driver keeps serving the command it has issued.
FairSpec == Spec /\ WF_vars(Timers) /\ WF_vars(Service)

-----------------------------------------------------------------------------
(* Properties.                                                             *)

\* Types of the variables: among others, the FIFO never holds more than it can.
\* The Command sequence counts its bytes down from what the last transfer left,
\* so to_xfer goes below zero until the next transfer sets it.
TypeOK ==
    /\ scsi.bus.phase \in Phase
    /\ scsi.bus.lines \in [Id -> SUBSET Line]
    /\ scsi.bus.target_id \in Target \cup {-1}
    /\ scsi.hba.fifo_pos \in 0..DATA_FIFO_DEPTH
    /\ scsi.hba.to_xfer \in (-CdbLen)..MaxXfer
    /\ scsi.hba.xfer_count \in 0..(XferMod - 1)
    /\ \A t \in Target :
          /\ scsi.dev[t].phase \in Phase
          /\ {scsi.dev[t].data_size, scsi.dev[t].incoming_size,
              scsi.dev[t].remain_size} \subseteq 0..MaxXfer
    /\ drv.at \in {"free", "won", "connected"}

\* When the adapter has reported a selection as done, the target that was
\* asked for, and no other, holds the bus.
SelectedIsConnected ==
    drv.at = "connected" /\ drv.cmd # "BusFree" =>
        /\ scsi.bus.target_id = scsi.hba.dst_id
        /\ {t \in Target : "BSY" \in scsi.bus.lines[t]} = {scsi.hba.dst_id}

\* When a selection has timed out, a command has been completed or the bus has
\* been reset, the bus is free: nobody drives a line, and no target takes
\* itself for connected (mesh test: "completed command releases bus").
FreeIsFree ==
    drv.at = "free" /\ drv.cmd = "none" /\ "RST" \notin Lines(scsi) =>
        /\ scsi.bus.phase = "BUS_FREE"
        /\ Lines(scsi) = {}
        /\ \A t \in Target : scsi.dev[t].phase = "BUS_FREE"

\* The bus keeps the phase twice, as a number that devices are notified of and
\* as lines that the driver reads: they agree whenever a target is connected,
\* and the target itself is in that phase.
PhaseShown ==
    scsi.bus.phase \in XferPhase =>
        /\ Lines(scsi) \cap {"IO", "CD", "MSG"} = PhaseLines(scsi.bus.phase)
        /\ scsi.dev[scsi.bus.target_id].phase = scsi.bus.phase

\* A target ends its data phase when every byte of the command has been moved,
\* and not before: however the transfer is cut into sequencer commands, into
\* fillings of the FIFO and DMA requests and into chunks of the block cache.
AllMoved == scsi.bus.phase = "STATUS" => scsi.hba.owed = 0

\* What the adapter counts as transferred is what the target has moved
\* (ScsiBus::pull_data(): "Returns the number of bytes the target actually
\* supplied").
DataExact == scsi.hba.counted = scsi.hba.moved

\* Every command is answered by an interrupt: selections of absent targets,
\* transfers in pieces, through a FIFO that fills up (mesh.md: "A full FIFO
\* must drain without requiring another write") or by DMA that starts late.
Answered == drv.cmd # "none" ~> drv.cmd = "none"
=============================================================================
