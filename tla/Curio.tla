------------------------------- MODULE Curio --------------------------------
(* The NCR 53C94 host adapter (sc53c94.cpp) on the bus of ScsiBus: command   *)
(* register, sequencer with its multistep selections, FIFO, DMA channel or   *)
(* handshake port. The driver issues one command at a time and waits for its *)
(* interrupt. Data is counted in words of the port.                          *)
EXTENDS ScsiBus

CONSTANTS Dest,         \* IDs the driver tries to select
          Requests,     \* commands it sends
          CdbLen,       \* words of a command block
          FifoMax       \* DATA_FIFO_MAX in words

VARIABLES ncr,          \* [bus, dev, hba]
          task          \* the driver; due: words left once its transfer is done

vars == <<ncr, task>>

Init ==
    /\ \E channel \in BOOLEAN :      \* machines with a DMA channel, and without
       ncr = [bus |-> BusInit, dev |-> DevInit,
              hba |-> [cur_bus_phase |-> "BUS_FREE", state |-> "IDLE", next |-> "IDLE",
                       timer |-> FALSE, target |-> 0, cmd |-> "NOP", steps |-> <<>>,
                       dma |-> FALSE, xfer |-> FALSE, count |-> 0, fifo |-> 0,
                       int |-> {}, tc |-> FALSE, dead |-> FALSE,
                       channel |-> channel, owed |-> 0]]
    /\ task = [at |-> "free", cmd |-> "none", left |-> 0, due |-> -1]

-----------------------------------------------------------------------------
(* Steps of the sequencer.                                                 *)

Step(phase, next) == [phase |-> phase, next |-> next]
Steps(cmd) ==
    CASE cmd = "SELECT_NO_ATN" -> <<Step("COMMAND", "SEND_CMD"), Step("none", "CMD_COMPLETE")>>
      [] cmd = "SELECT_WITH_ATN" ->
            <<Step("MESSAGE_OUT", "SEND_MSG"), Step("COMMAND", "SEND_CMD"),
              Step("none", "CMD_COMPLETE")>>
      [] cmd = "SELECT_WITH_ATN_AND_STOP" ->
            <<Step("MESSAGE_OUT", "SEND_MSG_EX"), Step("none", "CMD_COMPLETE")>>

Defer(s, next) == [s EXCEPT !.hba.next = next, !.hba.timer = TRUE]
Interrupt(s, bits) == [s EXCEPT !.hba.int = bits]

\* notify(BUS_PHASE_CHANGE): the first step that meets another phase than it
\* expects ends the command
Notify(s) ==
    LET phase == s.hba.cur_bus_phase
        f == IF phase = "BUS_FREE" THEN [Interrupt(s, {"DIS"}) EXCEPT !.hba.state = "IDLE"]
             ELSE s
    IN IF s.hba.steps = <<>> THEN f
       ELSE IF s.hba.steps[1].phase = phase
       THEN Defer([f EXCEPT !.hba.steps = Tail(@)], s.hba.steps[1].next)
       ELSE Interrupt(f, {"SR", "SO"})

\* target_next_step(); the adapter hears of the phase the target went to
TargetNextStep(s) ==
    LET t == s.bus.target_id
        n == IF t = -1 THEN s ELSE NextStep(s, t)
    IN IF n.bus.phase # s.bus.phase THEN Notify(n) ELSE n

CmdComplete(s) == [s EXCEPT !.hba.xfer = FALSE, !.hba.state = "IDLE"]

XferEnd(s) ==
    Interrupt([TargetNextStep([s EXCEPT !.hba.xfer = FALSE]) EXCEPT !.hba.state = "IDLE"],
              {"SR"})

SelEnd(s) ==
    IF EndSelection(s, s.hba.target) THEN ReleaseLines(s, Host, {"SEL"})
    ELSE Interrupt([Disconnect(s, Host) EXCEPT !.hba.state = "IDLE"], {"DIS"})

\* the target takes a message of the FIFO; sdtr asks for synchronous transfers
TakeMessage(s, sdtr) ==
    LET t == s.bus.target_id
        x == [s EXCEPT !.hba.fifo = @ - 1]
    IN IF sdtr THEN [x EXCEPT !.dev[t].sdtr = <<"MESSAGE_OUT", "MESSAGE_IN", "COMMAND">>,
                              !.dev[t].data_size = 1]
       ELSE x

SendMsg(s, sdtr) ==
    LET x == ReleaseLines(TakeMessage(s, sdtr), Host, {"ATN"})
    IN IF s.hba.steps # <<>> THEN TargetNextStep(x) ELSE x

SendMsgEx(s) == Notify([TakeMessage(s, FALSE) EXCEPT !.hba.cur_bus_phase = "MESSAGE_OUT"])

\* the target takes the command block and goes to its next phase
SendCmd(s, req) ==
    LET x == [s EXCEPT !.hba.fifo = 0]
        y == [ProcessCommand(x, s.bus.target_id, req) EXCEPT !.hba.owed = req.len]
    IN Notify(y)

\* ScsiBus::pull_data() and push_data()
Pull(s, n) ==
    IF n = 0 THEN s
    ELSE [s EXCEPT !.dev[s.hba.target] = SendData(@, n),
                   !.hba.owed = @ - Supply(s.dev[s.hba.target], n)]
Push(s, n) ==
    IF n = 0 THEN s
    ELSE [s EXCEPT !.dev[s.hba.target] = RcvData(@, n),
                   !.hba.owed = @ - Accepted(s.dev[s.hba.target], n)]

\* rcv_data(): a DMA command fills the FIFO as far as it counts, one without
\* DMA takes a word, or what the FIFO holds where there is no DMA channel
RcvData1(s) ==
    LET data == s.hba.cur_bus_phase = "DATA_IN"
        want == IF s.hba.dma /\ data THEN Least(s.hba.count, FifoMax - s.hba.fifo)
                ELSE IF ~s.hba.channel /\ data THEN FifoMax - s.hba.fifo ELSE 1
        got == IF data THEN Supply(s.dev[s.hba.target], want) ELSE 1
        x == IF data THEN Pull(s, want)
             ELSE [s EXCEPT !.dev[s.hba.target].data_size = IF @ > 0 THEN @ - 1 ELSE 0]
    IN IF "REQ" \notin Lines(s) THEN s
       ELSE [x EXCEPT !.hba.fifo = @ + got,
                      !.hba.tc = @ \/ (s.hba.dma /\ ~s.hba.channel /\ want >= s.hba.count)]

RcvMessage(s) ==
    LET x == AssertLines(RcvData1(s), Host, {"ACK"})
    IN IF s.hba.cmd = "COMPLETE_STEPS" THEN Interrupt(CmdComplete(x), {"SO"}) ELSE x

RcvStatus(s) ==
    LET n == TargetNextStep(RcvData1(s))
    IN IF n.hba.cur_bus_phase = "MESSAGE_IN" THEN RcvMessage(AssertLines(n, Host, {"REQ"})) ELSE n

SendData1(s) == [Push(s, s.hba.fifo) EXCEPT !.hba.fifo = 0]

\* xfer_from(), xfer_to(): the channel moves n words
XferFrom(s, n) ==
    LET len == Least(n, s.hba.count)
        f == Least(s.hba.fifo, len)
        x == [s EXCEPT !.hba.fifo = @ - f, !.hba.count = @ - f]
        y == IF x.hba.count = 0 \/ len = f \/ Supply(s.dev[s.hba.target], len - f) = 0 THEN x
             ELSE [Pull(x, len - f) EXCEPT !.hba.count = @ - (len - f)]
    IN IF y.hba.count = 0 THEN XferEnd([y EXCEPT !.hba.tc = TRUE]) ELSE y

XferTo(s, n) ==
    LET len == Least(n, s.hba.count)
        x == [Push(s, len) EXCEPT !.hba.count = @ - len]
    IN IF Accepted(s.dev[s.hba.target], len) = 0 THEN s
       ELSE IF x.hba.count = 0 THEN XferEnd([x EXCEPT !.hba.tc = TRUE]) ELSE x

XferBegin(s, sdtr, room) ==
    LET phase == s.bus.phase
        x == [s EXCEPT !.hba.xfer = s.hba.dma, !.hba.cur_bus_phase = phase,
                       !.hba.state = "XFER_BEGIN"]
    IN CASE phase = "DATA_OUT" /\ ~s.hba.dma -> XferEnd(SendData1(x))
         [] phase = "DATA_OUT" /\ s.hba.dma ->
                IF ~s.hba.channel THEN [x EXCEPT !.hba.state = "SEND_DATA"]
                ELSE IF room > 0 THEN XferTo(x, room) ELSE x
         [] phase = "DATA_IN" /\ s.hba.dma /\ s.hba.channel /\ room > 0 -> XferFrom(x, room)
         [] phase = "DATA_IN" /\ s.hba.dma /\ ~(s.hba.channel /\ room > 0) ->
                RcvData1([x EXCEPT !.hba.state = "RCV_DATA"])
         [] phase = "DATA_IN" /\ ~s.hba.dma -> XferEnd(RcvData1(x))
         [] phase = "MESSAGE_OUT" -> XferEnd(SendMsg(x, sdtr))
         [] phase = "MESSAGE_IN" -> XferEnd(RcvMessage(x))

-----------------------------------------------------------------------------
(* Timers.                                                                 *)

\* the callback of seq_defer_state(); BUS_FREE to SEL_END as in ScsiBus
SeqTimer(req) ==
    /\ ncr.hba.timer
    /\ \A t \in Target : ~ncr.dev[t].settle
    /\ LET state == ncr.hba.next
           s == [ncr EXCEPT !.hba.timer = FALSE, !.hba.state = state]
           won == EndArbitration(s)
       IN ncr' =
            CASE state = "BUS_FREE" ->
                    Defer(s, IF s.bus.phase = "BUS_FREE" THEN "ARB_BEGIN" ELSE "BUS_FREE")
              [] state = "ARB_BEGIN" ->
                    IF s.bus.phase = "BUS_FREE" THEN Defer(BeginArbitration(s), "ARB_END")
                    ELSE Defer(ReleaseLines(s, Host, Line), "BUS_FREE")
              [] state = "ARB_END" ->
                    IF won.bus.arb_winner_id = Host /\ "SEL" \notin Lines(won)
                    THEN Defer(won, "SEL_BEGIN")
                    ELSE Defer(ReleaseLines(won, Host, Line), "BUS_FREE")
              [] state = "SEL_BEGIN" ->
                    Defer(BeginSelection(s, s.hba.target, s.hba.cmd # "SELECT_NO_ATN"), "SEL_END")
              [] state = "SEL_END" -> SelEnd(s)
              [] state = "SEND_MSG" -> SendMsg(s, FALSE)
              [] state = "SEND_MSG_EX" -> SendMsgEx(s)
              [] state = "SEND_CMD" -> SendCmd(s, req)
    /\ UNCHANGED task

\* bus_settle_timer of a target; notify(CONFIRM_SEL) of the adapter
SettleTimer(t) ==
    /\ ncr.dev[t].settle
    /\ LET s == [ncr EXCEPT !.dev[t].settle = FALSE]
           c == Confirmed(s, t)
           h == IF s.hba.target = t THEN SelEnd([c EXCEPT !.hba.timer = FALSE]) ELSE c
       IN ncr' = IF Answers(s) THEN Notify(FirstPhase(h, t)) ELSE s
    /\ UNCHANGED task

-----------------------------------------------------------------------------
(* Commands of the driver.                                                 *)

\* update_command_reg(), exec_command()
Exec(cmd, dma, n) ==
    [ncr EXCEPT !.hba.cmd = cmd, !.hba.dma = dma, !.hba.steps = <<>>,
                !.hba.count = IF dma THEN n ELSE @, !.hba.tc = FALSE]
Free == task.cmd = "none" /\ ncr.hba.int = {} /\ ~ncr.hba.dead
Issue(cmd, n) == task' = [task EXCEPT !.cmd = cmd, !.left = n, !.due = -1]

\* the FIFO holds message and command block
Select(cmd, d) ==
    /\ Free /\ task.at = "free" /\ "RST" \notin Lines(ncr)
    /\ LET x == [Exec(cmd, FALSE, 0) EXCEPT !.hba.steps = Steps(cmd), !.hba.target = d,
                                             !.hba.state = "BUS_FREE",
                                             !.hba.fifo = IF cmd = "SELECT_NO_ATN" THEN CdbLen
                                                          ELSE IF cmd = "SELECT_WITH_ATN"
                                                          THEN CdbLen + 1 ELSE 1]
       IN ncr' = Defer(x, IF ncr.bus.phase = "BUS_FREE" THEN "ARB_BEGIN" ELSE "BUS_FREE")
    /\ Issue(cmd, 0)

Shows(phase) == Free /\ task.at = "connected" /\ ncr.bus.phase = phase

Xfer(n, dma, sdtr, room) ==
    /\ Shows("DATA_IN") \/ Shows("DATA_OUT") \/ Shows("MESSAGE_OUT") \/ Shows("MESSAGE_IN")
    /\ dma => ncr.bus.phase \in {"DATA_IN", "DATA_OUT"}
    /\ ~dma => n = 1 /\ room = 0
    /\ room > 0 => ncr.hba.channel
    /\ sdtr => ncr.bus.phase = "MESSAGE_OUT"
    /\ ncr.bus.phase = "MESSAGE_IN" => "ACK" \notin Lines(ncr)
    /\ dma => n <= ncr.hba.owed
    /\ ncr' = XferBegin([Exec("XFER", dma, n) EXCEPT
                           !.hba.fifo = IF ~dma /\ ncr.bus.phase \in {"DATA_OUT", "MESSAGE_OUT"}
                                        THEN 1 ELSE 0], sdtr, room)
    /\ task' = [task EXCEPT !.cmd = "XFER", !.left = IF dma /\ ~ncr.hba.channel THEN n ELSE 0,
                            !.due = IF dma THEN ncr.hba.owed - n ELSE -1]

CompleteSteps ==
    /\ Shows("STATUS")
    /\ ncr' = RcvStatus(Exec("COMPLETE_STEPS", FALSE, 0))
    /\ Issue("COMPLETE_STEPS", 0)

\* the DIS interrupt of the bus going free answers the last message
MsgAccepted ==
    /\ Shows("MESSAGE_IN") /\ "ACK" \in Lines(ncr)
    /\ LET x == Exec("MSG_ACCEPTED", FALSE, 0)
           y == IF "ATN" \in Lines(x) THEN x ELSE ReleaseLines(x, Host, {"ACK"})
       IN ncr' = TargetNextStep(y)
    /\ Issue("MSG_ACCEPTED", 0)

\* XFER_PAD_BYTES in the COMMAND phase: a command of zeros
PadBytes ==
    /\ Shows("COMMAND")
    /\ LET x == SendCmd([Exec("XFER_PAD_BYTES", FALSE, 0) EXCEPT !.hba.state = "SEND_CMD"],
                        [op |-> "NONE", len |-> 0])
       IN ncr' = [x EXCEPT !.hba.int = @ \cup {"SR"}]
    /\ Issue("XFER_PAD_BYTES", 0)

ResetDevice ==
    /\ Free /\ task.at = "free"
    /\ ncr' = [ncr EXCEPT !.hba.fifo = 0, !.hba.count = 0, !.hba.int = {}, !.hba.dead = TRUE,
                          !.hba.tc = FALSE]
    /\ UNCHANGED task

\* NOP and CLEAR_FIFO unblock the command register
Nop(clear) ==
    /\ ncr.hba.dead
    /\ ncr' = [ncr EXCEPT !.hba.dead = FALSE, !.hba.fifo = IF clear THEN 0 ELSE @]
    /\ UNCHANGED task

ResetBus ==
    /\ Free /\ task.at = "free" /\ "RST" \notin Lines(ncr)
    /\ ncr' = Interrupt(AssertLines(ncr, Host, {"RST"}), {"SRST"})
    /\ Issue("RESET_BUS", 0)

\* my_timer, 25 us later
ReleaseRst ==
    /\ "RST" \in Lines(ncr)
    /\ ncr' = ReleaseLines(ncr, Host, {"RST"})
    /\ UNCHANGED task

-----------------------------------------------------------------------------
(* Data and interrupts.                                                    *)

\* pseudo_dma_read(): a word out of the FIFO, which is filled again
PortRead ==
    /\ task.cmd = "XFER" /\ task.left > 0 /\ ncr.hba.state = "RCV_DATA" /\ ncr.hba.fifo > 0
    /\ LET x == [ncr EXCEPT !.hba.fifo = @ - 1, !.hba.count = @ - 1]
       IN ncr' = IF x.hba.count = 0 THEN XferEnd([x EXCEPT !.hba.tc = TRUE])
                 ELSE IF x.hba.fifo = 0 THEN RcvData1(x) ELSE x
    /\ task' = [task EXCEPT !.left = @ - 1]

\* mutant: a full FIFO is not sent on
PortWriteFull(s) ==
    LET x == [s EXCEPT !.hba.fifo = IF @ < FifoMax THEN @ + 1 ELSE @, !.hba.count = @ - 1]
    IN IF x.hba.count = 0 THEN XferEnd(SendData1([x EXCEPT !.hba.tc = TRUE])) ELSE x

\* pseudo_dma_write()
PortWriteWord(s) ==
    LET x == [s EXCEPT !.hba.fifo = IF @ < FifoMax THEN @ + 1 ELSE @, !.hba.count = @ - 1]
    IN IF x.hba.count = 0 THEN XferEnd(SendData1([x EXCEPT !.hba.tc = TRUE]))
       ELSE IF x.hba.fifo = FifoMax THEN SendData1(x) ELSE x

PortWrite ==
    /\ task.cmd = "XFER" /\ task.left > 0 /\ ncr.hba.state = "SEND_DATA"
    /\ ncr' = PortWriteWord(ncr)
    /\ task' = [task EXCEPT !.left = @ - 1]

\* the DMA channel comes later
Dma(n) ==
    /\ ncr.hba.channel /\ ncr.hba.cmd = "XFER" /\ ncr.hba.xfer /\ ncr.hba.count > 0
    /\ ncr' = CASE ncr.hba.cur_bus_phase = "DATA_IN" -> XferFrom(ncr, n)
                [] ncr.hba.cur_bus_phase = "DATA_OUT" -> XferTo(ncr, n)
    /\ UNCHANGED task

\* Int_Status is read
ReadIntStatus ==
    /\ ncr.hba.int # {}
    /\ ncr' = [ncr EXCEPT !.hba.int = {}, !.hba.fifo = 0]
    /\ task' = [task EXCEPT !.cmd = "none",
                            !.at = IF ncr.hba.int \cap {"DIS", "SRST"} # {} THEN "free"
                                   ELSE "connected"]

\* a message accepted without the bus going free needs no interrupt
Accepted1 ==
    /\ task.cmd = "MSG_ACCEPTED" /\ ncr.bus.phase # "BUS_FREE" /\ ncr.hba.int = {}
    /\ task' = [task EXCEPT !.cmd = "none"]
    /\ UNCHANGED ncr

Serve ==
    \/ PortRead \/ PortWrite \/ ReadIntStatus \/ Accepted1
    \/ \E n \in 1..MaxXfer : Dma(n)
Timers == (\E req \in Requests : SeqTimer(req)) \/ \E t \in Target : SettleTimer(t)
Drive ==
    \/ \E c \in {"SELECT_NO_ATN", "SELECT_WITH_ATN", "SELECT_WITH_ATN_AND_STOP"}, d \in Dest :
          Select(c, d)
    \/ \E n \in 1..MaxXfer, dma, sdtr \in BOOLEAN, room \in 0..MaxXfer : Xfer(n, dma, sdtr, room)
    \/ CompleteSteps \/ MsgAccepted \/ PadBytes \/ ResetDevice \/ ResetBus \/ ReleaseRst
    \/ \E clear \in BOOLEAN : Nop(clear)

Next == Serve \/ Timers \/ Drive

Spec == Init /\ [][Next]_vars
Progress == WF_vars(Serve) /\ WF_vars(Timers)

-----------------------------------------------------------------------------
(* Properties.                                                             *)

\* The FIFO stays within its size; a transfer that is reported as done has
\* moved the words it was given, and a target ends its data phase when every
\* word of the command has been moved, whichever of port, FIFO and channel
\* moved it and in however many transfers.
DataMoved ==
    /\ ncr.hba.fifo \in 0..FifoMax /\ ncr.hba.count \in 0..MaxXfer
    /\ ncr.hba.int # {} /\ task.cmd = "XFER" /\ task.due >= 0 => ncr.hba.owed = task.due
    /\ ncr.bus.phase = "STATUS" => ncr.hba.owed = 0

\* A driver that was told its selection succeeded holds the bus with the
\* target it asked for; one that was told of a disconnection finds it free.
BusAgrees ==
    task.cmd = "none" /\ ncr.hba.int = {} /\ "RST" \notin Lines(ncr) =>
        /\ task.at = "connected" =>
              {t \in Target : "BSY" \in ncr.bus.lines[t]} = {ncr.hba.target}
        /\ task.at = "free" =>
              /\ ncr.bus.phase = "BUS_FREE"
              /\ \A t \in Target : ncr.dev[t].phase = "BUS_FREE" /\ ncr.bus.lines[t] = {}

\* Every command is answered.
Answered == task.cmd # "none" ~> task.cmd = "none"
=============================================================================
