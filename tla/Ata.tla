-------------------------------- MODULE Ata ---------------------------------
(* An IDE channel with hard disks (devices/common/ata: atabasedevice.cpp,    *)
(* atahd.cpp, idechannel.cpp): task file, PIO and DMA transfers, the timers *)
(* behind INTRQ, selection, soft reset. A sector is one unit of data. The   *)
(* host is interrupt driven: it moves a block or ends a command only when   *)
(* the drive's interrupt for it has come, but it may select the other       *)
(* drive, mask interrupts or reset the channel at any time.                 *)
(* The module goes on with an ATAPI CD-ROM, and the CMD646's interrupts.    *)
EXTENDS Integers, FiniteSets

CONSTANTS Dev,      \* device numbers on the channel, 0 among them
          Counts,   \* sectors of a transfer
          Multiple  \* block sizes of SET_MULTIPLE_MODE

VARIABLES dev,      \* per device: task file, transfer and timers
          chan,     \* selected device, SRST, the interrupt line
          job       \* history: the command under way

vars == <<dev, chan, job>>

Timers == {"intrq", "rdata", "wdone", "wmore", "pull", "push", "dmareq"}
Read == {"READ_SECTOR", "READ_MULTIPLE", "IDENTIFY_DEVICE"}
Write == {"WRITE_SECTOR", "WRITE_MULTIPLE", "WRITE_BUFFER"}
Single == {"IDENTIFY_DEVICE", "WRITE_BUFFER"}         \* one block, INTRQ first
Dma == {"READ_DMA", "WRITE_DMA"}
Immediate == {"SEEK", "FLUSH_CACHE", "SET_FEATURES"}  \* done at once, INTRQ
Silent == {"CHECK_POWER_MODE", "UNKNOWN"}             \* done at once, no INTRQ
Cmd == Read \cup Write \cup Dma \cup Immediate \cup Silent
         \cup {"NOP", "SET_MULTIPLE", "DIAGNOSTICS"}

NewDevice ==
    [status |-> {"DRDY", "DSC"}, ien |-> FALSE, sel |-> 0, xfer |-> 0,
     chunk |-> 0, size |-> 0, dma |-> FALSE, out |-> FALSE, mult |-> 0,
     timers |-> [t \in Timers |-> 0]]
NoJob == [cmd |-> "none", on |-> 0, n |-> 0, moved |-> 0, ints |-> 0,
          seen |-> 0, refused |-> FALSE, lost |-> FALSE]

Init ==
    /\ dev = [d \in Dev |-> NewDevice]
    /\ chan = [cur |-> 0, srst |-> FALSE, line |-> FALSE]
    /\ job = NoJob

Min(a, b) == IF a < b THEN a ELSE b

-----------------------------------------------------------------------------
(* INTRQ.                                                                  *)

IsSelected(d) == dev[d].sel = d
Masked(d) == ~IsSelected(d) \/ ~dev[d].ien
Add(r, t) == [r EXCEPT !.timers[t] = @ + 1]
Off(r, fs) == [r EXCEPT !.status = @ \ fs]
On(r, fs) == [r EXCEPT !.status = @ \cup fs]

\* update_intrq(1) inside perform_command(): INTRQ follows 100 us later
IntrqInCommand(d, r) ==
    IF Masked(d) \/ r.timers["intrq"] > 0 THEN r ELSE Add(r, "intrq")

\* update_intrq(1) from a timer: dropped when masked
Interrupts(d) ==
    IF Masked(d) THEN /\ chan' = chan
                      /\ job' = [job EXCEPT !.lost = @ \/ job.on = d]
    ELSE /\ chan' = [chan EXCEPT !.line = TRUE]
         /\ job' = IF job.on = d /\ job.cmd # "none"
                   THEN [job EXCEPT !.ints = @ + 1] ELSE job

-----------------------------------------------------------------------------
(* Commands: AtaHardDisk::perform_command().                               *)

PrepareXfer(r, n, size) ==
    [r EXCEPT !.xfer = n, !.chunk = Min(n, size), !.size = size]

Abort(r) == Off(On(r, {"ERR"}), {"BSY"})
BlockSize(d, c) ==
    IF c \in {"READ_MULTIPLE", "WRITE_MULTIPLE"} THEN dev[d].mult ELSE 1

Refused(d, c) == c \in Read \cup Write /\ BlockSize(d, c) = 0
Sectors(c, n) == IF c \in Single THEN 1 ELSE n

PerformCommand(d, c, n) ==
    LET r == On([dev[d] EXCEPT !.out = c \in Write], {"BSY"})
    IN CASE Refused(d, c) -> IntrqInCommand(d, Abort(r))
         [] c \in Read \cup Single /\ BlockSize(d, c) > 0 ->
                IntrqInCommand(d, Off(On(PrepareXfer(r, Sectors(c, n), BlockSize(d, c)), {"DRQ"}), {"BSY"}))
         [] c \in Write \ Single /\ BlockSize(d, c) > 0 ->
                Off(On(PrepareXfer(r, n, BlockSize(d, c)), {"DRQ"}), {"BSY"})
         [] c \in Dma ->
                Add([Off(PrepareXfer(r, n, n), {"BSY", "DRQ", "ERR"})
                       EXCEPT !.dma = TRUE, !.out = c = "WRITE_DMA"], "dmareq")
         [] c = "SEEK" -> IntrqInCommand(d, Off(r, {"BSY"}))
         [] c = "FLUSH_CACHE" -> IntrqInCommand(d, Off(r, {"BSY", "DRQ", "ERR"}))
         [] c = "SET_FEATURES" ->   \* an unsupported mode is refused
                IntrqInCommand(d, IF n \in Multiple THEN Abort(r) ELSE Off(r, {"BSY"}))
         [] c = "SET_MULTIPLE" ->
                IntrqInCommand(d, IF n \in Multiple
                                  THEN [Off(r, {"BSY"}) EXCEPT !.mult = n]
                                  ELSE Abort(r))
         [] c = "DIAGNOSTICS" ->
                IntrqInCommand(d, [r EXCEPT !.status = {"DRDY", "DSC"}, !.sel = 0])
         [] c = "CHECK_POWER_MODE" -> Off(r, {"BSY"})
         [] c = "UNKNOWN" -> Abort(r)
         [] c = "NOP" -> r

\* AtaBaseDevice::write(COMMAND): both devices see it, the selected one runs
\* it, and a busy one refuses
Idle(d) == dev[d].status \cap {"BSY", "DRQ"} = {}
Blocks(n, size) == (n + size - 1) \div size
Due == IF job.cmd \in Read \cup Write /\ ~job.refused
       THEN Blocks(job.n, dev[job.on].size) + (IF job.cmd = "WRITE_BUFFER" THEN 1 ELSE 0)
       ELSE 1
Finished == job.cmd = "none" \/ job.lost \/ job.cmd \in Silent \/ job.seen = Due
Command(c, n) ==
    /\ ~chan.srst /\ Finished /\ chan.cur \in Dev
    /\ Idle(chan.cur)
    \* a host that lost track waits longer than any timer of the drive
    /\ job.lost => \A d \in Dev, t \in Timers : dev[d].timers[t] = 0
    /\ dev' = [d \in Dev |->
                 IF "BSY" \notin dev[d].status /\ (IsSelected(d) \/ c = "DIAGNOSTICS")
                 THEN PerformCommand(d, c, n) ELSE dev[d]]
    /\ job' = [NoJob EXCEPT !.cmd = c, !.on = chan.cur, !.n = Sectors(c, n),
                            !.refused = Refused(chan.cur, c),
                            !.lost = Masked(chan.cur)]
    /\ UNCHANGED chan

-----------------------------------------------------------------------------
(* Data register and DMA.                                                  *)

\* the host has seen the interrupt for the block at hand: reads wait for one
\* for every block, writes for one for every block but the first
Expected(r) ==
    LET done == Blocks(job.n, r.size) - Blocks(r.xfer, r.size)
    IN IF r.out /\ job.cmd \notin Single THEN done ELSE done + 1
Ready(r) == \/ job.lost /\ \A t \in Timers : r.timers[t] = 0
            \/ r.chunk < Min(r.xfer, r.size)
            \/ ~job.lost /\ job.seen >= Expected(r)

Step(r) == [r EXCEPT !.chunk = @ - 1]
NextBlock(r) == [r EXCEPT !.xfer = @ - r.size, !.chunk = Min(r.xfer - r.size, r.size)]
Last(r) == [Off(r, {"DRQ"}) EXCEPT !.xfer = 0, !.chunk = 0]

\* mutant: the last, shorter block counts as more to come
ReadDataOver(d) ==
    LET r == dev[d] IN
    IF r.chunk > 1 THEN Step(r)
    ELSE IF r.xfer < r.size THEN Last(r)
    ELSE IF r.timers["rdata"] > 0 THEN NextBlock(r) ELSE Add(NextBlock(r), "rdata")

ReadData(d) ==
    LET r == dev[d] IN
    IF r.chunk > 1 THEN Step(r)
    ELSE IF r.xfer <= r.size THEN Last(r)
    ELSE IF r.timers["rdata"] > 0 THEN NextBlock(r) ELSE Add(NextBlock(r), "rdata")

WriteData(d) ==
    LET r == dev[d] IN
    IF r.chunk > 1 THEN Step(r)
    ELSE IF r.xfer <= r.size THEN Add(Last(r), "wdone")
    ELSE Add(NextBlock(r), "wmore")

Data ==
    LET d == chan.cur IN
    /\ d \in Dev
    /\ job.cmd \in Read \cup Write /\ d = job.on
    /\ dev[d].xfer > 0 /\ "DRQ" \in dev[d].status
    /\ Ready(dev[d])
    /\ dev' = [dev EXCEPT ![d] = IF dev[d].out THEN WriteData(d) ELSE ReadData(d)]
    /\ job' = [job EXCEPT !.moved = @ + 1]
    /\ UNCHANGED chan

\* pull_data(), push_data(): the DMA channel moves m sectors
DmaMove(m) ==
    LET d == chan.cur
        r == dev[d]
        k == Min(m, r.xfer)
        q == [r EXCEPT !.xfer = @ - k]
    IN /\ d \in Dev /\ job.cmd \in Dma  \* the host has started the channel
       /\ r.xfer > 0 /\ r.dma /\ r.timers["dmareq"] = 0
       /\ dev' = [dev EXCEPT ![d] =
                    IF q.xfer = 0
                    THEN Add([q EXCEPT !.dma = FALSE], IF r.out THEN "push" ELSE "pull")
                    ELSE Off(On(q, {"DRQ"}), {"BSY"})]
       /\ job' = [job EXCEPT !.moved = @ + k]
       /\ UNCHANGED chan

-----------------------------------------------------------------------------
(* Timers.                                                                 *)

Expire(d, t) ==
    LET r == [dev[d] EXCEPT !.timers[t] = @ - 1] IN
    /\ dev[d].timers[t] > 0
    /\ dev' = [dev EXCEPT ![d] =
                 CASE t = "wdone" -> Off(r, {"BSY"})
                   [] t = "wmore" -> Off(On(r, {"DRQ"}), {"BSY"})
                   [] t \in {"pull", "push"} -> Off(r, {"BSY", "DRQ"})
                   [] t \in {"intrq", "rdata", "dmareq"} -> r]
    /\ IF t = "dmareq" THEN UNCHANGED <<chan, job>> ELSE Interrupts(d)

-----------------------------------------------------------------------------
(* The other registers.                                                    *)

\* reading STATUS: the pending interrupt of a command is consumed as well
ReadStatus ==
    LET d == chan.cur IN
    /\ d \in Dev
    /\ chan.line
    /\ IF Masked(d) THEN UNCHANGED vars
       ELSE /\ chan' = [chan EXCEPT !.line = FALSE]
            /\ dev' = [dev EXCEPT ![d].timers["intrq"] = 0]
            /\ job' = [job EXCEPT !.seen = job.ints,
                                  !.lost = @ \/ dev[d].timers["intrq"] > 0]

\* DEVICE_HEAD goes to both devices
Select(d) ==
    /\ chan' = [chan EXCEPT !.cur = d]
    /\ dev' = [e \in Dev |-> [dev[e] EXCEPT !.sel = d]]
    /\ UNCHANGED job

\* device_control(): SRST going up and down, nIEN; the transfer count and
\* the timers stay as they are
WriteControl(srst, ien) ==
    /\ LET Ctrl(d) ==
             LET r == [dev[d] EXCEPT !.ien = ien]
             IN IF srst = chan.srst THEN r
                ELSE IF srst THEN On(r, {"BSY"})
                ELSE [r EXCEPT !.status = {"DRDY", "DSC"}, !.sel = 0]
       IN dev' = [d \in Dev |-> Ctrl(d)]
    /\ chan' = [chan EXCEPT !.srst = srst,
                            !.cur = IF chan.srst /\ ~srst THEN 0 ELSE @]
    /\ job' = IF srst THEN [job EXCEPT !.lost = TRUE] ELSE job

Next ==
    \/ \E c \in Cmd, n \in Counts : Command(c, n)
    \/ Data
    \/ \E m \in Counts : DmaMove(m)
    \/ \E d \in Dev, t \in Timers : Expire(d, t)
    \/ ReadStatus
    \/ \E d \in {0, 1} : Select(d)
    \/ \E srst, ien \in BOOLEAN : WriteControl(srst, ien)

Spec == Init /\ [][Next]_vars

\* the timer manager fires what is due
Progress == \A d \in Dev : WF_vars(\E t \in Timers : Expire(d, t))

-----------------------------------------------------------------------------
(* Properties.                                                             *)

\* Registers stay in range, and no timer of a device is added again while it
\* is queued, which the code would only log as an error.
TypeOK ==
    \A d \in Dev :
        /\ dev[d].xfer >= 0 /\ dev[d].chunk \in 0..dev[d].size
        /\ \A t \in Timers : dev[d].timers[t] \in 0..1

\* An interrupt driven host that is not masked, switched away or reset gets
\* one interrupt for every block of a PIO transfer and one for a DMA
\* transfer: when nothing is left to move and no timer is pending, all
\* sectors were moved and all interrupts were raised.
InterruptPerBlock ==
    LET r == dev[job.on] IN
    /\ job.cmd \in Read \cup Write \cup Dma /\ ~job.lost /\ ~job.refused
    /\ r.xfer = 0 /\ \A t \in Timers : r.timers[t] = 0
    => /\ job.moved = job.n
       /\ job.ints = Due

\* What is inductive of them, where the channel has one device.
Quiet(r, ts) == \A t \in ts : r.timers[t] = 0
Pio == job.cmd \in Read \cup Write /\ ~job.refused

Device ==
    [status : SUBSET {"DRDY", "DSC", "BSY", "DRQ", "ERR"}, ien : BOOLEAN,
     sel : {0, 1}, xfer : Nat, chunk : Nat, size : Nat, dma : BOOLEAN,
     out : BOOLEAN, mult : Nat, timers : [Timers -> 0..1]]
Job ==
    [cmd : Cmd \cup {"none"}, on : {0}, n : Nat, moved : Int, ints : Nat,
     seen : Nat, refused : BOOLEAN, lost : BOOLEAN]

\* Whatever the host loses track of: a transfer keeps its direction and block
\* size, a block in progress and an unfinished DMA transfer have no timer of
\* their own, and a refused command asks for no data.
TransferKept(r) ==
    /\ job.refused => "DRQ" \notin r.status /\ Quiet(r, {"wmore"})
    /\ Pio => r.size > 0 /\ r.out = (job.cmd \in Write)
    /\ Pio /\ job.cmd \in Write /\ r.chunk < Min(r.xfer, r.size) => Quiet(r, {"wmore", "wdone"})
    /\ job.cmd \in Dma /\ r.xfer > 0 => Quiet(r, {"pull", "push"})

\* A block that the host has begun to read or write was announced before.
Announced(r) ==
    IF job.cmd \in Write /\ job.cmd \notin Single
    THEN Blocks(job.n, r.size) - Blocks(r.xfer, r.size)
    ELSE Blocks(job.n, r.size) - Blocks(r.xfer, r.size) + 1

PioKept(r) ==
    /\ r.chunk <= Min(r.xfer, r.size)
    /\ r.xfer > 0 => r.chunk > 0 /\ "DRQ" \in r.status
    /\ job.moved = job.n - r.xfer + Min(r.xfer, r.size) - r.chunk
    /\ Quiet(r, {"pull", "push", "dmareq"})
    /\ IF job.cmd \in Read
       THEN /\ Quiet(r, {"wdone", "wmore"})
            /\ r.xfer > 0 => job.ints + r.timers["intrq"] + r.timers["rdata"] = Announced(r)
            /\ r.xfer = 0 => job.ints + r.timers["intrq"] + r.timers["rdata"] = Due
       ELSE /\ Quiet(r, {"rdata"})
            /\ job.ints + r.timers["intrq"] + r.timers["wdone"] + r.timers["wmore"] = Announced(r)
    /\ r.chunk < Min(r.xfer, r.size) => job.ints = Announced(r)

DmaKept(r) ==
    /\ job.moved = job.n - r.xfer
    /\ Quiet(r, Timers \ {"pull", "push", "dmareq"})
    /\ r.xfer > 0 => job.ints = 0
    /\ r.xfer = 0 => /\ Quiet(r, {"dmareq"})
                    /\ job.ints + r.timers["pull"] + r.timers["push"] = 1

\* A host that kept track: every interrupt of the command was raised, or its
\* timer runs, or its block has not been moved yet.
JobKept(r) ==
    IF Pio THEN PioKept(r)
    ELSE IF job.cmd \in Dma THEN DmaKept(r)
    ELSE IF job.cmd \in Silent \cup {"NOP", "none"} THEN Quiet(r, Timers) /\ job.ints = 0
    ELSE Quiet(r, Timers \ {"intrq"}) /\ job.ints + r.timers["intrq"] = 1

AtaInv ==
    /\ dev \in [{0} -> Device] /\ job \in Job
    /\ chan \in [cur : {0, 1}, srst : BOOLEAN, line : BOOLEAN]
    /\ dev[0].sel = chan.cur /\ dev[0].chunk <= dev[0].size
    /\ chan.srst => job.lost
    /\ job.seen <= job.ints
    /\ job.refused => job.cmd \in Read \cup Write
    /\ TransferKept(dev[0])
    /\ ~job.lost => JobKept(dev[0])

\* A command that completes at once still interrupts the host ("without it
\* the host driver waits for an interrupt that never comes").
Unanswered == job.cmd \in Immediate /\ job.ints = 0 /\ ~job.lost

-----------------------------------------------------------------------------
(* The packet protocol of an ATAPI CD-ROM (atapibasedevice.cpp,              *)
(* atapicdrom.cpp): command packet, data in pieces of the block cache,       *)
(* status, and the interrupt for each. A piece of data is one unit. The host *)
(* acts on interrupts: it reads STATUS when INTRQ is up and moves data when  *)
(* that STATUS had DRQ set.                                                  *)

CONSTANTS MaxUnits,     \* units of the longest read
          CacheUnits    \* units the cache holds

VARIABLES pkt,          \* registers of the device
          drv           \* history: the driver's view of the command

PktVars == <<pkt, drv>>

PktCommand == [op : {"READ"}, n : 1..MaxUnits] \cup [op : {"REPLY"}, n : {1}]
             \cup [op : {"NONE", "CHECK", "IDENTIFY", "REFUSED"}, n : {0}]
NoCommand == [op |-> "none", n |-> 0]

Least(a, b) == IF a < b THEN a ELSE b

\* device_set_signature()
PktInit ==
    /\ pkt = [status |-> {}, io |-> FALSE, cod |-> TRUE, xfer |-> 0, remain |-> 0,
              expected |-> FALSE, line |-> FALSE]
    /\ drv = [cmd |-> NoCommand, pio |-> FALSE, got |-> 0, err |-> FALSE, torn |-> FALSE]

PktOn(p, fs) == [p EXCEPT !.status = @ \cup fs]
PktOff(p, fs) == [p EXCEPT !.status = @ \ fs]

\* data_in_phase() and signal_data_ready()
DataInPhase(p) ==
    [PktOff(PktOn(p, {"DRQ"}), {"BSY"}) EXCEPT !.io = TRUE, !.cod = FALSE, !.line = TRUE]

PresentStatus(p) ==
    [PktOff(p, {"DRQ", "BSY"}) EXCEPT !.io = TRUE, !.cod = TRUE, !.line = TRUE]

\* set_status()
SetStatus(p, good) ==
    [(IF good THEN PktOff(p, {"ERR"}) ELSE PktOn(p, {"ERR"})) EXCEPT !.expected = TRUE]

-----------------------------------------------------------------------------

\* perform_command(): a packet command, or one of the two others
Packet ==
    /\ drv.cmd = NoCommand
    /\ pkt' = [PktOff(PktOn(pkt, {"DRQ"}), {"ERR", "BSY"}) EXCEPT !.io = FALSE, !.cod = TRUE]
    /\ drv' = [drv EXCEPT !.cmd = [op |-> "PACKET", n |-> 0], !.got = 0]

OtherCommand(c) ==
    /\ drv.cmd = NoCommand /\ c.op \in {"IDENTIFY", "REFUSED"}
    /\ LET p == PktOn(PktOff(pkt, {"ERR"}), {"BSY"})
       IN pkt' = IF c.op = "IDENTIFY"
                 THEN DataInPhase([p EXCEPT !.xfer = 1, !.expected = FALSE])
                 ELSE [PktOff(PktOn(p, {"ERR"}), {"BSY"}) EXCEPT !.line = TRUE]
    /\ drv' = [drv EXCEPT !.cmd = c, !.got = 0]

\* perform_packet_command(): a read starts with the first fill of the cache
PerformPacket(p, c) ==
    LET q == SetStatus(PktOn(PktOff(p, {"DRQ"}), {"BSY"}), TRUE)
    IN CASE c.op = "READ" ->
              DataInPhase([q EXCEPT !.xfer = Least(c.n, CacheUnits),
                                    !.remain = c.n - Least(c.n, CacheUnits)])
         [] c.op = "REPLY" -> DataInPhase([q EXCEPT !.xfer = 1])
         [] c.op = "NONE" -> PresentStatus(q)
         [] c.op = "CHECK" -> PresentStatus(SetStatus(q, FALSE))

\* the last word of the packet
SendPacket(c) ==
    /\ drv.cmd.op = "PACKET" /\ c.op \in {"READ", "REPLY", "NONE", "CHECK"}
    /\ pkt' = PerformPacket(pkt, c)
    /\ drv' = [drv EXCEPT !.cmd = c, !.torn = @ /\ c.op # "READ"]

\* the last word of a piece is read
PieceRead(p) ==
    LET q == PktOff(p, {"DRQ"})
    IN IF p.remain > 0 THEN [PktOn(q, {"BSY"}) EXCEPT !.line = TRUE]
       ELSE IF p.expected THEN PresentStatus(q) ELSE q

PktReadData ==
    /\ drv.pio /\ pkt.xfer > 0
    /\ LET q == [pkt EXCEPT !.xfer = @ - 1]
       IN pkt' = IF q.xfer = 0 THEN PieceRead(q) ELSE q
    /\ drv' = [drv EXCEPT !.got = @ + 1, !.pio = pkt.xfer > 1,
                          !.cmd = IF drv.cmd.op = "IDENTIFY" /\ pkt.xfer = 1 /\ pkt.remain = 0
                                  THEN NoCommand ELSE @]

\* reading STATUS: INTRQ goes down; a busy device with more data fetches it
\* and offers it
ReadReg(p) ==
    LET q == [p EXCEPT !.line = FALSE]
        k == Least(p.remain, CacheUnits)
    IN IF "BSY" \in q.status /\ q.remain > 0
       THEN DataInPhase([q EXCEPT !.xfer = k, !.remain = @ - k])
       ELSE q

PktReadStatus ==
    /\ pkt.line
    /\ LET q == ReadReg(pkt)
           done == "DRQ" \notin q.status /\ "BSY" \notin q.status
       IN /\ pkt' = q
          /\ drv' = [drv EXCEPT
                       !.pio = "DRQ" \in q.status /\ q.io /\ ~q.cod,
                       !.err = IF done THEN "ERR" \in q.status ELSE @,
                       !.cmd = IF done THEN NoCommand ELSE @]

\* ALT_STATUS does the same without acknowledging
ReadAltStatus ==
    /\ "BSY" \in pkt.status /\ pkt.remain > 0
    /\ pkt' = [ReadReg(pkt) EXCEPT !.line = TRUE]
    /\ UNCHANGED drv

\* ATAPI_SOFT_RESET: the rest of the read is not forgotten
SoftReset ==
    /\ pkt' = [pkt EXCEPT !.status = {}, !.io = FALSE, !.cod = TRUE]
    /\ drv' = [drv EXCEPT !.cmd = NoCommand, !.pio = FALSE, !.torn = TRUE]

PktNext ==
    \/ Packet \/ PktReadData \/ PktReadStatus \/ ReadAltStatus \/ SoftReset
    \/ \E c \in PktCommand : OtherCommand(c) \/ SendPacket(c)

PktSpec == PktInit /\ [][PktNext]_PktVars

-----------------------------------------------------------------------------
(* Properties.                                                             *)

\* A read that ends has delivered what was asked for, no more and no less.
PacketExact ==
    /\ drv.cmd.op = "READ" => drv.got <= drv.cmd.n
    /\ drv.cmd.op = "READ" /\ pkt.cod /\ pkt.io /\ "DRQ" \notin pkt.status
         => drv.got = drv.cmd.n

\* The device never waits for a host that waits for the device: while a
\* command is under way INTRQ is up or the host has data to move.
NoSilentWait ==
    drv.cmd.op \notin {"none", "PACKET"} /\ ~drv.torn =>
        pkt.line \/ (drv.pio /\ pkt.xfer > 0)

AtapiOK == PacketExact /\ NoSilentWait

\* What is inductive of them. A piece is offered, fetched or followed by the
\* status; after a reset only a new read makes the counts right again.
Offered == /\ "DRQ" \in pkt.status /\ pkt.io /\ ~pkt.cod /\ pkt.xfer > 0
           /\ "BSY" \notin pkt.status /\ (pkt.line \/ drv.pio)
Fetching == /\ "BSY" \in pkt.status /\ "DRQ" \notin pkt.status /\ ~pkt.cod
            /\ pkt.xfer = 0 /\ pkt.remain > 0
Ended == /\ pkt.io /\ pkt.cod /\ pkt.line /\ pkt.status \cap {"BSY", "DRQ"} = {}
         /\ pkt.xfer = 0

PktDevice ==
    [status : SUBSET {"DRQ", "BSY", "ERR"}, io : BOOLEAN, cod : BOOLEAN,
     xfer : Nat, remain : Nat, expected : BOOLEAN, line : BOOLEAN]
Driver ==
    [cmd : PktCommand \cup {NoCommand, [op |-> "PACKET", n |-> 0]},
     pio : BOOLEAN, got : Nat, err : BOOLEAN, torn : BOOLEAN]

AtapiInv ==
    /\ pkt \in PktDevice /\ drv \in Driver
    /\ "BSY" \in pkt.status => pkt.xfer = 0 /\ ~drv.pio /\ pkt.line /\ pkt.remain > 0
    /\ drv.cmd = NoCommand => ~drv.pio /\ pkt.status \cap {"BSY", "DRQ"} = {}
    /\ drv.cmd.op = "PACKET" => /\ ~drv.pio /\ pkt.cod /\ "DRQ" \in pkt.status
                               /\ "BSY" \notin pkt.status /\ drv.got = 0
    /\ drv.cmd.op = "READ" =>
          /\ ~drv.torn /\ pkt.expected
          /\ drv.got + pkt.xfer + pkt.remain = drv.cmd.n
          /\ Offered \/ Fetching \/ (Ended /\ pkt.remain = 0)
    /\ drv.cmd.op # "READ" /\ ~drv.torn => pkt.remain = 0
    /\ drv.cmd.op \in {"REPLY", "IDENTIFY"} /\ ~drv.torn =>
          \/ Offered /\ (drv.cmd.op = "REPLY" => pkt.expected)
          \/ Ended
    /\ drv.cmd.op \in {"NONE", "CHECK", "REFUSED"} =>
          pkt.line /\ ~drv.pio /\ pkt.status \cap {"BSY", "DRQ"} = {}

-----------------------------------------------------------------------------
(* The interrupts of the CMD646 controller (cmd646.cpp): two IDE channels on *)
(* one PCI line, with a pending and a block bit for each in MRDMODE.         *)

VARIABLE cmd    \* INTRQ of the channels, MRDMODE, the PCI line;
                \* swept: MRDMODE was written since the last change of INTRQ

Channel == {0, 1}

CmdInit == cmd = [intrq |-> {}, pending |-> {}, block |-> {}, line |-> FALSE, swept |-> FALSE]

\* update_irq()
UpdateIrq(m, ch, level) ==
    [m EXCEPT !.pending = IF level THEN @ \cup {ch} ELSE @ \ {ch},
              !.line = IF ~level \/ ch \notin m.block THEN level ELSE @]

\* the callback of a channel
Intrq(ch, level) ==
    /\ (ch \in cmd.intrq) # level
    /\ cmd' = UpdateIrq([cmd EXCEPT !.swept = FALSE, !.intrq = IF level THEN @ \cup {ch} ELSE @ \ {ch}],
                        ch, level)

\* write_bus_master_reg(MRDMODE): bits of clear go, block is set, and what is
\* still pending and not blocked is raised again
WriteMrdmode(clear, block) ==
    LET m == [cmd EXCEPT !.pending = @ \ clear, !.block = block]
    IN cmd' = [m EXCEPT !.swept = TRUE, !.line = @ \/ m.pending \ block # {}]

CmdNext ==
    \/ \E ch \in Channel, level \in BOOLEAN : Intrq(ch, level)
    \/ \E clear, block \in SUBSET Channel : WriteMrdmode(clear, block)

CmdSpec == CmdInit /\ [][CmdNext]_cmd

\* A channel that lowers INTRQ takes the shared line down for the other one as
\* well; the write of MRDMODE a handler ends with raises it again, so that no
\* request is left behind, and what is pending is really asked for.
NoneLeftBehind ==
    /\ cmd.pending \subseteq cmd.intrq
    /\ cmd.swept /\ cmd.pending \ cmd.block # {} => cmd.line
=============================================================================
