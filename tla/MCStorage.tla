------------------------------ MODULE MCStorage -----------------------------
(* The storage devices side by side, one at a time: focus says which one    *)
(* moves, so that the state spaces add up instead of multiplying. The proofs *)
(* about the IDE devices follow the properties.                             *)
EXTENDS Mesh, TLAPS

\* Commands of every kind with a small and a large transfer.
MCRequests == [op : {"READ", "WRITE", "REPLY", "PARAMS"}, len : {1, 3}]
                 \cup [op : {"NONE"}, len : {0}]

CONSTANTS AtaCounts, AtaMultiple, MaxUnits, CacheUnits    \* sizes on the IDE channels

VARIABLES focus, ncr, task, unit, disk, init, dev, chan, job, pkt, atapi, cmd,
          nv, file, tool, want

Curio == INSTANCE Curio WITH Target <- {2}, Dest <- {1, 2}, CdbLen <- 1, FifoMax <- 2
Unit == INSTANCE ScsiUnit WITH Blocks <- 3, CacheBlocks <- 2, MaxMedia <- 2
Ata == INSTANCE Ata WITH Dev <- {0}, Counts <- AtaCounts, Multiple <- AtaMultiple,
                         drv <- atapi
\* A count of 0 stands for 256 sectors, and a block has a sector.
ASSUME IdeSizes ==
    /\ AtaCounts \subseteq Nat \ {0} /\ AtaMultiple \subseteq Nat \ {0}
    /\ MaxUnits \in Nat /\ CacheUnits \in Nat \ {0}

OfNvram == INSTANCE OfNvram WITH Strs <- {"a", "b"}, Texts <- {<<>>, <<4>>, <<2, 4>>}, End <- 5,
                                 WMod <- 16, DataMax <- 10, NameMax <- 3, MaxSets <- 5

nvram == <<nv, file, tool, want>>
storage == <<focus, nvram, scsi, drv, ncr, task, unit, disk, init, dev, chan, job, pkt, atapi, cmd>>

\* One start for each part that is not moving.
StorageInit ==
    /\ focus \in {"mesh", "curio", "unit", "ata", "atapi", "cmdide", "nvram"}
    /\ Init /\ Curio!Init /\ Unit!Init /\ Ata!Init /\ Ata!PktInit /\ Ata!CmdInit
    /\ OfNvram!Init
    /\ focus # "nvram" => nv.kind = "appl"
    /\ focus # "curio" => ncr.hba.channel
    /\ focus # "unit" => unit.kind = "HD"

Mesh1 ==
    /\ focus = "mesh" /\ Next
    /\ UNCHANGED <<focus, nvram, ncr, task, unit, disk, init, dev, chan, job, pkt, atapi, cmd>>
Curio1 ==
    /\ focus = "curio" /\ Curio!Next
    /\ UNCHANGED <<focus, nvram, scsi, drv, unit, disk, init, dev, chan, job, pkt, atapi, cmd>>
Unit1 ==
    /\ focus = "unit" /\ Unit!Next
    /\ UNCHANGED <<focus, nvram, scsi, drv, ncr, task, dev, chan, job, pkt, atapi, cmd>>
Ata1 ==
    /\ focus = "ata" /\ Ata!Next
    /\ UNCHANGED <<focus, nvram, scsi, drv, ncr, task, unit, disk, init, pkt, atapi, cmd>>
Atapi1 ==
    /\ focus = "atapi" /\ Ata!PktNext
    /\ UNCHANGED <<focus, nvram, scsi, drv, ncr, task, unit, disk, init, dev, chan, job, cmd>>
CmdIde1 ==
    /\ focus = "cmdide" /\ Ata!CmdNext
    /\ UNCHANGED <<focus, nvram, scsi, drv, ncr, task, unit, disk, init, dev, chan, job, pkt, atapi>>

Nvram1 ==
    /\ focus = "nvram" /\ OfNvram!Next
    /\ UNCHANGED <<focus, scsi, drv, ncr, task, unit, disk, init, dev, chan, job, pkt, atapi, cmd>>

StorageNext == Mesh1 \/ Curio1 \/ Unit1 \/ Ata1 \/ Atapi1 \/ CmdIde1 \/ Nvram1

\* What time and a driver that waits for its command bring about.
Helpful ==
    \/ /\ focus = "mesh" /\ (Timers \/ Service)
       /\ UNCHANGED <<focus, nvram, ncr, task, unit, disk, init, dev, chan, job, pkt, atapi, cmd>>
    \/ /\ focus = "curio" /\ (Curio!Timers \/ Curio!Serve)
       /\ UNCHANGED <<focus, nvram, scsi, drv, unit, disk, init, dev, chan, job, pkt, atapi, cmd>>
    \/ /\ focus = "ata" /\ \E t \in Ata!Timers : Ata!Expire(0, t)
       /\ UNCHANGED <<focus, nvram, scsi, drv, ncr, task, unit, disk, init, pkt, atapi, cmd>>

StorageSpec == StorageInit /\ [][StorageNext]_storage /\ WF_storage(Helpful)

\* Both adapters agree with the bus: a driver that was told its selection
\* succeeded is connected to the target it asked for and to no other, one that
\* was told of the end finds the bus free, and the lines show the phase.
BusKept == SelectedIsConnected /\ FreeIsFree /\ PhaseShown /\ Curio!BusAgrees

\* Both adapters move every word of a command before the target shows its
\* status, however FIFO, DMA and the target's cache cut the transfer, and
\* neither FIFO is overfilled; SCSI disk and CD-ROM send and store the blocks
\* the command names and report sense and medium changes once; NVRAM variables
\* read back as they were last set.
DataKept == /\ TypeOK /\ AllMoved /\ Curio!DataMoved /\ Unit!UnitOK
            /\ focus = "nvram" => OfNvram!VariablesOK

\* ATA: one interrupt for every block of a transfer, no timer queued twice;
\* ATAPI: packets are exact and no wait is silent; CMD646: the shared line
\* leaves no channel behind.
IdeOK ==
    Ata!TypeOK /\ Ata!InterruptPerBlock /\ Ata!AtapiOK /\ Ata!NoneLeftBehind

\* Every command given to an adapter is answered by an interrupt, and an ATA
\* command that completes at once interrupts the host as well.
Waiting == drv.cmd # "none" \/ task.cmd # "none" \/ Ata!Unanswered
CommandsAnswered == Waiting ~> ~Waiting

-----------------------------------------------------------------------------
(* Proofs: the IDE channel. The promises hold for any sector counts, block   *)
(* sizes and cache (IdeSizes).                                              *)

\* A transfer of x sectors in blocks of s: the last block may be short.
LEMMA BlocksOf ==
    ASSUME NEW s \in Nat \ {0}, NEW x \in Nat
    PROVE  /\ Ata!Blocks(x, s) \in Nat
           /\ x = 0 => Ata!Blocks(x, s) = 0
           /\ x > 0 => Ata!Blocks(x, s) > 0
           /\ x > 0 /\ x <= s => Ata!Blocks(x, s) = 1
           /\ x > s => Ata!Blocks(x - s, s) = Ata!Blocks(x, s) - 1
<1> DEFINE B(y) == (y + s - 1) \div s
<1>1. ASSUME NEW y \in Nat, NEW k \in Nat, k * s <= y + s - 1, y + s - 1 < k * s + s
      PROVE  B(y) = k
  BY <1>1, SMTT(30)
<1>2. ASSUME NEW z \in Nat
      PROVE  z \div s \in Int /\ (z \div s) * s <= z /\ z < (z \div s) * s + s
  BY Z3
<1>3. PICK k \in Nat : k * s <= x + s - 1 /\ x + s - 1 < k * s + s
  <2> DEFINE z == x + s - 1
             q == z \div s
  <2>1. z \in Nat
    OBVIOUS
  <2>2. q \in Int /\ q * s <= z /\ z < q * s + s
    BY <1>2, <2>1
  <2> HIDE DEF q
  <2>3. q * s + s = (q + 1) * s
    BY <2>2, Z3
  <2>4. (q + 1) * s > 0
    BY <2>1, <2>2, <2>3
  <2>5. q + 1 > 0
    BY <2>2, <2>4, Z3
  <2>6. q \in Nat
    BY <2>2, <2>5
  <2> QED
    BY <2>2, <2>6, Zenon
<1>4. B(x) = k
  BY <1>1, <1>3
<1>5. x = 0 => B(x) = 0
  BY <1>1
<1>6. x > 0 => k > 0
  BY <1>3
<1>7. x > 0 /\ x <= s => B(x) = 1
  BY <1>1
<1>8. ASSUME x > s PROVE B(x - s) = B(x) - 1
  <2>1. k - 1 \in Nat /\ (k - 1) * s = k * s - s
    BY <1>6, <1>8
  <2>2. x - s \in Nat
    BY <1>8
  <2> HIDE DEF B
  <2> QED
    BY <1>1, <1>3, <1>4, <2>1, <2>2
<1> HIDE DEF B
<1>9. Ata!Blocks(x, s) = B(x) /\ Ata!Blocks(x - s, s) = B(x - s)
  BY DEF Ata!Blocks, B
<1> QED
  BY <1>4, <1>5, <1>6, <1>7, <1>8, <1>9

Flags == {"DRDY", "DSC", "BSY", "DRQ", "ERR"}

\* On and off change the status alone, a timer that is added only its count.
LEMMA DeviceIs ==
    ASSUME NEW r \in Ata!Device, NEW fs \in SUBSET Flags, NEW t \in Ata!Timers
    PROVE  /\ Ata!On(r, fs) \in Ata!Device /\ Ata!Off(r, fs) \in Ata!Device
           /\ Ata!On(r, fs) = [r EXCEPT !.status = r.status \cup fs]
           /\ Ata!Off(r, fs) = [r EXCEPT !.status = r.status \ fs]
           /\ Ata!Add(r, t) = [r EXCEPT !.timers = [r.timers EXCEPT ![t] = r.timers[t] + 1]]
           /\ r.timers[t] = 0 => Ata!Add(r, t) \in Ata!Device
<1>1. Ata!Add(r, t) = [r EXCEPT !.timers = [r.timers EXCEPT ![t] = r.timers[t] + 1]]
  BY DEF Ata!Add
<1>2. r.timers \in [Ata!Timers -> 0..1]
  BY DEF Ata!Device
<1>3. ASSUME r.timers[t] = 0 PROVE [r.timers EXCEPT ![t] = r.timers[t] + 1] \in [Ata!Timers -> 0..1]
  BY <1>2, <1>3
<1>4. ASSUME NEW T \in [Ata!Timers -> 0..1] PROVE [r EXCEPT !.timers = T] \in Ata!Device
  BY DEF Ata!Device
<1>5. ASSUME NEW S \in SUBSET Flags PROVE [r EXCEPT !.status = S] \in Ata!Device
  BY DEF Ata!Device, Flags
<1>6. r.status \cup fs \in SUBSET Flags /\ r.status \ fs \in SUBSET Flags
  BY DEF Ata!Device, Flags
<1> QED
  BY <1>1, <1>3, <1>4, <1>5, <1>6 DEF Ata!On, Ata!Off

\* What is inductive, taken apart.
LEMMA AtaTypes ==
    ASSUME Ata!AtaInv
    PROVE  /\ dev[0] \in Ata!Device /\ dev = [d \in {0} |-> dev[0]]
           /\ job \in Ata!Job
           /\ chan \in [cur : {0, 1}, srst : BOOLEAN, line : BOOLEAN]
           /\ \A t \in Ata!Timers : dev[0].timers[t] \in 0..1
           /\ job.on = 0 /\ job.ints \in Nat /\ job.seen \in Nat /\ job.n \in Nat
BY DEF Ata!AtaInv, Ata!Device, Ata!Job

\* A command is only given when every timer has run out: a host that kept track
\* has seen the last interrupt of the command before, and one that did not waits.
LEMMA CommandQuiet ==
    ASSUME Ata!AtaInv, Ata!Finished, Ata!Idle(0),
           job.lost => Ata!Quiet(dev[0], Ata!Timers)
    PROVE  Ata!Quiet(dev[0], Ata!Timers)
<1> DEFINE r == dev[0]
<1> SUFFICES ASSUME ~job.lost PROVE Ata!Quiet(r, Ata!Timers)
  OBVIOUS
<1>1. /\ r \in Ata!Device /\ job \in Ata!Job /\ job.on = 0 /\ job.seen <= job.ints
      /\ job.seen \in Nat /\ job.ints \in Nat /\ job.n \in Nat
      /\ \A t \in Ata!Timers : r.timers[t] \in 0..1
      /\ Ata!TransferKept(r) /\ Ata!JobKept(r)
  BY AtaTypes DEF Ata!AtaInv
<1>2. "DRQ" \notin r.status
  BY DEF Ata!Idle
<1>3. r.xfer \in Nat /\ r.size \in Nat /\ r.chunk \in Nat
  BY <1>1 DEF Ata!Device
<1>4. Ata!Timers = {"intrq", "rdata", "wdone", "wmore", "pull", "push", "dmareq"}
  BY DEF Ata!Timers
<1> HIDE DEF r
<1>5. CASE Ata!Pio
  <2> DEFINE e == IF job.cmd = "WRITE_BUFFER" THEN 1 ELSE 0
  <2>1. /\ job.cmd # "none" /\ job.cmd \notin Ata!Silent /\ Ata!PioKept(r)
        /\ r.size \in Nat \ {0}
    BY <1>1, <1>3, <1>5 DEF Ata!Pio, Ata!Read, Ata!Write, Ata!Silent, Ata!JobKept, Ata!TransferKept
  <2>2. r.xfer = 0
    BY <1>2, <1>3, <2>1 DEF Ata!PioKept
  <2>3. Ata!Blocks(r.xfer, r.size) = 0 /\ Ata!Blocks(job.n, r.size) \in Nat
    BY <1>1, <2>1, <2>2, BlocksOf
  <2>4. Ata!Due = Ata!Blocks(job.n, r.size) + e
    BY <1>1, <1>5 DEF Ata!Due, Ata!Pio, r
  <2>5. job.seen = Ata!Due
    BY <2>1 DEF Ata!Finished
  <2>6. CASE job.cmd \in Ata!Read
    <3>1. job.ints + r.timers["intrq"] + r.timers["rdata"] = Ata!Due
      BY <2>1, <2>2, <2>6 DEF Ata!PioKept
    <3> QED
      BY <1>1, <1>4, <2>1, <2>3, <2>4, <2>5, <2>6, <3>1 DEF Ata!PioKept, Ata!Quiet
  <2>7. CASE job.cmd \notin Ata!Read
    <3>1. job.cmd \in Ata!Write
      BY <1>5, <2>7 DEF Ata!Pio
    <3>2. Ata!Announced(r) = Ata!Blocks(job.n, r.size) + e
      BY <2>3, <3>1 DEF Ata!Announced, Ata!Single, Ata!Write
    <3>3. job.ints + r.timers["intrq"] + r.timers["wdone"] + r.timers["wmore"] = Ata!Due
      BY <2>1, <2>4, <2>7, <3>2 DEF Ata!PioKept
    <3> QED
      BY <1>1, <1>4, <2>1, <2>3, <2>4, <2>5, <2>7, <3>3 DEF Ata!PioKept, Ata!Quiet
  <2> QED
    BY <2>6, <2>7
<1>6. CASE ~Ata!Pio /\ job.cmd \in Ata!Dma
  <2>1. Ata!DmaKept(r) /\ job.seen = 1
    BY <1>1, <1>6 DEF Ata!JobKept, Ata!Finished, Ata!Due, Ata!Pio, Ata!Dma, Ata!Silent,
                      Ata!Read, Ata!Write
  <2>2. r.xfer = 0
    BY <1>1, <1>3, <2>1 DEF Ata!DmaKept
  <2> QED
    BY <1>1, <1>4, <2>1, <2>2 DEF Ata!DmaKept, Ata!Quiet
<1>7. CASE ~Ata!Pio /\ job.cmd \notin Ata!Dma /\ job.cmd \in Ata!Silent \cup {"NOP", "none"}
  BY <1>1, <1>7 DEF Ata!JobKept
<1>8. CASE ~Ata!Pio /\ job.cmd \notin Ata!Dma /\ job.cmd \notin Ata!Silent \cup {"NOP", "none"}
  <2>1. job.seen = 1
    BY <1>8 DEF Ata!Finished, Ata!Due, Ata!Pio
  <2>2. Ata!Quiet(r, Ata!Timers \ {"intrq"}) /\ job.ints + r.timers["intrq"] = 1
    BY <1>1, <1>8 DEF Ata!JobKept
  <2> QED
    BY <1>1, <1>4, <2>1, <2>2 DEF Ata!Quiet
<1> QED
  BY <1>5, <1>6, <1>7, <1>8

\* The registers of q are those of r; only timers differ.
SameRegisters(r, q) ==
    /\ q.status = r.status /\ q.ien = r.ien /\ q.sel = r.sel /\ q.xfer = r.xfer
    /\ q.chunk = r.chunk /\ q.size = r.size /\ q.dma = r.dma /\ q.out = r.out
    /\ q.mult = r.mult

\* A timer that was quiet is added: the registers and the other timers stay.
LEMMA AddIs ==
    ASSUME NEW r \in Ata!Device, NEW t \in Ata!Timers, r.timers[t] = 0
    PROVE  LET q == Ata!Add(r, t)
           IN  /\ q \in Ata!Device /\ SameRegisters(r, q)
               /\ q.timers[t] = 1
               /\ \A u \in Ata!Timers \ {t} : q.timers[u] = r.timers[u]
<1>1. r.timers \in [Ata!Timers -> 0..1]
  BY DEF Ata!Device
<1>2. {} \in SUBSET Flags
  OBVIOUS
<1> DEFINE T == [r.timers EXCEPT ![t] = r.timers[t] + 1]
<1>3. Ata!Add(r, t) \in Ata!Device /\ Ata!Add(r, t) = [r EXCEPT !.timers = T]
  BY <1>2, DeviceIs
<1>4. T[t] = 1 /\ \A u \in Ata!Timers \ {t} : T[u] = r.timers[u]
  BY <1>1
<1> HIDE DEF T
<1>5. Ata!Add(r, t).timers = T /\ SameRegisters(r, Ata!Add(r, t))
  BY <1>3 DEF Ata!Device, SameRegisters
<1> QED
  BY <1>3, <1>4, <1>5

\* The interrupt of a command that completes follows unless it is masked.
LEMMA IntrqIs ==
    ASSUME NEW x \in Ata!Device, Ata!Quiet(x, Ata!Timers)
    PROVE  LET q == Ata!IntrqInCommand(0, x)
           IN  /\ q \in Ata!Device /\ SameRegisters(x, q)
               /\ Ata!Quiet(q, Ata!Timers \ {"intrq"})
               /\ q.timers["intrq"] = IF Ata!Masked(0) THEN 0 ELSE 1
<1>1. "intrq" \in Ata!Timers
  BY DEF Ata!Timers
<1>2. x.timers["intrq"] = 0
  BY <1>1 DEF Ata!Quiet
<1>3. CASE Ata!Masked(0)
  <2>1. Ata!IntrqInCommand(0, x) = x
    BY <1>3 DEF Ata!IntrqInCommand
  <2> QED
    BY <1>2, <1>3, <2>1 DEF SameRegisters, Ata!Quiet
<1>4. CASE ~Ata!Masked(0)
  <2>1. Ata!IntrqInCommand(0, x) = Ata!Add(x, "intrq")
    BY <1>2, <1>4 DEF Ata!IntrqInCommand
  <2> QED
    BY <1>1, <1>2, <1>4, <2>1, AddIs DEF Ata!Quiet
<1> QED
  BY <1>3, <1>4

\* Of q everything but the status is as in r.
SameButStatus(r, q) ==
    /\ q.timers = r.timers /\ q.ien = r.ien /\ q.sel = r.sel /\ q.xfer = r.xfer
    /\ q.chunk = r.chunk /\ q.size = r.size /\ q.dma = r.dma /\ q.out = r.out
    /\ q.mult = r.mult

LEMMA StatusIs ==
    ASSUME NEW r \in Ata!Device, NEW fs \in SUBSET Flags
    PROVE  /\ Ata!On(r, fs) \in Ata!Device /\ SameButStatus(r, Ata!On(r, fs))
           /\ Ata!On(r, fs).status = r.status \cup fs
           /\ Ata!Off(r, fs) \in Ata!Device /\ SameButStatus(r, Ata!Off(r, fs))
           /\ Ata!Off(r, fs).status = r.status \ fs
<1>1. "intrq" \in Ata!Timers
  BY DEF Ata!Timers
<1>2. /\ Ata!On(r, fs) = [r EXCEPT !.status = r.status \cup fs]
      /\ Ata!Off(r, fs) = [r EXCEPT !.status = r.status \ fs]
      /\ Ata!On(r, fs) \in Ata!Device /\ Ata!Off(r, fs) \in Ata!Device
  BY <1>1, DeviceIs
<1>3. ASSUME NEW S
      PROVE  /\ SameButStatus(r, [r EXCEPT !.status = S])
             /\ [r EXCEPT !.status = S].status = S
  BY DEF Ata!Device, SameButStatus
<1> QED
  BY <1>2, <1>3

\* prepare_xfer() sets up the transfer and leaves the rest.
LEMMA PrepareIs ==
    ASSUME NEW r \in Ata!Device, NEW m \in Nat, NEW s \in Nat
    PROVE  LET q == Ata!PrepareXfer(r, m, s)
           IN  /\ q \in Ata!Device
               /\ q.xfer = m /\ q.chunk = Ata!Min(m, s) /\ q.size = s
               /\ q.status = r.status /\ q.timers = r.timers /\ q.sel = r.sel
               /\ q.out = r.out
<1>1. Ata!Min(m, s) \in Nat
  BY DEF Ata!Min
<1> QED
  BY <1>1 DEF Ata!PrepareXfer, Ata!Device

\* A refused command ends with the error bit, and asks for no data.
LEMMA AbortIs ==
    ASSUME NEW r \in Ata!Device, "DRQ" \notin r.status
    PROVE  Ata!Abort(r) \in Ata!Device /\ SameButStatus(r, Ata!Abort(r))
           /\ "DRQ" \notin Ata!Abort(r).status
<1>1. {"ERR"} \in SUBSET Flags /\ {"BSY"} \in SUBSET Flags
  BY DEF Flags
<1> DEFINE x == Ata!On(r, {"ERR"})
<1>2. x \in Ata!Device /\ SameButStatus(r, x) /\ x.status = r.status \cup {"ERR"}
  BY <1>1, StatusIs
<1>3. Ata!Abort(r) = Ata!Off(x, {"BSY"})
  BY DEF Ata!Abort
<1> HIDE DEF x
<1>4. /\ Ata!Off(x, {"BSY"}) \in Ata!Device /\ SameButStatus(x, Ata!Off(x, {"BSY"}))
      /\ Ata!Off(x, {"BSY"}).status = x.status \ {"BSY"}
  BY <1>1, <1>2, StatusIs
<1> QED
  BY <1>2, <1>3, <1>4 DEF SameButStatus

\* What the history notes of a command that starts.
LEMMA NewJob ==
    ASSUME NEW c \in Ata!Cmd, NEW m \in Nat, NEW x \in BOOLEAN, NEW y \in BOOLEAN
    PROVE  [Ata!NoJob EXCEPT !.cmd = c, !.on = 0, !.n = m, !.refused = x, !.lost = y] \in Ata!Job
<1>1. Ata!NoJob \in Ata!Job
  BY DEF Ata!NoJob, Ata!Job
<1>2. ASSUME NEW j \in Ata!Job
      PROVE  [j EXCEPT !.cmd = c, !.on = 0, !.n = m, !.refused = x, !.lost = y] \in Ata!Job
  BY DEF Ata!Job
<1> QED
  BY <1>1, <1>2

\* Every command finds its timers quiet; what it needs to know of the device
\* before it starts is in the first step.
LEMMA CommandKept ==
    ASSUME Ata!AtaInv, NEW c \in Ata!Cmd, NEW n \in AtaCounts, Ata!Command(c, n)
    PROVE  Ata!AtaInv'
<1> DEFINE r == dev[0]
           b == Ata!BlockSize(0, c)
           r1 == [r EXCEPT !.out = c \in Ata!Write]
           r2 == Ata!On(r1, {"BSY"})
<1>1. /\ r \in Ata!Device /\ chan.cur = 0 /\ r.sel = 0 /\ r.chunk <= r.size
      /\ chan \in [cur : {0, 1}, srst : BOOLEAN, line : BOOLEAN]
  BY AtaTypes DEF Ata!AtaInv, Ata!Command
<1>2. Ata!Idle(0)
  BY <1>1 DEF Ata!Command
<1>3. Ata!Quiet(r, Ata!Timers)
  BY <1>2, CommandQuiet DEF Ata!Command, Ata!Quiet
<1>4. n \in Nat \ {0}
  BY IdeSizes
<1>5. /\ chan' = chan
      /\ job' = [Ata!NoJob EXCEPT !.cmd = c, !.on = 0, !.n = Ata!Sectors(c, n),
                                  !.refused = Ata!Refused(0, c), !.lost = Ata!Masked(0)]
  BY <1>1 DEF Ata!Command
<1>6. /\ job'.cmd = c /\ job'.on = 0 /\ job'.n = Ata!Sectors(c, n) /\ job'.moved = 0
      /\ job'.ints = 0 /\ job'.seen = 0 /\ job'.refused = Ata!Refused(0, c)
      /\ job'.lost = Ata!Masked(0)
  BY <1>5 DEF Ata!NoJob
<1>7. job' \in Ata!Job
  <2>1. Ata!Refused(0, c) \in BOOLEAN /\ Ata!Masked(0) \in BOOLEAN
    BY DEF Ata!Refused, Ata!Masked
  <2>2. Ata!Sectors(c, n) \in Nat
    BY <1>4 DEF Ata!Sectors
  <2> QED
    BY <1>5, <2>1, <2>2, NewJob
<1>20. PICK q : q = Ata!PerformCommand(0, c, n)
  OBVIOUS
<1>8. dev' = [d \in {0} |-> q]
  <2>1. "BSY" \notin dev[0].status /\ Ata!IsSelected(0)
    BY <1>1, <1>2 DEF Ata!Idle, Ata!IsSelected
  <2> QED
    BY <1>20, <2>1 DEF Ata!Command
<1>9. b \in Nat
  BY <1>1 DEF Ata!BlockSize, Ata!Device
<1>10. /\ r2 \in Ata!Device /\ r2.timers = r.timers /\ r2.xfer = r.xfer /\ r2.chunk = r.chunk
       /\ r2.size = r.size /\ r2.sel = 0 /\ r2.out = (c \in Ata!Write)
       /\ "DRQ" \notin r2.status
  <2>0. (c \in Ata!Write) \in BOOLEAN
    OBVIOUS
  <2>1. r1 \in Ata!Device
    <3>1. ASSUME NEW w \in BOOLEAN PROVE [r EXCEPT !.out = w] \in Ata!Device
      BY <1>1 DEF Ata!Device
    <3> QED
      BY <2>0, <3>1
  <2>2. {"BSY"} \in SUBSET Flags /\ "intrq" \in Ata!Timers
    BY DEF Flags, Ata!Timers
  <2>3. /\ r1.timers = r.timers /\ r1.xfer = r.xfer /\ r1.chunk = r.chunk /\ r1.size = r.size
        /\ r1.sel = 0 /\ r1.out = (c \in Ata!Write) /\ r1.status = r.status
    BY <1>1 DEF Ata!Device
  <2> HIDE DEF r1
  <2>4. r2 \in Ata!Device /\ r2 = [r1 EXCEPT !.status = r1.status \cup {"BSY"}]
    BY <2>1, <2>2, DeviceIs
  <2>5. /\ r2.timers = r1.timers /\ r2.xfer = r1.xfer /\ r2.chunk = r1.chunk /\ r2.size = r1.size
        /\ r2.sel = r1.sel /\ r2.out = r1.out /\ r2.status = r1.status \cup {"BSY"}
    BY <2>1, <2>4 DEF Ata!Device
  <2>6. "DRQ" \notin r.status
    BY <1>2 DEF Ata!Idle
  <2> QED
    BY <2>3, <2>4, <2>5, <2>6
<1>11. chan'.srst => job'.lost
  BY <1>5 DEF Ata!Command
<1>31. job'.refused => job'.cmd \in Ata!Read \cup Ata!Write
  BY <1>6 DEF Ata!Refused
<1> SUFFICES /\ q \in Ata!Device /\ q.sel = 0 /\ q.chunk <= q.size
             /\ Ata!TransferKept(q)' /\ (~job'.lost => Ata!JobKept(q)')
  BY <1>1, <1>5, <1>6, <1>7, <1>8, <1>11, <1>31 DEF Ata!AtaInv
<1> HIDE DEF r, r1, r2, b
<1>12. Ata!Quiet(r2, Ata!Timers) /\ r2.chunk <= r2.size
  BY <1>1, <1>3, <1>10 DEF Ata!Quiet
<1>13. /\ {"BSY"} \in SUBSET Flags /\ {"DRQ"} \in SUBSET Flags
       /\ {"BSY", "DRQ", "ERR"} \in SUBSET Flags
  BY DEF Flags
\* commands that end at once with an interrupt: x is the device before it
<1>15. ASSUME NEW x \in Ata!Device, q = Ata!IntrqInCommand(0, x), Ata!Quiet(x, Ata!Timers),
              x.sel = 0, x.chunk <= x.size, "DRQ" \notin x.status,
              \/ Ata!Refused(0, c)
              \/ c \in Ata!Immediate \cup {"SET_MULTIPLE", "DIAGNOSTICS"}
       PROVE  /\ q \in Ata!Device /\ q.sel = 0 /\ q.chunk <= q.size
              /\ Ata!TransferKept(q)' /\ (~job'.lost => Ata!JobKept(q)')
  <2>1. /\ q \in Ata!Device /\ SameRegisters(x, q)
        /\ Ata!Quiet(q, Ata!Timers \ {"intrq"})
        /\ q.timers["intrq"] = IF Ata!Masked(0) THEN 0 ELSE 1
    BY <1>15, IntrqIs
  <2>2. /\ ~Ata!Pio' /\ job'.cmd \notin Ata!Dma
        /\ job'.cmd \notin Ata!Silent \cup {"NOP", "none"}
    BY <1>6, <1>15 DEF Ata!Pio, Ata!Refused, Ata!Dma, Ata!Silent, Ata!Immediate, Ata!Read, Ata!Write
  <2>3. Ata!Quiet(q, {"wmore"})
    BY <2>1 DEF Ata!Quiet, Ata!Timers
  <2>4. Ata!TransferKept(q)'
    BY <1>15, <2>1, <2>2, <2>3 DEF Ata!TransferKept, SameRegisters
  <2>5. ~job'.lost => Ata!JobKept(q)'
    BY <1>6, <2>1, <2>2 DEF Ata!JobKept
  <2> QED
    BY <1>15, <2>1, <2>4, <2>5 DEF SameRegisters
<1>16. CASE Ata!Refused(0, c)
  <2> DEFINE x == Ata!Abort(r2)
  <2>1. q = Ata!IntrqInCommand(0, x)
    BY <1>9, <1>16, <1>20 DEF Ata!PerformCommand, r, r1, r2, b, Ata!Refused, Ata!Read,
                                Ata!Write, Ata!Single, Ata!Dma
  <2>2. x \in Ata!Device /\ SameButStatus(r2, x) /\ "DRQ" \notin x.status
    BY <1>10, AbortIs
  <2> HIDE DEF x
  <2> QED
    BY <1>10, <1>12, <1>15, <1>16, <2>1, <2>2 DEF SameButStatus, Ata!Quiet
\* a transfer through the data register: x is the device that asks for data
<1> DEFINE m == Ata!Sectors(c, n)
<1>17. m \in Nat \ {0}
  BY <1>4 DEF Ata!Sectors
<1> HIDE DEF m
<1>18. ASSUME NEW x, x = Ata!Off(Ata!On(Ata!PrepareXfer(r2, m, b), {"DRQ"}), {"BSY"}), b > 0
       PROVE  /\ x \in Ata!Device /\ x.xfer = m /\ x.size = b /\ x.chunk = Ata!Min(m, b)
              /\ x.out = (c \in Ata!Write) /\ x.sel = 0 /\ "DRQ" \in x.status
              /\ Ata!Quiet(x, Ata!Timers) /\ x.chunk <= x.size
  <2> DEFINE y == Ata!PrepareXfer(r2, m, b)
             z == Ata!On(y, {"DRQ"})
  <2>1. /\ y \in Ata!Device /\ y.xfer = m /\ y.chunk = Ata!Min(m, b) /\ y.size = b
        /\ y.timers = r2.timers /\ y.sel = r2.sel /\ y.out = r2.out
    <3>1. r2 \in Ata!Device /\ m \in Nat /\ b \in Nat
      BY <1>9, <1>10, <1>17
    <3> QED
      BY <3>1, PrepareIs, ZenonT(60)
  <2> HIDE DEF y
  <2>2. z \in Ata!Device /\ SameButStatus(y, z) /\ z.status = y.status \cup {"DRQ"}
    BY <1>13, <2>1, StatusIs
  <2>3. x = Ata!Off(z, {"BSY"})
    BY <1>18 DEF y
  <2> HIDE DEF z
  <2>4. x \in Ata!Device /\ SameButStatus(z, x) /\ x.status = z.status \ {"BSY"}
    BY <1>13, <2>2, <2>3, StatusIs
  <2>5. /\ x.xfer = m /\ x.size = b /\ x.chunk = Ata!Min(m, b) /\ x.timers = r2.timers
        /\ x.sel = 0 /\ x.out = (c \in Ata!Write) /\ "DRQ" \in x.status
    BY <1>10, <2>1, <2>2, <2>4 DEF SameButStatus
  <2>6. Ata!Min(m, b) <= b
    BY <1>9, <1>17 DEF Ata!Min
  <2> QED
    BY <1>12, <2>4, <2>5, <2>6 DEF Ata!Quiet
<1>19. ASSUME NEW x \in Ata!Device, SameRegisters(x, q), x.xfer = m, x.size = b, b > 0,
              x.chunk = Ata!Min(m, b), x.out = (c \in Ata!Write), x.sel = 0, "DRQ" \in x.status,
              q \in Ata!Device, Ata!Quiet(q, Ata!Timers \ {"intrq"}), x.chunk <= x.size,
              c \in Ata!Read \cup Ata!Write, ~Ata!Refused(0, c),
              ~Ata!Masked(0) => q.timers["intrq"] = IF c \in Ata!Read \cup Ata!Single THEN 1 ELSE 0
       PROVE  /\ q \in Ata!Device /\ q.sel = 0 /\ q.chunk <= q.size
              /\ Ata!TransferKept(q)' /\ (~job'.lost => Ata!JobKept(q)')
  <2>1. /\ q.xfer = m /\ q.size = b /\ q.chunk = Ata!Min(m, b) /\ q.out = (c \in Ata!Write)
        /\ q.sel = 0 /\ "DRQ" \in q.status
    BY <1>19 DEF SameRegisters
  <2>2. /\ job'.cmd = c /\ job'.n = m /\ ~job'.refused /\ Ata!Pio' /\ c \notin Ata!Dma
        /\ job'.moved = 0 /\ job'.ints = 0
    BY <1>6, <1>19 DEF Ata!Pio, Ata!Dma, Ata!Read, Ata!Write, m
  <2>3. Ata!TransferKept(q)'
    BY <1>9, <1>17, <1>19, <2>1, <2>2 DEF Ata!TransferKept, Ata!Min
  <2>4. Ata!Blocks(m, b) \in Nat
    BY <1>9, <1>17, <1>19, BlocksOf
  <2>5. (Ata!Announced(q))' = IF c \in Ata!Read \cup Ata!Single THEN 1 ELSE 0
    BY <1>19, <2>1, <2>2, <2>4 DEF Ata!Announced, Ata!Read, Ata!Write, Ata!Single
  <2>6. /\ Ata!Quiet(q, {"pull", "push", "dmareq"}) /\ Ata!Quiet(q, {"wdone", "wmore"})
        /\ Ata!Quiet(q, {"rdata"})
    BY <1>19 DEF Ata!Quiet, Ata!Timers
  <2>7. ASSUME ~job'.lost PROVE Ata!PioKept(q)'
    <3>1. q.timers["intrq"] = IF c \in Ata!Read \cup Ata!Single THEN 1 ELSE 0
      BY <1>6, <1>19, <2>7
    <3>2. q.timers["rdata"] = 0 /\ q.timers["wdone"] = 0 /\ q.timers["wmore"] = 0
      BY <2>6 DEF Ata!Quiet
    <3>3. Ata!Min(m, b) \in Nat \ {0} /\ q.chunk = Ata!Min(q.xfer, q.size)
      BY <1>9, <1>17, <1>19, <2>1 DEF Ata!Min
    <3> QED
      BY <1>9, <1>17, <2>1, <2>2, <2>5, <2>6, <3>1, <3>2, <3>3 DEF Ata!PioKept
  <2> QED
    BY <1>19, <2>1, <2>2, <2>3, <2>7 DEF Ata!JobKept
<1>21. CASE ~Ata!Refused(0, c) /\ c \in Ata!Read \cup Ata!Single
  <2> DEFINE x == Ata!Off(Ata!On(Ata!PrepareXfer(r2, m, b), {"DRQ"}), {"BSY"})
  <2>1. c \in Ata!Read \cup Ata!Write /\ b > 0
    BY <1>9, <1>21 DEF Ata!Refused, Ata!Read, Ata!Write, Ata!Single, b
  <2>2. q = Ata!IntrqInCommand(0, x)
    BY <1>9, <1>20, <1>21, <2>1 DEF Ata!PerformCommand, r, r1, r2, b, m, Ata!Refused, Ata!Read,
          Ata!Write, Ata!Single, Ata!Dma
  <2>3. /\ x \in Ata!Device /\ x.xfer = m /\ x.size = b /\ x.chunk = Ata!Min(m, b)
        /\ x.out = (c \in Ata!Write) /\ x.sel = 0 /\ "DRQ" \in x.status
        /\ Ata!Quiet(x, Ata!Timers) /\ x.chunk <= x.size
    BY <1>18, <2>1
  <2> HIDE DEF x
  <2>4. /\ q \in Ata!Device /\ SameRegisters(x, q)
        /\ Ata!Quiet(q, Ata!Timers \ {"intrq"})
        /\ q.timers["intrq"] = IF Ata!Masked(0) THEN 0 ELSE 1
    BY <2>2, <2>3, IntrqIs
  <2> QED
    BY <1>19, <1>21, <2>1, <2>3, <2>4
<1>22. CASE ~Ata!Refused(0, c) /\ c \in Ata!Write \ Ata!Single
  <2>1. b > 0
    BY <1>9, <1>22 DEF Ata!Refused, b
  <2>2. q = Ata!Off(Ata!On(Ata!PrepareXfer(r2, m, b), {"DRQ"}), {"BSY"})
    BY <1>9, <1>20, <1>22, <2>1 DEF Ata!PerformCommand, r, r1, r2, b, m, Ata!Refused, Ata!Read,
          Ata!Write, Ata!Single, Ata!Dma, Ata!Sectors
  <2>3. /\ q \in Ata!Device /\ q.xfer = m /\ q.size = b /\ q.chunk = Ata!Min(m, b)
        /\ q.out = (c \in Ata!Write) /\ q.sel = 0 /\ "DRQ" \in q.status
        /\ Ata!Quiet(q, Ata!Timers) /\ q.chunk <= q.size
    BY <1>18, <2>1, <2>2
  <2>4. /\ Ata!Quiet(q, Ata!Timers \ {"intrq"}) /\ q.timers["intrq"] = 0
        /\ c \notin Ata!Read /\ SameRegisters(q, q)
    BY <1>22, <2>3 DEF Ata!Quiet, Ata!Timers, Ata!Read, Ata!Write, SameRegisters
  <2> QED
    BY <1>19, <1>22, <2>1, <2>3, <2>4
<1>23. CASE c \in Ata!Dma
  <2> DEFINE y == Ata!PrepareXfer(r2, n, n)
             z == Ata!Off(y, {"BSY", "DRQ", "ERR"})
             x == [z EXCEPT !.dma = TRUE, !.out = c = "WRITE_DMA"]
  <2>1. q = Ata!Add(x, "dmareq")
    BY <1>20, <1>23 DEF Ata!PerformCommand, r, r1, r2, Ata!Refused, Ata!Read,
          Ata!Write, Ata!Single, Ata!Dma
  <2>2. /\ y \in Ata!Device /\ y.xfer = n /\ y.chunk = Ata!Min(n, n) /\ y.size = n
        /\ y.timers = r2.timers /\ y.sel = r2.sel
    <3>1. r2 \in Ata!Device /\ n \in Nat
      BY <1>4, <1>10
    <3> QED
      BY <3>1, PrepareIs, ZenonT(60)
  <2> HIDE DEF y
  <2>3. z \in Ata!Device /\ SameButStatus(y, z) /\ z.status = y.status \ {"BSY", "DRQ", "ERR"}
    BY <1>13, <2>2, StatusIs
  <2> HIDE DEF z
  <2>4. ASSUME NEW w \in BOOLEAN
        PROVE  /\ [z EXCEPT !.dma = TRUE, !.out = w] \in Ata!Device
               /\ [z EXCEPT !.dma = TRUE, !.out = w].timers = z.timers
               /\ [z EXCEPT !.dma = TRUE, !.out = w].xfer = z.xfer
               /\ [z EXCEPT !.dma = TRUE, !.out = w].chunk = z.chunk
               /\ [z EXCEPT !.dma = TRUE, !.out = w].size = z.size
               /\ [z EXCEPT !.dma = TRUE, !.out = w].sel = z.sel
    BY <2>3 DEF Ata!Device
  <2>5. (c = "WRITE_DMA") \in BOOLEAN
    OBVIOUS
  <2>6. /\ x \in Ata!Device /\ x.timers = r2.timers /\ x.xfer = n /\ x.chunk = Ata!Min(n, n)
        /\ x.size = n /\ x.sel = 0
    BY <1>10, <2>2, <2>3, <2>4, <2>5 DEF SameButStatus
  <2> HIDE DEF x
  <2>7. "dmareq" \in Ata!Timers /\ x.timers["dmareq"] = 0
    BY <1>12, <2>6 DEF Ata!Quiet, Ata!Timers
  <2>8. /\ q \in Ata!Device /\ SameRegisters(x, q)
        /\ \A u \in Ata!Timers \ {"dmareq"} : q.timers[u] = x.timers[u]
    BY <2>1, <2>6, <2>7, AddIs
  <2>9. Ata!Quiet(q, Ata!Timers \ {"dmareq"})
    BY <1>12, <2>6, <2>8 DEF Ata!Quiet
  <2>10. Ata!Quiet(q, {"pull", "push"}) /\ Ata!Quiet(q, Ata!Timers \ {"pull", "push", "dmareq"})
    BY <2>9 DEF Ata!Quiet, Ata!Timers
  <2>11. q.xfer = n /\ q.chunk = n /\ q.size = n /\ q.sel = 0
    BY <1>4, <2>6, <2>8 DEF SameRegisters, Ata!Min
  <2>12. ~Ata!Pio' /\ ~job'.refused /\ job'.cmd = c /\ job'.n = n /\ job'.moved = 0 /\ job'.ints = 0
    BY <1>6, <1>23 DEF Ata!Pio, Ata!Refused, Ata!Dma, Ata!Read, Ata!Write, Ata!Single, Ata!Sectors
  <2>13. Ata!TransferKept(q)'
    BY <2>10, <2>12 DEF Ata!TransferKept
  <2>14. Ata!DmaKept(q)'
    BY <1>4, <2>10, <2>11, <2>12 DEF Ata!DmaKept
  <2> QED
    BY <1>4, <1>23, <2>8, <2>11, <2>12, <2>13, <2>14 DEF Ata!JobKept
<1>24. ASSUME NEW fs \in SUBSET Flags
       PROVE  /\ Ata!Off(r2, fs) \in Ata!Device /\ SameButStatus(r2, Ata!Off(r2, fs))
              /\ "DRQ" \notin Ata!Off(r2, fs).status
  BY <1>10, StatusIs
<1>25. /\ Ata!Abort(r2) \in Ata!Device /\ SameButStatus(r2, Ata!Abort(r2))
       /\ "DRQ" \notin Ata!Abort(r2).status
  BY <1>10, AbortIs
<1>26. ASSUME NEW x \in Ata!Device, SameButStatus(r2, x), "DRQ" \notin x.status
       PROVE  Ata!Quiet(x, Ata!Timers) /\ x.sel = 0 /\ x.chunk <= x.size
  BY <1>10, <1>12, <1>26 DEF SameButStatus, Ata!Quiet
<1>27. CASE c \in Ata!Immediate
  <2> DEFINE x == CASE c = "SEEK" -> Ata!Off(r2, {"BSY"})
                    [] c = "FLUSH_CACHE" -> Ata!Off(r2, {"BSY", "DRQ", "ERR"})
                    [] c = "SET_FEATURES" -> IF n \in AtaMultiple THEN Ata!Abort(r2) ELSE Ata!Off(r2, {"BSY"})
  <2>1. q = Ata!IntrqInCommand(0, x)
    BY <1>20, <1>27 DEF Ata!PerformCommand, r, r1, r2, Ata!Refused, Ata!Read,
          Ata!Write, Ata!Single, Ata!Dma, Ata!Immediate
  <2>2. x \in {Ata!Off(r2, {"BSY"}), Ata!Off(r2, {"BSY", "DRQ", "ERR"}), Ata!Abort(r2)}
    BY <1>27 DEF Ata!Immediate
  <2> HIDE DEF x
  <2>3. x \in Ata!Device /\ SameButStatus(r2, x) /\ "DRQ" \notin x.status
    BY <1>13, <1>24, <1>25, <2>2
  <2> QED
    BY <1>15, <1>26, <1>27, <2>1, <2>3
<1>28. CASE c = "SET_MULTIPLE"
  <2> DEFINE y == Ata!Off(r2, {"BSY"})
             x == IF n \in AtaMultiple THEN [y EXCEPT !.mult = n] ELSE Ata!Abort(r2)
  <2>1. q = Ata!IntrqInCommand(0, x)
    BY <1>20, <1>28 DEF Ata!PerformCommand, r, r1, r2, Ata!Refused, Ata!Read,
          Ata!Write, Ata!Single, Ata!Dma
  <2>2. y \in Ata!Device /\ SameButStatus(r2, y) /\ "DRQ" \notin y.status
    BY <1>13, <1>24
  <2> HIDE DEF y
  <2>3. /\ [y EXCEPT !.mult = n] \in Ata!Device /\ [y EXCEPT !.mult = n].timers = y.timers
        /\ [y EXCEPT !.mult = n].sel = y.sel /\ [y EXCEPT !.mult = n].chunk = y.chunk
        /\ [y EXCEPT !.mult = n].size = y.size /\ [y EXCEPT !.mult = n].status = y.status
    BY <1>4, <2>2 DEF Ata!Device
  <2>4. Ata!Quiet(y, Ata!Timers) /\ y.sel = 0 /\ y.chunk <= y.size
    BY <1>26, <2>2
  <2>5. /\ x \in Ata!Device /\ Ata!Quiet(x, Ata!Timers) /\ x.sel = 0 /\ x.chunk <= x.size
        /\ "DRQ" \notin x.status
    BY <1>25, <1>26, <2>2, <2>3, <2>4 DEF Ata!Quiet
  <2> HIDE DEF x
  <2> QED
    BY <1>15, <1>28, <2>1, <2>5
<1>29. CASE c = "DIAGNOSTICS"
  <2> DEFINE x == [r2 EXCEPT !.status = {"DRDY", "DSC"}, !.sel = 0]
  <2>1. q = Ata!IntrqInCommand(0, x)
    BY <1>20, <1>29 DEF Ata!PerformCommand, r, r1, r2, Ata!Refused, Ata!Read,
          Ata!Write, Ata!Single, Ata!Dma
  <2>2. /\ x \in Ata!Device /\ x.timers = r2.timers /\ x.sel = 0 /\ x.chunk = r2.chunk
        /\ x.size = r2.size /\ x.status = {"DRDY", "DSC"}
    BY <1>10 DEF Ata!Device
  <2> HIDE DEF x
  <2>3. /\ Ata!Quiet(x, Ata!Timers) /\ x.chunk <= x.size /\ "DRQ" \notin x.status
    BY <1>12, <2>2 DEF Ata!Quiet
  <2> QED
    BY <1>15, <1>29, <2>1, <2>2, <2>3
<1>30. CASE c \in Ata!Silent \cup {"NOP"}
  <2>1. q \in {Ata!Off(r2, {"BSY"}), Ata!Abort(r2), r2}
    BY <1>20, <1>30 DEF Ata!PerformCommand, r, r1, r2, Ata!Refused, Ata!Read,
          Ata!Write, Ata!Single, Ata!Dma, Ata!Silent
  <2>2. q \in Ata!Device /\ SameButStatus(r2, q) /\ "DRQ" \notin q.status
    BY <1>10, <1>13, <1>24, <1>25, <2>1 DEF SameButStatus
  <2>3. Ata!Quiet(q, Ata!Timers) /\ q.sel = 0 /\ q.chunk <= q.size
    BY <1>26, <2>2
  <2>4. /\ ~Ata!Pio' /\ job'.cmd \notin Ata!Dma /\ job'.ints = 0 /\ ~job'.refused
        /\ job'.cmd \in Ata!Silent \cup {"NOP", "none"}
    BY <1>6, <1>30 DEF Ata!Pio, Ata!Refused, Ata!Dma, Ata!Silent, Ata!Read, Ata!Write, Ata!Single
  <2>5. Ata!TransferKept(q)'
    BY <2>4 DEF Ata!TransferKept
  <2>6. Ata!JobKept(q)'
    BY <2>3, <2>4 DEF Ata!JobKept
  <2> QED
    BY <2>2, <2>3, <2>5, <2>6
<1> QED
  BY <1>16, <1>21, <1>22, <1>23, <1>27, <1>28, <1>29, <1>30 DEF Ata!Cmd

\* The host moves data only when the interrupts for all blocks so far have come,
\* so that none of their timers runs.
LEMMA ReadyQuiet ==
    ASSUME Ata!AtaInv, Ata!Pio, dev[0].xfer > 0, Ata!Ready(dev[0])
    PROVE  /\ job.cmd \in Ata!Write => Ata!Quiet(dev[0], {"wmore", "wdone"})
           /\ ~job.lost => /\ job.ints = Ata!Announced(dev[0])
                           /\ Ata!Quiet(dev[0], Ata!Timers)
<1> DEFINE r == dev[0]
           M == Ata!Min(r.xfer, r.size)
           A == Ata!Announced(r)
<1>1. /\ r \in Ata!Device /\ job \in Ata!Job /\ job.seen <= job.ints
      /\ job.seen \in Nat /\ job.ints \in Nat /\ job.n \in Nat
      /\ \A t \in Ata!Timers : r.timers[t] \in 0..1
      /\ Ata!TransferKept(r) /\ (~job.lost => Ata!PioKept(r))
  BY AtaTypes DEF Ata!AtaInv, Ata!JobKept
<1>2. r.size \in Nat \ {0} /\ r.xfer \in Nat /\ r.chunk \in Nat /\ r.out = (job.cmd \in Ata!Write)
  BY <1>1 DEF Ata!Device, Ata!TransferKept
<1>3. Ata!Blocks(job.n, r.size) \in Nat /\ Ata!Blocks(r.xfer, r.size) \in Nat
  BY <1>1, <1>2, BlocksOf
<1>4. A \in Int
  BY <1>3 DEF Ata!Announced
<1>5. Ata!Expected(r) = A
  BY <1>2 DEF Ata!Expected, Ata!Announced
<1>6. Ata!Timers = {"intrq", "rdata", "wdone", "wmore", "pull", "push", "dmareq"}
  BY DEF Ata!Timers
<1>7. M \in Nat
  BY <1>2 DEF Ata!Min
<1> HIDE DEF M, A
<1>8. \/ Ata!Quiet(r, Ata!Timers) /\ job.lost
      \/ r.chunk < M
      \/ ~job.lost /\ job.seen >= A
  BY <1>5 DEF Ata!Ready, Ata!Quiet, M
<1> HIDE DEF r
<1>9. ASSUME ~job.lost PROVE job.ints = A /\ Ata!Quiet(r, Ata!Timers)
  <2>1. job.ints >= A
    BY <1>1, <1>4, <1>8, <1>9 DEF Ata!PioKept, M, A
  <2>2. CASE job.cmd \in Ata!Read
    <3>1. job.ints + r.timers["intrq"] + r.timers["rdata"] = A
      BY <1>1, <1>9, <2>2 DEF Ata!PioKept, A, r
    <3>2. job.ints = A /\ r.timers["intrq"] = 0 /\ r.timers["rdata"] = 0
      BY <1>1, <1>4, <1>6, <2>1, <3>1
    <3> QED
      BY <1>1, <1>6, <1>9, <2>2, <3>2 DEF Ata!PioKept, Ata!Quiet
  <2>3. CASE job.cmd \notin Ata!Read
    <3>1. job.ints + r.timers["intrq"] + r.timers["wdone"] + r.timers["wmore"] = A
      BY <1>1, <1>9, <2>3 DEF Ata!PioKept, A
    <3>2. /\ job.ints = A /\ r.timers["intrq"] = 0 /\ r.timers["wdone"] = 0
          /\ r.timers["wmore"] = 0
      BY <1>1, <1>4, <1>6, <2>1, <3>1
    <3> QED
      BY <1>1, <1>6, <1>9, <2>3, <3>2 DEF Ata!PioKept, Ata!Quiet
  <2> QED
    BY <2>2, <2>3
<1>10. ASSUME job.cmd \in Ata!Write PROVE Ata!Quiet(r, {"wmore", "wdone"})
  <2>1. CASE Ata!Quiet(r, Ata!Timers)
    BY <1>6, <2>1 DEF Ata!Quiet
  <2>2. CASE r.chunk < M
    BY <1>1, <1>10, <2>2 DEF Ata!TransferKept, M
  <2> QED
    BY <1>8, <1>9, <2>1, <2>2
<1> QED
  BY <1>9, <1>10 DEF r, A

\* Where a block goes on, ends, and ends the transfer.
LEMMA BlockSteps ==
    ASSUME NEW r \in Ata!Device, r.size > 0, r.xfer > 0
    PROVE  /\ r.chunk > 1 =>
                LET q == Ata!Step(r)
                IN  /\ q \in Ata!Device /\ q.chunk = r.chunk - 1 /\ q.xfer = r.xfer
                    /\ q.size = r.size /\ q.out = r.out /\ q.sel = r.sel
                    /\ q.status = r.status /\ q.timers = r.timers
           /\ r.xfer > r.size =>
                LET q == Ata!NextBlock(r)
                IN  /\ q \in Ata!Device /\ q.chunk = Ata!Min(r.xfer - r.size, r.size)
                    /\ q.xfer = r.xfer - r.size /\ q.size = r.size /\ q.out = r.out
                    /\ q.sel = r.sel /\ q.status = r.status /\ q.timers = r.timers
           /\ LET q == Ata!Last(r)
              IN  /\ q \in Ata!Device /\ q.chunk = 0 /\ q.xfer = 0
                  /\ q.size = r.size /\ q.out = r.out /\ q.sel = r.sel
                  /\ q.status = r.status \ {"DRQ"} /\ q.timers = r.timers
<1>1. r.chunk \in Nat /\ r.xfer \in Nat /\ r.size \in Nat
  BY DEF Ata!Device
<1>3. ASSUME r.chunk > 1
      PROVE  LET q == Ata!Step(r)
             IN  /\ q \in Ata!Device /\ q.chunk = r.chunk - 1 /\ q.xfer = r.xfer
                 /\ q.size = r.size /\ q.out = r.out /\ q.sel = r.sel
                 /\ q.status = r.status /\ q.timers = r.timers
  BY <1>1, <1>3 DEF Ata!Device, Ata!Step
<1>4. ASSUME r.xfer > r.size
      PROVE  /\ Ata!Min(r.xfer - r.size, r.size) \in Nat /\ r.xfer - r.size \in Nat
             /\ Ata!NextBlock(r) = [r EXCEPT !.xfer = r.xfer - r.size,
                                             !.chunk = Ata!Min(r.xfer - r.size, r.size)]
  BY <1>1, <1>4 DEF Ata!Min, Ata!NextBlock
<1> DEFINE o == Ata!Off(r, {"DRQ"})
<1>5. {"DRQ"} \in SUBSET Flags
  BY DEF Flags
<1>6. o \in Ata!Device /\ SameButStatus(r, o) /\ o.status = r.status \ {"DRQ"}
  BY <1>5, StatusIs
<1>7. Ata!Last(r) = [o EXCEPT !.xfer = 0, !.chunk = 0]
  BY DEF Ata!Last
<1> HIDE DEF o
<1>8. LET q == Ata!Last(r)
      IN  /\ q \in Ata!Device /\ q.chunk = 0 /\ q.xfer = 0
          /\ q.size = r.size /\ q.out = r.out /\ q.sel = r.sel
          /\ q.status = r.status \ {"DRQ"} /\ q.timers = r.timers
  <2> DEFINE q == Ata!Last(r)
  <2>1. /\ q \in Ata!Device /\ q.chunk = 0 /\ q.xfer = 0
        /\ q.size = o.size /\ q.out = o.out /\ q.sel = o.sel
        /\ q.status = o.status /\ q.timers = o.timers
    <3>1. 0 \in Nat /\ o \in Ata!Device /\ q = [o EXCEPT !.xfer = 0, !.chunk = 0]
      BY <1>6, <1>7
    <3> HIDE DEF q
    <3> QED
      BY <3>1 DEF Ata!Device
  <2> HIDE DEF q
  <2>2. /\ q \in Ata!Device /\ q.chunk = 0 /\ q.xfer = 0
        /\ q.size = r.size /\ q.out = r.out /\ q.sel = r.sel
        /\ q.status = r.status \ {"DRQ"} /\ q.timers = r.timers
    BY <1>6, <2>1 DEF SameButStatus
  <2> QED
    BY <2>2 DEF q
<1>9. ASSUME r.xfer > r.size
      PROVE  LET q == Ata!NextBlock(r)
             IN  /\ q \in Ata!Device /\ q.chunk = Ata!Min(r.xfer - r.size, r.size)
                 /\ q.xfer = r.xfer - r.size /\ q.size = r.size /\ q.out = r.out
                 /\ q.sel = r.sel /\ q.status = r.status /\ q.timers = r.timers
  <2> DEFINE q == Ata!NextBlock(r)
  <2>1. /\ Ata!Min(r.xfer - r.size, r.size) \in Nat /\ r.xfer - r.size \in Nat
        /\ q = [r EXCEPT !.xfer = r.xfer - r.size, !.chunk = Ata!Min(r.xfer - r.size, r.size)]
    BY <1>4, <1>9
  <2> HIDE DEF q
  <2>2. /\ q \in Ata!Device /\ q.chunk = Ata!Min(r.xfer - r.size, r.size)
        /\ q.xfer = r.xfer - r.size /\ q.size = r.size /\ q.out = r.out
        /\ q.sel = r.sel /\ q.status = r.status /\ q.timers = r.timers
    <3>1. ASSUME NEW x \in Nat, NEW k \in Nat, q = [r EXCEPT !.xfer = x, !.chunk = k]
          PROVE  /\ q \in Ata!Device /\ q.chunk = k /\ q.xfer = x
                 /\ q.size = r.size /\ q.out = r.out /\ q.sel = r.sel
                 /\ q.status = r.status /\ q.timers = r.timers
      BY <3>1 DEF Ata!Device
    <3> QED
      BY <2>1, <3>1
  <2> QED
    BY <2>2 DEF q
<1> QED
  BY <1>3, <1>8, <1>9

\* Moving a sector through the data register: inside a block, at its end, and
\* at the end of the transfer.
LEMMA DataKeeps ==
    ASSUME Ata!AtaInv, Ata!Data
    PROVE  Ata!AtaInv'
<1> DEFINE r == dev[0]
<1>1. /\ r \in Ata!Device /\ r.sel = 0 /\ job \in Ata!Job /\ chan.cur = 0
      /\ chan \in [cur : {0, 1}, srst : BOOLEAN, line : BOOLEAN]
      /\ job.seen <= job.ints /\ (chan.srst => job.lost)
      /\ job.seen \in Nat /\ job.ints \in Nat /\ job.n \in Nat /\ job.on = 0
      /\ Ata!TransferKept(r) /\ (~job.lost => Ata!JobKept(r))
      /\ job.cmd \in Ata!Read \cup Ata!Write /\ r.xfer > 0 /\ "DRQ" \in r.status
      /\ Ata!Ready(r) /\ dev = [d \in {0} |-> r]
  BY AtaTypes DEF Ata!AtaInv, Ata!Data
<1>2. Ata!Pio /\ ~job.refused /\ job.cmd \notin Ata!Dma /\ job.cmd # "none"
  BY <1>1 DEF Ata!Pio, Ata!TransferKept, Ata!Read, Ata!Write, Ata!Dma
<1>3. /\ r.size \in Nat \ {0} /\ r.xfer \in Nat /\ r.chunk \in Nat /\ job.moved \in Int
      /\ r.out = (job.cmd \in Ata!Write)
  BY <1>1, <1>2 DEF Ata!Device, Ata!Job, Ata!TransferKept
<1>4. /\ job.cmd \in Ata!Write => Ata!Quiet(r, {"wmore", "wdone"})
      /\ ~job.lost => job.ints = Ata!Announced(r) /\ Ata!Quiet(r, Ata!Timers) /\ Ata!PioKept(r)
  BY <1>1, <1>2, ReadyQuiet DEF Ata!JobKept
<1>5. PICK q : q = IF r.out THEN Ata!WriteData(0) ELSE Ata!ReadData(0)
  OBVIOUS
<1>6. dev' = [d \in {0} |-> q] /\ chan' = chan /\ job' = [job EXCEPT !.moved = @ + 1]
  BY <1>1, <1>5 DEF Ata!Data
<1>7. /\ job' \in Ata!Job /\ job'.cmd = job.cmd /\ job'.on = 0 /\ job'.n = job.n
      /\ job'.ints = job.ints /\ job'.seen = job.seen /\ job'.refused = job.refused
      /\ job'.lost = job.lost /\ job'.moved = job.moved + 1
  BY <1>1, <1>3, <1>6 DEF Ata!Job
<1>8. Ata!Pio' /\ job'.cmd \notin Ata!Dma /\ ~job'.refused
  BY <1>2, <1>7 DEF Ata!Pio
<1> SUFFICES /\ q \in Ata!Device /\ q.sel = 0 /\ q.chunk <= q.size
             /\ Ata!TransferKept(q)' /\ (~job'.lost => Ata!PioKept(q)')
  BY <1>1, <1>2, <1>6, <1>7, <1>8 DEF Ata!AtaInv, Ata!JobKept
<1>9. /\ Ata!Min(r.xfer, r.size) \in Nat
      /\ Ata!Blocks(job.n, r.size) \in Nat /\ Ata!Blocks(r.xfer, r.size) \in Nat
      /\ Ata!Blocks(0, r.size) = 0
      /\ r.xfer <= r.size => Ata!Blocks(r.xfer, r.size) = 1 /\ Ata!Min(r.xfer, r.size) = r.xfer
      /\ r.xfer > r.size =>
            /\ Ata!Blocks(r.xfer - r.size, r.size) = Ata!Blocks(r.xfer, r.size) - 1
            /\ Ata!Min(r.xfer, r.size) = r.size
  BY <1>1, <1>3, BlocksOf DEF Ata!Min
<1>10. \A t \in Ata!Timers : r.timers[t] \in 0..1
  BY <1>1 DEF Ata!Device
<1>11. Ata!Timers = {"intrq", "rdata", "wdone", "wmore", "pull", "push", "dmareq"}
  BY DEF Ata!Timers
<1>12. job.cmd \in Ata!Read <=> job.cmd \notin Ata!Write
  BY <1>1 DEF Ata!Read, Ata!Write
<1>13. /\ r.chunk <= 1 \/ (r.chunk > 1 /\ q = Ata!Step(r))
       /\ r.chunk <= 1 /\ r.xfer <= r.size =>
             q = IF r.out THEN Ata!Add(Ata!Last(r), "wdone") ELSE Ata!Last(r)
       /\ r.chunk <= 1 /\ r.xfer > r.size =>
             q = IF r.out THEN Ata!Add(Ata!NextBlock(r), "wmore")
                 ELSE IF r.timers["rdata"] > 0 THEN Ata!NextBlock(r)
                 ELSE Ata!Add(Ata!NextBlock(r), "rdata")
  BY <1>3, <1>5 DEF Ata!WriteData, Ata!ReadData
<1>14. ~job.lost => /\ r.chunk <= Ata!Min(r.xfer, r.size) /\ r.chunk > 0
                    /\ job.moved = job.n - r.xfer + Ata!Min(r.xfer, r.size) - r.chunk
  BY <1>1, <1>4 DEF Ata!PioKept
<1>15. ~job.lost => \A t \in Ata!Timers : r.timers[t] = 0
  BY <1>4 DEF Ata!Quiet
<1>16. r.chunk <= r.size
  BY DEF Ata!AtaInv
<1> HIDE DEF r
\* inside a block
<1>17. CASE r.chunk > 1
  <2>1. /\ q \in Ata!Device /\ q.chunk = r.chunk - 1 /\ q.xfer = r.xfer
        /\ q.size = r.size /\ q.out = r.out /\ q.sel = r.sel
        /\ q.status = r.status /\ q.timers = r.timers
    BY <1>1, <1>3, <1>13, <1>17, BlockSteps
  <2>2. Ata!TransferKept(q)'
    BY <1>3, <1>4, <1>7, <1>8, <2>1 DEF Ata!TransferKept, Ata!Quiet
  <2>3. ASSUME ~job.lost PROVE Ata!PioKept(q)'
    <3>1. (Ata!Announced(q))' = Ata!Announced(r)
      BY <1>7, <2>1 DEF Ata!Announced
    <3>2. /\ q.chunk <= Ata!Min(q.xfer, q.size) /\ q.chunk > 0
          /\ job'.moved = job'.n - q.xfer + Ata!Min(q.xfer, q.size) - q.chunk
      BY <1>1, <1>3, <1>7, <1>9, <1>14, <1>17, <2>1, <2>3
    <3>3. \A t \in Ata!Timers : q.timers[t] = 0
      BY <1>15, <2>1, <2>3
    <3> QED
      BY <1>1, <1>3, <1>4, <1>7, <1>11, <2>1, <2>3, <3>1, <3>2, <3>3 DEF Ata!PioKept, Ata!Quiet
  <2> QED
    BY <1>1, <1>3, <1>7, <1>16, <1>17, <2>1, <2>2, <2>3
\* the timer that carries the interrupt of a block
<1>18. ASSUME NEW s \in Ata!Device, NEW t \in {"wdone", "wmore", "rdata"}, s.timers = r.timers,
              r.timers[t] = 0, q = Ata!Add(s, t)
       PROVE  /\ q \in Ata!Device /\ SameRegisters(s, q) /\ q.timers[t] = 1
              /\ \A u \in Ata!Timers \ {t} : q.timers[u] = r.timers[u]
  BY <1>11, <1>18, AddIs
\* the end of the transfer
<1>19. CASE r.chunk <= 1 /\ r.xfer <= r.size
  <2> DEFINE s == Ata!Last(r)
  <2>1. /\ s \in Ata!Device /\ s.chunk = 0 /\ s.xfer = 0
        /\ s.size = r.size /\ s.out = r.out /\ s.sel = r.sel
        /\ s.status = r.status \ {"DRQ"} /\ s.timers = r.timers
    BY <1>1, <1>3, BlockSteps
  <2>2. q = IF r.out THEN Ata!Add(s, "wdone") ELSE s
    BY <1>13, <1>19
  <2> HIDE DEF s
  <2>3. r.out => r.timers["wdone"] = 0
    BY <1>3, <1>4 DEF Ata!Quiet
  <2>4. /\ q \in Ata!Device /\ SameRegisters(s, q)
        /\ r.out => q.timers["wdone"] = 1 /\ \A u \in Ata!Timers \ {"wdone"} : q.timers[u] = r.timers[u]
        /\ ~r.out => \A u \in Ata!Timers : q.timers[u] = r.timers[u]
    <3>1. CASE r.out
      BY <1>18, <2>1, <2>2, <2>3, <3>1
    <3>2. CASE ~r.out
      BY <2>1, <2>2, <3>2 DEF SameRegisters
    <3> QED
      BY <3>1, <3>2
  <2>5. /\ q.chunk = 0 /\ q.xfer = 0 /\ q.size = r.size /\ q.out = r.out /\ q.sel = r.sel
        /\ Ata!Min(q.xfer, q.size) = 0
    BY <1>3, <2>1, <2>4 DEF SameRegisters, Ata!Min
  <2>6. Ata!TransferKept(q)'
    BY <1>3, <1>7, <1>8, <2>5 DEF Ata!TransferKept
  <2>7. ASSUME ~job.lost PROVE Ata!PioKept(q)'
    <3>1. job'.moved = job'.n
      BY <1>1, <1>3, <1>7, <1>9, <1>14, <1>19, <2>7
    <3>2. \A t \in Ata!Timers : r.timers[t] = 0
      BY <1>15, <2>7
    <3>3. CASE job.cmd \in Ata!Read
      <4>1. ~r.out /\ \A t \in Ata!Timers : q.timers[t] = 0
        BY <1>3, <1>12, <2>4, <3>2, <3>3
      <4>2. job.ints = Ata!Blocks(job.n, r.size)
        BY <1>1, <1>4, <1>9, <1>12, <1>19, <2>7, <3>3 DEF Ata!Announced
      <4>3. Ata!Due' = Ata!Blocks(job.n, r.size)
        <5>1. job'.cmd # "WRITE_BUFFER"
          BY <1>7, <3>3 DEF Ata!Read
        <5>2. dev'[job'.on].size = r.size
          BY <1>6, <1>7, <2>5
        <5> QED
          BY <1>1, <1>7, <1>8, <1>9, <5>1, <5>2 DEF Ata!Due
      <4> QED
        BY <1>1, <1>7, <1>11, <2>5, <3>1, <3>3, <4>1, <4>2, <4>3 DEF Ata!PioKept, Ata!Quiet
    <3>4. CASE job.cmd \notin Ata!Read
      <4>1. q.timers["wdone"] = 1 /\ \A u \in Ata!Timers \ {"wdone"} : q.timers[u] = 0
        BY <1>3, <1>12, <2>4, <3>2, <3>4
      <4>2. (Ata!Announced(q))' = job.ints + 1
        BY <1>1, <1>4, <1>7, <1>9, <1>12, <1>19, <2>5, <2>7, <3>4 DEF Ata!Announced
      <4> QED
        BY <1>1, <1>7, <1>11, <2>5, <3>1, <3>4, <4>1, <4>2 DEF Ata!PioKept, Ata!Quiet
    <3> QED
      BY <3>3, <3>4
  <2> QED
    BY <1>1, <1>3, <1>7, <2>4, <2>5, <2>6, <2>7
\* the end of a block that is not the last
<1>20. CASE r.chunk <= 1 /\ r.xfer > r.size
  <2> DEFINE s == Ata!NextBlock(r)
             t == IF r.out THEN "wmore" ELSE "rdata"
  <2>1. /\ s \in Ata!Device /\ s.chunk = Ata!Min(r.xfer - r.size, r.size)
        /\ s.xfer = r.xfer - r.size /\ s.size = r.size /\ s.out = r.out /\ s.sel = r.sel
        /\ s.status = r.status /\ s.timers = r.timers
    BY <1>1, <1>3, <1>20, BlockSteps
  <2>2. q = IF r.out \/ r.timers["rdata"] = 0 THEN Ata!Add(s, t) ELSE s
    BY <1>10, <1>11, <1>13, <1>20
  <2> HIDE DEF s
  <2>3. r.out => r.timers["wmore"] = 0 /\ r.timers["wdone"] = 0
    BY <1>3, <1>4 DEF Ata!Quiet
  <2>4. t \in {"wmore", "rdata"} /\ (r.out \/ r.timers["rdata"] = 0 => r.timers[t] = 0)
    BY <2>3
  <2>5. /\ q \in Ata!Device /\ SameRegisters(s, q)
        /\ r.timers[t] = 0 => q.timers[t] = 1 /\ \A u \in Ata!Timers \ {t} : q.timers[u] = r.timers[u]
    <3>1. CASE r.out \/ r.timers["rdata"] = 0
      <4> HIDE DEF t
      <4> QED
        BY <1>18, <2>1, <2>2, <2>4, <3>1
    <3>2. CASE ~(r.out \/ r.timers["rdata"] = 0)
      BY <2>1, <2>2, <3>2 DEF SameRegisters
    <3> QED
      BY <3>1, <3>2
  <2>6. /\ q.xfer = r.xfer - r.size /\ q.xfer \in Nat \ {0} /\ q.size = r.size /\ q.out = r.out
        /\ q.sel = r.sel /\ q.status = r.status /\ q.chunk = Ata!Min(q.xfer, q.size)
        /\ Ata!Min(q.xfer, q.size) \in Nat \ {0} /\ q.chunk <= q.size
    BY <1>3, <1>20, <2>1, <2>5 DEF SameRegisters, Ata!Min
  <2>7. Ata!TransferKept(q)'
    BY <1>3, <1>7, <1>8, <2>6 DEF Ata!TransferKept
  <2>8. ASSUME ~job.lost PROVE Ata!PioKept(q)'
    <3>1. job'.moved = job'.n - q.xfer
      BY <1>1, <1>3, <1>7, <1>9, <1>14, <1>20, <2>6, <2>8
    <3>2. \A u \in Ata!Timers : r.timers[u] = 0
      BY <1>15, <2>8
    <3>3. q.timers[t] = 1 /\ \A u \in Ata!Timers \ {t} : q.timers[u] = 0
      BY <1>11, <2>4, <2>5, <3>2
    <3>4. (Ata!Announced(q))' = job.ints + 1
      BY <1>1, <1>4, <1>7, <1>9, <1>20, <2>6, <2>8 DEF Ata!Announced
    <3>5. CASE job.cmd \in Ata!Read
      <4>1. t = "rdata"
        BY <1>3, <1>12, <3>5
      <4> QED
        BY <1>1, <1>7, <1>11, <2>6, <3>1, <3>3, <3>4, <3>5, <4>1, <1>1 DEF Ata!PioKept, Ata!Quiet
    <3>6. CASE job.cmd \notin Ata!Read
      <4>1. t = "wmore"
        BY <1>3, <1>12, <3>6
      <4> QED
        BY <1>1, <1>7, <1>11, <2>6, <3>1, <3>3, <3>4, <3>6, <4>1 DEF Ata!PioKept, Ata!Quiet
    <3> QED
      BY <3>5, <3>6
  <2> QED
    BY <1>1, <1>7, <2>5, <2>6, <2>7, <2>8
<1> QED
  BY <1>3, <1>17, <1>19, <1>20

\* The host and its job are told apart from the device: what is to show of a
\* step that leaves the channel selected as it was.
LEMMA AtaInvFrom ==
    ASSUME Ata!AtaInv, NEW q \in Ata!Device, dev' = [d \in {0} |-> q],
           chan' \in [cur : {0, 1}, srst : BOOLEAN, line : BOOLEAN],
           job' \in Ata!Job, q.sel = chan'.cur, q.chunk <= q.size, chan'.srst => job'.lost,
           job'.seen <= job'.ints, job'.cmd = job.cmd, job'.refused = job.refused,
           Ata!TransferKept(q)', ~job'.lost => Ata!JobKept(q)'
    PROVE  Ata!AtaInv'
BY DEF Ata!AtaInv

\* A DMA transfer takes what the channel moves, and ends with one interrupt.
LEMMA DmaMoveKept ==
    ASSUME Ata!AtaInv, NEW m \in AtaCounts, Ata!DmaMove(m)
    PROVE  Ata!AtaInv'
<1> DEFINE r == dev[0]
           k == Ata!Min(m, r.xfer)
           y == [r EXCEPT !.xfer = @ - k]
<1>1. /\ r \in Ata!Device /\ r.sel = 0 /\ job \in Ata!Job /\ chan.cur = 0
      /\ chan \in [cur : {0, 1}, srst : BOOLEAN, line : BOOLEAN]
      /\ job.seen <= job.ints /\ (chan.srst => job.lost) /\ r.chunk <= r.size
      /\ job.seen \in Nat /\ job.ints \in Nat /\ job.n \in Nat /\ job.on = 0
      /\ Ata!TransferKept(r) /\ (~job.lost => Ata!JobKept(r))
      /\ job.cmd \in Ata!Dma /\ r.xfer > 0 /\ r.timers["dmareq"] = 0
      /\ dev = [d \in {0} |-> r]
      /\ job.refused => job.cmd \in Ata!Read \cup Ata!Write
  BY AtaTypes DEF Ata!AtaInv, Ata!DmaMove
<1>2. ~Ata!Pio /\ ~job.refused /\ job.cmd # "none"
  BY <1>1 DEF Ata!Pio, Ata!Read, Ata!Write, Ata!Dma
<1>3. r.xfer \in Nat /\ r.out \in BOOLEAN /\ job.moved \in Int
  BY <1>1 DEF Ata!Device, Ata!Job
<1>4. k \in Nat \ {0} /\ k <= r.xfer
  BY <1>1, <1>3, IdeSizes DEF Ata!Min
<1> HIDE DEF k
<1>5. /\ y \in Ata!Device /\ y.xfer = r.xfer - k /\ y.sel = 0 /\ y.timers = r.timers
      /\ y.chunk = r.chunk /\ y.size = r.size
  BY <1>1, <1>3, <1>4 DEF Ata!Device
<1>6. PICK q : q = IF y.xfer = 0
                   THEN Ata!Add([y EXCEPT !.dma = FALSE], IF r.out THEN "push" ELSE "pull")
                   ELSE Ata!Off(Ata!On(y, {"DRQ"}), {"BSY"})
  OBVIOUS
<1>7. dev' = [d \in {0} |-> q] /\ chan' = chan /\ job' = [job EXCEPT !.moved = @ + k]
  BY <1>1, <1>6 DEF Ata!DmaMove, k
<1>8. /\ job' \in Ata!Job /\ job'.cmd = job.cmd /\ job'.on = 0 /\ job'.n = job.n
      /\ job'.ints = job.ints /\ job'.seen = job.seen /\ job'.refused = job.refused
      /\ job'.lost = job.lost /\ job'.moved = job.moved + k
  BY <1>1, <1>3, <1>4, <1>7 DEF Ata!Job
<1>9. ~Ata!Pio' /\ job'.cmd \in Ata!Dma
  BY <1>1, <1>2, <1>8 DEF Ata!Pio
<1>10. Ata!Timers = {"intrq", "rdata", "wdone", "wmore", "pull", "push", "dmareq"}
  BY DEF Ata!Timers
<1>11. r.timers["pull"] = 0 /\ r.timers["push"] = 0
  BY <1>1 DEF Ata!TransferKept, Ata!Quiet
<1>12. ~job.lost => /\ job.moved = job.n - r.xfer /\ job.ints = 0
                    /\ Ata!Quiet(r, Ata!Timers \ {"pull", "push", "dmareq"})
  BY <1>1, <1>2 DEF Ata!JobKept, Ata!DmaKept
<1> SUFFICES /\ q \in Ata!Device /\ q.sel = 0 /\ q.chunk <= q.size
             /\ Ata!TransferKept(q)' /\ (~job.lost => Ata!DmaKept(q)')
  BY <1>1, <1>2, <1>7, <1>8, <1>9, AtaInvFrom DEF Ata!JobKept
<1> HIDE DEF r, y
<1>13. CASE y.xfer = 0
  <2> DEFINE x == [y EXCEPT !.dma = FALSE]
             t == IF r.out THEN "push" ELSE "pull"
  <2>1. /\ x \in Ata!Device /\ x.timers = r.timers /\ x.sel = 0 /\ x.chunk = r.chunk
        /\ x.size = r.size /\ x.xfer = 0
    BY <1>5, <1>13 DEF Ata!Device
  <2>2. q = Ata!Add(x, t)
    BY <1>6, <1>13
  <2>3. t \in {"push", "pull"} /\ r.timers[t] = 0
    BY <1>11
  <2> HIDE DEF x, t
  <2>4. /\ q \in Ata!Device /\ SameRegisters(x, q) /\ q.timers[t] = 1
        /\ \A u \in Ata!Timers \ {t} : q.timers[u] = r.timers[u]
    BY <1>10, <2>1, <2>2, <2>3, AddIs
  <2>5. q.xfer = 0 /\ q.sel = 0 /\ q.chunk <= q.size
    BY <1>1, <2>1, <2>4 DEF SameRegisters
  <2>6. Ata!TransferKept(q)'
    BY <1>2, <1>8, <1>9, <2>5 DEF Ata!TransferKept
  <2>7. ASSUME ~job.lost PROVE Ata!DmaKept(q)'
    <3>1. job'.moved = job'.n - q.xfer
      BY <1>1, <1>3, <1>4, <1>5, <1>8, <1>12, <1>13, <2>5, <2>7
    <3>2. q.timers["pull"] + q.timers["push"] = 1 /\ q.timers["dmareq"] = 0
      BY <1>1, <1>10, <1>11, <2>3, <2>4
    <3>3. Ata!Quiet(q, Ata!Timers \ {"pull", "push", "dmareq"})
      BY <1>12, <2>3, <2>4, <2>7 DEF Ata!Quiet
    <3>4. job'.ints + q.timers["pull"] + q.timers["push"] = 1
      <4>1. q.timers["pull"] \in Nat /\ q.timers["push"] \in Nat /\ job'.ints = 0
        BY <1>8, <1>10, <1>12, <2>4, <2>7 DEF Ata!Device
      <4> QED
        BY <3>2, <4>1
    <3> QED
      BY <2>5, <3>1, <3>2, <3>3, <3>4 DEF Ata!DmaKept, Ata!Quiet
  <2> QED
    BY <2>4, <2>5, <2>6, <2>7
<1>14. CASE y.xfer # 0
  <2> DEFINE x == Ata!On(y, {"DRQ"})
  <2>0. {"DRQ"} \in SUBSET Flags /\ {"BSY"} \in SUBSET Flags
    BY DEF Flags
  <2>1. x \in Ata!Device /\ SameButStatus(y, x)
    BY <1>5, <2>0, StatusIs
  <2>2. q = Ata!Off(x, {"BSY"})
    BY <1>6, <1>14
  <2> HIDE DEF x
  <2>3. q \in Ata!Device /\ SameButStatus(x, q)
    BY <2>0, <2>1, <2>2, StatusIs
  <2>4. /\ q.xfer = r.xfer - k /\ q.sel = 0 /\ q.chunk <= q.size /\ q.timers = r.timers
        /\ q.xfer > 0
    BY <1>1, <1>3, <1>4, <1>5, <1>14, <2>1, <2>3 DEF SameButStatus
  <2>5. Ata!TransferKept(q)'
    BY <1>2, <1>8, <1>9, <1>11, <2>4 DEF Ata!TransferKept, Ata!Quiet
  <2>6. ASSUME ~job.lost PROVE Ata!DmaKept(q)'
    <3>1. job'.moved = job'.n - q.xfer
      BY <1>1, <1>3, <1>4, <1>8, <1>12, <2>4, <2>6
    <3> QED
      BY <1>8, <1>12, <2>4, <2>6, <3>1 DEF Ata!DmaKept, Ata!Quiet
  <2> QED
    BY <2>3, <2>4, <2>5, <2>6
<1> QED
  BY <1>13, <1>14

\* A timer that runs out, or is dropped, disturbs no transfer: timers only go
\* down, and data is only asked for by the one that offers the next block.
LEMMA TransferFrom ==
    ASSUME NEW r \in Ata!Device, NEW q \in Ata!Device, Ata!TransferKept(r),
           q.xfer = r.xfer, q.chunk = r.chunk, q.size = r.size, q.out = r.out,
           \A t \in Ata!Timers : r.timers[t] = 0 => q.timers[t] = 0,
           job.refused /\ "DRQ" \notin r.status => "DRQ" \notin q.status,
           job'.cmd = job.cmd, job'.refused = job.refused
    PROVE  Ata!TransferKept(q)'
<1>1. /\ Ata!Quiet(r, {"wmore"}) => Ata!Quiet(q, {"wmore"})
      /\ Ata!Quiet(r, {"wmore", "wdone"}) => Ata!Quiet(q, {"wmore", "wdone"})
      /\ Ata!Quiet(r, {"pull", "push"}) => Ata!Quiet(q, {"pull", "push"})
  BY DEF Ata!Quiet, Ata!Timers
<1>2. Ata!Pio' = Ata!Pio
  BY DEF Ata!Pio
<1> QED
  BY <1>1, <1>2 DEF Ata!TransferKept

\* What the host keeps track of does not depend on the other registers.
LEMMA JobFrom ==
    ASSUME NEW r \in Ata!Device, NEW q \in Ata!Device, Ata!JobKept(r),
           dev[0] = r, dev'[0] = q, job.on = 0, job'.on = 0,
           q.xfer = r.xfer, q.chunk = r.chunk, q.size = r.size, q.timers = r.timers,
           "DRQ" \in r.status => "DRQ" \in q.status,
           job'.cmd = job.cmd, job'.refused = job.refused, job'.n = job.n,
           job'.moved = job.moved, job'.ints = job.ints
    PROVE  Ata!JobKept(q)'
<1>1. Ata!Pio' = Ata!Pio
  BY DEF Ata!Pio
<1>2. Ata!Due' = Ata!Due
  BY DEF Ata!Due
<1>3. Ata!Announced(q)' = Ata!Announced(r)
  BY DEF Ata!Announced
<1>4. \A S : Ata!Quiet(q, S) = Ata!Quiet(r, S)
  BY DEF Ata!Quiet
<1>5. Ata!PioKept(r) => Ata!PioKept(q)'
  BY <1>2, <1>3, <1>4 DEF Ata!PioKept
<1>6. Ata!DmaKept(r) => Ata!DmaKept(q)'
  BY <1>4 DEF Ata!DmaKept
<1> QED
  BY <1>1, <1>4, <1>5, <1>6 DEF Ata!JobKept

\* The registers: reading STATUS, DEVICE_HEAD, device control.
LEMMA RegistersKept ==
    ASSUME Ata!AtaInv,
           \/ Ata!ReadStatus
           \/ \E d \in {0, 1} : Ata!Select(d)
           \/ \E srst, ien \in BOOLEAN : Ata!WriteControl(srst, ien)
    PROVE  Ata!AtaInv'
<1> DEFINE r == dev[0]
<1>1. /\ r \in Ata!Device /\ r.sel = chan.cur /\ job \in Ata!Job
      /\ chan \in [cur : {0, 1}, srst : BOOLEAN, line : BOOLEAN]
      /\ job.seen <= job.ints /\ (chan.srst => job.lost) /\ r.chunk <= r.size
      /\ job.seen \in Nat /\ job.ints \in Nat /\ job.on = 0
      /\ Ata!TransferKept(r) /\ (~job.lost => Ata!JobKept(r))
      /\ dev = [d \in {0} |-> r]
  BY AtaTypes DEF Ata!AtaInv
<1>2. r.timers \in [Ata!Timers -> 0..1] /\ "intrq" \in Ata!Timers
  BY <1>1 DEF Ata!Device, Ata!Timers
<1>3. ASSUME Ata!ReadStatus PROVE Ata!AtaInv'
  <2>1. CASE Ata!Masked(chan.cur)
    <3>1. dev' = dev /\ chan' = chan /\ job' = job
      BY <1>3, <2>1 DEF Ata!ReadStatus, Ata!vars
    <3> QED
      BY <3>1 DEF Ata!AtaInv, Ata!TransferKept, Ata!JobKept, Ata!PioKept, Ata!DmaKept, Ata!Pio,
            Ata!Due, Ata!Announced
  <2>2. CASE ~Ata!Masked(chan.cur)
    <3> DEFINE q == [r EXCEPT !.timers["intrq"] = 0]
    <3>1. /\ chan.cur = 0 /\ chan' = [chan EXCEPT !.line = FALSE] /\ dev' = [d \in {0} |-> q]
          /\ job' = [job EXCEPT !.seen = job.ints, !.lost = @ \/ r.timers["intrq"] > 0]
      BY <1>1, <1>3, <2>2 DEF Ata!ReadStatus
    <3>2. /\ q \in Ata!Device /\ SameRegisters(r, q)
          /\ q.timers = [r.timers EXCEPT !["intrq"] = 0]
      BY <1>1, <1>2 DEF Ata!Device, SameRegisters
    <3>3. /\ \A t \in Ata!Timers : r.timers[t] = 0 => q.timers[t] = 0
          /\ r.timers["intrq"] = 0 => q.timers = r.timers
      BY <1>2, <3>2
    <3>4. (job.lost \/ r.timers["intrq"] > 0) \in BOOLEAN
      BY <1>1 DEF Ata!Job
    <3>5. ASSUME NEW l \in BOOLEAN, job' = [job EXCEPT !.seen = job.ints, !.lost = l]
          PROVE  /\ job' \in Ata!Job /\ job'.cmd = job.cmd /\ job'.refused = job.refused
                 /\ job'.n = job.n /\ job'.moved = job.moved /\ job'.ints = job.ints
                 /\ job'.seen = job.ints /\ job'.on = 0 /\ job'.lost = l
      BY <1>1, <3>5 DEF Ata!Job
    <3>6. /\ job' \in Ata!Job /\ job'.cmd = job.cmd /\ job'.refused = job.refused
          /\ job'.n = job.n /\ job'.moved = job.moved /\ job'.ints = job.ints
          /\ job'.seen = job.ints /\ job'.on = 0
          /\ job'.lost = (job.lost \/ r.timers["intrq"] > 0)
      BY <3>1, <3>4, <3>5
    <3>7. /\ chan' \in [cur : {0, 1}, srst : BOOLEAN, line : BOOLEAN]
          /\ chan'.cur = 0 /\ chan'.srst = chan.srst
      BY <1>1, <3>1
    <3> HIDE DEF q, r
    <3>8. PICK p : p = q
      OBVIOUS
    <3>9. Ata!TransferKept(p)'
      BY <1>1, <3>2, <3>3, <3>6, <3>8, TransferFrom DEF SameRegisters
    <3>10. ASSUME ~job'.lost PROVE Ata!JobKept(p)'
      <4>0. ~job.lost /\ ~(r.timers["intrq"] > 0)
        BY <3>6, <3>10, Zenon
      <4>1. r.timers["intrq"] = 0 /\ ~job.lost
        BY <1>2, <4>0
      <4>2. dev[0] = r /\ dev'[0] = p
        BY <3>1, <3>8 DEF r
      <4> QED
        BY <1>1, <3>2, <3>3, <3>6, <3>8, <4>1, <4>2, JobFrom DEF SameRegisters
    <3>11. chan'.srst => job'.lost
      BY <1>1, <3>6, <3>7, Zenon
    <3>12. /\ p \in Ata!Device /\ dev' = [d \in {0} |-> p] /\ p.sel = chan'.cur
           /\ p.chunk <= p.size /\ job'.seen <= job'.ints
      BY <1>1, <3>1, <3>2, <3>6, <3>7, <3>8 DEF SameRegisters
    <3> QED
      BY <3>6, <3>7, <3>9, <3>10, <3>11, <3>12, AtaInvFrom, Zenon
  <2> QED
    BY <2>1, <2>2
<1>4. ASSUME NEW d \in {0, 1}, Ata!Select(d) PROVE Ata!AtaInv'
  <2> DEFINE q == [r EXCEPT !.sel = d]
  <2>1. chan' = [chan EXCEPT !.cur = d] /\ dev' = [e \in {0} |-> q] /\ job' = job
    BY <1>1, <1>4 DEF Ata!Select
  <2>2. /\ q \in Ata!Device /\ q.sel = d /\ q.status = r.status /\ q.xfer = r.xfer
        /\ q.chunk = r.chunk /\ q.size = r.size /\ q.out = r.out /\ q.timers = r.timers
    BY <1>1 DEF Ata!Device
  <2>3. /\ chan' \in [cur : {0, 1}, srst : BOOLEAN, line : BOOLEAN]
        /\ chan'.cur = d /\ chan'.srst = chan.srst
    BY <1>1, <2>1
  <2> HIDE DEF q, r
  <2>4. PICK p : p = q
    OBVIOUS
  <2>5. Ata!TransferKept(p)'
    BY <1>1, <2>1, <2>2, <2>4, TransferFrom
  <2>6. ASSUME ~job.lost PROVE Ata!JobKept(p)'
    <3>1. dev[0] = r /\ dev'[0] = p
      BY <2>1, <2>4 DEF r
    <3> QED
      BY <1>1, <2>1, <2>2, <2>4, <2>6, <3>1, JobFrom
  <2> QED
    BY <1>1, <2>1, <2>2, <2>3, <2>4, <2>5, <2>6, AtaInvFrom
<1>5. ASSUME NEW srst \in BOOLEAN, NEW ien \in BOOLEAN, Ata!WriteControl(srst, ien)
      PROVE  Ata!AtaInv'
  <2> DEFINE x == [r EXCEPT !.ien = ien]
             q == IF srst = chan.srst THEN x
                  ELSE IF srst THEN Ata!On(x, {"BSY"})
                  ELSE [x EXCEPT !.status = {"DRDY", "DSC"}, !.sel = 0]
  <2>1. /\ dev' = [d \in {0} |-> q]
        /\ chan' = [chan EXCEPT !.srst = srst, !.cur = IF chan.srst /\ ~srst THEN 0 ELSE @]
        /\ job' = IF srst THEN [job EXCEPT !.lost = TRUE] ELSE job
    BY <1>1, <1>5 DEF Ata!WriteControl
  <2>2. /\ x \in Ata!Device /\ x.status = r.status /\ x.xfer = r.xfer /\ x.sel = r.sel
        /\ x.chunk = r.chunk /\ x.size = r.size /\ x.out = r.out /\ x.timers = r.timers
    BY <1>1 DEF Ata!Device
  <2> HIDE DEF x
  <2>3. /\ Ata!On(x, {"BSY"}) \in Ata!Device /\ SameButStatus(x, Ata!On(x, {"BSY"}))
        /\ Ata!On(x, {"BSY"}).status = x.status \cup {"BSY"}
    <3>1. {"BSY"} \in SUBSET Flags
      BY DEF Flags
    <3> QED
      BY <2>2, <3>1, StatusIs
  <2>4. LET y == [x EXCEPT !.status = {"DRDY", "DSC"}, !.sel = 0]
        IN  /\ y \in Ata!Device /\ y.status = {"DRDY", "DSC"} /\ y.sel = 0
            /\ y.xfer = x.xfer /\ y.chunk = x.chunk /\ y.size = x.size /\ y.out = x.out
            /\ y.timers = x.timers
    BY <2>2 DEF Ata!Device
  <2>5. /\ q \in Ata!Device /\ q.xfer = r.xfer /\ q.chunk = r.chunk /\ q.size = r.size
        /\ q.out = r.out /\ q.timers = r.timers
        /\ q.sel = IF chan.srst /\ ~srst THEN 0 ELSE r.sel
        /\ "DRQ" \notin r.status => "DRQ" \notin q.status
        /\ srst = chan.srst => q.status = r.status
    <3>1. CASE srst = chan.srst
      BY <1>1, <2>2, <3>1
    <3>2. CASE srst # chan.srst /\ srst
      BY <1>1, <2>2, <2>3, <3>2 DEF SameButStatus
    <3>3. CASE srst # chan.srst /\ ~srst
      BY <1>1, <2>2, <2>4, <3>3
    <3> QED
      BY <3>1, <3>2, <3>3
  <2>6. /\ chan' \in [cur : {0, 1}, srst : BOOLEAN, line : BOOLEAN]
        /\ chan'.cur = (IF chan.srst /\ ~srst THEN 0 ELSE chan.cur) /\ chan'.srst = srst
    BY <1>1, <2>1
  <2>7. /\ job' \in Ata!Job /\ job'.cmd = job.cmd /\ job'.refused = job.refused
        /\ job'.n = job.n /\ job'.moved = job.moved /\ job'.ints = job.ints
        /\ job'.seen = job.seen /\ job'.on = 0 /\ (job.lost \/ srst => job'.lost)
    BY <1>1, <2>1 DEF Ata!Job
  <2> HIDE DEF q, r
  <2>8. PICK p : p = q
    OBVIOUS
  <2>9. Ata!TransferKept(p)'
    BY <1>1, <2>5, <2>7, <2>8, TransferFrom
  <2>10. ASSUME ~job'.lost PROVE Ata!JobKept(p)'
    <3>1. dev[0] = r /\ dev'[0] = p
      BY <2>1, <2>8 DEF r
    <3>2. ~job.lost /\ srst = chan.srst
      BY <1>1, <2>7, <2>10
    <3> QED
      BY <1>1, <2>5, <2>7, <2>8, <3>1, <3>2, JobFrom
  <2> QED
    BY <1>1, <2>1, <2>5, <2>6, <2>7, <2>8, <2>9, <2>10, AtaInvFrom
<1> QED
  BY <1>3, <1>4, <1>5

\* What the callback of a timer does to the device whose timer ran out.
AfterTimer(y, t) ==
    CASE t = "wdone" -> Ata!Off(y, {"BSY"})
      [] t = "wmore" -> Ata!Off(Ata!On(y, {"DRQ"}), {"BSY"})
      [] t \in {"pull", "push"} -> Ata!Off(y, {"BSY", "DRQ"})
      [] t \in {"intrq", "rdata", "dmareq"} -> y

\* A timer that runs out: the registers stay but for the status, its count
\* goes down.
LEMMA ExpireIs ==
    ASSUME NEW r \in Ata!Device, NEW t \in Ata!Timers, r.timers[t] > 0, NEW q,
           q = AfterTimer([r EXCEPT !.timers[t] = @ - 1], t)
    PROVE  /\ q \in Ata!Device /\ q.xfer = r.xfer /\ q.chunk = r.chunk /\ q.size = r.size
           /\ q.out = r.out /\ q.sel = r.sel
           /\ t \notin {"pull", "push"} /\ "DRQ" \in r.status => "DRQ" \in q.status
           /\ t # "wmore" /\ "DRQ" \notin r.status => "DRQ" \notin q.status
           /\ r.timers[t] = 1 /\ q.timers[t] = 0
           /\ \A u \in Ata!Timers \ {t} : q.timers[u] = r.timers[u]
<1> DEFINE y == [r EXCEPT !.timers[t] = @ - 1]
           T == [r.timers EXCEPT ![t] = @ - 1]
<1>1. r.timers \in [Ata!Timers -> 0..1] /\ r.timers[t] = 1
  BY DEF Ata!Device
<1>2. T \in [Ata!Timers -> 0..1] /\ T[t] = 0 /\ \A u \in Ata!Timers \ {t} : T[u] = r.timers[u]
  BY <1>1
<1>3. y = [r EXCEPT !.timers = T]
  OBVIOUS
<1> HIDE DEF T
<1>4. /\ y \in Ata!Device /\ y.timers = T /\ y.status = r.status /\ y.xfer = r.xfer
      /\ y.chunk = r.chunk /\ y.size = r.size /\ y.out = r.out /\ y.sel = r.sel
  BY <1>2, <1>3 DEF Ata!Device
<1>5. /\ {"BSY"} \in SUBSET Flags /\ {"DRQ"} \in SUBSET Flags /\ {"BSY", "DRQ"} \in SUBSET Flags
  BY DEF Flags
<1>6. q = AfterTimer(y, t)
  OBVIOUS
<1> HIDE DEF y
<1>7. ASSUME q \in Ata!Device, SameButStatus(y, q),
             t \notin {"pull", "push"} /\ "DRQ" \in r.status => "DRQ" \in q.status,
             t # "wmore" /\ "DRQ" \notin r.status => "DRQ" \notin q.status
      PROVE  /\ q \in Ata!Device /\ q.xfer = r.xfer /\ q.chunk = r.chunk /\ q.size = r.size
             /\ q.out = r.out /\ q.sel = r.sel
             /\ t \notin {"pull", "push"} /\ "DRQ" \in r.status => "DRQ" \in q.status
             /\ t # "wmore" /\ "DRQ" \notin r.status => "DRQ" \notin q.status
             /\ r.timers[t] = 1 /\ q.timers[t] = 0
             /\ \A u \in Ata!Timers \ {t} : q.timers[u] = r.timers[u]
  BY <1>1, <1>2, <1>4, <1>7 DEF SameButStatus
<1>8. CASE t = "wdone"
  <2>1. q = Ata!Off(y, {"BSY"})
    BY <1>6, <1>8 DEF AfterTimer
  <2>2. q \in Ata!Device /\ SameButStatus(y, q) /\ q.status = y.status \ {"BSY"}
    <3>1. LET p == Ata!Off(y, {"BSY"})
          IN  p \in Ata!Device /\ SameButStatus(y, p) /\ p.status = y.status \ {"BSY"}
      BY <1>4, <1>5, StatusIs
    <3> QED
      BY <2>1, <3>1, Zenon
  <2> QED
    BY <1>4, <1>7, <2>2
<1>9. CASE t = "wmore"
  <2> DEFINE x == Ata!On(y, {"DRQ"})
  <2>1. q = Ata!Off(x, {"BSY"})
    BY <1>6, <1>9 DEF AfterTimer
  <2>2. x \in Ata!Device /\ SameButStatus(y, x) /\ x.status = y.status \cup {"DRQ"}
    BY <1>4, <1>5, StatusIs
  <2> HIDE DEF x
  <2>3. q \in Ata!Device /\ SameButStatus(x, q) /\ q.status = x.status \ {"BSY"}
    <3>1. LET p == Ata!Off(x, {"BSY"})
          IN  p \in Ata!Device /\ SameButStatus(x, p) /\ p.status = x.status \ {"BSY"}
      BY <1>5, <2>2, StatusIs
    <3> QED
      BY <2>1, <3>1, Zenon
  <2>4. SameButStatus(y, q)
    BY <2>2, <2>3 DEF SameButStatus
  <2> QED
    BY <1>4, <1>7, <1>9, <2>2, <2>3, <2>4
<1>10. CASE t \in {"pull", "push"}
  <2>1. q = Ata!Off(y, {"BSY", "DRQ"})
    BY <1>6, <1>10 DEF AfterTimer
  <2>2. q \in Ata!Device /\ SameButStatus(y, q) /\ q.status = y.status \ {"BSY", "DRQ"}
    <3>1. LET p == Ata!Off(y, {"BSY", "DRQ"})
          IN  p \in Ata!Device /\ SameButStatus(y, p) /\ p.status = y.status \ {"BSY", "DRQ"}
      BY <1>4, <1>5, StatusIs
    <3> QED
      BY <2>1, <3>1, Zenon
  <2> QED
    BY <1>4, <1>7, <1>10, <2>2
<1>11. CASE t \in {"intrq", "rdata", "dmareq"}
  <2>1. q = y
    BY <1>6, <1>11 DEF AfterTimer
  <2> QED
    BY <1>4, <1>7, <2>1 DEF SameButStatus
<1> QED
  BY <1>8, <1>9, <1>10, <1>11 DEF Ata!Timers

\* Every timer but that of the DMA request interrupts, or the host is masked
\* and loses track. The sum of interrupts and timers stays what it was.
LEMMA ExpireKept ==
    ASSUME Ata!AtaInv, NEW t \in Ata!Timers, Ata!Expire(0, t)
    PROVE  Ata!AtaInv'
<1> DEFINE r == dev[0]
<1>1. /\ r \in Ata!Device /\ r.sel = chan.cur /\ job \in Ata!Job
      /\ chan \in [cur : {0, 1}, srst : BOOLEAN, line : BOOLEAN]
      /\ job.seen <= job.ints /\ (chan.srst => job.lost) /\ r.chunk <= r.size
      /\ job.seen \in Nat /\ job.ints \in Nat /\ job.n \in Nat /\ job.on = 0
      /\ Ata!TransferKept(r) /\ (~job.lost => Ata!JobKept(r))
      /\ dev = [d \in {0} |-> r] /\ r.timers[t] > 0
      /\ \A u \in Ata!Timers : r.timers[u] \in 0..1
  BY AtaTypes DEF Ata!AtaInv, Ata!Expire
<1>2. r.xfer \in Nat /\ r.size \in Nat /\ r.chunk \in Nat
  BY <1>1 DEF Ata!Device
<1> DEFINE y == [r EXCEPT !.timers[t] = @ - 1]
<1>3. PICK q : q = AfterTimer(y, t)
  OBVIOUS
<1>12. dev' = [d \in {0} |-> q]
  <2>1. dev' = [dev EXCEPT ![0] = q]
    BY <1>3 DEF Ata!Expire, AfterTimer
  <2> QED
    BY <1>1, <2>1
<1> HIDE DEF r
<1>4. /\ q \in Ata!Device /\ q.xfer = r.xfer /\ q.chunk = r.chunk /\ q.size = r.size
      /\ q.out = r.out /\ q.sel = r.sel
      /\ t \notin {"pull", "push"} /\ "DRQ" \in r.status => "DRQ" \in q.status
      /\ t # "wmore" /\ "DRQ" \notin r.status => "DRQ" \notin q.status
      /\ r.timers[t] = 1 /\ q.timers[t] = 0
      /\ \A u \in Ata!Timers \ {t} : q.timers[u] = r.timers[u]
  BY <1>1, <1>3, ExpireIs
<1>5. /\ job' \in Ata!Job /\ job'.cmd = job.cmd /\ job'.refused = job.refused
      /\ job'.n = job.n /\ job'.moved = job.moved /\ job'.seen = job.seen /\ job'.on = 0
      /\ job'.ints \in Nat /\ job.ints <= job'.ints /\ (job.lost => job'.lost)
      /\ chan' \in [cur : {0, 1}, srst : BOOLEAN, line : BOOLEAN]
      /\ chan'.cur = chan.cur /\ chan'.srst = chan.srst
      /\ ~job'.lost => job'.ints = IF t = "dmareq" \/ job.cmd = "none" THEN job.ints ELSE job.ints + 1
  <2>1. CASE t = "dmareq"
    <3>1. job' = job /\ chan' = chan
      BY <2>1 DEF Ata!Expire
    <3>2. job.ints <= job.ints
      BY <1>1
    <3> QED
      BY <1>1, <2>1, <3>1, <3>2, Zenon
  <2>2. CASE t # "dmareq" /\ Ata!Masked(0)
    <3>1. chan' = chan /\ job' = [job EXCEPT !.lost = TRUE]
      BY <1>1, <2>2 DEF Ata!Expire, Ata!Interrupts
    <3>2. /\ job' \in Ata!Job /\ job'.cmd = job.cmd /\ job'.refused = job.refused
          /\ job'.n = job.n /\ job'.moved = job.moved /\ job'.seen = job.seen /\ job'.on = 0
          /\ job'.ints = job.ints /\ job'.lost
      BY <1>1, <3>1 DEF Ata!Job
    <3>3. job.ints <= job.ints
      BY <1>1
    <3> QED
      BY <1>1, <3>1, <3>2, <3>3, Zenon
  <2>3. CASE t # "dmareq" /\ ~Ata!Masked(0)
    <3>1. /\ chan' = [chan EXCEPT !.line = TRUE]
          /\ job' = IF job.cmd # "none" THEN [job EXCEPT !.ints = @ + 1] ELSE job
      BY <1>1, <2>3 DEF Ata!Expire, Ata!Interrupts
    <3>2. /\ chan' \in [cur : {0, 1}, srst : BOOLEAN, line : BOOLEAN]
          /\ chan'.cur = chan.cur /\ chan'.srst = chan.srst
      BY <1>1, <3>1
    <3>3. CASE job.cmd # "none"
      BY <1>1, <2>3, <3>1, <3>2, <3>3 DEF Ata!Job
    <3>4. CASE job.cmd = "none"
      BY <1>1, <2>3, <3>1, <3>2, <3>4 DEF Ata!Job
    <3> QED
      BY <3>3, <3>4
  <2> QED
    BY <2>1, <2>2, <2>3
<1>6. Ata!TransferKept(q)'
  <2>1. \A u \in Ata!Timers : r.timers[u] = 0 => q.timers[u] = 0
    BY <1>4
  <2>2. job.refused /\ "DRQ" \notin r.status => "DRQ" \notin q.status
    BY <1>1, <1>4 DEF Ata!TransferKept, Ata!Quiet
  <2> QED
    BY <1>1, <1>4, <1>5, <2>1, <2>2, TransferFrom
<1>7. Ata!Timers = {"intrq", "rdata", "wdone", "wmore", "pull", "push", "dmareq"}
  BY DEF Ata!Timers
<1>8. dev[0] = r /\ dev'[0] = q
  BY <1>12 DEF r
<1>9. /\ Ata!Pio' = Ata!Pio /\ Ata!Due' = Ata!Due
      /\ Ata!Announced(q)' = Ata!Announced(r)
  BY <1>1, <1>4, <1>5, <1>8 DEF Ata!Pio, Ata!Due, Ata!Announced
<1>10. ASSUME ~job'.lost PROVE Ata!JobKept(q)'
  <2>1. /\ ~job.lost /\ Ata!JobKept(r)
        /\ job'.ints = IF t = "dmareq" \/ job.cmd = "none" THEN job.ints ELSE job.ints + 1
    BY <1>1, <1>5, <1>10
  <2>2. CASE Ata!Pio
    <3>1. Ata!PioKept(r) /\ r.size > 0
      BY <1>1, <2>1, <2>2 DEF Ata!JobKept, Ata!TransferKept
    <3>2. t \in {"intrq", "rdata", "wdone", "wmore"}
      BY <1>4, <1>7, <3>1 DEF Ata!PioKept, Ata!Quiet
    <3>3. job'.ints = job.ints + 1
      BY <2>1, <2>2, <3>2 DEF Ata!Pio, Ata!Read, Ata!Write
    <3>4. /\ \A u \in Ata!Timers : q.timers[u] \in Nat /\ r.timers[u] \in Nat
          /\ Ata!Quiet(q, {"pull", "push", "dmareq"})
      BY <1>1, <1>4, <1>7, <3>1, <3>2 DEF Ata!PioKept, Ata!Quiet
    <3>5. Ata!Announced(r) \in Int
      BY <1>1, <1>2, <3>1, BlocksOf DEF Ata!Announced
    <3>6. /\ q.chunk <= Ata!Min(q.xfer, q.size)
          /\ q.xfer > 0 => q.chunk > 0 /\ "DRQ" \in q.status
          /\ job'.moved = job'.n - q.xfer + Ata!Min(q.xfer, q.size) - q.chunk
      BY <1>4, <1>5, <3>1, <3>2 DEF Ata!PioKept
    <3>7. CASE job.cmd \in Ata!Read
      <4>1. /\ Ata!Quiet(r, {"wdone", "wmore"})
            /\ r.xfer > 0 => job.ints + r.timers["intrq"] + r.timers["rdata"] = Ata!Announced(r)
            /\ r.xfer = 0 => job.ints + r.timers["intrq"] + r.timers["rdata"] = Ata!Due
        BY <3>1, <3>7 DEF Ata!PioKept
      <4>2. t \in {"intrq", "rdata"} /\ Ata!Quiet(q, {"wdone", "wmore"})
        BY <1>4, <1>7, <3>2, <4>1 DEF Ata!Quiet
      <4>3. job'.ints + q.timers["intrq"] + q.timers["rdata"]
               = job.ints + r.timers["intrq"] + r.timers["rdata"]
        BY <1>1, <1>4, <1>7, <3>3, <3>4, <4>2
      <4>4. ~(r.chunk < Ata!Min(r.xfer, r.size))
        <5>1. SUFFICES ASSUME r.chunk < Ata!Min(r.xfer, r.size) PROVE FALSE
          OBVIOUS
        <5>2. r.xfer > 0 /\ job.ints = Ata!Announced(r)
          BY <1>2, <3>1, <5>1 DEF Ata!PioKept, Ata!Min
        <5>3. r.timers["intrq"] + r.timers["rdata"] = 0
          BY <1>1, <1>7, <3>4, <4>1, <5>2
        <5> QED
          BY <1>4, <1>7, <3>4, <4>2, <5>3
      <4> QED
        BY <1>4, <1>5, <1>9, <2>2, <3>4, <3>6, <3>7, <4>1, <4>2, <4>3, <4>4
           DEF Ata!JobKept, Ata!PioKept
    <3>8. CASE job.cmd \notin Ata!Read
      <4>1. /\ Ata!Quiet(r, {"rdata"})
            /\ job.ints + r.timers["intrq"] + r.timers["wdone"] + r.timers["wmore"] = Ata!Announced(r)
        BY <3>1, <3>8 DEF Ata!PioKept
      <4>2. t \in {"intrq", "wdone", "wmore"} /\ Ata!Quiet(q, {"rdata"})
        BY <1>4, <1>7, <3>2, <4>1 DEF Ata!Quiet
      <4>3. job'.ints + q.timers["intrq"] + q.timers["wdone"] + q.timers["wmore"] = Ata!Announced(r)
        BY <1>1, <1>4, <1>7, <3>3, <3>4, <4>1, <4>2
      <4>4. ~(r.chunk < Ata!Min(r.xfer, r.size))
        <5>1. SUFFICES ASSUME r.chunk < Ata!Min(r.xfer, r.size) PROVE FALSE
          OBVIOUS
        <5>2. job.ints = Ata!Announced(r)
          BY <3>1, <5>1 DEF Ata!PioKept
        <5>3. r.timers["intrq"] + r.timers["wdone"] + r.timers["wmore"] = 0
          BY <1>1, <1>7, <3>4, <4>1, <5>2
        <5>4. r.timers["intrq"] = 0 /\ r.timers["wdone"] = 0 /\ r.timers["wmore"] = 0
          BY <1>7, <3>4, <5>3
        <5> QED
          BY <1>4, <4>2, <5>4
      <4> QED
        BY <1>4, <1>5, <1>9, <2>2, <3>4, <3>6, <3>8, <4>2, <4>3, <4>4
           DEF Ata!JobKept, Ata!PioKept
    <3> QED
      BY <3>7, <3>8
  <2>3. CASE ~Ata!Pio /\ job.cmd \in Ata!Dma
    <3>1. Ata!DmaKept(r)
      BY <2>1, <2>3 DEF Ata!JobKept
    <3>2. t \in {"pull", "push", "dmareq"}
      BY <1>4, <1>7, <3>1 DEF Ata!DmaKept, Ata!Quiet
    <3>3. Ata!Quiet(q, Ata!Timers \ {"pull", "push", "dmareq"})
      BY <1>4, <1>7, <3>1, <3>2 DEF Ata!DmaKept, Ata!Quiet
    <3>4. job'.moved = job'.n - q.xfer
      BY <1>4, <1>5, <3>1 DEF Ata!DmaKept
    <3>5. CASE r.xfer > 0
      <4>1. t = "dmareq" /\ job'.ints = 0
        BY <1>1, <1>4, <2>1, <2>3, <3>1, <3>2, <3>5 DEF Ata!DmaKept, Ata!TransferKept, Ata!Quiet
      <4> QED
        BY <1>4, <1>5, <1>9, <2>3, <3>3, <3>4, <3>5, <4>1 DEF Ata!JobKept, Ata!DmaKept
    <3>6. CASE r.xfer = 0
      <4>1. /\ r.timers["dmareq"] = 0 /\ job.ints + r.timers["pull"] + r.timers["push"] = 1
        BY <3>1, <3>6 DEF Ata!DmaKept, Ata!Quiet
      <4>2. t \in {"pull", "push"} /\ q.timers["dmareq"] = 0
        BY <1>4, <1>7, <3>2, <4>1
      <4>3. job'.ints = job.ints + 1
        BY <2>1, <2>3, <4>2 DEF Ata!Dma
      <4>4. job'.ints + q.timers["pull"] + q.timers["push"] = 1
        BY <1>1, <1>4, <1>7, <4>1, <4>2, <4>3
      <4> QED
        BY <1>4, <1>5, <1>9, <2>3, <3>3, <3>4, <3>6, <4>2, <4>4
           DEF Ata!JobKept, Ata!DmaKept, Ata!Quiet
    <3> QED
      BY <1>2, <3>5, <3>6
  <2>4. CASE ~Ata!Pio /\ job.cmd \notin Ata!Dma /\ job.cmd \in Ata!Silent \cup {"NOP", "none"}
    BY <1>4, <2>1, <2>4 DEF Ata!JobKept, Ata!Quiet
  <2>5. CASE ~Ata!Pio /\ job.cmd \notin Ata!Dma /\ job.cmd \notin Ata!Silent \cup {"NOP", "none"}
    <3>1. Ata!Quiet(r, Ata!Timers \ {"intrq"}) /\ job.ints + r.timers["intrq"] = 1
      BY <2>1, <2>5 DEF Ata!JobKept
    <3>2. t = "intrq"
      BY <1>4, <3>1 DEF Ata!Quiet
    <3>3. job'.ints = job.ints + 1
      BY <2>1, <2>5, <3>2
    <3>4. Ata!Quiet(q, Ata!Timers \ {"intrq"}) /\ job'.ints + q.timers["intrq"] = 1
      BY <1>1, <1>4, <3>1, <3>2, <3>3 DEF Ata!Quiet
    <3> QED
      BY <1>5, <1>9, <2>5, <3>4 DEF Ata!JobKept
  <2> QED
    BY <2>2, <2>3, <2>4, <2>5
<1>11. /\ q.sel = chan'.cur /\ q.chunk <= q.size /\ (chan'.srst => job'.lost)
       /\ job'.seen <= job'.ints
  BY <1>1, <1>4, <1>5
<1> QED
  BY <1>4, <1>5, <1>6, <1>10, <1>11, <1>12, AtaInvFrom, Zenon

LEMMA AtaStarts == Ata!Init => Ata!AtaInv
<1> SUFFICES ASSUME Ata!Init PROVE Ata!AtaInv
  OBVIOUS
<1>1. Ata!NewDevice \in Ata!Device
  BY DEF Ata!NewDevice, Ata!Device
<1>2. /\ dev = [d \in {0} |-> Ata!NewDevice] /\ job = Ata!NoJob
      /\ chan = [cur |-> 0, srst |-> FALSE, line |-> FALSE]
  BY DEF Ata!Init
<1>3. job \in Ata!Job /\ job.cmd = "none" /\ job.seen = 0 /\ job.ints = 0 /\ ~job.refused
  BY <1>2 DEF Ata!NoJob, Ata!Job
<1>4. /\ Ata!NewDevice.sel = 0 /\ Ata!NewDevice.chunk = 0 /\ Ata!NewDevice.size = 0
      /\ Ata!Quiet(Ata!NewDevice, Ata!Timers)
  BY DEF Ata!NewDevice, Ata!Quiet
<1>5. ~Ata!Pio /\ job.cmd \notin Ata!Dma
  BY <1>3 DEF Ata!Pio, Ata!Read, Ata!Write, Ata!Dma
<1>6. Ata!TransferKept(Ata!NewDevice) /\ Ata!JobKept(Ata!NewDevice)
  BY <1>3, <1>4, <1>5 DEF Ata!TransferKept, Ata!JobKept
<1> QED
  BY <1>1, <1>2, <1>3, <1>4, <1>6 DEF Ata!AtaInv

LEMMA AtaStep == Ata!AtaInv /\ Ata!Next => Ata!AtaInv'
<1> SUFFICES ASSUME Ata!AtaInv, Ata!Next PROVE Ata!AtaInv'
  OBVIOUS
<1>1. \/ \E c \in Ata!Cmd, n \in AtaCounts : Ata!Command(c, n)
      \/ Ata!Data
      \/ \E m \in AtaCounts : Ata!DmaMove(m)
      \/ \E t \in Ata!Timers : Ata!Expire(0, t)
      \/ Ata!ReadStatus
      \/ \E d \in {0, 1} : Ata!Select(d)
      \/ \E srst, ien \in BOOLEAN : Ata!WriteControl(srst, ien)
  BY DEF Ata!Next
<1> QED
  BY <1>1, CommandKept, DataKeeps, DmaMoveKept, ExpireKept, RegistersKept

LEMMA AtaStays == Ata!AtaInv /\ UNCHANGED <<dev, chan, job>> => Ata!AtaInv'
BY DEF Ata!AtaInv, Ata!TransferKept, Ata!JobKept, Ata!PioKept, Ata!DmaKept, Ata!Pio,
       Ata!Due, Ata!Announced

\* With no timer left and nothing to move, the sum is the interrupts alone.
LEMMA AtaPromises == Ata!AtaInv => Ata!TypeOK /\ Ata!InterruptPerBlock
<1> SUFFICES ASSUME Ata!AtaInv PROVE Ata!TypeOK /\ Ata!InterruptPerBlock
  OBVIOUS
<1> DEFINE r == dev[0]
<1>1. /\ r \in Ata!Device /\ r.chunk <= r.size /\ job \in Ata!Job /\ job.on = 0
      /\ job.ints \in Nat /\ job.n \in Nat
      /\ Ata!TransferKept(r) /\ (~job.lost => Ata!JobKept(r))
  BY AtaTypes DEF Ata!AtaInv
<1>2. Ata!TypeOK
  BY <1>1 DEF Ata!TypeOK, Ata!Device
<1>3. ASSUME job.cmd \in Ata!Read \cup Ata!Write \cup Ata!Dma, ~job.lost, ~job.refused, r.xfer = 0,
             \A t \in Ata!Timers : r.timers[t] = 0
      PROVE  job.moved = job.n /\ job.ints = Ata!Due
  <2>1. r.size \in Nat /\ r.chunk \in Nat /\ job.moved \in Int
    BY <1>1 DEF Ata!Device, Ata!Job
  <2>2. Ata!Timers = {"intrq", "rdata", "wdone", "wmore", "pull", "push", "dmareq"}
    BY DEF Ata!Timers
  <2> HIDE DEF r
  <2>3. CASE Ata!Pio
    <3>1. Ata!PioKept(r) /\ r.size \in Nat \ {0}
      BY <1>1, <1>3, <2>1, <2>3 DEF Ata!JobKept, Ata!TransferKept
    <3>2. Ata!Min(r.xfer, r.size) = 0
      BY <1>3, <3>1 DEF Ata!Min
    <3>3. job.moved = job.n
      BY <1>1, <1>3, <2>1, <3>1, <3>2 DEF Ata!PioKept
    <3>4. Ata!Blocks(r.xfer, r.size) = 0 /\ Ata!Blocks(job.n, r.size) \in Nat
      BY <1>1, <1>3, <3>1, BlocksOf
    <3>5. Ata!Due = Ata!Blocks(job.n, r.size) + (IF job.cmd = "WRITE_BUFFER" THEN 1 ELSE 0)
      BY <1>1, <2>3 DEF Ata!Due, Ata!Pio, r
    <3>6. CASE job.cmd \in Ata!Read
      BY <1>1, <1>3, <2>2, <3>1, <3>3, <3>4, <3>5, <3>6 DEF Ata!PioKept
    <3>7. CASE job.cmd \notin Ata!Read
      <4>1. job.cmd \in Ata!Write
        BY <2>3, <3>7 DEF Ata!Pio
      <4>2. Ata!Announced(r) = Ata!Due
        BY <3>4, <3>5, <4>1 DEF Ata!Announced, Ata!Single, Ata!Write
      <4> QED
        BY <1>1, <1>3, <2>2, <3>1, <3>3, <3>7, <4>2 DEF Ata!PioKept
    <3> QED
      BY <3>6, <3>7
  <2>4. CASE ~Ata!Pio
    <3>1. job.cmd \in Ata!Dma /\ Ata!DmaKept(r)
      BY <1>1, <1>3, <2>4 DEF Ata!JobKept, Ata!Pio
    <3>2. Ata!Due = 1
      BY <2>4 DEF Ata!Due, Ata!Pio
    <3> QED
      BY <1>1, <1>3, <2>1, <2>2, <3>1, <3>2 DEF Ata!DmaKept
  <2> QED
    BY <2>3, <2>4
<1> QED
  BY <1>1, <1>2, <1>3 DEF Ata!InterruptPerBlock

-----------------------------------------------------------------------------
(* Proofs: the packet protocol.                                             *)

\* The command a driver waits for, by its operation.
LEMMA PacketCommands ==
    ASSUME atapi \in Ata!Driver
    PROVE  /\ atapi.cmd = Ata!NoCommand \/ atapi.cmd.op = "PACKET" \/ atapi.cmd \in Ata!PktCommand
           /\ atapi.cmd = Ata!NoCommand <=> atapi.cmd.op = "none"
           /\ atapi.cmd \in Ata!PktCommand => atapi.cmd.n \in Nat
           /\ atapi.cmd.op \in {"none", "PACKET", "READ", "REPLY", "NONE", "CHECK",
                                "IDENTIFY", "REFUSED"}
<1>1. atapi.cmd \in Ata!PktCommand \cup {Ata!NoCommand, [op |-> "PACKET", n |-> 0]}
  BY DEF Ata!Driver
<1>2. ASSUME NEW c \in Ata!PktCommand
      PROVE  c.op \in {"READ", "REPLY", "NONE", "CHECK", "IDENTIFY", "REFUSED"} /\ c.n \in Nat
  BY IdeSizes DEF Ata!PktCommand
<1>3. Ata!NoCommand.op = "none" /\ [op |-> "PACKET", n |-> 0].op = "PACKET"
  BY DEF Ata!NoCommand
<1> QED
  BY <1>1, <1>2, <1>3

\* The device offers data, or shows its status, and interrupts.
LEMMA PhaseIs ==
    ASSUME NEW p \in Ata!PktDevice
    PROVE  /\ LET q == Ata!DataInPhase(p)
              IN  /\ q \in Ata!PktDevice /\ q.io /\ ~q.cod /\ q.line
                  /\ "DRQ" \in q.status /\ "BSY" \notin q.status
                  /\ q.xfer = p.xfer /\ q.remain = p.remain /\ q.expected = p.expected
           /\ LET q == Ata!PresentStatus(p)
              IN  /\ q \in Ata!PktDevice /\ q.io /\ q.cod /\ q.line
                  /\ q.status \cap {"BSY", "DRQ"} = {}
                  /\ q.xfer = p.xfer /\ q.remain = p.remain /\ q.expected = p.expected
<1>1. p.status \in SUBSET {"DRQ", "BSY", "ERR"}
  BY DEF Ata!PktDevice
<1> DEFINE S == (p.status \cup {"DRQ"}) \ {"BSY"}
           T == p.status \ {"DRQ", "BSY"}
<1>2. /\ S \in SUBSET {"DRQ", "BSY", "ERR"} /\ T \in SUBSET {"DRQ", "BSY", "ERR"}
      /\ "DRQ" \in S /\ "BSY" \notin S /\ T \cap {"BSY", "DRQ"} = {}
  BY <1>1
<1>3. Ata!DataInPhase(p) = [p EXCEPT !.status = S, !.io = TRUE, !.cod = FALSE, !.line = TRUE]
  BY DEF Ata!DataInPhase, Ata!PktOn, Ata!PktOff, Ata!PktDevice
<1>4. Ata!PresentStatus(p) = [p EXCEPT !.status = T, !.io = TRUE, !.cod = TRUE, !.line = TRUE]
  BY DEF Ata!PresentStatus, Ata!PktOff, Ata!PktDevice
<1> HIDE DEF S, T
<1>6. LET q == Ata!DataInPhase(p)
      IN  /\ q \in Ata!PktDevice /\ q.io /\ q.cod = FALSE /\ q.line /\ q.status = S
          /\ q.xfer = p.xfer /\ q.remain = p.remain /\ q.expected = p.expected
  BY <1>2, <1>3 DEF Ata!PktDevice
<1>7. LET q == Ata!PresentStatus(p)
      IN  /\ q \in Ata!PktDevice /\ q.io /\ q.cod = TRUE /\ q.line /\ q.status = T
          /\ q.xfer = p.xfer /\ q.remain = p.remain /\ q.expected = p.expected
  BY <1>2, <1>4 DEF Ata!PktDevice
<1> QED
  BY <1>2, <1>6, <1>7

LEMMA AtapiStarts == Ata!PktInit => Ata!AtapiInv
<1> SUFFICES ASSUME Ata!PktInit PROVE Ata!AtapiInv
  OBVIOUS
<1>1. /\ pkt.status = {} /\ pkt.remain = 0 /\ atapi.cmd = Ata!NoCommand /\ ~atapi.pio
      /\ atapi.cmd.op = "none"
  BY DEF Ata!PktInit, Ata!NoCommand
<1>2. pkt \in Ata!PktDevice
  BY DEF Ata!PktInit, Ata!PktDevice
<1>3. atapi \in Ata!Driver
  BY DEF Ata!PktInit, Ata!Driver
<1> QED
  BY <1>1, <1>2, <1>3 DEF Ata!AtapiInv

\* A read that shows its status has delivered everything, and a command that is
\* under way interrupts or offers data.
LEMMA AtapiPromises == Ata!AtapiInv => Ata!AtapiOK
<1> SUFFICES ASSUME Ata!AtapiInv PROVE Ata!AtapiOK
  OBVIOUS
<1>1. atapi \in Ata!Driver /\ pkt \in Ata!PktDevice
  BY DEF Ata!AtapiInv
<1>2. pkt.xfer \in Nat /\ pkt.remain \in Nat /\ atapi.got \in Nat
  BY <1>1 DEF Ata!Driver, Ata!PktDevice
<1>3. atapi.cmd.op = "READ" => atapi.cmd.n \in Nat
  BY <1>1, PacketCommands DEF Ata!NoCommand
<1>4. Ata!PacketExact
  BY <1>2, <1>3 DEF Ata!AtapiInv, Ata!PacketExact, Ata!Offered, Ata!Fetching, Ata!Ended
<1>5. Ata!NoSilentWait
  BY <1>1, PacketCommands DEF Ata!AtapiInv, Ata!NoSilentWait, Ata!Offered, Ata!Fetching, Ata!Ended
<1> QED
  BY <1>4, <1>5 DEF Ata!AtapiOK

\* A command under way that is not read to its end leaves the counts alone.
LEMMA PacketKept ==
    ASSUME Ata!AtapiInv, Ata!Packet
    PROVE  Ata!AtapiInv'
<1>1. /\ pkt \in Ata!PktDevice /\ atapi \in Ata!Driver /\ atapi.cmd = Ata!NoCommand
      /\ atapi.cmd.op = "none" /\ ~atapi.pio
  BY PacketCommands DEF Ata!AtapiInv, Ata!Packet
<1>2. /\ pkt' \in Ata!PktDevice /\ pkt'.cod /\ "DRQ" \in pkt'.status /\ "BSY" \notin pkt'.status
      /\ pkt'.remain = pkt.remain
  <2> DEFINE S == (pkt.status \cup {"DRQ"}) \ {"ERR", "BSY"}
  <2>1. pkt' = [pkt EXCEPT !.status = S, !.io = FALSE, !.cod = TRUE]
    BY <1>1 DEF Ata!Packet, Ata!PktOn, Ata!PktOff, Ata!PktDevice
  <2>2. S \in SUBSET {"DRQ", "BSY", "ERR"} /\ "DRQ" \in S /\ "BSY" \notin S
    BY <1>1 DEF Ata!PktDevice
  <2> HIDE DEF S
  <2> QED
    BY <1>1, <2>1, <2>2 DEF Ata!PktDevice
<1>3. /\ atapi' \in Ata!Driver /\ atapi'.cmd = [op |-> "PACKET", n |-> 0] /\ atapi'.got = 0
      /\ atapi'.pio = atapi.pio /\ atapi'.torn = atapi.torn
  BY <1>1 DEF Ata!Packet, Ata!Driver
<1>4. atapi'.cmd.op = "PACKET" /\ atapi'.cmd # Ata!NoCommand
  BY <1>3 DEF Ata!NoCommand
<1>5. ~atapi.torn => pkt.remain = 0
  BY <1>1 DEF Ata!AtapiInv
<1> QED
  BY <1>1, <1>2, <1>3, <1>4, <1>5 DEF Ata!AtapiInv

\* IDENTIFY PACKET DEVICE offers its data, an unknown command is refused.
LEMMA OtherCommandKept ==
    ASSUME Ata!AtapiInv, NEW c \in Ata!PktCommand, Ata!OtherCommand(c)
    PROVE  Ata!AtapiInv'
<1>1. /\ pkt \in Ata!PktDevice /\ atapi \in Ata!Driver /\ atapi.cmd = Ata!NoCommand
      /\ atapi.cmd.op = "none" /\ ~atapi.pio /\ pkt.status \cap {"BSY", "DRQ"} = {}
      /\ c.op \in {"IDENTIFY", "REFUSED"} /\ (~atapi.torn => pkt.remain = 0)
  BY PacketCommands DEF Ata!AtapiInv, Ata!OtherCommand
<1>2. /\ atapi' \in Ata!Driver /\ atapi'.cmd = c /\ atapi'.pio = atapi.pio
      /\ atapi'.torn = atapi.torn
  BY <1>1 DEF Ata!OtherCommand, Ata!Driver
<1>3. c.op \in {"IDENTIFY", "REFUSED"} /\ c # Ata!NoCommand
  BY <1>1 DEF Ata!NoCommand
<1> DEFINE p == Ata!PktOn(Ata!PktOff(pkt, {"ERR"}), {"BSY"})
           S == (pkt.status \ {"ERR"}) \cup {"BSY"}
<1>4. p = [pkt EXCEPT !.status = S] /\ S \in SUBSET {"DRQ", "BSY", "ERR"} /\ "DRQ" \notin S
  BY <1>1 DEF Ata!PktOn, Ata!PktOff, Ata!PktDevice
<1>5. pkt' = IF c.op = "IDENTIFY"
             THEN Ata!DataInPhase([p EXCEPT !.xfer = 1, !.expected = FALSE])
             ELSE [Ata!PktOff(Ata!PktOn(p, {"ERR"}), {"BSY"}) EXCEPT !.line = TRUE]
  BY DEF Ata!OtherCommand
<1> HIDE DEF S, p
<1>6. p \in Ata!PktDevice /\ p.remain = pkt.remain /\ p.status = S
  BY <1>1, <1>4 DEF Ata!PktDevice
<1>7. CASE c.op = "IDENTIFY"
  <2> DEFINE x == [p EXCEPT !.xfer = 1, !.expected = FALSE]
  <2>1. x \in Ata!PktDevice /\ x.xfer = 1 /\ x.remain = p.remain
    BY <1>6 DEF Ata!PktDevice
  <2> HIDE DEF x
  <2>2. pkt' = Ata!DataInPhase(x)
    BY <1>5, <1>7 DEF x
  <2>3. /\ pkt' \in Ata!PktDevice /\ pkt'.io /\ ~pkt'.cod /\ pkt'.line
        /\ "DRQ" \in pkt'.status /\ "BSY" \notin pkt'.status
        /\ pkt'.xfer = 1 /\ pkt'.remain = pkt.remain
    BY <1>6, <2>1, <2>2, PhaseIs
  <2>4. Ata!Offered'
    BY <2>3 DEF Ata!Offered
  <2> QED
    BY <1>1, <1>2, <1>3, <1>7, <2>3, <2>4 DEF Ata!AtapiInv
<1>8. CASE c.op = "REFUSED"
  <2> DEFINE T == (S \cup {"ERR"}) \ {"BSY"}
  <2>1. pkt' = [p EXCEPT !.status = T, !.line = TRUE]
    BY <1>5, <1>6, <1>8 DEF Ata!PktOn, Ata!PktOff, Ata!PktDevice
  <2>2. T \in SUBSET {"DRQ", "BSY", "ERR"} /\ T \cap {"BSY", "DRQ"} = {}
    BY <1>4
  <2> HIDE DEF T
  <2>3. /\ pkt' \in Ata!PktDevice /\ pkt'.line /\ pkt'.status = T /\ pkt'.remain = pkt.remain
    BY <1>6, <2>1, <2>2 DEF Ata!PktDevice
  <2> QED
    BY <1>1, <1>2, <1>3, <1>8, <2>2, <2>3 DEF Ata!AtapiInv
<1> QED
  BY <1>3, <1>7, <1>8

\* A packet with data starts with its first piece; the others end at once.
LEMMA SendPacketKept ==
    ASSUME Ata!AtapiInv, NEW c \in Ata!PktCommand, Ata!SendPacket(c)
    PROVE  Ata!AtapiInv'
<1>1. /\ pkt \in Ata!PktDevice /\ atapi \in Ata!Driver /\ ~atapi.pio /\ atapi.got = 0
      /\ c.op \in {"READ", "REPLY", "NONE", "CHECK"} /\ (~atapi.torn => pkt.remain = 0)
      /\ pkt' = Ata!PerformPacket(pkt, c)
  BY DEF Ata!AtapiInv, Ata!SendPacket
<1>2. /\ atapi' \in Ata!Driver /\ atapi'.cmd = c /\ ~atapi'.pio /\ atapi'.got = 0
      /\ atapi'.torn = (atapi.torn /\ c.op # "READ")
  <2>1. ASSUME NEW b \in BOOLEAN, atapi' = [atapi EXCEPT !.cmd = c, !.torn = b]
        PROVE  /\ atapi' \in Ata!Driver /\ atapi'.cmd = c /\ atapi'.pio = atapi.pio
               /\ atapi'.got = atapi.got /\ atapi'.torn = b
    BY <1>1, <2>1 DEF Ata!Driver
  <2>2. (atapi.torn /\ c.op # "READ") \in BOOLEAN
    OBVIOUS
  <2> QED
    BY <1>1, <2>1, <2>2 DEF Ata!SendPacket
<1>3. c.op = "READ" => c.n \in Nat \ {0}
  BY IdeSizes DEF Ata!PktCommand
<1>4. c # Ata!NoCommand
  BY <1>1 DEF Ata!NoCommand
<1> DEFINE x == Ata!PktOn(Ata!PktOff(pkt, {"DRQ"}), {"BSY"})
           q == Ata!SetStatus(x, TRUE)
<1>5. x \in Ata!PktDevice /\ x.remain = pkt.remain
  <2> DEFINE S == (pkt.status \ {"DRQ"}) \cup {"BSY"}
  <2>1. x = [pkt EXCEPT !.status = S] /\ S \in SUBSET {"DRQ", "BSY", "ERR"}
    BY <1>1 DEF Ata!PktOn, Ata!PktOff, Ata!PktDevice
  <2> HIDE DEF S, x
  <2> QED
    BY <1>1, <2>1 DEF Ata!PktDevice
<1> HIDE DEF x
<1>6. ASSUME NEW y \in Ata!PktDevice, NEW good \in BOOLEAN
      PROVE  LET z == Ata!SetStatus(y, good)
             IN  z \in Ata!PktDevice /\ z.expected /\ z.remain = y.remain
  <2> DEFINE S == IF good THEN y.status \ {"ERR"} ELSE y.status \cup {"ERR"}
  <2>1. /\ Ata!SetStatus(y, good) = [y EXCEPT !.status = S, !.expected = TRUE]
        /\ S \in SUBSET {"DRQ", "BSY", "ERR"}
    BY DEF Ata!SetStatus, Ata!PktOn, Ata!PktOff, Ata!PktDevice
  <2> HIDE DEF S
  <2> QED
    BY <2>1 DEF Ata!PktDevice
<1>7. q \in Ata!PktDevice /\ q.expected /\ q.remain = pkt.remain
  BY <1>5, <1>6
<1>8. Ata!PerformPacket(pkt, c) =
        CASE c.op = "READ" ->
               Ata!DataInPhase([q EXCEPT !.xfer = Ata!Least(c.n, CacheUnits),
                                         !.remain = c.n - Ata!Least(c.n, CacheUnits)])
          [] c.op = "REPLY" -> Ata!DataInPhase([q EXCEPT !.xfer = 1])
          [] c.op = "NONE" -> Ata!PresentStatus(q)
          [] c.op = "CHECK" -> Ata!PresentStatus(Ata!SetStatus(q, FALSE))
  BY DEF Ata!PerformPacket, x
<1> HIDE DEF q
<1>9. CASE c.op = "READ"
  <2> DEFINE k == Ata!Least(c.n, CacheUnits)
             y == [q EXCEPT !.xfer = k, !.remain = c.n - k]
  <2>1. k \in Nat \ {0} /\ c.n - k \in Nat
    BY <1>3, <1>9, IdeSizes DEF Ata!Least
  <2> HIDE DEF k
  <2>2. y \in Ata!PktDevice /\ y.xfer = k /\ y.remain = c.n - k /\ y.expected
    BY <1>7, <2>1 DEF Ata!PktDevice
  <2> HIDE DEF y
  <2>3. pkt' = Ata!DataInPhase(y)
    BY <1>1, <1>8, <1>9 DEF y, k
  <2>4. /\ pkt' \in Ata!PktDevice /\ pkt'.io /\ ~pkt'.cod /\ pkt'.line
        /\ "DRQ" \in pkt'.status /\ "BSY" \notin pkt'.status
        /\ pkt'.xfer = k /\ pkt'.remain = c.n - k /\ pkt'.expected
    BY <2>2, <2>3, PhaseIs
  <2>5. Ata!Offered'
    BY <2>1, <2>4 DEF Ata!Offered
  <2>6. ~atapi'.torn /\ atapi'.got + pkt'.xfer + pkt'.remain = atapi'.cmd.n
    <3>1. ~atapi'.torn
      BY <1>2, <1>9, Zenon
    <3>2. atapi'.got + pkt'.xfer + pkt'.remain = c.n
      BY <1>2, <1>3, <1>9, <2>1, <2>4
    <3> QED
      BY <1>2, <3>1, <3>2
  <2> QED
    BY <1>2, <1>4, <1>9, <2>4, <2>5, <2>6 DEF Ata!AtapiInv
<1>10. CASE c.op = "REPLY"
  <2> DEFINE y == [q EXCEPT !.xfer = 1]
  <2>1. y \in Ata!PktDevice /\ y.xfer = 1 /\ y.remain = pkt.remain /\ y.expected
    BY <1>7 DEF Ata!PktDevice
  <2> HIDE DEF y
  <2>2. pkt' = Ata!DataInPhase(y)
    BY <1>1, <1>8, <1>10 DEF y
  <2>3. /\ pkt' \in Ata!PktDevice /\ pkt'.io /\ ~pkt'.cod /\ pkt'.line
        /\ "DRQ" \in pkt'.status /\ "BSY" \notin pkt'.status
        /\ pkt'.xfer = 1 /\ pkt'.remain = pkt.remain /\ pkt'.expected
    BY <2>1, <2>2, PhaseIs
  <2>4. Ata!Offered'
    BY <2>3 DEF Ata!Offered
  <2> QED
    BY <1>1, <1>2, <1>4, <1>10, <2>3, <2>4 DEF Ata!AtapiInv
<1>11. CASE c.op \in {"NONE", "CHECK"}
  <2>1. PICK y \in Ata!PktDevice : y.remain = pkt.remain /\ pkt' = Ata!PresentStatus(y)
    BY <1>1, <1>6, <1>7, <1>8, <1>11
  <2>2. /\ pkt' \in Ata!PktDevice /\ pkt'.line /\ pkt'.status \cap {"BSY", "DRQ"} = {}
        /\ pkt'.remain = pkt.remain
    BY <2>1, PhaseIs
  <2> QED
    BY <1>1, <1>2, <1>4, <1>11, <2>2 DEF Ata!AtapiInv
<1> QED
  BY <1>1, <1>9, <1>10, <1>11

\* A word is read: the piece goes on, more is fetched, or the status follows.
LEMMA PktReadDataKept ==
    ASSUME Ata!AtapiInv, Ata!PktReadData
    PROVE  Ata!AtapiInv'
<1>1. /\ pkt \in Ata!PktDevice /\ atapi \in Ata!Driver /\ atapi.pio /\ pkt.xfer > 0
      /\ "BSY" \notin pkt.status
      /\ atapi.cmd # Ata!NoCommand /\ atapi.cmd.op \in {"READ", "REPLY", "IDENTIFY"}
  BY PacketCommands DEF Ata!AtapiInv, Ata!PktReadData
<1>2. pkt.xfer \in Nat \ {0} /\ pkt.remain \in Nat /\ atapi.got \in Nat /\ atapi.cmd.n \in Nat
  BY <1>1, PacketCommands DEF Ata!PktDevice, Ata!Driver, Ata!NoCommand
<1> DEFINE ends == atapi.cmd.op = "IDENTIFY" /\ pkt.xfer = 1 /\ pkt.remain = 0
           q == [pkt EXCEPT !.xfer = @ - 1]
<1>3. /\ atapi' \in Ata!Driver /\ atapi'.got = atapi.got + 1 /\ atapi'.pio = (pkt.xfer > 1)
      /\ atapi'.torn = atapi.torn
      /\ atapi'.cmd = IF ends THEN Ata!NoCommand ELSE atapi.cmd
  <2>1. ASSUME NEW b \in BOOLEAN,
               NEW c \in Ata!PktCommand \cup {Ata!NoCommand, [op |-> "PACKET", n |-> 0]},
               NEW g \in Nat, atapi' = [atapi EXCEPT !.got = g, !.pio = b, !.cmd = c]
        PROVE  /\ atapi' \in Ata!Driver /\ atapi'.got = g /\ atapi'.pio = b
               /\ atapi'.torn = atapi.torn /\ atapi'.cmd = c
    BY <1>1, <2>1 DEF Ata!Driver
  <2>2. (pkt.xfer > 1) \in BOOLEAN /\ atapi.got + 1 \in Nat
    BY <1>2
  <2>3. (IF ends THEN Ata!NoCommand ELSE atapi.cmd)
           \in Ata!PktCommand \cup {Ata!NoCommand, [op |-> "PACKET", n |-> 0]}
    BY <1>1 DEF Ata!Driver
  <2> QED
    BY <2>1, <2>2, <2>3 DEF Ata!PktReadData
<1>4. /\ q \in Ata!PktDevice /\ q.xfer = pkt.xfer - 1 /\ q.remain = pkt.remain
      /\ q.expected = pkt.expected /\ q.status = pkt.status /\ q.io = pkt.io /\ q.cod = pkt.cod
      /\ q.line = pkt.line
  BY <1>1, <1>2 DEF Ata!PktDevice
<1>5. pkt' = IF q.xfer = 0 THEN Ata!PieceRead(q) ELSE q
  BY DEF Ata!PktReadData
<1> HIDE DEF q
\* what was offered
<1>6. /\ atapi.cmd.op = "READ" => /\ Ata!Offered /\ ~atapi.torn /\ pkt.expected
                                  /\ atapi.got + pkt.xfer + pkt.remain = atapi.cmd.n
      /\ atapi.cmd.op \in {"REPLY", "IDENTIFY"} /\ ~atapi.torn
           => /\ Ata!Offered /\ pkt.remain = 0
              /\ atapi.cmd.op = "REPLY" => pkt.expected
  BY <1>1 DEF Ata!AtapiInv, Ata!Fetching, Ata!Ended
<1>7. CASE pkt.xfer > 1
  <2>1. pkt' = q /\ ~ends /\ q.xfer > 0
    BY <1>2, <1>4, <1>5, <1>7
  <2>2. Ata!Offered => Ata!Offered'
    BY <1>3, <1>4, <1>7, <2>1 DEF Ata!Offered
  <2>3. atapi'.cmd = atapi.cmd
    BY <1>3, <2>1
  <2>4. atapi.cmd.op = "READ" => atapi'.got + pkt'.xfer + pkt'.remain = atapi'.cmd.n
    BY <1>2, <1>3, <1>4, <1>6, <2>1, <2>3
  <2> HIDE DEF ends
  <2> QED
    BY <1>1, <1>3, <1>4, <1>6, <2>1, <2>2, <2>3, <2>4 DEF Ata!AtapiInv
<1>8. CASE pkt.xfer = 1
  <2> DEFINE x == Ata!PktOff(q, {"DRQ"})
             S == q.status \ {"DRQ"}
  <2>1. x = [q EXCEPT !.status = S] /\ S \in SUBSET {"DRQ", "BSY", "ERR"} /\ S \cap {"BSY", "DRQ"} = {}
    BY <1>1, <1>4 DEF Ata!PktOff, Ata!PktDevice
  <2>2. /\ pkt' = IF q.remain > 0 THEN [Ata!PktOn(x, {"BSY"}) EXCEPT !.line = TRUE]
                  ELSE IF q.expected THEN Ata!PresentStatus(x) ELSE x
        /\ q.xfer = 0 /\ ~atapi'.pio
    <3>1. q.xfer = 0 /\ ~(pkt.xfer > 1)
      BY <1>2, <1>4, <1>8
    <3>2. pkt' = Ata!PieceRead(q)
      BY <1>5, <3>1
    <3>3. ~atapi'.pio
      BY <1>3, <3>1, Zenon
    <3> QED
      BY <3>1, <3>2, <3>3 DEF Ata!PieceRead
  <2> HIDE DEF S, x
  <2>3. /\ x \in Ata!PktDevice /\ x.status = S /\ x.xfer = 0 /\ x.remain = pkt.remain
        /\ x.expected = pkt.expected /\ x.cod = pkt.cod /\ x.line = pkt.line
    BY <1>4, <2>1, <2>2 DEF Ata!PktDevice
  <2>4. CASE pkt.remain > 0
    <3> DEFINE T == S \cup {"BSY"}
    <3>1. pkt' = [x EXCEPT !.status = T, !.line = TRUE]
      BY <1>4, <2>2, <2>3, <2>4 DEF Ata!PktOn, Ata!PktDevice
    <3>2. T \in SUBSET {"DRQ", "BSY", "ERR"} /\ "BSY" \in T /\ "DRQ" \notin T
      BY <2>1
    <3> HIDE DEF T
    <3>3. /\ pkt' \in Ata!PktDevice /\ pkt'.status = T /\ pkt'.line /\ pkt'.xfer = 0
          /\ pkt'.remain = pkt.remain /\ pkt'.cod = pkt.cod /\ pkt'.expected = pkt.expected
      BY <2>3, <3>1, <3>2 DEF Ata!PktDevice
    <3>4. ~ends /\ atapi'.cmd = atapi.cmd
      BY <1>3, <2>4
    <3>5. CASE atapi.cmd.op = "READ"
      <4>1. Ata!Fetching'
        BY <1>6, <2>4, <3>2, <3>3, <3>5 DEF Ata!Fetching, Ata!Offered
      <4>2. atapi'.got + pkt'.xfer + pkt'.remain = atapi'.cmd.n
        BY <1>2, <1>3, <1>6, <1>8, <3>3, <3>4, <3>5
      <4> QED
        BY <1>1, <1>3, <1>6, <2>2, <2>4, <3>2, <3>3, <3>4, <3>5, <4>1, <4>2 DEF Ata!AtapiInv
    <3>6. CASE atapi.cmd.op \in {"REPLY", "IDENTIFY"}
      <4>1. atapi.torn
        BY <1>2, <1>6, <2>4, <3>6
      <4> QED
        BY <1>1, <1>3, <2>2, <2>4, <3>2, <3>3, <3>4, <3>6, <4>1 DEF Ata!AtapiInv
    <3> QED
      BY <1>1, <3>5, <3>6
  <2>5. CASE pkt.remain = 0
    <3>1. pkt' = IF pkt.expected THEN Ata!PresentStatus(x) ELSE x
      BY <1>2, <1>4, <2>2, <2>5
    <3>2. /\ pkt' \in Ata!PktDevice /\ pkt'.status \cap {"BSY", "DRQ"} = {} /\ pkt'.xfer = 0
          /\ pkt'.remain = 0 /\ (pkt.expected => Ata!Ended') /\ pkt'.expected = pkt.expected
      <4>1. CASE pkt.expected
        BY <2>3, <2>5, <3>1, <4>1, PhaseIs DEF Ata!Ended
      <4>2. CASE ~pkt.expected
        BY <2>1, <2>3, <2>5, <3>1, <4>2
      <4> QED
        BY <4>1, <4>2
    <3>3. Ata!NoCommand.op = "none"
      BY DEF Ata!NoCommand
    <3>4. CASE atapi.cmd.op = "READ"
      <4>1. atapi'.cmd = atapi.cmd /\ Ata!Ended'
        BY <1>3, <1>6, <3>2, <3>4
      <4>2. atapi'.got + pkt'.xfer + pkt'.remain = atapi'.cmd.n
        BY <1>2, <1>3, <1>6, <1>8, <2>5, <3>2, <3>4, <4>1
      <4> QED
        BY <1>1, <1>3, <1>6, <2>2, <3>2, <3>4, <4>1, <4>2 DEF Ata!AtapiInv
    <3>5. CASE atapi.cmd.op = "REPLY"
      <4>1. atapi'.cmd = atapi.cmd /\ (~atapi'.torn => Ata!Ended')
        BY <1>3, <1>6, <3>2, <3>5
      <4> QED
        BY <1>1, <1>3, <2>2, <3>2, <3>5, <4>1 DEF Ata!AtapiInv
    <3>6. CASE atapi.cmd.op = "IDENTIFY"
      <4>1. atapi'.cmd = Ata!NoCommand
        BY <1>3, <1>8, <2>5, <3>6
      <4> QED
        BY <1>3, <2>2, <3>2, <3>3, <4>1 DEF Ata!AtapiInv
    <3> QED
      BY <1>1, <3>4, <3>5, <3>6
  <2> QED
    BY <1>2, <2>4, <2>5
<1> QED
  BY <1>2, <1>7, <1>8

\* A busy device has more to fetch, and offers it.
LEMMA FetchIs ==
    ASSUME NEW p \in Ata!PktDevice
    PROVE  LET q == Ata!ReadReg(p)
           IN  /\ q \in Ata!PktDevice /\ q.expected = p.expected
               /\ "BSY" \in p.status /\ p.remain > 0 =>
                    /\ "DRQ" \in q.status /\ "BSY" \notin q.status /\ q.io /\ ~q.cod /\ q.line
                    /\ q.xfer > 0 /\ q.xfer + q.remain = p.remain
               /\ ~("BSY" \in p.status /\ p.remain > 0) =>
                    /\ q.status = p.status /\ q.io = p.io /\ q.cod = p.cod /\ ~q.line
                    /\ q.xfer = p.xfer /\ q.remain = p.remain
<1> DEFINE y == [p EXCEPT !.line = FALSE]
           k == Ata!Least(p.remain, CacheUnits)
           x == [y EXCEPT !.xfer = k, !.remain = @ - k]
<1>1. p.remain \in Nat
  BY DEF Ata!PktDevice
<1>2. k \in Nat /\ p.remain - k \in Nat /\ (p.remain > 0 => k > 0)
  BY <1>1, IdeSizes DEF Ata!Least
<1>3. /\ y \in Ata!PktDevice /\ y.status = p.status /\ y.io = p.io /\ y.cod = p.cod /\ ~y.line
      /\ y.xfer = p.xfer /\ y.remain = p.remain /\ y.expected = p.expected
  BY DEF Ata!PktDevice
<1>4. Ata!ReadReg(p) = IF "BSY" \in y.status /\ y.remain > 0 THEN Ata!DataInPhase(x) ELSE y
  BY DEF Ata!ReadReg
<1> HIDE DEF y, k
<1>5. x \in Ata!PktDevice /\ x.xfer = k /\ x.remain = p.remain - k /\ x.expected = p.expected
  BY <1>2, <1>3 DEF Ata!PktDevice
<1> HIDE DEF x
<1>6. CASE "BSY" \in p.status /\ p.remain > 0
  <2>1. Ata!ReadReg(p) = Ata!DataInPhase(x)
    BY <1>3, <1>4, <1>6
  <2>2. LET q == Ata!DataInPhase(x)
        IN  /\ q \in Ata!PktDevice /\ q.expected = x.expected
            /\ "DRQ" \in q.status /\ "BSY" \notin q.status /\ q.io /\ ~q.cod /\ q.line
            /\ q.xfer = x.xfer /\ q.remain = x.remain
    BY <1>5, PhaseIs
  <2>3. k > 0 /\ k + (p.remain - k) = p.remain
    BY <1>1, <1>2, <1>6
  <2> QED
    BY <1>5, <1>6, <2>1, <2>2, <2>3
<1>7. CASE ~("BSY" \in p.status /\ p.remain > 0)
  <2>1. Ata!ReadReg(p) = y
    BY <1>3, <1>4, <1>7
  <2> QED
    BY <1>3, <1>7, <2>1, Zenon
<1> QED
  BY <1>6, <1>7, Zenon

LEMMA PktReadStatusKept ==
    ASSUME Ata!AtapiInv, Ata!PktReadStatus
    PROVE  Ata!AtapiInv'
<1> DEFINE done == "DRQ" \notin pkt'.status /\ "BSY" \notin pkt'.status
<1>1. pkt \in Ata!PktDevice /\ atapi \in Ata!Driver /\ pkt' = Ata!ReadReg(pkt)
  BY DEF Ata!AtapiInv, Ata!PktReadStatus
<1>2. /\ pkt' \in Ata!PktDevice /\ pkt'.expected = pkt.expected
      /\ "BSY" \in pkt.status /\ pkt.remain > 0 =>
           /\ "DRQ" \in pkt'.status /\ "BSY" \notin pkt'.status /\ pkt'.io /\ ~pkt'.cod /\ pkt'.line
           /\ pkt'.xfer > 0 /\ pkt'.xfer + pkt'.remain = pkt.remain
      /\ ~("BSY" \in pkt.status /\ pkt.remain > 0) =>
           /\ pkt'.status = pkt.status /\ pkt'.io = pkt.io /\ pkt'.cod = pkt.cod /\ ~pkt'.line
           /\ pkt'.xfer = pkt.xfer /\ pkt'.remain = pkt.remain
  BY <1>1, FetchIs, Zenon
<1>3. /\ atapi' \in Ata!Driver /\ atapi'.got = atapi.got /\ atapi'.torn = atapi.torn
      /\ atapi'.pio = ("DRQ" \in pkt'.status /\ pkt'.io /\ ~pkt'.cod)
      /\ atapi'.cmd = IF done THEN Ata!NoCommand ELSE atapi.cmd
  <2>1. ASSUME NEW b \in BOOLEAN, NEW e \in BOOLEAN,
               NEW c \in Ata!PktCommand \cup {Ata!NoCommand, [op |-> "PACKET", n |-> 0]},
               atapi' = [atapi EXCEPT !.pio = b, !.err = e, !.cmd = c]
        PROVE  /\ atapi' \in Ata!Driver /\ atapi'.got = atapi.got /\ atapi'.pio = b
               /\ atapi'.torn = atapi.torn /\ atapi'.cmd = c
    BY <1>1, <2>1 DEF Ata!Driver
  <2>2. /\ ("DRQ" \in pkt'.status /\ pkt'.io /\ ~pkt'.cod) \in BOOLEAN
        /\ (IF done THEN "ERR" \in pkt'.status ELSE atapi.err) \in BOOLEAN
    <3>1. atapi.err \in BOOLEAN
      BY <1>1 DEF Ata!Driver
    <3>2. (IF done THEN "ERR" \in pkt'.status ELSE atapi.err) \in BOOLEAN
      <4>1. CASE done
        BY <4>1
      <4>2. CASE ~done
        BY <3>1, <4>2
      <4> QED
        BY <4>1, <4>2
    <3> QED
      BY <3>2
  <2>3. (IF done THEN Ata!NoCommand ELSE atapi.cmd)
           \in Ata!PktCommand \cup {Ata!NoCommand, [op |-> "PACKET", n |-> 0]}
    BY <1>1 DEF Ata!Driver
  <2>4. atapi' = [atapi EXCEPT !.pio = "DRQ" \in pkt'.status /\ pkt'.io /\ ~pkt'.cod,
                               !.err = IF done THEN "ERR" \in pkt'.status ELSE @,
                               !.cmd = IF done THEN Ata!NoCommand ELSE @]
    BY <1>1 DEF Ata!PktReadStatus
  <2> QED
    BY <2>1, <2>2, <2>3, <2>4
<1>4. pkt.xfer \in Nat /\ pkt.remain \in Nat /\ atapi.got \in Nat
      /\ pkt'.xfer \in Nat /\ pkt'.remain \in Nat
  BY <1>1, <1>2 DEF Ata!PktDevice, Ata!Driver
<1>5. Ata!NoCommand.op = "none"
  BY DEF Ata!NoCommand
<1>6. CASE "BSY" \in pkt.status
  <2>1. pkt.remain > 0 /\ pkt.xfer = 0
    BY <1>6 DEF Ata!AtapiInv
  <2>2. /\ "DRQ" \in pkt'.status /\ "BSY" \notin pkt'.status /\ pkt'.io /\ ~pkt'.cod /\ pkt'.line
        /\ pkt'.xfer > 0 /\ pkt'.xfer + pkt'.remain = pkt.remain
    BY <1>2, <1>6, <2>1
  <2>3. atapi'.pio /\ atapi'.cmd = atapi.cmd
    BY <1>3, <2>2, Zenon
  <2>4. Ata!Offered'
    BY <2>2 DEF Ata!Offered
  <2>5. atapi.cmd # Ata!NoCommand /\ atapi.cmd.op \notin {"PACKET", "NONE", "CHECK", "REFUSED"}
    BY <1>6 DEF Ata!AtapiInv
  <2>6. atapi.cmd.op # "READ" => atapi.torn
    BY <1>4, <2>1 DEF Ata!AtapiInv
  <2>7. atapi.cmd.op = "READ" => atapi'.got + pkt'.xfer + pkt'.remain = atapi'.cmd.n
    <3>1. SUFFICES ASSUME atapi.cmd.op = "READ"
                   PROVE  atapi'.got + pkt'.xfer + pkt'.remain = atapi'.cmd.n
      OBVIOUS
    <3>2. atapi.got + pkt.xfer + pkt.remain = atapi.cmd.n
      BY <3>1 DEF Ata!AtapiInv
    <3> QED
      BY <1>3, <1>4, <2>1, <2>2, <2>3, <3>2
  <2>8. atapi.cmd.op = "READ" => ~atapi.torn /\ pkt.expected
    BY DEF Ata!AtapiInv
  <2> QED
    BY <1>2, <1>3, <2>2, <2>3, <2>4, <2>5, <2>6, <2>7, <2>8 DEF Ata!AtapiInv
<1>7. CASE "BSY" \notin pkt.status
  <2>1. /\ pkt'.status = pkt.status /\ pkt'.io = pkt.io /\ pkt'.cod = pkt.cod /\ ~pkt'.line
        /\ pkt'.xfer = pkt.xfer /\ pkt'.remain = pkt.remain
    BY <1>2, <1>7
  <2>2. CASE "DRQ" \notin pkt.status
    <3>1. atapi'.cmd = Ata!NoCommand /\ ~atapi'.pio
      BY <1>3, <1>7, <2>1, <2>2, Zenon
    <3>2. ~atapi.torn => pkt.remain = 0
      BY <1>7, <2>2 DEF Ata!AtapiInv, Ata!Offered, Ata!Fetching
    <3> QED
      BY <1>2, <1>3, <1>5, <1>7, <2>1, <2>2, <3>1, <3>2 DEF Ata!AtapiInv
  <2>3. CASE "DRQ" \in pkt.status
    <3>1. atapi'.cmd = atapi.cmd /\ atapi'.pio = (pkt.io /\ ~pkt.cod)
      BY <1>3, <2>1, <2>3, Zenon
    <3>2. Ata!Offered => Ata!Offered'
      BY <2>1, <3>1 DEF Ata!Offered
    <3>3. atapi.cmd # Ata!NoCommand /\ atapi.cmd.op \notin {"NONE", "CHECK", "REFUSED"}
      BY <2>3 DEF Ata!AtapiInv
    <3>4. /\ atapi.cmd.op = "READ" => /\ Ata!Offered /\ ~atapi.torn /\ pkt.expected
                                      /\ atapi.got + pkt.xfer + pkt.remain = atapi.cmd.n
          /\ atapi.cmd.op \in {"REPLY", "IDENTIFY"} /\ ~atapi.torn
               => Ata!Offered /\ (atapi.cmd.op = "REPLY" => pkt.expected)
      BY <2>3 DEF Ata!AtapiInv, Ata!Fetching, Ata!Ended
    <3>5. atapi.cmd.op = "PACKET" => pkt.cod /\ atapi.got = 0 /\ ~atapi'.pio
      BY <3>1 DEF Ata!AtapiInv
    <3>6. atapi.cmd.op # "READ" /\ ~atapi.torn => pkt.remain = 0
      BY DEF Ata!AtapiInv
    <3> QED
      BY <1>2, <1>3, <1>7, <2>1, <2>3, <3>1, <3>2, <3>3, <3>4, <3>5, <3>6 DEF Ata!AtapiInv
  <2> QED
    BY <2>2, <2>3
<1> QED
  BY <1>6, <1>7

LEMMA ReadAltStatusKept ==
    ASSUME Ata!AtapiInv, Ata!ReadAltStatus
    PROVE  Ata!AtapiInv'
<1> DEFINE q == Ata!ReadReg(pkt)
<1>1. /\ pkt \in Ata!PktDevice /\ atapi \in Ata!Driver /\ atapi' = atapi
      /\ "BSY" \in pkt.status /\ pkt.remain > 0 /\ pkt.xfer = 0 /\ pkt' = [q EXCEPT !.line = TRUE]
  BY DEF Ata!AtapiInv, Ata!ReadAltStatus
<1>2. /\ q \in Ata!PktDevice /\ q.expected = pkt.expected
      /\ "DRQ" \in q.status /\ "BSY" \notin q.status /\ q.io /\ ~q.cod
      /\ q.xfer > 0 /\ q.xfer + q.remain = pkt.remain
  BY <1>1, FetchIs
<1> HIDE DEF q
<1>3. /\ pkt' \in Ata!PktDevice /\ pkt'.expected = pkt.expected
      /\ "DRQ" \in pkt'.status /\ "BSY" \notin pkt'.status /\ pkt'.io /\ ~pkt'.cod /\ pkt'.line
      /\ pkt'.xfer > 0 /\ pkt'.xfer + pkt'.remain = pkt.remain
  BY <1>1, <1>2 DEF Ata!PktDevice
<1>4. Ata!Offered'
  BY <1>3 DEF Ata!Offered
<1>5. atapi.cmd # Ata!NoCommand /\ atapi.cmd.op \notin {"PACKET", "NONE", "CHECK", "REFUSED"}
  BY <1>1 DEF Ata!AtapiInv
<1>6. pkt.xfer \in Nat /\ pkt.remain \in Nat /\ atapi.got \in Nat
      /\ pkt'.xfer \in Nat /\ pkt'.remain \in Nat
  BY <1>1, <1>3 DEF Ata!PktDevice, Ata!Driver
<1>7. atapi.cmd.op # "READ" => atapi.torn
  BY <1>1, <1>6 DEF Ata!AtapiInv
<1>8. atapi.cmd.op = "READ" => /\ atapi.got + pkt.xfer + pkt.remain = atapi.cmd.n
                               /\ ~atapi.torn /\ pkt.expected
  BY DEF Ata!AtapiInv
<1>9. atapi.cmd.op = "READ" => atapi.got + pkt'.xfer + pkt'.remain = atapi.cmd.n
  BY <1>1, <1>3, <1>6, <1>8
<1> QED
  BY <1>1, <1>3, <1>4, <1>5, <1>7, <1>8, <1>9 DEF Ata!AtapiInv

LEMMA SoftResetKept ==
    ASSUME Ata!AtapiInv, Ata!SoftReset
    PROVE  Ata!AtapiInv'
<1>1. pkt \in Ata!PktDevice /\ atapi \in Ata!Driver
  BY DEF Ata!AtapiInv
<1>2. pkt' \in Ata!PktDevice /\ pkt'.status = {}
  BY <1>1 DEF Ata!SoftReset, Ata!PktDevice
<1>3. atapi' \in Ata!Driver /\ atapi'.cmd = Ata!NoCommand /\ ~atapi'.pio /\ atapi'.torn
  BY <1>1 DEF Ata!SoftReset, Ata!Driver
<1>4. Ata!NoCommand.op = "none"
  BY DEF Ata!NoCommand
<1> QED
  BY <1>2, <1>3, <1>4 DEF Ata!AtapiInv

LEMMA AtapiStep == Ata!AtapiInv /\ Ata!PktNext => Ata!AtapiInv'
BY PacketKept, PktReadDataKept, PktReadStatusKept, ReadAltStatusKept, SoftResetKept,
   OtherCommandKept, SendPacketKept DEF Ata!PktNext

LEMMA AtapiStays == Ata!AtapiInv /\ UNCHANGED <<pkt, atapi>> => Ata!AtapiInv'
BY DEF Ata!AtapiInv, Ata!Offered, Ata!Fetching, Ata!Ended

-----------------------------------------------------------------------------
(* Proofs: the shared line of the CMD646.                                   *)

CmdType == [intrq : SUBSET {0, 1}, pending : SUBSET {0, 1}, block : SUBSET {0, 1},
            line : BOOLEAN, swept : BOOLEAN]
CmdInv == cmd \in CmdType /\ Ata!NoneLeftBehind

LEMMA CmdStarts == Ata!CmdInit => CmdInv
BY DEF Ata!CmdInit, CmdInv, CmdType, Ata!NoneLeftBehind

LEMMA CmdStep == CmdInv /\ Ata!CmdNext => CmdInv'
<1> SUFFICES ASSUME CmdInv, Ata!CmdNext PROVE CmdInv'
  OBVIOUS
<1>1. cmd \in CmdType /\ cmd.pending \subseteq cmd.intrq
  BY DEF CmdInv, Ata!NoneLeftBehind
<1>2. ASSUME NEW ch \in {0, 1}, NEW level \in BOOLEAN, Ata!Intrq(ch, level) PROVE CmdInv'
  <2> DEFINE I == IF level THEN cmd.intrq \cup {ch} ELSE cmd.intrq \ {ch}
             P == IF level THEN cmd.pending \cup {ch} ELSE cmd.pending \ {ch}
             l == IF ~level \/ ch \notin cmd.block THEN level ELSE cmd.line
  <2>1. cmd' = [cmd EXCEPT !.swept = FALSE, !.intrq = I, !.pending = P, !.line = l]
    BY <1>1, <1>2 DEF Ata!Intrq, Ata!UpdateIrq, CmdType
  <2>2. I \in SUBSET {0, 1} /\ P \in SUBSET {0, 1} /\ P \subseteq I
    BY <1>1, <1>2 DEF CmdType
  <2>3. l \in BOOLEAN
    BY <1>1, <1>2 DEF CmdType
  <2> HIDE DEF I, P, l
  <2>4. cmd' \in CmdType /\ cmd'.pending = P /\ cmd'.intrq = I /\ ~cmd'.swept
    BY <1>1, <2>1, <2>2, <2>3 DEF CmdType
  <2> QED
    BY <2>2, <2>4 DEF CmdInv, Ata!NoneLeftBehind
<1>3. ASSUME NEW clear \in SUBSET {0, 1}, NEW block \in SUBSET {0, 1},
             Ata!WriteMrdmode(clear, block)
      PROVE  CmdInv'
  <2> DEFINE P == cmd.pending \ clear
             l == cmd.line \/ P \ block # {}
  <2>1. cmd' = [cmd EXCEPT !.pending = P, !.block = block, !.swept = TRUE, !.line = l]
    BY <1>1, <1>3 DEF Ata!WriteMrdmode, CmdType
  <2>2. P \in SUBSET {0, 1} /\ P \subseteq cmd.intrq
    BY <1>1 DEF CmdType
  <2>3. l \in BOOLEAN /\ (P \ block # {} => l)
    BY <1>1 DEF CmdType
  <2> HIDE DEF P, l
  <2>4. cmd' \in CmdType /\ cmd'.pending = P /\ cmd'.intrq = cmd.intrq
        /\ cmd'.block = block /\ cmd'.line = l
    BY <1>1, <2>1, <2>2, <2>3 DEF CmdType
  <2> QED
    BY <2>2, <2>3, <2>4 DEF CmdInv, Ata!NoneLeftBehind
<1> QED
  BY <1>2, <1>3 DEF Ata!CmdNext, Ata!Channel

-----------------------------------------------------------------------------
(* Proofs: the IDE devices of the storage run.                              *)

\* In every state of every run, with any sector counts, block sizes and cache:
\* a host that kept track of its ATA command finds one interrupt for every
\* block when nothing is left to move, no timer is queued twice
\* (AtaBaseDevice::update_intrq and the timers of AtaHardDisk); an ATAPI read
\* delivers exactly what the packet asked for and no command waits in silence
\* (AtapiBaseDevice::read, data_in_phase); and the shared line of the CMD646
\* is up whenever MRDMODE was written with a request pending (update_irq).
THEOREM IdeServed == StorageSpec => []IdeOK
<1> DEFINE IdeInv == Ata!AtaInv /\ Ata!AtapiInv /\ CmdInv
<1>1. StorageInit => IdeInv
  BY AtaStarts, AtapiStarts, CmdStarts DEF StorageInit
<1>2. IdeInv /\ [StorageNext]_storage => IdeInv'
  <2> SUFFICES ASSUME IdeInv, [StorageNext]_storage PROVE IdeInv'
    OBVIOUS
  <2>1. Ata!AtaInv'
    <3>1. Ata!Next \/ UNCHANGED <<dev, chan, job>>
      BY DEF StorageNext, Mesh1, Curio1, Unit1, Ata1, Atapi1, CmdIde1, Nvram1, storage
    <3> QED
      BY <3>1, AtaStep, AtaStays
  <2>2. Ata!AtapiInv'
    <3>1. Ata!PktNext \/ UNCHANGED <<pkt, atapi>>
      BY DEF StorageNext, Mesh1, Curio1, Unit1, Ata1, Atapi1, CmdIde1, Nvram1, storage
    <3> QED
      BY <3>1, AtapiStep, AtapiStays
  <2>3. CmdInv'
    <3>1. Ata!CmdNext \/ cmd' = cmd
      BY DEF StorageNext, Mesh1, Curio1, Unit1, Ata1, Atapi1, CmdIde1, Nvram1, storage
    <3>2. cmd' = cmd => CmdInv'
      BY DEF CmdInv, CmdType, Ata!NoneLeftBehind
    <3> QED
      BY <3>1, <3>2, CmdStep
  <2> QED
    BY <2>1, <2>2, <2>3
<1>3. IdeInv => IdeOK
  BY AtaPromises, AtapiPromises DEF IdeOK, CmdInv
<1> QED
  BY <1>1, <1>2, <1>3, PTL DEF StorageSpec
=============================================================================
