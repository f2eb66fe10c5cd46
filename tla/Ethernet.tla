------------------------------ MODULE Ethernet ------------------------------
(* The MACE Ethernet controller (mace.cpp) between its DBDMA channels and a  *)
(* back end (enetbackend.cpp, slirpbackend.cpp). Frames are numbered in the  *)
(* order the controller accepts them and have a length in units; the four    *)
(* status bytes behind a received frame are one unit.                        *)
(* The module ends with the serial machines of BigMac.                       *)
EXTENDS Integers, Sequences, SequencesExt

CONSTANTS MaxFrame,     \* ENET_MAX_FRAME_SIZE
          MaxQueue,     \* MACE_MAX_RCV_QUEUE and SLIRP_MAX_QUEUE
          MissedMax,    \* 255: where the count of missed frames stops
          Lens,         \* lengths of frames and of transmit descriptors
          Rooms,        \* lengths of receive descriptors
          PhysLen, LogLen,  \* bytes of the two address registers, 6 and 8
          MaxAccepted   \* bound: frames accepted

VARIABLES mace,  \* registers, receive queue, the frame being received or sent
          net,   \* the back end's queue of frames for the guest
          eth    \* history: frames accepted and delivered, owed interrupts, ...

vars == <<mace, net, eth>>

-----------------------------------------------------------------------------
(* The back ends: loopback returns what was sent, slirp what its peers send. *)

\* LoopbackBackend::send_frame() queues without limit
BackendSend(n, len) == IF n.kind = "loopback" THEN [n EXCEPT !.queue = Append(@, len)] ELSE n
\* SlirpBackend::frame_from_host(): a full queue drops the frame
FrameFromHost ==
    /\ net.kind = "slirp" /\ Len(net.queue) < MaxQueue
    /\ \E len \in Lens : net' = [net EXCEPT !.queue = Append(@, len)]
    /\ UNCHANGED <<mace, eth>>

-----------------------------------------------------------------------------
Init ==
    /\ mace = [rcv |-> FALSE, xmt |-> FALSE, stat |-> {}, mask |-> TRUE, line |-> FALSE,
               queue |-> <<>>, cur |-> [num |-> 0, len |-> 0], pos |-> 0, missed |-> 0,
               xlen |-> 0, room |-> 0, addr |-> "none", ptr |-> 0]
    /\ net \in [kind : {"loopback", "slirp"}, queue : {<<>>}]
    /\ eth = [accepted |-> 0, done |-> 0, lost |-> 0, part |-> 0, owed |-> FALSE, sum |-> 0, sent |-> TRUE]

\* update_irq(); the mask is all on, as after a reset, or all off
UpdateIrq(m) == [m EXCEPT !.line = m.stat # {} /\ ~m.mask]
SetIntFlags(m, f) == UpdateIrq([m EXCEPT !.stat = @ \cup {f}])

\* mutant: the end of a frame is noticed only if the descriptor has room left
XferFromNoEnd(m, len) ==
    LET start == m.pos >= m.cur.len
        cur == IF start THEN Head(m.queue) ELSE m.cur
        pos == IF start THEN 0 ELSE m.pos
        moved == IF cur.len - pos < len THEN cur.len - pos ELSE len
        new == [m EXCEPT !.queue = IF start THEN Tail(@) ELSE @, !.cur = cur,
                         !.pos = pos + moved, !.room = 0]
    IN IF start /\ m.queue = <<>> THEN [m EXCEPT !.room = len]
       ELSE IF pos + moved >= cur.len /\ moved < len THEN SetIntFlags(new, "rcv")
       ELSE new
\* xfer_from() for a descriptor with len units of room: the frame in hand or
\* the next of the queue; its end ends the descriptor and interrupts. The
\* descriptor ends in any case unless there is nothing to receive.
XferFrom(m, len) ==
    LET start == m.pos >= m.cur.len
        cur == IF start THEN Head(m.queue) ELSE m.cur
        pos == IF start THEN 0 ELSE m.pos
        moved == IF cur.len - pos < len THEN cur.len - pos ELSE len
        new == [m EXCEPT !.queue = IF start THEN Tail(@) ELSE @, !.cur = cur,
                         !.pos = pos + moved, !.room = 0]
    IN IF start /\ m.queue = <<>> THEN [m EXCEPT !.room = len]
       ELSE IF pos + moved >= cur.len THEN SetIntFlags(new, "rcv")
       ELSE new

\* history of one call of xfer_from() that led from mace to m
Received(h, m) ==
    IF m.room # 0 THEN h
    ELSE LET whole == m.pos = m.cur.len
             moved == m.pos - (IF mace.pos >= mace.cur.len THEN 0 ELSE mace.pos)
         IN [h EXCEPT !.done = IF whole THEN m.cur.num ELSE @, !.owed = @ \/ whole,
                      !.part = IF whole THEN 0 ELSE @ + moved]

\* the guest's receive list reaches a descriptor: the channel asks the device
PostBuffer ==
    /\ mace.room = 0
    /\ \E len \in Rooms : mace' = XferFrom(mace, len)
    /\ eth' = Received(eth, mace')
    /\ UNCHANGED net

\* receive_frame(), called for each frame of the queue by the poll timer:
\* ours says what accept_frame() makes of its address
PollBackend ==
    /\ net.queue # <<>>
    /\ net' = [net EXCEPT !.queue = Tail(@)]
    /\ \E ours \in BOOLEAN :
        LET f == [num |-> eth.accepted + 1, len |-> Head(net.queue) + 1]
            m == [mace EXCEPT !.queue = Append(@, f)]
        IN IF ~mace.rcv \/ ~ours THEN UNCHANGED <<mace, eth>>
           ELSE IF Len(mace.queue) >= MaxQueue
           THEN /\ mace' = [mace EXCEPT !.missed = IF @ = MissedMax THEN @ ELSE @ + 1]
                /\ eth' = [eth EXCEPT !.lost = IF @ > MissedMax THEN @ ELSE @ + 1]
           ELSE /\ eth.accepted < MaxAccepted
                /\ mace' = IF mace.room > 0 THEN XferFrom(m, mace.room) ELSE m
                /\ eth' = [IF mace.room > 0 THEN Received(eth, mace') ELSE eth
                           EXCEPT !.accepted = @ + 1]

\* transmit_frame()
TransmitFrame(m) ==
    IF m.xmt /\ m.xlen \in 1..MaxFrame THEN SetIntFlags(m, "xmt") ELSE m

\* xfer_to(): one descriptor of the transmit list, the last one of its frame
\* or not
XferTo ==
    \E len \in Lens, last \in BOOLEAN :
        LET long == mace.xlen + len > MaxFrame
            n == IF long \/ mace.xlen < 0 THEN -1 ELSE mace.xlen + len
            goes == last /\ mace.xmt /\ n \in 1..MaxFrame
        IN /\ eth.sum + len <= 2 * MaxFrame
           /\ Len(net.queue) < MaxQueue
           /\ mace' = IF last THEN [TransmitFrame([mace EXCEPT !.xlen = n]) EXCEPT !.xlen = 0]
                      ELSE [mace EXCEPT !.xlen = n]
           /\ net' = IF goes THEN BackendSend(net, n) ELSE net
           /\ eth' = [eth EXCEPT !.sum = IF last THEN 0 ELSE @ + len,
                                 !.sent = ~goes \/ n = eth.sum + len]

-----------------------------------------------------------------------------
(* Registers.                                                                *)

ReadInterrupt == /\ mace' = UpdateIrq([mace EXCEPT !.stat = {}])
                 /\ eth' = [eth EXCEPT !.owed = FALSE]
                 /\ UNCHANGED net
WriteMask == \E b \in BOOLEAN : mace' = UpdateIrq([mace EXCEPT !.mask = b]) /\ UNCHANGED <<net, eth>>
WriteMacConfig == mace.addr = "none" /\ \E r, x \in BOOLEAN :
                    mace' = [mace EXCEPT !.rcv = r, !.xmt = x] /\ UNCHANGED <<net, eth>>

\* BIU_SWRST: queues and counters of the frames under way; the DMA channels
\* are not told
SoftReset ==
    /\ mace' = UpdateIrq([mace EXCEPT !.stat = {}, !.mask = TRUE, !.xlen = 0, !.queue = <<>>,
                                      !.cur = [num |-> 0, len |-> 0], !.pos = 0])
    /\ eth' = [eth EXCEPT !.done = eth.accepted, !.part = 0, !.owed = FALSE, !.sum = 0]
    /\ UNCHANGED net

\* Int_Addr_Config: LOGADDR wins over PHYADDR; arming one starts at byte 0.
\* Drivers set the addresses while receiver and transmitter are off.
WriteAddrConfig ==
    /\ ~mace.rcv /\ ~mace.xmt
    /\ \E log, phys \in BOOLEAN :
        mace' = [mace EXCEPT !.addr = IF log THEN "log" ELSE IF phys THEN "phys" ELSE "none",
                             !.ptr = IF log \/ phys THEN 0 ELSE @]
    /\ UNCHANGED <<net, eth>>
\* an access to Phys_Addr or Log_Addr_Flt, read or write alike
AddrLen(a) == IF a = "log" THEN LogLen ELSE PhysLen
AccessAddr ==
    \E a \in {"log", "phys"} :
        /\ mace.addr = a
        /\ mace' = IF mace.ptr + 1 >= AddrLen(a) THEN [mace EXCEPT !.addr = "none", !.ptr = 0]
                   ELSE [mace EXCEPT !.ptr = @ + 1]
        /\ UNCHANGED <<net, eth>>

Next == \/ FrameFromHost \/ PostBuffer \/ PollBackend \/ XferTo \/ ReadInterrupt
        \/ WriteMask \/ WriteMacConfig \/ SoftReset \/ WriteAddrConfig \/ AccessAddr

Spec == Init /\ [][Next]_vars

-----------------------------------------------------------------------------
\* Frames reach the guest whole, once and in the order they were accepted:
\* the ones not delivered yet are in hand or queued, and of the one in hand
\* the guest has what xfer_from() counted.
FramesInOrder ==
    LET rest == IF mace.pos < mace.cur.len THEN <<mace.cur>> \o mace.queue ELSE mace.queue
    IN /\ Len(rest) = eth.accepted - eth.done
       /\ \A i \in DOMAIN rest : rest[i].num = eth.done + i
       /\ eth.part = IF mace.pos < mace.cur.len THEN mace.pos ELSE 0
\* No descriptor waits while a frame is queued, and the queue keeps its limit;
\* what did not fit was counted.
NothingStuck ==
    /\ mace.room > 0 => (mace.queue = <<>> /\ mace.pos >= mace.cur.len)
    /\ Len(mace.queue) <= MaxQueue
    /\ mace.missed = IF eth.lost > MissedMax THEN MissedMax ELSE eth.lost
\* A frame leaves as the descriptors of its list describe it, or not at all:
\* one that is too long takes nothing of the next one with it.
FrameSentWhole == eth.sent /\ mace.xlen = IF eth.sum > MaxFrame THEN -1 ELSE eth.sum
\* The guest hears of every frame it has received, and the line shows it.
ReceiveReported == /\ eth.owed => "rcv" \in mace.stat
                   /\ mace.line = (mace.stat # {} /\ ~mace.mask)
\* The byte pointer stays inside the register it was armed for.
AddrPtrInside == mace.addr # "none" => mace.ptr < AddrLen(mace.addr)

MaceOK == FramesInOrder /\ NothingStuck /\ FrameSentWhole /\ ReceiveReported /\ AddrPtrInside

-----------------------------------------------------------------------------
(* The register file and the two serial interfaces of the BigMac Ethernet    *)
(* cell (bigmac.cpp): a driver clocks frames of the MII management interface *)
(* to the PHY and reads the EEPROM with the station address, bit by bit. The *)
(* cell has no data path. Field widths are scaled down.                      *)

CONSTANTS Pre,          \* bits of the preamble, 32 in the code
          ABits, DBits  \* bits of an address (5 and 6) and of a datum (16)

VARIABLES mii,    \* MII state machine and PHY registers
          srom,   \* EEPROM state machine
          bits    \* the driver: bits left to clock, bits read, what it expects

BmVars == <<mii, srom, bits>>

RECURSIVE BitsOf(_, _)
BitsOf(v, n) == IF n = 0 THEN <<>> ELSE Append(BitsOf(v \div 2, n - 1), v % 2)
Ones(n) == [i \in 1..n |-> 1]
In == 2                                \* a clock of an input bit
Ins(n) == [i \in 1..n |-> In]
Regs == 0..(2^ABits - 1)
Vals == 0..(2^DBits - 1)
Word(a) == (3 * a + 1) % 2^DBits       \* what the EEPROM holds, any contents do

-----------------------------------------------------------------------------
(* Registers: the slots of the arrays and the packed FIFO registers.         *)

\* nibble n of the offsets of MAC_ADDR_x, HASH_TAB_x and AFR_x
MacAddrSlot(n) == 8 - n
HashSlot(n) == n % 4
FilterSlot(n) == n - 4
WriteFifoCsr(v) == [enable |-> v % 2, size |-> (((v \div 2) % 256) + 1) * 128]
ReadFifoCsr(f) == f.enable + 2 * ((f.size \div 128 - 1) % 256)

-----------------------------------------------------------------------------
(* MII.                                                                      *)

MiiReset(m) == [m EXCEPT !.st = "Preamble", !.cnt = 0, !.opcode = 0, !.reg = 0, !.data = 0]

\* mii_rcv_value(): one more bit of a field of n bits
Shift(v, b) == 2 * v + b
Full(m, n) == m.cnt + 1 >= n
Count(m, n) == IF Full(m, n) THEN 0 ELSE m.cnt + 1
To(m, n, st) == [m EXCEPT !.cnt = Count(m, n), !.st = IF Full(m, n) THEN st ELSE @]

\* phy_reg_read(), phy_reg_write(): register 0 (BMCR) and 1 (ANAR) hold what
\* is written but for the reset bit of BMCR, which clears itself; the
\* identification registers are left out
Kept(r, v) == IF r = 0 THEN v % 2^(DBits - 1) ELSE v
PhyRead(m, r) == IF r \in DOMAIN m.phy THEN m.phy[r] ELSE 0
PhyWrite(m, r, v) == IF r \in DOMAIN m.phy THEN [m EXCEPT !.phy[r] = Kept(r, v)] ELSE m

\* mii_xmit_bit()
XmitBit(m, b) ==
    CASE m.st = "Preamble" -> IF b = 0 THEN MiiReset(m)
                              ELSE [To(m, Pre, "Start") EXCEPT !.in = IF Full(m, Pre) THEN 1 ELSE @]
      [] m.st = "Start" -> To(m, 2, "Opcode")
      [] m.st = "Opcode" -> [To(m, 2, "Phy_Address") EXCEPT !.opcode = Shift(@, b)]
      [] m.st = "Phy_Address" -> To(m, ABits, "Reg_Address")
      [] m.st = "Reg_Address" ->
            LET r == Shift(m.reg, b)
                n == [To(m, ABits, IF m.opcode \in {1, 2} THEN "Turnaround" ELSE m.st)
                      EXCEPT !.reg = r]
            IN IF Full(m, ABits) /\ m.opcode = 2 THEN [n EXCEPT !.data = PhyRead(m, r)] ELSE n
      [] m.st = "Turnaround" -> To(m, 2, "Write_Data")
      [] m.st = "Write_Data" ->
            LET n == [To(m, DBits, "Stop") EXCEPT !.data = Shift(@, b)]
            IN IF Full(m, DBits) THEN PhyWrite(n, m.reg, n.data) ELSE n
      [] m.st = "Stop" -> IF Full(m, 2) THEN MiiReset(m) ELSE To(m, 2, "Stop")
      [] OTHER -> MiiReset(m)

\* mii_rcv_bit(); the registers of the last frame stay until a reset
RcvBit(m) ==
    CASE m.st = "Turnaround" -> [m EXCEPT !.in = 0, !.cnt = DBits, !.st = "Read_Data"]
      [] m.st = "Read_Data" /\ m.cnt > 0 ->
            [m EXCEPT !.cnt = @ - 1, !.in = (m.data \div 2^(m.cnt - 1)) % 2,
                      !.st = IF m.cnt = 1 THEN "Preamble" ELSE @]
      [] m.st = "Preamble" -> [MiiReset(m) EXCEPT !.in = 1]
      [] OTHER -> MiiReset(m)

-----------------------------------------------------------------------------
(* EEPROM.                                                                   *)

SromReset == [st |-> "Start", cnt |-> 0, opcode |-> 0, addr |-> 0, in |-> 0]

\* srom_xmit_bit(): reading goes on with the next word
SromBit(s, b) ==
    CASE s.st = "Start" -> IF b = 1 THEN [s EXCEPT !.st = "Opcode"] ELSE [SromReset EXCEPT !.in = s.in]
      [] s.st = "Opcode" ->
            LET o == Shift(s.opcode, b)
            IN IF ~Full(s, 2) THEN [s EXCEPT !.cnt = @ + 1, !.opcode = o]
               ELSE IF o = 2 THEN [s EXCEPT !.cnt = 0, !.opcode = o, !.st = "Address"]
               ELSE [SromReset EXCEPT !.in = s.in]
      [] s.st = "Address" ->
            IF Full(s, ABits) THEN [s EXCEPT !.addr = Shift(@, b), !.cnt = DBits, !.st = "Read_Data"]
            ELSE [s EXCEPT !.addr = Shift(@, b), !.cnt = @ + 1]
      [] s.st = "Read_Data" ->
            [s EXCEPT !.in = (Word(s.addr) \div 2^(s.cnt - 1)) % 2,
                      !.cnt = IF s.cnt = 1 THEN DBits ELSE @ - 1,
                      !.addr = IF s.cnt = 1 THEN @ + 1 ELSE @]

-----------------------------------------------------------------------------
(* The driver. A read frame is followed by an idle clock, a write frame by   *)
(* two stop bits; it may give up at any bit and clock the interface idle.    *)

Idle == [on |-> "none", todo |-> <<>>, got |-> <<>>, want |-> <<>>, ok |-> TRUE]

BmInit == /\ mii = [st |-> "Preamble", cnt |-> 0, opcode |-> 0, reg |-> 0, data |-> 0, in |-> 1,
                  phy |-> [r \in {0, 1} |-> 0]]
        /\ srom = SromReset
        /\ bits = Idle

Frame(op, r) == Ones(Pre) \o <<0, 1>> \o op \o [i \in 1..ABits |-> 0] \o BitsOf(r, ABits)

MiiRead == /\ bits.on = "none"
           /\ \E r \in Regs :
                bits' = [on |-> "read", todo |-> Frame(<<1, 0>>, r) \o Ins(DBits + 2), got |-> <<>>,
                         want |-> BitsOf(PhyRead(mii, r), DBits), ok |-> TRUE]
           /\ UNCHANGED <<mii, srom>>
MiiWrite == /\ bits.on = "none"
            /\ \E r \in Regs, v \in Vals :
                bits' = [on |-> "write", todo |-> Frame(<<0, 1>>, r) \o <<1, 0>> \o BitsOf(v, DBits)
                                                  \o <<1, 1>>, got |-> <<>>,
                         want |-> [a \in {0, 1} |-> IF a = r THEN Kept(r, v) ELSE mii.phy[a]], ok |-> TRUE]
            /\ UNCHANGED <<mii, srom>>
GiveUp == /\ bits.on \in {"read", "write"} /\ bits.todo # <<>>
          /\ bits' = [Idle EXCEPT !.on = "idle", !.todo = Ins(DBits + 2)]
          /\ UNCHANGED <<mii, srom>>
\* a rising edge of Mif_Clock in a store to MIF_CSR, and what the driver reads
Clock == /\ bits.on \in {"read", "write", "idle"} /\ bits.todo # <<>>
         /\ LET b == Head(bits.todo)
            IN /\ mii' = IF b = In THEN RcvBit(mii) ELSE XmitBit(mii, b)
               /\ bits' = [bits EXCEPT !.todo = Tail(@),
                                       !.got = IF b = In /\ bits.on = "read" THEN Append(@, mii'.in)
                                               ELSE @]
         /\ UNCHANGED srom
SromRead == /\ bits.on = "none"
            /\ \E a \in 0..(2^ABits - 2) :
                bits' = [on |-> "srom", todo |-> <<1, 1, 0>> \o BitsOf(a, ABits) \o Ins(2 * DBits),
                         got |-> <<>>, ok |-> TRUE,
                         want |-> BitsOf(Word(a), DBits) \o BitsOf(Word(a + 1), DBits)]
            /\ UNCHANGED <<mii, srom>>
SromClock == /\ bits.on = "srom" /\ bits.todo # <<>>
             /\ LET b == Head(bits.todo)
                IN /\ srom' = SromBit(srom, IF b = In THEN 0 ELSE b)
                   /\ bits' = [bits EXCEPT !.todo = Tail(@),
                                           !.got = IF b = In THEN Append(@, srom'.in) ELSE @]
             /\ UNCHANGED mii
\* the driver is done, or drops Srom_Chip_Select early
Finish == /\ bits.on # "none" /\ (bits.todo = <<>> \/ bits.on = "srom")
          /\ bits' = [Idle EXCEPT !.ok = bits.ok /\
                        CASE bits.on = "read" -> SubSeq(bits.got, 2, DBits + 1) = bits.want
                          [] bits.on = "write" -> mii.phy = bits.want
                          [] bits.on = "srom" -> IsPrefix(bits.got, bits.want)
                          [] OTHER -> TRUE]
          /\ srom' = IF bits.on = "srom" THEN [SromReset EXCEPT !.in = srom.in] ELSE srom
          /\ UNCHANGED mii

BmNext == MiiRead \/ MiiWrite \/ GiveUp \/ Clock \/ SromRead \/ SromClock \/ Finish

BmSpec == BmInit /\ [][BmNext]_vars

-----------------------------------------------------------------------------
\* Whatever frames the driver sends and wherever it gives one up, a read of
\* the PHY or of the EEPROM returns the contents, and a write changes the
\* register it names and no other.
SerialExact == bits.ok
\* Between frames the interface waits for a preamble.
InSync == bits.on = "none" => (mii.st = "Preamble" /\ mii.cnt = 0)
\* Registers of one array do not share a slot, and the FIFO registers read
\* back as they were written.
RegistersApart ==
    /\ {MacAddrSlot(n) : n \in {6, 7, 8}} = 0..2
    /\ {HashSlot(n) : n \in 0..3} = 0..3
    /\ {FilterSlot(n) : n \in {4, 5, 6}} = 0..2
    /\ \A v \in 0..511 : ReadFifoCsr(WriteFifoCsr(v)) = v

BigMacOK == SerialExact /\ InSync /\ RegistersApart
=============================================================================
