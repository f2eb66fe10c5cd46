-------------------------------- MODULE Amic --------------------------------
(***************************************************************************)
(* The interrupt cascade of AMIC (devices/ioctrl/amic.cpp): slot lines     *)
(* feed the pseudo VIA2, VIA2 and the DMA flags feed a line each of the    *)
(* processor's interrupt register, which drives the pin by level in native *)
(* mode and by change in 68k emulation mode.                               *)
(* The DMA channels of AMIC follow.                                        *)
(***************************************************************************)
EXTENDS Integers, FiniteSets, FiniteSetTheorems, TLAPS

CONSTANTS
    SlotSrc,    \* slot lines, "VBL" among them
    Via2Src,    \* VIA2 flags of their own: SCSI, SCSI DRQ, sound, floppy
    CpuSrc,     \* lines of their own: VIA1, serial, Ethernet, NMI
    DmaSrc      \* DMA flags, of both flag registers

Via2Flags == Via2Src \cup {"ALL_SLOT"}
Lines == CpuSrc \cup {"VIA2", "ALL_DMA"}

VARIABLES
    amic,       \* the registers and the pin
    changed       \* history: in emulation mode, a line changed since the clear

amicVars == <<amic, changed>>

Init ==
    /\ amic = [slot |-> {}, slotIer |-> {}, slotIrq |-> FALSE,
               via2 |-> {}, ier |-> {}, via2Irq |-> FALSE,
               dma |-> {}, dmaIrq |-> FALSE,
               lines |-> {}, mode |-> "native", flag |-> FALSE, pin |-> FALSE]
    /\ changed = FALSE

Switch(S, x, on) == IF on THEN S \cup {x} ELSE S \ {x}

\* update_native_irq()
UpdateNativeIrq(s) ==
    [s EXCEPT !.flag = s.lines # {}, !.pin = s.lines # {}]

\* ack_cpu_int()
AckCpuInt(s, l, on) ==
    LET t == [s EXCEPT !.lines = Switch(@, l, on)]
    IN  IF s.mode = "emulated"
        THEN [t EXCEPT !.flag = TRUE, !.pin = @ \/ ~s.flag]
        ELSE UpdateNativeIrq(t)

\* update_via2_irq()
UpdateVia2Irq(s) ==
    LET irq == s.via2 \cap s.ier # {}
    IN  IF irq # s.via2Irq
        THEN AckCpuInt([s EXCEPT !.via2Irq = irq], "VIA2", irq)
        ELSE s

AckVia2Int(s, f, on) == UpdateVia2Irq([s EXCEPT !.via2 = Switch(@, f, on)])

\* ack_slot_int(): the summary flag follows the enabled slot lines
AckSlotInt(s, l, on) ==
    LET t == [s EXCEPT !.slot = Switch(@, l, on)]
        irq == t.slot \cap t.slotIer # {}
    IN  IF irq # s.slotIrq
        THEN AckVia2Int([t EXCEPT !.slotIrq = irq], "ALL_SLOT", irq)
        ELSE t

\* ack_dma_int()
AckDmaInt(s, d, on) ==
    LET t == [s EXCEPT !.dma = Switch(@, d, on)]
        irq == t.dma # {}
    IN  IF irq # s.dmaIrq
        THEN AckCpuInt([t EXCEPT !.dmaIrq = irq], "ALL_DMA", irq)
        ELSE t

-----------------------------------------------------------------------------
Step(t) ==
    /\ amic' = t
    /\ changed' = ((changed \/ t.lines # amic.lines) /\ t.mode = "emulated")

\* ack_int(), ack_dma_int(): a device changes its line
SlotLine(l, on) == Step(AckSlotInt(amic, l, on))
Via2Line(f, on) == Step(AckVia2Int(amic, f, on))
CpuLine(l, on)  == Step(AckCpuInt(amic, l, on))
DmaLine(d, on)  == Step(AckDmaInt(amic, d, on))

\* VIA2_Slot_IFR: the guest dismisses the VBL interrupt, and no other
WriteSlotIfr == Step(AckSlotInt(amic, "VBL", FALSE))

\* VIA2_IFR with bit 7 set
WriteVia2Ifr(S) == Step(UpdateVia2Irq([amic EXCEPT !.via2 = @ \ S]))

\* VIA2_Slot_IER: the summary is not evaluated again
WriteSlotIer(set, S) ==
    Step([amic EXCEPT !.slotIer = IF set THEN @ \cup S ELSE @ \ S])

\* VIA2_IER
WriteVia2Ier(set, S) ==
    Step(UpdateVia2Irq([amic EXCEPT !.ier = IF set THEN @ \cup S ELSE @ \ S]))

\* Int_Ctrl: clears the flag, then takes the mode
WriteIntCtrl(clear, mode) ==
    LET t == [amic EXCEPT !.mode = mode, !.flag = @ /\ ~clear,
                          !.pin = @ /\ ~(clear /\ amic.flag)]
    IN  /\ amic' = IF mode = "native" THEN UpdateNativeIrq(t) ELSE t
        /\ changed' = (changed /\ ~clear /\ mode = "emulated"
                           /\ amic.mode = "emulated")

Next ==
    \/ \E on \in BOOLEAN :
           \/ \E l \in SlotSrc : SlotLine(l, on)
           \/ \E f \in Via2Src : Via2Line(f, on)
           \/ \E l \in CpuSrc : CpuLine(l, on)
           \/ \E d \in DmaSrc : DmaLine(d, on)
           \/ \E S \in SUBSET SlotSrc : WriteSlotIer(on, S)
           \/ \E S \in SUBSET Via2Flags : WriteVia2Ier(on, S)
           \/ \E mode \in {"native", "emulated"} : WriteIntCtrl(on, mode)
    \/ \E S \in SUBSET Via2Flags : WriteVia2Ifr(S)
    \/ WriteSlotIfr

Spec == Init /\ [][Next]_amicVars

-----------------------------------------------------------------------------
Registers ==
    [slot : SUBSET SlotSrc, slotIer : SUBSET SlotSrc, slotIrq : BOOLEAN,
     via2 : SUBSET Via2Flags, ier : SUBSET Via2Flags, via2Irq : BOOLEAN,
     dma : SUBSET DmaSrc, dmaIrq : BOOLEAN, lines : SUBSET Lines,
     mode : {"native", "emulated"}, flag : BOOLEAN, pin : BOOLEAN]

TypeOK == amic \in Registers /\ changed \in BOOLEAN

\* In native mode the pin is asserted exactly while some line is, whatever
\* was acknowledged and however the mode was reached: an acknowledge loses no
\* request that arrives in the handler.
NativePinFollows == amic.mode = "native" => (amic.pin = (amic.lines # {}))

\* In emulation mode every change of a line since the guest last cleared the
\* flag is signalled.
ChangeSignalled == changed => amic.pin

\* The lines of VIA2 and of the DMA controller are asserted exactly while one
\* of their enabled flags is set.
CascadeAgrees ==
    /\ ("VIA2" \in amic.lines) = (amic.via2 \cap amic.ier # {})
    /\ ("ALL_DMA" \in amic.lines) = (amic.dma # {})

-----------------------------------------------------------------------------
(***************************************************************************)
(* The DMA channels of AMIC (devices/ioctrl/amic.cpp), each with its flag  *)
(* in the interrupt flag registers: floppy, serial in both directions,     *)
(* Ethernet receive and sound output.  ch is one channel; channels of      *)
(* different kinds share nothing but the registers of Amic.                *)
(***************************************************************************)

CONSTANTS
    BufSize,    \* of a serial buffer (8192 in the code)
    Counts,     \* byte counts that the guest programs
    RxPages,    \* pages of the Ethernet receive ring (192 in the code)
    FramePages, \* pages that a frame may take
    MaxFrames,  \* bound on the frames that the guest sends
    SndLen      \* pulls that drain a sound buffer

VARIABLES
    ch,         \* the channel; ch.kind says which
    ifr,        \* its bit in DMA_IFR_0 or DMA_IFR_1
    total       \* history: bytes total since the guest programmed it

dmaVars == <<ch, ifr, total>>

NewFloppy == [kind |-> "floppy", run |-> FALSE, dir |-> "in", ie |-> FALSE,
              if |-> FALSE, count |-> 0, given |-> 0]
NewSerial(rx) == [kind |-> "serial", rx |-> rx, run |-> FALSE, cont |-> FALSE,
                  pause |-> FALSE, ie |-> FALSE, if |-> FALSE, count |-> 0,
                  pos |-> 0, given |-> 0]
NewEnet == [kind |-> "enet", run |-> FALSE, ie |-> FALSE, if |-> FALSE,
            overrun |-> FALSE, head |-> 0, tail |-> 0, unread |-> {}]
NewEnetTx == [kind |-> "enettx", run |-> FALSE, ie |-> FALSE, if |-> FALSE,
              sets |-> {}, done |-> {}, given |-> 0]
NewSound == [kind |-> "sound", on |-> FALSE, flags |-> {}, ies |-> {},
             buf |-> 0, pos |-> 0, level |-> FALSE, timer |-> FALSE,
             played |-> FALSE]

DmaInit ==
    /\ ch \in {NewFloppy, NewEnet, NewEnetTx, NewSound} \cup {NewSerial(rx) : rx \in BOOLEAN}
    /\ ifr = FALSE /\ total = 0

Minimum(a, b) == IF a < b THEN a ELSE b

\* update_irq(), update_enet_dma_irq(): ack_dma_int() on a change of level
Level(c) == c.if /\ c.ie
UpdateIrq(c) == ch' = c /\ ifr' = Level(c)

-----------------------------------------------------------------------------
(* Floppy.                                                                 *)

\* Floppy_DMA_Ctrl: reset(), reinit(), write_ctrl()
FloppyCtrl(rst, run, dir, ie, clear, n) ==
    /\ ch.kind = "floppy"
    /\ UpdateIrq([ch EXCEPT
            !.run = run, !.dir = dir, !.ie = ie,
            !.if = @ /\ ~rst /\ ~clear,
            !.count = IF run THEN n ELSE IF rst THEN 0 ELSE @,
            !.given = IF run THEN n ELSE IF rst THEN 0 ELSE @])
    /\ total' = IF run \/ rst THEN 0 ELSE total

\* push_data(), pull_data() and complete(): RUN ends with the count
FloppyMove(dir, len) ==
    /\ ch.kind = "floppy"
    /\ ch.run /\ ch.dir = dir /\ ch.count > 0
    /\ LET n == Minimum(ch.count, len)
           left == ch.count - n
       IN  /\ UpdateIrq([ch EXCEPT !.count = left, !.run = left > 0,
                                   !.if = @ \/ left = 0])
           /\ total' = total + n

-----------------------------------------------------------------------------
(* Serial.                                                                 *)

\* dma_is_ready()
SerialReady(c) == c.run /\ ~c.pause

\* xfer_retry(): the device takes or gives at most the length asked for;
\* with a zero count only continuous reception goes on
SerialRoom(c) ==
    IF ~SerialReady(c) THEN 0
    ELSE IF c.count > 0 THEN Minimum(BufSize - c.pos, c.count)
    ELSE IF c.rx /\ c.cont THEN BufSize - c.pos
    ELSE 0

SerialMoved(c, n) ==
    LET left == IF c.count > 0 THEN c.count - n ELSE 0
        done == c.count > 0 /\ left = 0
    IN  [c EXCEPT !.pos = (@ + n) % BufSize, !.count = left,
                  !.if = @ \/ done,
                  !.run = @ /\ ~(done /\ ~(c.rx /\ c.cont))]

\* xfer_retry() with n bytes at hand, as the controller calls it
SerialRetry(n) ==
    /\ ch.kind = "serial"
    /\ n \in 1..SerialRoom(ch)
    /\ UpdateIrq(SerialMoved(ch, n))
    /\ total' = IF ch.count > 0 THEN total + n ELSE total

\* write_reg(4), write_reg(5): the count
SerialCount(n) ==
    /\ ch.kind = "serial"
    /\ ch' = [ch EXCEPT !.count = n, !.given = n]
    /\ total' = 0
    /\ UNCHANGED ifr

\* write_reg(8): a start with a zero count takes the whole buffer; then
\* xfer_retry()
SerialCtrl(rst, run, cont, pause, ie, clear, n) ==
    /\ ch.kind = "serial"
    /\ LET start == run /\ ~ch.run /\ ch.count = 0
           c == IF rst THEN NewSerial(ch.rx)
                ELSE [ch EXCEPT !.run = run, !.cont = cont, !.pause = pause,
                                !.ie = ie, !.if = @ /\ ~clear,
                                !.count = IF start THEN BufSize ELSE @,
                                !.given = IF start THEN BufSize ELSE @]
           base == IF rst \/ start THEN 0 ELSE total
       IN  /\ n \in 0..SerialRoom(c)
           /\ UpdateIrq(IF n = 0 THEN c ELSE SerialMoved(c, n))
           /\ total' = IF c.count > 0 THEN base + n ELSE base

-----------------------------------------------------------------------------
(* Ethernet reception.                                                     *)

Pages(from, n) == {(from + i) % RxPages : i \in 0..(n - 1)}

\* enet_receive(): the frame is dropped, and an overrun reported, unless a
\* free page stays behind it
FreePages(c) ==
    LET free == (c.tail + RxPages - c.head) % RxPages
    IN  IF free = 0 THEN RxPages ELSE free

FitsExactly(c, pages) == pages <= FreePages(c)
Fits(c, pages) == pages < FreePages(c)

EnetReceive(pages) ==
    /\ ch.kind = "enet" /\ ch.run
    /\ IF Fits(ch, pages) /\ ~ch.overrun
       THEN /\ UpdateIrq([ch EXCEPT !.head = (@ + pages) % RxPages,
                                    !.unread = @ \cup Pages(ch.head, pages),
                                    !.if = TRUE])
            /\ total' = IF Pages(ch.head, pages) \cap ch.unread = {}
                        THEN total ELSE 1
       ELSE /\ UpdateIrq([ch EXCEPT !.if = TRUE, !.overrun = TRUE])
            /\ UNCHANGED total

\* Enet_Rcv_Tail: the guest gives back the pages that it has read
EnetTail(n) ==
    /\ ch.kind = "enet"
    /\ Pages(ch.tail, n) \subseteq ch.unread
    /\ ch' = [ch EXCEPT !.tail = (@ + n) % RxPages,
                        !.unread = @ \ Pages(ch.tail, n)]
    /\ UNCHANGED <<ifr, total>>

\* Enet_DMA_Rcv_Ctrl: enet_dma_control()
EnetCtrl(rst, run, ie, clear, clearOver) ==
    /\ ch.kind = "enet"
    /\ UpdateIrq(IF rst THEN NewEnet
                 ELSE [ch EXCEPT !.run = run, !.ie = ie, !.if = @ /\ ~clear,
                                 !.overrun = @ /\ ~clearOver])
    /\ UNCHANGED total

\* Enet_Xmt_Count: the guest fills one of the two transmit buffers
EnetTxFill(set) ==
    /\ ch.kind = "enettx" /\ set \notin ch.sets /\ ch.given < MaxFrames
    /\ ch' = [ch EXCEPT !.sets = @ \cup {set}, !.given = @ + 1]
    /\ UNCHANGED <<ifr, total>>

\* Enet_DMA_Xmt_Ctrl: IF also dismisses the completed sets; then
\* enet_transmit() sends every filled buffer
EnetTransmit(c) == [c EXCEPT !.done = @ \cup c.sets,
                             !.if = @ \/ c.sets # {}, !.sets = {}]

EnetTxCtrl(rst, run, ie, clear, clearSets) ==
    /\ ch.kind = "enettx"
    /\ LET c == IF rst THEN NewEnetTx
                ELSE [ch EXCEPT !.run = run, !.ie = ie, !.if = @ /\ ~clear,
                                !.done = IF clear THEN {} ELSE @ \ clearSets]
       IN  /\ UpdateIrq(IF c.run THEN EnetTransmit(c) ELSE c)
           /\ total' = IF rst THEN 0
                       ELSE IF c.run THEN total + Cardinality(c.sets)
                       ELSE total

-----------------------------------------------------------------------------
(* Sound output: the host's audio thread pulls, the guest clears flags.    *)

SoundLevel(c) == c.flags \cap c.ies # {}

\* update_irq(): the flag register follows later, by an immediate timer
SoundUpdateIrq(c) ==
    IF SoundLevel(c) # c.level
    THEN [c EXCEPT !.level = SoundLevel(c), !.timer = TRUE]
    ELSE c

SoundTimerFires ==
    /\ ch.kind = "sound" /\ ch.timer
    /\ ch' = [ch EXCEPT !.timer = FALSE]
    /\ ifr' = ch.level
    /\ UNCHANGED total

\* pull_data(): at the end of a buffer its flag is set; a disabled channel
\* stops after buffer 1
SoundPull ==
    /\ ch.kind = "sound" /\ ch.played
    /\ ch' = IF ch.pos < SndLen THEN [ch EXCEPT !.pos = @ + 1]
             ELSE LET c == SoundUpdateIrq([ch EXCEPT !.flags = @ \cup {ch.buf}])
                  IN  IF ch.buf = 1 /\ ~ch.on THEN [c EXCEPT !.played = FALSE]
                      ELSE [c EXCEPT !.buf = 1 - @, !.pos = 1]
    /\ UNCHANGED <<ifr, total>>

\* Snd_Out_Ctrl: init() also forgets the level that the flag register has
SoundOutCtrl(on) ==
    /\ ch.kind = "sound" /\ on # ch.on
    /\ ch' = IF on THEN [ch EXCEPT !.on = TRUE, !.played = TRUE, !.buf = 0,
                                   !.pos = 0, !.level = FALSE]
             ELSE [ch EXCEPT !.on = FALSE]
    /\ total' = IF on /\ (ifr \/ ch.timer) THEN 1 ELSE total
    /\ UNCHANGED ifr

\* write_dma_out_ctrl(): flags first, then the enables without an update
SoundDmaCtrl(clear, ies) ==
    /\ ch.kind = "sound"
    /\ LET c == IF clear # {}
                THEN SoundUpdateIrq([ch EXCEPT !.flags = @ \ clear]) ELSE ch
       IN  ch' = [c EXCEPT !.ies = ies]
    /\ UNCHANGED <<ifr, total>>

DmaNext ==
    \/ \E a, b, c, d, e \in BOOLEAN :
           \/ \E dir \in {"in", "out"}, n \in Counts :
                  FloppyCtrl(a, b, dir, c, d, n)
           \/ \E n \in 0..BufSize : SerialCtrl(a, b, c, d, e, ~e, n)
           \/ \E n \in 0..BufSize : SerialCtrl(a, b, c, d, e, e, n)
           \/ EnetCtrl(a, b, c, d, e)
           \/ \E S \in SUBSET {0, 1} : EnetTxCtrl(a, b, c, d, S)
    \/ \E dir \in {"in", "out"}, len \in 1..BufSize : FloppyMove(dir, len)
    \/ \E n \in 1..BufSize : SerialRetry(n) \/ SerialCount(n)
    \/ \E n \in FramePages : EnetReceive(n)
    \/ \E n \in 1..RxPages : EnetTail(n)
    \/ \E set \in {0, 1} : EnetTxFill(set)
    \/ \E on \in BOOLEAN : SoundOutCtrl(on)
    \/ \E clear, ies \in SUBSET {0, 1} : SoundDmaCtrl(clear, ies)
    \/ SoundPull \/ SoundTimerFires

DmaSpec == DmaInit /\ [][DmaNext]_dmaVars

-----------------------------------------------------------------------------
Byte == 0..BufSize

DmaTypeOK ==
    /\ ifr \in BOOLEAN /\ total \in Nat
    /\ ch.kind = "floppy" => ch.count \in 0..(ch.given)
    /\ ch.kind = "serial" => ch.count \in Byte /\ ch.pos \in 0..(BufSize - 1)
    /\ ch.kind = "enet" => {ch.head, ch.tail} \subseteq 0..(RxPages - 1)
    /\ ch.kind = "sound" => ch.pos \in 0..SndLen /\ ch.buf \in 0..1

\* A floppy or serial transfer moves exactly the bytes that the guest asked
\* for: the count is what is left, and a channel whose count has run out
\* has set its flag and, unless it receives continuously, has stopped.
CountExact ==
    /\ ch.kind \in {"floppy", "serial"} => total + ch.count = ch.given
    /\ ch.kind = "floppy" /\ ch.run /\ total > 0 => ch.count > 0
    /\ ch.kind = "serial" /\ ch.run /\ ch.count = 0 => ch.rx

\* The flag register shows the interrupt of a floppy, serial or Ethernet
\* channel exactly while its flag is set and enabled.
FlagShown == ch.kind # "sound" => (ifr = Level(ch))

\* No frame is stored over a page that the guest has not given back, and the
\* ring's pointers tell apart full from empty.
RingSafe ==
    ch.kind = "enet" =>
        /\ total = 0
        /\ (ch.head = ch.tail) = (ch.unread = {})

\* Every frame that the guest fills in is sent once: the sent ones and the
\* filled buffers add up.
SentOnce ==
    ch.kind = "enettx" => total + Cardinality(ch.sets) = ch.given

\* The sound interrupt settles: without a pending timer the flag register
\* shows the level, unless playback was restarted over a raised interrupt.
SoundFlagSettles ==
    ch.kind = "sound" /\ ~ch.timer /\ total = 0 => (ifr = ch.level)

-----------------------------------------------------------------------------
(***************************************************************************)
(* The interrupt cascade for any sources.  Native and emulation mode share *)
(* the flag and the pin; what carries the promises of one mode over the    *)
(* time spent in the other is that the flag is never up without the pin.   *)
(***************************************************************************)

\* No device drives the lines of VIA2 and of the DMA flags.
OwnLines == "VIA2" \notin CpuSrc /\ "ALL_DMA" \notin CpuSrc

PinShown(s) ==
    /\ s.flag => s.pin
    /\ s.mode = "native" => (s.pin = (s.lines # {}))
Via2Forwarded(s) == s.via2Irq = ("VIA2" \in s.lines)
Via2Summed(s) == s.via2Irq = (s.via2 \cap s.ier # {})
DmaForwarded(s) == s.dmaIrq = ("ALL_DMA" \in s.lines)
DmaSummed(s) == s.dmaIrq = (s.dma # {})

CascadeInv ==
    /\ TypeOK
    /\ PinShown(amic) /\ ChangeSignalled
    /\ Via2Forwarded(amic) /\ Via2Summed(amic)
    /\ DmaForwarded(amic) /\ DmaSummed(amic)

\* In emulation mode a change of the lines raises the pin and nothing but an
\* acknowledge lowers it.
Pulsed(s, t) ==
    /\ t.mode = s.mode
    /\ s.mode = "emulated" /\ (s.pin \/ t.lines # s.lines) => t.pin

\* ack_cpu_int() sets one line and puts the pin right for the mode.
LEMMA AckCpuIntStep ==
    ASSUME NEW s \in Registers, PinShown(s), NEW l \in Lines, NEW on \in BOOLEAN
    PROVE  LET t == AckCpuInt(s, l, on)
           IN  /\ t \in Registers /\ PinShown(t) /\ Pulsed(s, t)
               /\ t.lines = Switch(s.lines, l, on)
               /\ t.via2 = s.via2 /\ t.ier = s.ier /\ t.via2Irq = s.via2Irq
               /\ t.dma = s.dma /\ t.dmaIrq = s.dmaIrq
<1> DEFINE u == [s EXCEPT !.lines = Switch(@, l, on)]
           t == AckCpuInt(s, l, on)
<1>1. /\ u \in Registers /\ u.lines = Switch(s.lines, l, on)
      /\ u.via2 = s.via2 /\ u.ier = s.ier /\ u.via2Irq = s.via2Irq
      /\ u.dma = s.dma /\ u.dmaIrq = s.dmaIrq /\ u.mode = s.mode
      /\ u.pin = s.pin /\ u.flag = s.flag
  BY DEF Registers, Switch
<1>2. CASE s.mode = "emulated"
  <2>1. t = [u EXCEPT !.flag = TRUE, !.pin = @ \/ ~s.flag]
    BY <1>2 DEF AckCpuInt
  <2> HIDE DEF u, t
  <2>2. /\ t \in Registers /\ t.lines = u.lines
        /\ t.via2 = u.via2 /\ t.ier = u.ier /\ t.via2Irq = u.via2Irq
        /\ t.dma = u.dma /\ t.dmaIrq = u.dmaIrq /\ t.mode = u.mode
    BY <1>1, <2>1 DEF Registers
  <2>3. t.pin = (s.pin \/ ~s.flag)
    BY <1>1, <2>1 DEF Registers
  <2>4. t.pin
    BY <2>3 DEF PinShown, Registers
  <2>5. PinShown(t) /\ Pulsed(s, t)
    BY <1>1, <1>2, <2>2, <2>4 DEF PinShown, Pulsed
  <2> QED
    BY <1>1, <2>2, <2>5 DEF t
<1>3. CASE s.mode = "native"
  <2>1. t = [u EXCEPT !.flag = u.lines # {}, !.pin = u.lines # {}]
    BY <1>3 DEF AckCpuInt, UpdateNativeIrq
  <2> HIDE DEF u, t
  <2>2. /\ t \in Registers /\ t.lines = u.lines
        /\ t.via2 = u.via2 /\ t.ier = u.ier /\ t.via2Irq = u.via2Irq
        /\ t.dma = u.dma /\ t.dmaIrq = u.dmaIrq /\ t.mode = u.mode
        /\ t.flag = (u.lines # {}) /\ t.pin = (u.lines # {})
    BY <1>1, <2>1 DEF Registers
  <2>3. PinShown(t) /\ Pulsed(s, t)
    BY <1>1, <1>3, <2>2 DEF PinShown, Pulsed
  <2> QED
    BY <1>1, <2>2, <2>3 DEF t
<1> QED
  BY <1>2, <1>3 DEF Registers

\* update_via2_irq() brings the summary of VIA2 and its line up to date from any
\* state where the two agree with each other.
LEMMA UpdateVia2IrqStep ==
    ASSUME NEW s \in Registers, PinShown(s), Via2Forwarded(s)
    PROVE  LET t == UpdateVia2Irq(s)
           IN  /\ t \in Registers /\ PinShown(t) /\ Pulsed(s, t)
               /\ Via2Forwarded(t) /\ Via2Summed(t)
               /\ ("ALL_DMA" \in t.lines) = ("ALL_DMA" \in s.lines)
               /\ t.dma = s.dma /\ t.dmaIrq = s.dmaIrq
<1> DEFINE irq == s.via2 \cap s.ier # {}
           u == [s EXCEPT !.via2Irq = irq]
           t == AckCpuInt(u, "VIA2", irq)
<1>1. CASE irq # s.via2Irq
  <2>1. UpdateVia2Irq(s) = t
    BY <1>1 DEF UpdateVia2Irq
  <2>2. /\ u \in Registers /\ u.via2Irq = irq /\ u.lines = s.lines
        /\ u.via2 = s.via2 /\ u.ier = s.ier /\ u.dma = s.dma
        /\ u.dmaIrq = s.dmaIrq /\ u.mode = s.mode /\ u.pin = s.pin
        /\ u.flag = s.flag
    BY DEF Registers
  <2>3. "VIA2" \in Lines /\ irq \in BOOLEAN
    BY DEF Lines
  <2> HIDE DEF u
  <2>4. PinShown(u)
    BY <2>2 DEF PinShown
  <2>5. /\ t \in Registers /\ PinShown(t) /\ Pulsed(u, t)
        /\ t.lines = Switch(u.lines, "VIA2", irq)
        /\ t.via2 = u.via2 /\ t.ier = u.ier /\ t.via2Irq = u.via2Irq
        /\ t.dma = u.dma /\ t.dmaIrq = u.dmaIrq
    BY <2>2, <2>3, <2>4, AckCpuIntStep
  <2> HIDE DEF t
  <2>6. ("VIA2" \in t.lines) = irq
    BY <2>5 DEF Switch
  <2>7. Via2Forwarded(t) /\ Via2Summed(t)
    BY <2>2, <2>5, <2>6 DEF Via2Forwarded, Via2Summed
  <2>8. ("ALL_DMA" \in t.lines) = ("ALL_DMA" \in s.lines)
    BY <2>2, <2>5 DEF Switch
  <2>9. Pulsed(s, t)
    BY <2>2, <2>5 DEF Pulsed
  <2> QED
    BY <2>1, <2>2, <2>5, <2>7, <2>8, <2>9
<1>2. CASE irq = s.via2Irq
  BY <1>2 DEF UpdateVia2Irq, Via2Summed, Pulsed
<1> QED
  BY <1>1, <1>2

\* A call that leaves every stage right keeps the invariant.
LEMMA StageStep ==
    ASSUME CascadeInv, NEW t \in Registers, PinShown(t), Pulsed(amic, t),
           Via2Forwarded(t), Via2Summed(t), DmaForwarded(t), DmaSummed(t),
           Step(t)
    PROVE  CascadeInv'
<1>1. /\ amic' = t
      /\ changed' = ((changed \/ t.lines # amic.lines) /\ t.mode = "emulated")
  BY DEF Step
<1>2. changed' => t.pin
  BY <1>1 DEF CascadeInv, ChangeSignalled, Pulsed
<1>3. changed' \in BOOLEAN
  BY <1>1
<1> QED
  BY <1>1, <1>2, <1>3 DEF CascadeInv, TypeOK, ChangeSignalled, PinShown,
     Via2Forwarded, Via2Summed, DmaForwarded, DmaSummed

\* A call of update_via2_irq() after slots, flags or enables of VIA2 changed.
LEMMA Via2Step ==
    ASSUME CascadeInv, NEW s \in Registers, s.lines = amic.lines,
           s.mode = amic.mode, s.flag = amic.flag, s.pin = amic.pin,
           s.via2Irq = amic.via2Irq, s.dma = amic.dma, s.dmaIrq = amic.dmaIrq,
           Step(UpdateVia2Irq(s))
    PROVE  CascadeInv'
<1> DEFINE t == UpdateVia2Irq(s)
<1>1. PinShown(s) /\ Via2Forwarded(s)
  BY DEF CascadeInv, PinShown, Via2Forwarded
<1>2. /\ t \in Registers /\ PinShown(t) /\ Pulsed(s, t)
      /\ Via2Forwarded(t) /\ Via2Summed(t)
      /\ ("ALL_DMA" \in t.lines) = ("ALL_DMA" \in s.lines)
      /\ t.dma = s.dma /\ t.dmaIrq = s.dmaIrq
  BY <1>1, UpdateVia2IrqStep
<1>3. Step(t)
  OBVIOUS
<1> HIDE DEF t
<1>4. Pulsed(amic, t) /\ DmaForwarded(t) /\ DmaSummed(t)
  BY <1>2 DEF CascadeInv, Pulsed, DmaForwarded, DmaSummed
<1> QED
  BY <1>2, <1>3, <1>4, StageStep

\* A call that changes registers outside the cascade only.
LEMMA AsideStep ==
    ASSUME CascadeInv, NEW s \in Registers, s.lines = amic.lines,
           s.mode = amic.mode, s.flag = amic.flag, s.pin = amic.pin,
           s.via2Irq = amic.via2Irq, s.dma = amic.dma, s.dmaIrq = amic.dmaIrq,
           s.via2 = amic.via2, s.ier = amic.ier, Step(s)
    PROVE  CascadeInv'
<1>1. /\ PinShown(s) /\ Via2Forwarded(s) /\ Via2Summed(s)
      /\ DmaForwarded(s) /\ DmaSummed(s) /\ Pulsed(amic, s)
  BY DEF CascadeInv, PinShown, Via2Forwarded, Via2Summed, DmaForwarded,
         DmaSummed, Pulsed
<1> QED
  BY <1>1, StageStep

\* ack_slot_int() forwards a change of the slot summary to VIA2.
LEMMA SlotStep ==
    ASSUME CascadeInv, NEW l, NEW on \in BOOLEAN, on => l \in SlotSrc,
           Step(AckSlotInt(amic, l, on))
    PROVE  CascadeInv'
<1> DEFINE u == [amic EXCEPT !.slot = Switch(@, l, on)]
           irq == u.slot \cap u.slotIer # {}
           v == [u EXCEPT !.slotIrq = irq]
           w == [v EXCEPT !.via2 = Switch(@, "ALL_SLOT", irq)]
<1>1. amic \in Registers
  BY DEF CascadeInv, TypeOK
<1>2. u \in Registers
  BY <1>1 DEF Registers, Switch
<1>3. w \in Registers
  BY <1>2, ZenonT(60) DEF Registers, Switch, Via2Flags
<1>4. CASE irq # amic.slotIrq
  <2>1. Step(UpdateVia2Irq(w))
    BY <1>4 DEF AckSlotInt, AckVia2Int
  <2>2. /\ w.lines = amic.lines /\ w.mode = amic.mode /\ w.flag = amic.flag
        /\ w.pin = amic.pin /\ w.via2Irq = amic.via2Irq
        /\ w.dma = amic.dma /\ w.dmaIrq = amic.dmaIrq
    BY <1>1 DEF Registers
  <2> HIDE DEF w
  <2> QED
    BY <1>3, <2>1, <2>2, Via2Step
<1>5. CASE irq = amic.slotIrq
  <2>1. Step(u)
    BY <1>5 DEF AckSlotInt
  <2>2. /\ u.lines = amic.lines /\ u.mode = amic.mode /\ u.flag = amic.flag
        /\ u.pin = amic.pin /\ u.via2Irq = amic.via2Irq
        /\ u.dma = amic.dma /\ u.dmaIrq = amic.dmaIrq
        /\ u.via2 = amic.via2 /\ u.ier = amic.ier
    BY <1>1 DEF Registers
  <2> HIDE DEF u
  <2> QED
    BY <1>2, <2>1, <2>2, AsideStep
<1> QED
  BY <1>4, <1>5

\* The registers start right.
LEMMA CascadeStarts == Init => CascadeInv
<1>1. Init => CascadeInv
  <2> SUFFICES ASSUME Init PROVE CascadeInv
    OBVIOUS
  <2>1. amic \in Registers /\ changed = FALSE
    BY DEF Init, Registers
  <2>2. /\ amic.lines = {} /\ amic.flag = FALSE /\ amic.pin = FALSE
        /\ amic.via2 = {} /\ amic.via2Irq = FALSE /\ amic.dma = {}
        /\ amic.dmaIrq = FALSE
    BY DEF Init
  <2>3. /\ ("VIA2" \in amic.lines) = FALSE /\ ("ALL_DMA" \in amic.lines) = FALSE
        /\ (amic.via2 \cap amic.ier # {}) = FALSE /\ (amic.dma # {}) = FALSE
        /\ (amic.lines # {}) = FALSE
    BY <2>2
  <2> QED
    BY <2>1, <2>2, <2>3 DEF CascadeInv, TypeOK, ChangeSignalled, PinShown,
       Via2Forwarded, Via2Summed, DmaForwarded, DmaSummed
<1> QED
  BY <1>1

\* Every call keeps every stage right, whichever sources there are.
LEMMA CascadeKept ==
    ASSUME OwnLines, CascadeInv, [Next]_amicVars
    PROVE  CascadeInv'
<1>2. CascadeInv /\ UNCHANGED amicVars => CascadeInv'
  BY DEF CascadeInv, amicVars, TypeOK, ChangeSignalled, PinShown, Via2Forwarded,
         Via2Summed, DmaForwarded, DmaSummed
<1>3. ASSUME CascadeInv, Next PROVE CascadeInv'
  <2>1. amic \in Registers /\ changed \in BOOLEAN
    BY <1>3 DEF CascadeInv, TypeOK
  <2>2. ASSUME NEW l \in SlotSrc, NEW on \in BOOLEAN, SlotLine(l, on)
        PROVE  CascadeInv'
    BY <1>3, <2>2, SlotStep DEF SlotLine
  <2>3. ASSUME WriteSlotIfr PROVE CascadeInv'
    BY <1>3, <2>3, SlotStep DEF WriteSlotIfr
  <2>4. ASSUME NEW f \in Via2Src, NEW on \in BOOLEAN, Via2Line(f, on)
        PROVE  CascadeInv'
    <3> DEFINE s == [amic EXCEPT !.via2 = Switch(@, f, on)]
    <3>1. s \in Registers
      BY <2>1 DEF Registers, Switch, Via2Flags
    <3>2. /\ s.lines = amic.lines /\ s.mode = amic.mode /\ s.flag = amic.flag
          /\ s.pin = amic.pin /\ s.via2Irq = amic.via2Irq
          /\ s.dma = amic.dma /\ s.dmaIrq = amic.dmaIrq
      BY <2>1 DEF Registers
    <3>3. Step(UpdateVia2Irq(s))
      BY <2>4 DEF Via2Line, AckVia2Int
    <3> HIDE DEF s
    <3> QED
      BY <1>3, <3>1, <3>2, <3>3, Via2Step
  <2>5. ASSUME NEW S \in SUBSET Via2Flags, WriteVia2Ifr(S)
        PROVE  CascadeInv'
    <3> DEFINE s == [amic EXCEPT !.via2 = @ \ S]
    <3>1. s \in Registers
      BY <2>1 DEF Registers
    <3>2. /\ s.lines = amic.lines /\ s.mode = amic.mode /\ s.flag = amic.flag
          /\ s.pin = amic.pin /\ s.via2Irq = amic.via2Irq
          /\ s.dma = amic.dma /\ s.dmaIrq = amic.dmaIrq
      BY <2>1 DEF Registers
    <3>3. Step(UpdateVia2Irq(s))
      BY <2>5 DEF WriteVia2Ifr
    <3> HIDE DEF s
    <3> QED
      BY <1>3, <3>1, <3>2, <3>3, Via2Step
  <2>6. ASSUME NEW on \in BOOLEAN, NEW S \in SUBSET Via2Flags, WriteVia2Ier(on, S)
        PROVE  CascadeInv'
    <3> DEFINE s == [amic EXCEPT !.ier = IF on THEN @ \cup S ELSE @ \ S]
    <3>1. s \in Registers
      BY <2>1 DEF Registers
    <3>2. /\ s.lines = amic.lines /\ s.mode = amic.mode /\ s.flag = amic.flag
          /\ s.pin = amic.pin /\ s.via2Irq = amic.via2Irq
          /\ s.dma = amic.dma /\ s.dmaIrq = amic.dmaIrq
      BY <2>1 DEF Registers
    <3>3. Step(UpdateVia2Irq(s))
      BY <2>6 DEF WriteVia2Ier
    <3> HIDE DEF s
    <3> QED
      BY <1>3, <3>1, <3>2, <3>3, Via2Step
  <2>7. ASSUME NEW on \in BOOLEAN, NEW S \in SUBSET SlotSrc, WriteSlotIer(on, S)
        PROVE  CascadeInv'
    <3> DEFINE s == [amic EXCEPT !.slotIer = IF on THEN @ \cup S ELSE @ \ S]
    <3>1. s \in Registers
      BY <2>1 DEF Registers
    <3>2. /\ s.lines = amic.lines /\ s.mode = amic.mode /\ s.flag = amic.flag
          /\ s.pin = amic.pin /\ s.via2Irq = amic.via2Irq
          /\ s.dma = amic.dma /\ s.dmaIrq = amic.dmaIrq
          /\ s.via2 = amic.via2 /\ s.ier = amic.ier
      BY <2>1 DEF Registers
    <3>3. Step(s)
      BY <2>7 DEF WriteSlotIer
    <3> HIDE DEF s
    <3> QED
      BY <1>3, <3>1, <3>2, <3>3, AsideStep
  <2>8. ASSUME NEW l \in CpuSrc, NEW on \in BOOLEAN, CpuLine(l, on)
        PROVE  CascadeInv'
    <3> DEFINE t == AckCpuInt(amic, l, on)
    <3>1. l \in Lines /\ l # "VIA2" /\ l # "ALL_DMA"
      BY DEF Lines, OwnLines
    <3>2. PinShown(amic)
      BY <1>3 DEF CascadeInv
    <3>3. /\ t \in Registers /\ PinShown(t) /\ Pulsed(amic, t)
          /\ t.lines = Switch(amic.lines, l, on)
          /\ t.via2 = amic.via2 /\ t.ier = amic.ier /\ t.via2Irq = amic.via2Irq
          /\ t.dma = amic.dma /\ t.dmaIrq = amic.dmaIrq
      BY <2>1, <3>1, <3>2, AckCpuIntStep
    <3>4. Step(t)
      BY <2>8 DEF CpuLine
    <3> HIDE DEF t
    <3>5. /\ ("VIA2" \in t.lines) = ("VIA2" \in amic.lines)
          /\ ("ALL_DMA" \in t.lines) = ("ALL_DMA" \in amic.lines)
      BY <3>1, <3>3 DEF Switch
    <3>6. /\ Via2Forwarded(t) /\ Via2Summed(t) /\ DmaForwarded(t) /\ DmaSummed(t)
      BY <1>3, <3>3, <3>5 DEF CascadeInv, Via2Forwarded, Via2Summed,
         DmaForwarded, DmaSummed
    <3> QED
      BY <1>3, <3>3, <3>4, <3>6, StageStep
  <2>9. ASSUME NEW d \in DmaSrc, NEW on \in BOOLEAN, DmaLine(d, on)
        PROVE  CascadeInv'
    <3> DEFINE u == [amic EXCEPT !.dma = Switch(@, d, on)]
               irq == u.dma # {}
               v == [u EXCEPT !.dmaIrq = irq]
               t == AckCpuInt(v, "ALL_DMA", irq)
    <3>1. /\ u \in Registers /\ u.lines = amic.lines /\ u.mode = amic.mode
          /\ u.flag = amic.flag /\ u.pin = amic.pin /\ u.via2Irq = amic.via2Irq
          /\ u.via2 = amic.via2 /\ u.ier = amic.ier /\ u.dmaIrq = amic.dmaIrq
      BY <2>1 DEF Registers, Switch
    <3>2. Step(IF irq # amic.dmaIrq THEN t ELSE u)
      BY <2>9 DEF DmaLine, AckDmaInt
    <3> HIDE DEF u
    <3>3. /\ v \in Registers /\ v.lines = u.lines /\ v.mode = u.mode
          /\ v.flag = u.flag /\ v.pin = u.pin /\ v.via2Irq = u.via2Irq
          /\ v.via2 = u.via2 /\ v.ier = u.ier /\ v.dma = u.dma
          /\ v.dmaIrq = irq
      BY <3>1 DEF Registers
    <3>4. "ALL_DMA" \in Lines /\ irq \in BOOLEAN
      BY DEF Lines
    <3> HIDE DEF v
    <3>5. PinShown(v)
      BY <1>3, <3>1, <3>3 DEF CascadeInv, PinShown
    <3>6. CASE irq # amic.dmaIrq
      <4>1. /\ t \in Registers /\ PinShown(t) /\ Pulsed(v, t)
            /\ t.lines = Switch(v.lines, "ALL_DMA", irq)
            /\ t.via2 = v.via2 /\ t.ier = v.ier /\ t.via2Irq = v.via2Irq
            /\ t.dma = v.dma /\ t.dmaIrq = v.dmaIrq
        BY <3>3, <3>4, <3>5, AckCpuIntStep
      <4>2. Step(t)
        BY <3>2, <3>6
      <4> HIDE DEF t
      <4>3. ("ALL_DMA" \in t.lines) = irq
        BY <4>1 DEF Switch
      <4>4. ("VIA2" \in t.lines) = ("VIA2" \in amic.lines)
        BY <3>1, <3>3, <4>1 DEF Switch
      <4>5. Pulsed(amic, t)
        BY <3>1, <3>3, <4>1 DEF Pulsed
      <4>6. DmaForwarded(t) /\ DmaSummed(t)
        BY <3>3, <4>1, <4>3 DEF DmaForwarded, DmaSummed
      <4>7. Via2Forwarded(t) /\ Via2Summed(t)
        BY <1>3, <3>1, <3>3, <4>1, <4>4 DEF CascadeInv, Via2Forwarded, Via2Summed
      <4> QED
        BY <1>3, <4>1, <4>2, <4>5, <4>6, <4>7, StageStep
    <3>7. CASE irq = amic.dmaIrq
      <4>1. Step(u)
        BY <3>2, <3>7
      <4>2. /\ PinShown(u) /\ Pulsed(amic, u) /\ Via2Forwarded(u)
            /\ Via2Summed(u) /\ DmaForwarded(u) /\ DmaSummed(u)
        BY <1>3, <3>1, <3>7 DEF CascadeInv, PinShown, Pulsed, Via2Forwarded,
           Via2Summed, DmaForwarded, DmaSummed
      <4> QED
        BY <1>3, <3>1, <4>1, <4>2, StageStep
    <3> QED
      BY <3>6, <3>7
  <2>10. ASSUME NEW clear \in BOOLEAN, NEW mode \in {"native", "emulated"},
                WriteIntCtrl(clear, mode)
         PROVE  CascadeInv'
    <3> DEFINE t == [amic EXCEPT !.mode = mode, !.flag = @ /\ ~clear,
                                 !.pin = @ /\ ~(clear /\ amic.flag)]
    <3>1. /\ t \in Registers /\ t.lines = amic.lines /\ t.mode = mode
          /\ t.flag = (amic.flag /\ ~clear)
          /\ t.pin = (amic.pin /\ ~(clear /\ amic.flag))
          /\ t.via2Irq = amic.via2Irq /\ t.via2 = amic.via2 /\ t.ier = amic.ier
          /\ t.dma = amic.dma /\ t.dmaIrq = amic.dmaIrq
      BY <2>1 DEF Registers
    <3>2. /\ amic' = IF mode = "native"
                     THEN [t EXCEPT !.flag = t.lines # {}, !.pin = t.lines # {}]
                     ELSE t
          /\ changed' = (changed /\ ~clear /\ mode = "emulated"
                             /\ amic.mode = "emulated")
      BY <2>10 DEF WriteIntCtrl, UpdateNativeIrq
    <3> HIDE DEF t
    <3>3. /\ amic' \in Registers /\ amic'.lines = t.lines /\ amic'.mode = mode
          /\ amic'.via2Irq = t.via2Irq /\ amic'.via2 = t.via2
          /\ amic'.ier = t.ier /\ amic'.dma = t.dma /\ amic'.dmaIrq = t.dmaIrq
      BY <3>1, <3>2 DEF Registers
    <3>4. mode = "native" => /\ amic'.flag = (amic'.lines # {})
                             /\ amic'.pin = (amic'.lines # {})
      BY <3>1, <3>2 DEF Registers
    <3>5. mode = "emulated" => amic'.flag = t.flag /\ amic'.pin = t.pin
      BY <3>2
    <3>6. amic'.flag => amic'.pin
      BY <1>3, <3>1, <3>4, <3>5 DEF CascadeInv, PinShown
    <3>7. changed' \in BOOLEAN /\ (changed' => amic'.pin)
      BY <1>3, <3>1, <3>2, <3>5 DEF CascadeInv, ChangeSignalled
    <3> QED
      BY <1>3, <3>1, <3>3, <3>4, <3>6, <3>7 DEF CascadeInv, TypeOK,
         ChangeSignalled, PinShown, Via2Forwarded, Via2Summed, DmaForwarded,
         DmaSummed
  <2> QED
    BY <1>3, <2>2, <2>3, <2>4, <2>5, <2>6, <2>7, <2>8, <2>9, <2>10 DEF Next
<1> QED
  BY <1>2, <1>3

\* Whatever the devices and the guest do, in native mode the pin is up exactly
\* while a line is, in emulation mode no change of a line since the last clear
\* goes unsignalled, across changes of mode (AMICReg::Int_Ctrl) too, and the lines
\* of VIA2 and of the DMA flags agree with what they summarise.
THEOREM AmicLosesNoInterrupt ==
    OwnLines => (Spec => [](NativePinFollows /\ ChangeSignalled /\ CascadeAgrees))
<1> SUFFICES ASSUME OwnLines PROVE Spec => [](NativePinFollows /\ ChangeSignalled /\ CascadeAgrees)
  OBVIOUS
<1>1. CascadeInv => NativePinFollows /\ ChangeSignalled /\ CascadeAgrees
  BY DEF CascadeInv, NativePinFollows, PinShown, CascadeAgrees, Via2Forwarded,
         Via2Summed, DmaForwarded, DmaSummed
<1>2. CascadeInv /\ [Next]_amicVars => CascadeInv'
  BY CascadeKept
<1> QED
  BY <1>1, <1>2, CascadeStarts, PTL DEF Spec

-----------------------------------------------------------------------------
(***************************************************************************)
(* The DMA channels, for any buffer and ring sizes.  A channel stays of    *)
(* its kind, and each kind has an invariant of its own.  The ring's is     *)
(* that the unread pages are those from the tail up to the head, which its *)
(* two pointers and the one free page behind a frame keep unambiguous.     *)
(***************************************************************************)

\* what the channels' registers are sized by
DmaSizes ==
    /\ BufSize \in Nat \ {0} /\ RxPages \in Nat \ {0} /\ SndLen \in Nat \ {0}
    /\ Counts \subseteq Nat /\ FramePages \subseteq Nat \ {0} /\ MaxFrames \in Nat

\* the steps from page a up to page b around the ring
Around(a, b) == IF a <= b THEN b - a ELSE b - a + RxPages

FloppyChannels ==
    [kind : {"floppy"}, run : BOOLEAN, dir : {"in", "out"}, ie : BOOLEAN,
     if : BOOLEAN, count : Nat, given : Nat]
SerialChannels ==
    [kind : {"serial"}, rx : BOOLEAN, run : BOOLEAN, cont : BOOLEAN,
     pause : BOOLEAN, ie : BOOLEAN, if : BOOLEAN, count : 0..BufSize,
     pos : 0..(BufSize - 1), given : Nat]
EnetChannels ==
    [kind : {"enet"}, run : BOOLEAN, ie : BOOLEAN, if : BOOLEAN,
     overrun : BOOLEAN, head : 0..(RxPages - 1), tail : 0..(RxPages - 1),
     unread : SUBSET (0..(RxPages - 1))]
EnetTxChannels ==
    [kind : {"enettx"}, run : BOOLEAN, ie : BOOLEAN, if : BOOLEAN,
     sets : SUBSET {0, 1}, done : SUBSET {0, 1}, given : Nat]
SoundChannels ==
    [kind : {"sound"}, on : BOOLEAN, flags : SUBSET {0, 1}, ies : SUBSET {0, 1},
     buf : 0..1, pos : 0..SndLen, level : BOOLEAN, timer : BOOLEAN,
     played : BOOLEAN]

FloppyInv(c, moved) ==
    /\ c \in FloppyChannels
    /\ moved + c.count = c.given
    /\ c.run /\ moved > 0 => c.count > 0
SerialInv(c, moved) ==
    /\ c \in SerialChannels
    /\ moved + c.count = c.given
    /\ c.run /\ c.count = 0 => c.rx
RingInv(c) ==
    /\ c \in EnetChannels
    /\ c.unread = {p \in 0..(RxPages - 1) : Around(c.tail, p) < Around(c.tail, c.head)}
SentInv(c, sent) ==
    /\ c \in EnetTxChannels
    /\ sent + Cardinality(c.sets) = c.given
SoundInv(c, flag, forgot) ==
    /\ c \in SoundChannels
    /\ ~c.timer /\ forgot = 0 => (flag = c.level)

DmaInv ==
    /\ ifr \in BOOLEAN /\ total \in Nat
    /\ \/ FloppyInv(ch, total) /\ ifr = Level(ch)
       \/ SerialInv(ch, total) /\ ifr = Level(ch)
       \/ RingInv(ch) /\ total = 0 /\ ifr = Level(ch)
       \/ SentInv(ch, total) /\ ifr = Level(ch)
       \/ SoundInv(ch, ifr, total)

\* A sum of a page and at most a whole ring wraps around at most once.
LEMMA WrapsOnce ==
    ASSUME NEW N \in Nat \ {0}, NEW a \in 0..(N - 1), NEW b \in 0..N
    PROVE  (a + b) % N = IF a + b < N THEN a + b ELSE a + b - N
  OBVIOUS

\* The pages of a frame are those that lie less than its length from its first.
LEMMA PagesAre ==
    ASSUME DmaSizes, NEW a \in 0..(RxPages - 1), NEW n \in 0..RxPages
    PROVE  Pages(a, n) = {p \in 0..(RxPages - 1) : Around(a, p) < n}
  <1> DEFINE Near == {p \in 0..(RxPages - 1) : Around(a, p) < n}
  <1>0. RxPages \in Nat \ {0}
    BY DEF DmaSizes
  <1>1. ASSUME NEW i \in 0..(n - 1)
        PROVE  (a + i) % RxPages \in Near
    <2>1. i \in 0..RxPages
      BY <1>0
    <2>2. (a + i) % RxPages = IF a + i < RxPages THEN a + i ELSE a + i - RxPages
      BY <1>0, <2>1, WrapsOnce
    <2> QED
      BY <1>0, <2>2 DEF Around
  <1>2. ASSUME NEW p \in Near
        PROVE  \E i \in 0..(n - 1) : p = (a + i) % RxPages
    <2> DEFINE i == Around(a, p)
    <2>1. i \in 0..(n - 1) /\ i \in 0..RxPages
      BY <1>0 DEF Around
    <2>2. (a + i) % RxPages = IF a + i < RxPages THEN a + i ELSE a + i - RxPages
      BY <1>0, <2>1, WrapsOnce
    <2>3. (a + i) % RxPages = p
      BY <1>0, <2>2 DEF Around
    <2> QED
      BY <2>1, <2>3
  <1> QED
    BY <1>1, <1>2 DEF Pages

\* Every channel starts idle.
LEMMA DmaStarts ==
    ASSUME DmaSizes, DmaInit
    PROVE  DmaInv
  <1>0. ifr = FALSE /\ total = 0 /\ ifr \in BOOLEAN /\ total \in Nat
    BY DEF DmaInit
  <1>1. CASE ch = NewFloppy
    <2>1. FloppyInv(ch, total) /\ ifr = Level(ch)
      BY <1>0, <1>1 DEF NewFloppy, FloppyInv, FloppyChannels, Level
    <2> QED
      BY <1>0, <2>1 DEF DmaInv
  <1>2. ASSUME NEW rx \in BOOLEAN, ch = NewSerial(rx) PROVE DmaInv
    <2>1. SerialInv(ch, total) /\ ifr = Level(ch)
      BY <1>0, <1>2 DEF NewSerial, SerialInv, SerialChannels, Level, DmaSizes
    <2> QED
      BY <1>0, <2>1 DEF DmaInv
  <1>3. CASE ch = NewEnet
    <2>1. RingInv(ch) /\ ifr = Level(ch)
      BY <1>0, <1>3 DEF NewEnet, RingInv, EnetChannels, Level, DmaSizes, Around
    <2> QED
      BY <1>0, <2>1 DEF DmaInv
  <1>4. CASE ch = NewEnetTx
    <2>1. Cardinality(ch.sets) = 0
      BY <1>4, FS_EmptySet DEF NewEnetTx
    <2>2. SentInv(ch, total) /\ ifr = Level(ch)
      BY <1>0, <1>4, <2>1 DEF NewEnetTx, SentInv, EnetTxChannels, Level
    <2> QED
      BY <1>0, <2>2 DEF DmaInv
  <1>5. CASE ch = NewSound
    <2>1. ch \in SoundChannels
      BY <1>5 DEF NewSound, SoundChannels, DmaSizes
    <2>2. ch.level = FALSE
      BY <1>5 DEF NewSound
    <2> QED
      BY <1>0, <2>1, <2>2 DEF DmaInv, SoundInv
  <1> QED
    BY <1>1, <1>2, <1>3, <1>4, <1>5 DEF DmaInit

\* The kind of a channel tells which invariant holds of it.
LEMMA KindTells ==
    ASSUME DmaInv
    PROVE  /\ ch.kind = "floppy" => FloppyInv(ch, total) /\ ifr = Level(ch)
           /\ ch.kind = "serial" => SerialInv(ch, total) /\ ifr = Level(ch)
           /\ ch.kind = "enet" => RingInv(ch) /\ total = 0 /\ ifr = Level(ch)
           /\ ch.kind = "enettx" => SentInv(ch, total) /\ ifr = Level(ch)
           /\ ch.kind = "sound" => SoundInv(ch, ifr, total)
  <1>1. FloppyInv(ch, total) => ch.kind = "floppy"
    BY DEF FloppyInv, FloppyChannels
  <1>2. SerialInv(ch, total) => ch.kind = "serial"
    BY DEF SerialInv, SerialChannels
  <1>3. RingInv(ch) => ch.kind = "enet"
    BY DEF RingInv, EnetChannels
  <1>4. SentInv(ch, total) => ch.kind = "enettx"
    BY DEF SentInv, EnetTxChannels
  <1>5. SoundInv(ch, ifr, total) => ch.kind = "sound"
    BY DEF SoundInv, SoundChannels
  <1>6. /\ "floppy" # "serial" /\ "floppy" # "enet" /\ "floppy" # "enettx"
        /\ "floppy" # "sound" /\ "serial" # "enet" /\ "serial" # "enettx"
        /\ "serial" # "sound" /\ "enet" # "enettx" /\ "enet" # "sound"
        /\ "enettx" # "sound"
    OBVIOUS
  <1> QED
    BY <1>1, <1>2, <1>3, <1>4, <1>5, <1>6 DEF DmaInv

\* The registers of the floppy channel, and a transfer that uses up the count.
LEMMA FloppyStep ==
    ASSUME DmaSizes, DmaInv,
           \/ \E rst, run, ie, clear \in BOOLEAN, dir \in {"in", "out"}, n \in Counts :
                  FloppyCtrl(rst, run, dir, ie, clear, n)
           \/ \E dir \in {"in", "out"}, len \in 1..BufSize : FloppyMove(dir, len)
    PROVE  DmaInv'
  <1>1. ASSUME NEW rst \in BOOLEAN, NEW run \in BOOLEAN, NEW ie \in BOOLEAN,
               NEW clear \in BOOLEAN, NEW dir \in {"in", "out"}, NEW n \in Counts,
               FloppyCtrl(rst, run, dir, ie, clear, n)
        PROVE  DmaInv'
    <2>1. ch.kind = "floppy" /\ n \in Nat
      BY <1>1 DEF FloppyCtrl, DmaSizes
    <2>2. ch \in FloppyChannels /\ total \in Nat /\ total + ch.count = ch.given
      BY <2>1, KindTells DEF FloppyInv, DmaInv
    <2> DEFINE kept == IF run THEN n ELSE IF rst THEN 0 ELSE ch.count
               asked == IF run THEN n ELSE IF rst THEN 0 ELSE ch.given
               t == [kind |-> "floppy", run |-> run, dir |-> dir, ie |-> ie,
                     if |-> ch.if /\ ~rst /\ ~clear, count |-> kept, given |-> asked]
    <2>3. ch' = t /\ ifr' = Level(ch')
      BY <1>1, <2>1, <2>2 DEF FloppyCtrl, UpdateIrq, FloppyChannels
    <2>4. kept \in Nat /\ asked \in Nat
      BY <2>1, <2>2 DEF FloppyChannels
    <2>5. t \in FloppyChannels
      BY <2>2, <2>4 DEF FloppyChannels
    <2>6. total' = (IF run \/ rst THEN 0 ELSE total)
      BY <1>1 DEF FloppyCtrl
    <2>7. total' + kept = asked /\ total' \in Nat /\ (run => total' = 0)
      BY <2>1, <2>2, <2>4, <2>6
    <2>8. FloppyInv(ch', total')
      BY <2>3, <2>5, <2>7 DEF FloppyInv
    <2>9. ifr' \in BOOLEAN
      BY <2>3, <2>5 DEF Level, FloppyChannels
    <2> QED
      BY <2>3, <2>7, <2>8, <2>9 DEF DmaInv, Level
  <1>2. ASSUME NEW dir \in {"in", "out"}, NEW len \in 1..BufSize, FloppyMove(dir, len)
        PROVE  DmaInv'
    <2>1. ch.kind = "floppy"
      BY <1>2 DEF FloppyMove
    <2>2. ch \in FloppyChannels /\ total \in Nat /\ total + ch.count = ch.given
      BY <2>1, KindTells DEF FloppyInv, DmaInv
    <2>3. /\ ch.count \in Nat /\ ch.given \in Nat /\ ch.if \in BOOLEAN
          /\ ch.dir \in {"in", "out"} /\ ch.ie \in BOOLEAN
      BY <2>2 DEF FloppyChannels
    <2>4. len \in Nat /\ BufSize \in Nat
      BY DEF DmaSizes
    <2> DEFINE n == Minimum(ch.count, len)
               left == ch.count - n
               t == [kind |-> "floppy", run |-> left > 0, dir |-> ch.dir,
                     ie |-> ch.ie, if |-> ch.if \/ left = 0, count |-> left,
                     given |-> ch.given]
    <2>5. n \in Nat /\ left \in Nat /\ n + left = ch.count
      BY <2>3, <2>4 DEF Minimum
    <2>6. ch' = [ch EXCEPT !.count = left, !.run = left > 0, !.if = @ \/ left = 0]
      BY <1>2 DEF FloppyMove, UpdateIrq
    <2>7. ch' = t
      BY <2>1, <2>2, <2>6 DEF FloppyChannels
    <2>8. ifr' = Level(ch') /\ total' = total + n
      BY <1>2 DEF FloppyMove, UpdateIrq
    <2>9. (left > 0) \in BOOLEAN /\ (ch.if \/ left = 0) \in BOOLEAN
      OBVIOUS
    <2>10. t \in FloppyChannels
      BY <2>3, <2>5, <2>9 DEF FloppyChannels
    <2>11. total' \in Nat /\ total' + left = ch.given
      BY <2>2, <2>3, <2>5, <2>8
    <2>12. FloppyInv(ch', total')
      BY <2>7, <2>10, <2>11 DEF FloppyInv
    <2>13. ifr' \in BOOLEAN
      BY <2>7, <2>8, <2>10 DEF Level, FloppyChannels
    <2> QED
      BY <2>8, <2>11, <2>12, <2>13 DEF DmaInv, Level
  <1> QED
    BY <1>1, <1>2

\* A register of a serial channel takes any value of its type.
LEMMA SerialRegister ==
    ASSUME NEW c \in SerialChannels
    PROVE  /\ \A b \in BOOLEAN : /\ [c EXCEPT !.run = b] \in SerialChannels
                                 /\ [c EXCEPT !.cont = b] \in SerialChannels
                                 /\ [c EXCEPT !.pause = b] \in SerialChannels
                                 /\ [c EXCEPT !.ie = b] \in SerialChannels
                                 /\ [c EXCEPT !.if = b] \in SerialChannels
           /\ \A k \in 0..BufSize : [c EXCEPT !.count = k] \in SerialChannels
           /\ \A p \in 0..(BufSize - 1) : [c EXCEPT !.pos = p] \in SerialChannels
           /\ \A n \in Nat : [c EXCEPT !.given = n] \in SerialChannels
  <1>1. \A b \in BOOLEAN : [c EXCEPT !.run = b] \in SerialChannels
    BY DEF SerialChannels
  <1>2. \A b \in BOOLEAN : [c EXCEPT !.cont = b] \in SerialChannels
    BY DEF SerialChannels
  <1>3. \A b \in BOOLEAN : [c EXCEPT !.pause = b] \in SerialChannels
    BY DEF SerialChannels
  <1>4. \A b \in BOOLEAN : [c EXCEPT !.ie = b] \in SerialChannels
    BY DEF SerialChannels
  <1>5. \A b \in BOOLEAN : [c EXCEPT !.if = b] \in SerialChannels
    BY DEF SerialChannels
  <1>6. \A k \in 0..BufSize : [c EXCEPT !.count = k] \in SerialChannels
    BY DEF SerialChannels
  <1>7. \A p \in 0..(BufSize - 1) : [c EXCEPT !.pos = p] \in SerialChannels
    BY DEF SerialChannels
  <1>8. \A n \in Nat : [c EXCEPT !.given = n] \in SerialChannels
    BY DEF SerialChannels
  <1> QED
    BY <1>1, <1>2, <1>3, <1>4, <1>5, <1>6, <1>7, <1>8

\* xfer_retry() moves at most what is left, and a transfer that ends stops the
\* channel unless it receives continuously.
LEMMA SerialMovedStep ==
    ASSUME DmaSizes, NEW c, NEW moved \in Nat, SerialInv(c, moved),
           NEW n \in 1..SerialRoom(c)
    PROVE  SerialInv(SerialMoved(c, n), IF c.count > 0 THEN moved + n ELSE moved)
  <1>1. /\ c.kind = "serial" /\ c.rx \in BOOLEAN /\ c.run \in BOOLEAN
        /\ c.cont \in BOOLEAN /\ c.pause \in BOOLEAN /\ c.ie \in BOOLEAN
        /\ c.if \in BOOLEAN /\ c.count \in 0..BufSize /\ c.pos \in 0..(BufSize - 1)
        /\ c.given \in Nat /\ c \in SerialChannels
    BY DEF SerialInv, SerialChannels
  <1>2. BufSize \in Nat /\ BufSize > 0
    BY DEF DmaSizes
  <1>3. SerialRoom(c) \in 0..BufSize /\ (c.count > 0 => SerialRoom(c) <= c.count)
    BY <1>1, <1>2 DEF SerialRoom, Minimum
  <1>4. n \in Nat /\ n > 0 /\ n <= SerialRoom(c)
    BY <1>3
  <1>5. c.run /\ (c.count = 0 => c.rx)
    BY <1>1, <1>2, <1>4 DEF SerialRoom, SerialReady
  <1> DEFINE left == IF c.count > 0 THEN c.count - n ELSE 0
             done == c.count > 0 /\ left = 0
             on == c.run /\ ~(done /\ ~(c.rx /\ c.cont))
             pos == (c.pos + n) % BufSize
             t == [c EXCEPT !.pos = pos, !.count = left, !.if = c.if \/ done, !.run = on]
  <1>6. SerialMoved(c, n) = t
    BY DEF SerialMoved
  <1>7. left \in 0..BufSize
    BY <1>1, <1>2, <1>3, <1>4
  <1>8. pos \in 0..(BufSize - 1)
    <2>1. c.pos + n \in Nat
      BY <1>1, <1>2, <1>4
    <2> QED
      BY <1>2, <2>1
  <1>9. on \in BOOLEAN /\ (c.if \/ done) \in BOOLEAN
    BY <1>1
  <1>10. t \in SerialChannels
    <2> HIDE DEF left, done, on, pos
    <2>1. t = [[[[c EXCEPT !.pos = pos] EXCEPT !.count = left]
                    EXCEPT !.if = c.if \/ done] EXCEPT !.run = on]
      OBVIOUS
    <2> QED
      BY <1>1, <1>7, <1>8, <1>9, <2>1, SerialRegister
  <1>13. t.count = left /\ t.given = c.given /\ t.rx = c.rx /\ t.run = on
    BY <1>1 DEF SerialChannels
  <1>11. (IF c.count > 0 THEN moved + n ELSE moved) + left = c.given
    BY <1>1, <1>4, <1>7 DEF SerialInv
  <1>12. on /\ left = 0 => c.rx
    BY <1>5, <1>1
  <1> QED
    BY <1>6, <1>10, <1>11, <1>12, <1>13 DEF SerialInv

\* The registers of a serial channel and the device that moves bytes.
LEMMA SerialStep ==
    ASSUME DmaSizes, DmaInv,
           \/ \E rst, run, cont, pause, ie, clear \in BOOLEAN, n \in 0..BufSize :
                  SerialCtrl(rst, run, cont, pause, ie, clear, n)
           \/ \E n \in 1..BufSize : SerialRetry(n) \/ SerialCount(n)
    PROVE  DmaInv'
  <1>0. BufSize \in Nat /\ BufSize > 0
    BY DEF DmaSizes
  <1>K. ASSUME SerialInv(ch', total'), total' \in Nat, ifr' = Level(ch')
        PROVE  DmaInv'
    <2>1. ifr' \in BOOLEAN
      BY <1>K DEF SerialInv, SerialChannels, Level
    <2> QED
      BY <1>K, <2>1 DEF DmaInv, Level
  <1>1. ASSUME NEW rst \in BOOLEAN, NEW run \in BOOLEAN, NEW cont \in BOOLEAN,
               NEW pause \in BOOLEAN, NEW ie \in BOOLEAN, NEW clear \in BOOLEAN,
               NEW n \in 0..BufSize, SerialCtrl(rst, run, cont, pause, ie, clear, n)
        PROVE  DmaInv'
    <2>1. ch.kind = "serial"
      BY <1>1 DEF SerialCtrl
    <2>2. SerialInv(ch, total) /\ total \in Nat
      BY <2>1, KindTells DEF DmaInv
    <2>3. /\ ch.kind = "serial" /\ ch.rx \in BOOLEAN /\ ch.run \in BOOLEAN
          /\ ch.if \in BOOLEAN /\ ch.count \in 0..BufSize
          /\ ch.pos \in 0..(BufSize - 1)
          /\ ch.given \in Nat /\ ch \in SerialChannels
      BY <2>2 DEF SerialInv, SerialChannels
    <2> DEFINE start == run /\ ~ch.run /\ ch.count = 0
               d == [ch EXCEPT !.run = run, !.cont = cont, !.pause = pause,
                               !.ie = ie, !.if = @ /\ ~clear,
                               !.count = IF start THEN BufSize ELSE @,
                               !.given = IF start THEN BufSize ELSE @]
               z == NewSerial(ch.rx)
               c == IF rst THEN z ELSE d
               base == IF rst \/ start THEN 0 ELSE total
    <2>4. /\ n \in 0..SerialRoom(c)
          /\ UpdateIrq(IF n = 0 THEN c ELSE SerialMoved(c, n))
          /\ total' = IF c.count > 0 THEN base + n ELSE base
      BY <1>1 DEF SerialCtrl
    <2>5. base \in Nat
      BY <2>2
    <2>6. ASSUME rst PROVE SerialInv(z, 0)
      <3>1. z \in SerialChannels
        BY <1>0, <2>3 DEF SerialChannels, NewSerial
      <3>2. z.count = 0 /\ z.given = 0 /\ z.run = FALSE
        BY DEF NewSerial
      <3> QED
        BY <3>1, <3>2 DEF SerialInv
    <2>7. ASSUME ~rst PROVE SerialInv(d, base)
      <3> DEFINE kept == IF start THEN BufSize ELSE ch.count
                 asked == IF start THEN BufSize ELSE ch.given
      <3>2. kept \in 0..BufSize /\ asked \in Nat
        BY <1>0, <2>3
      <3>1. d.count = kept /\ d.given = asked /\ d.run = run /\ d.rx = ch.rx
        BY <2>3 DEF SerialChannels
      <3>3. d \in SerialChannels
        <4>1. (ch.if /\ ~clear) \in BOOLEAN
          BY <2>3
        <4> HIDE DEF kept, asked
        <4> DEFINE d1 == [[ch EXCEPT !.run = run] EXCEPT !.cont = cont]
                   d2 == [[d1 EXCEPT !.pause = pause] EXCEPT !.ie = ie]
                   d3 == [[d2 EXCEPT !.if = ch.if /\ ~clear] EXCEPT !.count = kept]
        <4>2. d = [d3 EXCEPT !.given = asked]
          BY DEF kept, asked
        <4>3. d1 \in SerialChannels
          BY <2>3, SerialRegister
        <4> HIDE DEF d1, d, d3
        <4>4. d2 \in SerialChannels
          BY <4>3, SerialRegister
        <4> HIDE DEF d2
        <4>5. d3 \in SerialChannels
          BY <3>2, <4>1, <4>4, SerialRegister DEF d3
        <4> QED
          BY <3>2, <4>2, <4>5, SerialRegister
      <3>4. base + kept = asked
        BY <1>0, <2>2, <2>3, <2>7 DEF SerialInv
      <3>5. run /\ kept = 0 => ch.rx
        BY <1>0, <2>2, <2>3 DEF SerialInv
      <3> QED
        BY <3>1, <3>3, <3>4, <3>5 DEF SerialInv
    <2>8. SerialInv(c, base)
      BY <2>6, <2>7
    <2>9. ifr' = Level(ch')
      BY <2>4 DEF UpdateIrq
    <2>10. n \in Nat
      BY <1>0
    <2>11. CASE n = 0
      <3>1. ch' = c /\ total' = base
        BY <2>4, <2>5, <2>11 DEF UpdateIrq
      <3> QED
        BY <1>K, <2>5, <2>8, <2>9, <3>1
    <2>12. CASE n # 0
      <3>1. ch' = SerialMoved(c, n)
        BY <2>4, <2>12 DEF UpdateIrq
      <3>2. n \in 1..SerialRoom(c)
        <4>1. SerialRoom(c) \in Int
          <5> HIDE DEF c, base
          <5>1. c.count \in 0..BufSize /\ c.pos \in 0..(BufSize - 1)
            BY <2>8 DEF SerialInv, SerialChannels
          <5> QED
            BY <1>0, <5>1 DEF SerialRoom, Minimum
        <4> QED
          BY <2>4, <2>10, <2>12, <4>1
      <3>3. SerialInv(ch', total')
        BY <2>4, <2>5, <2>8, <3>1, <3>2, SerialMovedStep
      <3>4. total' \in Nat
        BY <2>4, <2>5, <2>10
      <3> QED
        BY <1>K, <2>9, <3>3, <3>4
    <2> QED
      BY <2>11, <2>12
  <1>2. ASSUME NEW n \in 1..BufSize, SerialRetry(n)
        PROVE  DmaInv'
    <2>1. SerialInv(ch, total) /\ total \in Nat /\ n \in Nat
      BY <1>0, <1>2, KindTells DEF DmaInv, SerialRetry
    <2>2. /\ n \in 1..SerialRoom(ch)
          /\ ch' = SerialMoved(ch, n) /\ ifr' = Level(ch')
          /\ total' = IF ch.count > 0 THEN total + n ELSE total
      BY <1>2 DEF SerialRetry, UpdateIrq
    <2>3. SerialInv(ch', total') /\ total' \in Nat
      BY <2>1, <2>2, SerialMovedStep
    <2> QED
      BY <1>K, <2>2, <2>3
  <1>3. ASSUME NEW n \in 1..BufSize, SerialCount(n)
        PROVE  DmaInv'
    <2>0. n \in Nat /\ n \in 0..BufSize /\ n > 0
      BY <1>0
    <2>1. SerialInv(ch, total) /\ ifr = Level(ch)
      BY <1>3, KindTells DEF SerialCount
    <2>2. ch' = [ch EXCEPT !.count = n, !.given = n] /\ total' = 0 /\ ifr' = ifr
      BY <1>3 DEF SerialCount
    <2>3. ch' \in SerialChannels /\ ch'.count = n /\ ch'.given = n
      BY <2>0, <2>1, <2>2 DEF SerialInv, SerialChannels
    <2>4. Level(ch') = Level(ch)
      BY <2>1, <2>2 DEF Level, SerialInv, SerialChannels
    <2>5. SerialInv(ch', total')
      BY <2>0, <2>2, <2>3 DEF SerialInv
    <2> QED
      BY <1>K, <2>1, <2>2, <2>4, <2>5
  <1> QED
    BY <1>1, <1>2, <1>3, SMTT(30)

\* Where the head or the tail of the ring goes, the pages between them follow.
LEMMA RingMoves ==
    ASSUME DmaSizes, NEW h \in 0..(RxPages - 1), NEW t \in 0..(RxPages - 1),
           NEW p \in 0..(RxPages - 1), NEW n \in Nat, n > 0
    PROVE  /\ n < (IF h = t THEN RxPages ELSE Around(h, t)) =>
                LET x == IF h + n < RxPages THEN h + n ELSE h + n - RxPages
                IN  Around(t, p) < Around(t, x) <=> \/ Around(t, p) < Around(t, h)
                                                   \/ Around(h, p) < n
           /\ n <= Around(t, h) =>
                LET x == IF t + n < RxPages THEN t + n ELSE t + n - RxPages
                IN  Around(x, p) < Around(x, h) <=> /\ Around(t, p) < Around(t, h)
                                                   /\ ~(Around(t, p) < n)
  <1>0. RxPages \in Nat /\ RxPages > 0
    BY DEF DmaSizes
  <1> QED
    BY <1>0 DEF Around

\* The registers of the Ethernet receiver and the frames that arrive: a frame
\* is stored in free pages only, and a tail gives back pages that were unread.
LEMMA RingStep ==
    ASSUME DmaSizes, DmaInv,
           \/ \E rst, run, ie, clear, over \in BOOLEAN : EnetCtrl(rst, run, ie, clear, over)
           \/ \E n \in FramePages : EnetReceive(n)
           \/ \E n \in 1..RxPages : EnetTail(n)
    PROVE  DmaInv'
  <1>0. RxPages \in Nat /\ RxPages > 0
    BY DEF DmaSizes
  <1> DEFINE Page == 0..(RxPages - 1)
  <1>1. ch.kind = "enet"
    BY DEF EnetCtrl, EnetReceive, EnetTail
  <1>2. RingInv(ch) /\ total = 0 /\ ifr = Level(ch)
    BY <1>1, KindTells
  <1>3. /\ ch \in EnetChannels
        /\ ch.head \in Page /\ ch.tail \in Page /\ ch.unread \subseteq Page
        /\ ch.run \in BOOLEAN /\ ch.ie \in BOOLEAN /\ ch.if \in BOOLEAN
        /\ ch.overrun \in BOOLEAN
    BY <1>2 DEF RingInv, EnetChannels
  <1>4. \A p \in Page : p \in ch.unread <=> Around(ch.tail, p) < Around(ch.tail, ch.head)
    BY <1>2 DEF RingInv
  <1>K. ASSUME RingInv(ch'), total' = 0, ifr' = Level(ch')
        PROVE  DmaInv'
    <2>1. ifr' \in BOOLEAN /\ total' \in Nat
      BY <1>K DEF RingInv, EnetChannels, Level
    <2> QED
      BY <1>K, <2>1 DEF DmaInv, Level, RingInv
  <1>R. ASSUME ch' \in EnetChannels,
               \A p \in Page : p \in ch'.unread
                                  <=> Around(ch'.tail, p) < Around(ch'.tail, ch'.head)
        PROVE  RingInv(ch')
    <2>1. ch'.unread \subseteq Page
      BY <1>R DEF EnetChannels
    <2> QED
      BY <1>R, <2>1 DEF RingInv
  <1>5. ASSUME NEW rst \in BOOLEAN, NEW run \in BOOLEAN, NEW ie \in BOOLEAN,
               NEW clear \in BOOLEAN, NEW over \in BOOLEAN,
               EnetCtrl(rst, run, ie, clear, over)
        PROVE  DmaInv'
    <2>1. ifr' = Level(ch') /\ total' = 0
      BY <1>2, <1>5 DEF EnetCtrl, UpdateIrq
    <2>2. CASE rst
      <3>1. ch' = NewEnet
        BY <1>5, <2>2 DEF EnetCtrl, UpdateIrq
      <3>2. RingInv(ch')
        BY <1>0, <3>1 DEF NewEnet, RingInv, EnetChannels, Around
      <3> QED
        BY <1>K, <2>1, <3>2
    <2>3. CASE ~rst
      <3>1. ch' = [ch EXCEPT !.run = run, !.ie = ie, !.if = @ /\ ~clear,
                             !.overrun = @ /\ ~over]
        BY <1>5, <2>3 DEF EnetCtrl, UpdateIrq
      <3>2. /\ ch' \in EnetChannels /\ ch'.head = ch.head /\ ch'.tail = ch.tail
            /\ ch'.unread = ch.unread
        BY <1>3, <3>1, ZenonT(60) DEF EnetChannels
      <3> QED
        BY <1>4, <1>K, <1>R, <2>1, <3>2
    <2> QED
      BY <2>2, <2>3
  <1>6. ASSUME NEW n \in FramePages, EnetReceive(n)
        PROVE  DmaInv'
    <2>0. n \in Nat /\ n > 0
      BY DEF DmaSizes
    <2>1. CASE ~(Fits(ch, n) /\ ~ch.overrun)
      <3>1. ch' = [ch EXCEPT !.if = TRUE, !.overrun = TRUE] /\ ifr' = Level(ch') /\ total' = 0
        BY <1>2, <1>6, <2>1 DEF EnetReceive, UpdateIrq
      <3>2. /\ ch' \in EnetChannels /\ ch'.head = ch.head /\ ch'.tail = ch.tail
            /\ ch'.unread = ch.unread
        BY <1>3, <3>1 DEF EnetChannels
      <3> QED
        BY <1>4, <1>K, <1>R, <3>1, <3>2
    <2>2. CASE Fits(ch, n) /\ ~ch.overrun
      <3> DEFINE New == Pages(ch.head, n)
                 next == (ch.head + n) % RxPages
      <3>1. /\ ch' = [ch EXCEPT !.head = next, !.unread = @ \cup New, !.if = TRUE]
            /\ ifr' = Level(ch')
            /\ total' = IF New \cap ch.unread = {} THEN total ELSE 1
        BY <1>6, <2>2 DEF EnetReceive, UpdateIrq
      <3>2. (ch.tail + RxPages - ch.head) % RxPages = Around(ch.head, ch.tail)
        <4>1. RxPages - ch.head \in 0..RxPages /\ RxPages \in Nat \ {0}
          BY <1>0, <1>3
        <4>2. (ch.tail + (RxPages - ch.head)) % RxPages
                 = IF ch.tail + (RxPages - ch.head) < RxPages
                   THEN ch.tail + (RxPages - ch.head)
                   ELSE ch.tail + (RxPages - ch.head) - RxPages
          BY <1>3, <4>1, WrapsOnce
        <4>3. ch.tail + RxPages - ch.head = ch.tail + (RxPages - ch.head)
          BY <1>0, <1>3
        <4> QED
          BY <1>0, <1>3, <4>2, <4>3 DEF Around
      <3>3. n < (IF ch.head = ch.tail THEN RxPages ELSE Around(ch.head, ch.tail))
        <4>1. (Around(ch.head, ch.tail) = 0) <=> (ch.head = ch.tail)
          BY <1>0, <1>3 DEF Around
        <4>2. FreePages(ch) = IF Around(ch.head, ch.tail) = 0 THEN RxPages
                              ELSE Around(ch.head, ch.tail)
          BY <3>2 DEF FreePages
        <4> QED
          BY <2>2, <4>1, <4>2 DEF Fits
      <3>4. n \in 0..RxPages /\ RxPages \in Nat \ {0}
        BY <1>0, <1>3, <2>0, <3>3 DEF Around
      <3>5. next = IF ch.head + n < RxPages THEN ch.head + n ELSE ch.head + n - RxPages
        BY <1>3, <3>4, WrapsOnce
      <3>6. New = {p \in Page : Around(ch.head, p) < n}
        BY <1>3, <3>4, PagesAre
      <3>7. next \in Page
        BY <1>0, <1>3, <3>4, <3>5
      <3> HIDE DEF New, next
      <3>8. New \cap ch.unread = {}
        <4> SUFFICES ASSUME NEW p \in Page, Around(ch.head, p) < n,
                            Around(ch.tail, p) < Around(ch.tail, ch.head)
                     PROVE  FALSE
          BY <1>3, <1>4, <3>6
        <4> QED
          BY <1>0, <1>3, <2>0, <3>3 DEF Around
      <3>9. /\ ch' \in EnetChannels /\ ch'.head = next /\ ch'.tail = ch.tail
            /\ ch'.unread = ch.unread \cup New
        BY <1>3, <3>1, <3>6, <3>7 DEF EnetChannels
      <3>10. ASSUME NEW p \in Page
             PROVE  p \in ch.unread \cup New <=> Around(ch.tail, p) < Around(ch.tail, next)
        <4>1. p \in ch.unread \cup New <=> \/ Around(ch.tail, p) < Around(ch.tail, ch.head)
                                           \/ Around(ch.head, p) < n
          BY <1>4, <3>6
        <4>2. Around(ch.tail, p) < Around(ch.tail, next)
                 <=> \/ Around(ch.tail, p) < Around(ch.tail, ch.head)
                     \/ Around(ch.head, p) < n
          BY <1>3, <2>0, <3>3, <3>5, RingMoves
        <4> QED
          BY <4>1, <4>2
      <3>11. total' = 0
        BY <1>2, <3>1, <3>8
      <3> QED
        BY <1>K, <1>R, <3>1, <3>9, <3>10, <3>11
    <2> QED
      BY <2>1, <2>2
  <1>7. ASSUME NEW n \in 1..RxPages, EnetTail(n)
        PROVE  DmaInv'
    <2> DEFINE Old == Pages(ch.tail, n)
               next == (ch.tail + n) % RxPages
    <2>0. n \in Nat /\ n > 0 /\ n \in 0..RxPages /\ RxPages \in Nat \ {0}
      BY <1>0
    <2>1. /\ Old \subseteq ch.unread
          /\ ch' = [ch EXCEPT !.tail = next, !.unread = @ \ Old]
          /\ ifr' = ifr /\ total' = total
      BY <1>7 DEF EnetTail
    <2>2. Old = {p \in Page : Around(ch.tail, p) < n}
      BY <1>3, <2>0, PagesAre
    <2>3. next = IF ch.tail + n < RxPages THEN ch.tail + n ELSE ch.tail + n - RxPages
      BY <1>3, <2>0, WrapsOnce
    <2>4. next \in Page
      BY <1>0, <1>3, <2>0, <2>3
    <2> HIDE DEF Old, next
    <2>5. n <= Around(ch.tail, ch.head)
      <3> DEFINE last == IF ch.tail + n - 1 < RxPages THEN ch.tail + n - 1
                         ELSE ch.tail + n - 1 - RxPages
      <3>1. last \in Page /\ Around(ch.tail, last) = n - 1
        BY <1>0, <1>3, <2>0 DEF Around
      <3>2. n - 1 < n
        BY <2>0
      <3> HIDE DEF last
      <3>3. last \in ch.unread
        BY <2>1, <2>2, <3>1, <3>2
      <3>4. n - 1 < Around(ch.tail, ch.head)
        BY <1>4, <3>1, <3>3
      <3> QED
        BY <1>0, <1>3, <2>0, <3>4 DEF Around
    <2>6. /\ ch' \in EnetChannels /\ ch'.head = ch.head /\ ch'.tail = next
          /\ ch'.unread = ch.unread \ Old /\ ch'.if = ch.if /\ ch'.ie = ch.ie
      BY <1>3, <2>1, <2>4 DEF EnetChannels
    <2>7. ASSUME NEW p \in Page
          PROVE  p \in ch.unread \ Old <=> Around(next, p) < Around(next, ch.head)
      <3>1. p \in ch.unread \ Old <=> /\ Around(ch.tail, p) < Around(ch.tail, ch.head)
                                      /\ ~(Around(ch.tail, p) < n)
        BY <1>4, <2>2
      <3>2. Around(next, p) < Around(next, ch.head)
               <=> /\ Around(ch.tail, p) < Around(ch.tail, ch.head)
                   /\ ~(Around(ch.tail, p) < n)
        BY <1>3, <2>0, <2>3, <2>5, RingMoves
      <3> QED
        BY <3>1, <3>2
    <2>8. Level(ch') = Level(ch)
      BY <2>6 DEF Level
    <2> QED
      BY <1>2, <1>K, <1>R, <2>1, <2>6, <2>7, <2>8
  <1> QED
    BY <1>5, <1>6, <1>7

\* The two transmit buffers: a frame is counted as sent when its buffer empties.
LEMMA SentStep ==
    ASSUME DmaInv,
           \/ \E rst, run, ie, clear \in BOOLEAN, S \in SUBSET {0, 1} :
                  EnetTxCtrl(rst, run, ie, clear, S)
           \/ \E set \in {0, 1} : EnetTxFill(set)
    PROVE  DmaInv'
  <1>1. ch.kind = "enettx"
    BY ZenonT(60) DEF EnetTxCtrl, EnetTxFill
  <1>2. SentInv(ch, total) /\ total \in Nat /\ ifr = Level(ch)
    BY <1>1, KindTells DEF DmaInv
  <1>3. /\ ch \in EnetTxChannels /\ ch.sets \subseteq {0, 1} /\ ch.given \in Nat
        /\ total + Cardinality(ch.sets) = ch.given
    BY <1>2 DEF SentInv, EnetTxChannels
  <1>4. IsFiniteSet({0, 1})
    <2>1. 0 \in Int /\ 1 \in Int => IsFiniteSet(0..1)
      BY FS_Interval, Zenon
    <2>2. 0..1 = {0, 1}
      OBVIOUS
    <2> QED
      BY <2>1, <2>2
  <1>5. IsFiniteSet(ch.sets) /\ Cardinality(ch.sets) \in Nat
    BY <1>3, <1>4, FS_Subset, FS_CardinalityType
  <1>6. Cardinality({}) = 0
    BY FS_EmptySet
  <1>K. ASSUME SentInv(ch', total'), total' \in Nat, ifr' = Level(ch')
        PROVE  DmaInv'
    <2>1. ifr' \in BOOLEAN
      BY <1>K DEF SentInv, EnetTxChannels, Level
    <2> QED
      BY <1>K, <2>1 DEF DmaInv, Level
  <1>7. ASSUME NEW rst \in BOOLEAN, NEW run \in BOOLEAN, NEW ie \in BOOLEAN,
               NEW clear \in BOOLEAN, NEW S \in SUBSET {0, 1},
               EnetTxCtrl(rst, run, ie, clear, S)
        PROVE  DmaInv'
    <2> DEFINE d == [ch EXCEPT !.run = run, !.ie = ie, !.if = @ /\ ~clear,
                               !.done = IF clear THEN {} ELSE @ \ S]
               c == IF rst THEN NewEnetTx ELSE d
               base == IF rst THEN 0 ELSE total
    <2>1. /\ UpdateIrq(IF c.run THEN EnetTransmit(c) ELSE c)
          /\ total' = IF rst THEN 0
                      ELSE IF c.run THEN total + Cardinality(c.sets) ELSE total
      BY <1>7 DEF EnetTxCtrl
    <2>2. ASSUME rst PROVE SentInv(c, base) /\ c.run = FALSE /\ c.sets = {}
      BY <1>6, <2>2 DEF NewEnetTx, SentInv, EnetTxChannels
    <2>3. ASSUME ~rst PROVE SentInv(c, base) /\ c.sets = ch.sets
      <3>1. d \in EnetTxChannels /\ d.sets = ch.sets /\ d.given = ch.given
        BY <1>3 DEF EnetTxChannels
      <3> QED
        BY <1>3, <2>3, <3>1 DEF SentInv
    <2>4. SentInv(c, base) /\ base \in Nat /\ Cardinality(c.sets) \in Nat
      <3>1. base \in Nat
        BY <1>2
      <3>2. CASE rst
        BY <1>6, <2>2, <3>1, <3>2
      <3>3. CASE ~rst
        BY <1>5, <2>3, <3>1, <3>3
      <3> QED
        BY <3>2, <3>3
    <2>5. total' = IF c.run THEN base + Cardinality(c.sets) ELSE base
      <3>1. CASE rst
        BY <2>1, <2>2, <3>1
      <3>2. CASE ~rst
        BY <2>1, <3>2
      <3> QED
        BY <3>1, <3>2
    <2>6. ifr' = Level(ch')
      BY <2>1 DEF UpdateIrq
    <2> HIDE DEF c, base
    <2>7. CASE c.run
      <3>1. ch' = EnetTransmit(c)
        BY <2>1, <2>7 DEF UpdateIrq
      <3>2. ch' \in EnetTxChannels /\ ch'.sets = {} /\ ch'.given = c.given
        BY <2>4, <3>1 DEF EnetTransmit, EnetTxChannels, SentInv
      <3>3. total' \in Nat /\ total' + Cardinality({}) = c.given
        BY <1>6, <2>4, <2>5, <2>7 DEF SentInv
      <3> QED
        BY <1>K, <2>6, <3>2, <3>3 DEF SentInv
    <2>8. CASE ~c.run
      <3>1. ch' = c /\ total' = base
        BY <2>1, <2>5, <2>8 DEF UpdateIrq
      <3> QED
        BY <1>K, <2>4, <2>6, <3>1
    <2> QED
      BY <2>7, <2>8
  <1>8. ASSUME NEW set \in {0, 1}, EnetTxFill(set)
        PROVE  DmaInv'
    <2>1. /\ set \notin ch.sets /\ ifr' = ifr /\ total' = total
          /\ ch' = [ch EXCEPT !.sets = @ \cup {set}, !.given = @ + 1]
      BY <1>8 DEF EnetTxFill
    <2>2. /\ ch' \in EnetTxChannels /\ ch'.sets = ch.sets \cup {set}
          /\ ch'.given = ch.given + 1 /\ ch'.if = ch.if /\ ch'.ie = ch.ie
      <3>1. ch.sets \cup {set} \in SUBSET {0, 1} /\ ch.given + 1 \in Nat
        BY <1>3
      <3> QED
        BY <1>3, <2>1, <3>1 DEF EnetTxChannels
    <2>3. Cardinality(ch.sets \cup {set}) = Cardinality(ch.sets) + 1
      BY <1>5, <2>1, FS_AddElement
    <2>4. SentInv(ch', total')
      BY <1>2, <1>3, <1>5, <2>1, <2>2, <2>3 DEF SentInv
    <2>5. Level(ch') = Level(ch)
      BY <2>2 DEF Level
    <2> QED
      BY <1>2, <1>K, <2>1, <2>4, <2>5
  <1> QED
    BY <1>7, <1>8

\* The sound channel: a level that changes arms the timer that carries it to
\* the flag register, and a restart over a raised flag is remembered.
LEMMA SoundStep ==
    ASSUME DmaSizes, DmaInv,
           \/ \E on \in BOOLEAN : SoundOutCtrl(on)
           \/ \E clear, ies \in SUBSET {0, 1} : SoundDmaCtrl(clear, ies)
           \/ SoundPull \/ SoundTimerFires
    PROVE  DmaInv'
  <1>0. SndLen \in Nat /\ SndLen > 0
    BY DEF DmaSizes
  <1>1. ch.kind = "sound"
    BY DEF SoundOutCtrl, SoundDmaCtrl, SoundPull, SoundTimerFires
  <1>2. SoundInv(ch, ifr, total) /\ ifr \in BOOLEAN /\ total \in Nat
    BY <1>1, KindTells DEF DmaInv
  <1>3. /\ ch \in SoundChannels /\ ch.flags \subseteq {0, 1} /\ ch.ies \subseteq {0, 1}
        /\ ch.buf \in 0..1 /\ ch.pos \in 0..SndLen /\ ch.level \in BOOLEAN
        /\ ch.timer \in BOOLEAN
    BY <1>2 DEF SoundInv, SoundChannels
  <1>K. ASSUME SoundInv(ch', ifr', total'), ifr' \in BOOLEAN, total' \in Nat
        PROVE  DmaInv'
    BY <1>K DEF DmaInv
  \* update_irq() of flags F
  <1>U. ASSUME NEW F \in SUBSET {0, 1}
        PROVE  LET c == SoundUpdateIrq([ch EXCEPT !.flags = F])
               IN  /\ c \in SoundChannels
                   /\ ~c.timer => ~ch.timer /\ c.level = ch.level
    <2> DEFINE u == [ch EXCEPT !.flags = F]
               c == SoundUpdateIrq(u)
    <2>1. u \in SoundChannels /\ u.timer = ch.timer /\ u.level = ch.level
      BY <1>3 DEF SoundChannels
    <2> HIDE DEF u
    <2>2. CASE SoundLevel(u) # u.level
      <3>1. c = [u EXCEPT !.level = SoundLevel(u), !.timer = TRUE]
        BY <2>2 DEF SoundUpdateIrq
      <3>2. SoundLevel(u) \in BOOLEAN
        BY DEF SoundLevel
      <3>3. c \in SoundChannels /\ c.timer = TRUE
        BY <2>1, <3>1, <3>2 DEF SoundChannels
      <3> QED
        BY <3>3 DEF u
    <2>3. CASE SoundLevel(u) = u.level
      <3>1. c = u
        BY <2>3 DEF SoundUpdateIrq
      <3> QED
        BY <2>1, <3>1 DEF u
    <2> QED
      BY <2>2, <2>3
  <1>4. ASSUME NEW on \in BOOLEAN, SoundOutCtrl(on)
        PROVE  DmaInv'
    <2>1. ifr' = ifr /\ total' = (IF on /\ (ifr \/ ch.timer) THEN 1 ELSE total)
      BY <1>4 DEF SoundOutCtrl
    <2>2. CASE on
      <3>1. ch' = [ch EXCEPT !.on = TRUE, !.played = TRUE, !.buf = 0, !.pos = 0,
                             !.level = FALSE]
        BY <1>4, <2>2 DEF SoundOutCtrl
      <3> DEFINE u0 == [ch EXCEPT !.on = TRUE, !.played = TRUE]
                 u == [u0 EXCEPT !.buf = 0]
      <3>2. ch' = [u EXCEPT !.pos = 0, !.level = FALSE]
        BY <3>1
      <3>7. u0 \in SoundChannels /\ u0.timer = ch.timer
        BY <1>3 DEF SoundChannels
      <3> HIDE DEF u0
      <3>3. u \in SoundChannels /\ u.timer = ch.timer
        BY <3>7 DEF SoundChannels
      <3>4. 0 \in 0..SndLen
        BY <1>0
      <3> HIDE DEF u
      <3>5. ch' \in SoundChannels /\ ch'.timer = ch.timer /\ ch'.level = FALSE
        BY <3>2, <3>3, <3>4 DEF SoundChannels
      <3>6. ~ch.timer /\ total' = 0 => ifr = FALSE
        BY <1>2, <2>1, <2>2
      <3> QED
        BY <1>2, <1>K, <2>1, <3>5, <3>6 DEF SoundInv
    <2>3. CASE ~on
      <3>1. ch' = [ch EXCEPT !.on = FALSE] /\ total' = total
        BY <1>4, <2>1, <2>3 DEF SoundOutCtrl
      <3>2. ch' \in SoundChannels /\ ch'.timer = ch.timer /\ ch'.level = ch.level
        BY <1>3, <3>1 DEF SoundChannels
      <3> QED
        BY <1>2, <1>K, <2>1, <3>1, <3>2 DEF SoundInv
    <2> QED
      BY <2>2, <2>3
  <1>5. ASSUME NEW clear \in SUBSET {0, 1}, NEW ies \in SUBSET {0, 1},
               SoundDmaCtrl(clear, ies)
        PROVE  DmaInv'
    <2> DEFINE c == IF clear # {}
                    THEN SoundUpdateIrq([ch EXCEPT !.flags = @ \ clear]) ELSE ch
    <2>1. ch' = [c EXCEPT !.ies = ies] /\ ifr' = ifr /\ total' = total
      BY <1>5 DEF SoundDmaCtrl
    <2>2. c \in SoundChannels /\ (~c.timer => ~ch.timer /\ c.level = ch.level)
      <3>1. ch.flags \ clear \in SUBSET {0, 1}
        BY <1>3
      <3>2. CASE clear # {}
        BY <1>U, <3>1, <3>2
      <3>3. CASE clear = {}
        BY <1>3, <3>3
      <3> QED
        BY <3>2, <3>3
    <2> HIDE DEF c
    <2>3. ch' \in SoundChannels /\ ch'.timer = c.timer /\ ch'.level = c.level
      BY <2>1, <2>2 DEF SoundChannels
    <2> QED
      BY <1>2, <1>K, <2>1, <2>2, <2>3 DEF SoundInv
  <1>6. ASSUME SoundPull
        PROVE  DmaInv'
    <2>1. ifr' = ifr /\ total' = total
      BY <1>6 DEF SoundPull
    <2>2. CASE ch.pos < SndLen
      <3>1. ch' = [ch EXCEPT !.pos = @ + 1]
        BY <1>6, <2>2 DEF SoundPull
      <3>2. ch.pos + 1 \in 0..SndLen
        BY <1>0, <1>3, <2>2
      <3>3. ch' \in SoundChannels /\ ch'.timer = ch.timer /\ ch'.level = ch.level
        BY <1>3, <3>1, <3>2 DEF SoundChannels
      <3> QED
        BY <1>2, <1>K, <2>1, <3>3 DEF SoundInv
    <2>3. CASE ~(ch.pos < SndLen)
      <3> DEFINE c == SoundUpdateIrq([ch EXCEPT !.flags = @ \cup {ch.buf}])
      <3>1. ch' = IF ch.buf = 1 /\ ~ch.on THEN [c EXCEPT !.played = FALSE]
                  ELSE [c EXCEPT !.buf = 1 - @, !.pos = 1]
        BY <1>6, <2>3 DEF SoundPull
      <3>2. c \in SoundChannels /\ (~c.timer => ~ch.timer /\ c.level = ch.level)
        <4>1. ch.flags \cup {ch.buf} \in SUBSET {0, 1}
          BY <1>3
        <4> QED
          BY <1>U, <4>1
      <3> HIDE DEF c
      <3>3. 1 - c.buf \in 0..1 /\ 1 \in 0..SndLen
        BY <1>0, <3>2 DEF SoundChannels
      <3>4. CASE ch.buf = 1 /\ ~ch.on
        <4>1. ch' \in SoundChannels /\ ch'.timer = c.timer /\ ch'.level = c.level
          BY <3>1, <3>2, <3>4 DEF SoundChannels
        <4> QED
          BY <1>2, <1>K, <2>1, <3>2, <4>1 DEF SoundInv
      <3>5. CASE ~(ch.buf = 1 /\ ~ch.on)
        <4>1. ch' = [c EXCEPT !.buf = 1 - c.buf, !.pos = 1]
          BY <3>1, <3>5
        <4>2. ch' \in SoundChannels /\ ch'.timer = c.timer /\ ch'.level = c.level
          BY <3>2, <3>3, <4>1 DEF SoundChannels
        <4> QED
          BY <1>2, <1>K, <2>1, <3>2, <4>2 DEF SoundInv
      <3> QED
        BY <3>4, <3>5
    <2> QED
      BY <2>2, <2>3
  <1>7. ASSUME SoundTimerFires
        PROVE  DmaInv'
    <2>1. ch' = [ch EXCEPT !.timer = FALSE] /\ ifr' = ch.level /\ total' = total
      BY <1>7 DEF SoundTimerFires
    <2>2. ch' \in SoundChannels /\ ch'.level = ch.level
      BY <1>3, <2>1 DEF SoundChannels
    <2> QED
      BY <1>2, <1>3, <1>K, <2>1, <2>2 DEF SoundInv
  <1> QED
    BY <1>4, <1>5, <1>6, <1>7

\* The invariant of each kind is what the channel promises.
LEMMA DmaPromises ==
    ASSUME DmaSizes, DmaInv
    PROVE  /\ DmaTypeOK /\ CountExact /\ FlagShown
           /\ RingSafe /\ SentOnce /\ SoundFlagSettles
  <1>0. ifr \in BOOLEAN /\ total \in Nat
    BY DEF DmaInv
  <1>1. CASE FloppyInv(ch, total) /\ ifr = Level(ch)
    <2>1. ch.kind = "floppy" /\ ch.count \in Nat /\ ch.given \in Nat
      BY <1>1 DEF FloppyInv, FloppyChannels
    <2>2. ch.count \in 0..(ch.given)
      BY <1>0, <1>1, <2>1 DEF FloppyInv
    <2> QED
      BY <1>0, <1>1, <2>1, <2>2 DEF DmaTypeOK, CountExact, FlagShown, RingSafe,
             SentOnce, SoundFlagSettles, FloppyInv
  <1>2. CASE SerialInv(ch, total) /\ ifr = Level(ch)
    <2>1. ch.kind = "serial" /\ ch.count \in Byte /\ ch.pos \in 0..(BufSize - 1)
      BY <1>2 DEF SerialInv, SerialChannels, Byte
    <2> QED
      BY <1>0, <1>2, <2>1 DEF DmaTypeOK, CountExact, FlagShown, RingSafe,
             SentOnce, SoundFlagSettles, SerialInv
  <1>3. CASE RingInv(ch) /\ total = 0 /\ ifr = Level(ch)
    <2>1. /\ ch.kind = "enet" /\ ch.head \in 0..(RxPages - 1)
          /\ ch.tail \in 0..(RxPages - 1)
      BY <1>3 DEF RingInv, EnetChannels
    <2>2. RxPages \in Nat /\ RxPages > 0
      BY DEF DmaSizes
    <2>3. (ch.head = ch.tail) => ch.unread = {}
      BY <1>3, <2>1, <2>2 DEF RingInv, Around
    <2>4. ch.head # ch.tail => ch.tail \in ch.unread
      <3>1. ch.head # ch.tail => Around(ch.tail, ch.tail) < Around(ch.tail, ch.head)
        BY <2>1, <2>2 DEF Around
      <3> QED
        BY <1>3, <2>1, <3>1 DEF RingInv
    <2>5. (ch.head = ch.tail) = (ch.unread = {})
      BY <2>3, <2>4
    <2> QED
      BY <1>0, <1>3, <2>1, <2>5 DEF DmaTypeOK, CountExact, FlagShown, RingSafe,
             SentOnce, SoundFlagSettles
  <1>4. CASE SentInv(ch, total) /\ ifr = Level(ch)
    <2>1. ch.kind = "enettx"
      BY <1>4 DEF SentInv, EnetTxChannels
    <2> QED
      BY <1>0, <1>4, <2>1 DEF DmaTypeOK, CountExact, FlagShown, RingSafe,
             SentOnce, SoundFlagSettles, SentInv
  <1>5. CASE SoundInv(ch, ifr, total)
    <2>1. ch.kind = "sound" /\ ch.pos \in 0..SndLen /\ ch.buf \in 0..1
      BY <1>5 DEF SoundInv, SoundChannels
    <2> QED
      BY <1>0, <1>5, <2>1 DEF DmaTypeOK, CountExact, FlagShown, RingSafe,
             SentOnce, SoundFlagSettles, SoundInv
  <1> QED
    BY <1>1, <1>2, <1>3, <1>4, <1>5 DEF DmaInv

\* Every handler of every channel keeps the invariant of its kind.
LEMMA DmaKept ==
    ASSUME DmaSizes, DmaInv, [DmaNext]_dmaVars
    PROVE  DmaInv'
  <1>1. CASE UNCHANGED dmaVars
    BY <1>1 DEF dmaVars, DmaInv, FloppyInv, SerialInv, RingInv, SentInv, SoundInv, Level
  <1>2. CASE DmaNext
    <2>1. ASSUME NEW a \in BOOLEAN, NEW b \in BOOLEAN, NEW c \in BOOLEAN,
                 NEW d \in BOOLEAN, NEW e \in BOOLEAN,
                 \/ \E dir \in {"in", "out"}, n \in Counts :
                        FloppyCtrl(a, b, dir, c, d, n)
                 \/ \E n \in 0..BufSize : SerialCtrl(a, b, c, d, e, ~e, n)
                 \/ \E n \in 0..BufSize : SerialCtrl(a, b, c, d, e, e, n)
                 \/ EnetCtrl(a, b, c, d, e)
                 \/ \E S \in SUBSET {0, 1} : EnetTxCtrl(a, b, c, d, S)
          PROVE  DmaInv'
      <3>1. (~e) \in BOOLEAN
        OBVIOUS
      <3>2. ASSUME NEW dir \in {"in", "out"}, NEW n \in Counts,
                   FloppyCtrl(a, b, dir, c, d, n)
            PROVE  DmaInv'
        BY <3>2, FloppyStep
      <3>3. ASSUME NEW clear \in BOOLEAN, NEW n \in 0..BufSize,
                   SerialCtrl(a, b, c, d, e, clear, n)
            PROVE  DmaInv'
        <4>1. \E rst, run, cont, pause, ie, clr \in BOOLEAN, m \in 0..BufSize :
                  SerialCtrl(rst, run, cont, pause, ie, clr, m)
          <5> WITNESS a \in BOOLEAN, b \in BOOLEAN, c \in BOOLEAN, d \in BOOLEAN,
                      e \in BOOLEAN, clear \in BOOLEAN, n \in 0..BufSize
          <5> QED
            BY <3>3
        <4> QED
          BY <4>1, SerialStep
      <3>6. ASSUME NEW n \in 0..BufSize, SerialCtrl(a, b, c, d, e, ~e, n)
            PROVE  DmaInv'
        BY <3>1, <3>3, <3>6
      <3>4. CASE EnetCtrl(a, b, c, d, e)
        BY <3>4, RingStep
      <3>5. ASSUME NEW S \in SUBSET {0, 1}, EnetTxCtrl(a, b, c, d, S)
            PROVE  DmaInv'
        BY <3>5, SentStep
      <3> QED
        BY <2>1, <3>2, <3>3, <3>4, <3>5, <3>6
    <2> QED
      BY <1>2, <2>1, FloppyStep, SerialStep, RingStep, SentStep, SoundStep, SMTT(30) DEF DmaNext
  <1> QED
    BY <1>1, <1>2

\* The channels of AMIC, for any sizes of buffers and ring: a floppy or serial
\* transfer (push_data(), xfer_retry()) moves what was asked for, a frame is stored
\* over no unread page (enet_receive()), every frame is sent once (enet_transmit()),
\* the flag register shows enabled flags and the sound interrupt settles.
THEOREM DmaMovesWhatWasAsked ==
    DmaSizes => (DmaSpec => [](/\ DmaTypeOK /\ CountExact /\ FlagShown
                               /\ RingSafe /\ SentOnce /\ SoundFlagSettles))
  <1> SUFFICES ASSUME DmaSizes
               PROVE  DmaSpec => [](/\ DmaTypeOK /\ CountExact /\ FlagShown
                                    /\ RingSafe /\ SentOnce /\ SoundFlagSettles)
    OBVIOUS
  <1>1. DmaInit => DmaInv
    BY DmaStarts
  <1>2. DmaInv /\ [DmaNext]_dmaVars => DmaInv'
    BY DmaKept
  <1>3. DmaInv => /\ DmaTypeOK /\ CountExact /\ FlagShown
                  /\ RingSafe /\ SentOnce /\ SoundFlagSettles
    BY DmaPromises
  <1> QED
    BY <1>1, <1>2, <1>3, PTL DEF DmaSpec
=============================================================================
