---------------------------- MODULE DisplayPorts ----------------------------
(* The narrow ports beside the display controllers: the palette, written one *)
(* component at a time; the monitor's data channel, two pins of an I2C bus;  *)
(* and the monitor's sense lines as each controller wires them.              *)
EXTENDS Integers, Sequences, TLC

CONSTANTS Kinds,        \* the palette ports
          Edid          \* the bytes of the monitor's identification

VARIABLE t

Entries == 0 .. 1       \* palette entries; the index wraps
Colours == 1 .. 2       \* what a guest sends; a component is <<colour, place>>
Black == [k \in 1 .. 3 |-> <<0, k>>]

-----------------------------------------------------------------------------
(* Palettes: "ramdac" is Apple's, which Sixty6 copies, "plain" Valkyrie's and *)
(* Ariel's, "rage" the ATI Rage's and "rgb514" GX's.  table is the palette,  *)
(* want the one the guest has asked for, mine the components it has sent for *)
(* an entry.  Only RGB514 keeps reads and writes apart, so a guest of the    *)
(* other ports does not read an entry while it writes one.                   *)
NewClut(kind) ==
    [port |-> "clut", kind |-> kind, table |-> [e \in Entries |-> Black],
     wr |-> 0, rd |-> 0, comp |-> 0, compRd |-> 0, buf |-> Black, bufRd |-> Black,
     want |-> [e \in Entries |-> Black], mine |-> <<>>, at |-> 0,
     read |-> <<>>, from |-> 0, snap |-> Black, wrong |-> FALSE]

Following(e) == (e + 1) % 2

\* The index of a write; ramdac and plain ports have no other.
SetIndex(e) ==
    t' = [t EXCEPT !.wr = e, !.comp = 0, !.mine = <<>>, !.at = e,
                   !.rd = IF t.kind = "ramdac" THEN e ELSE @,
                   !.read = IF t.kind = "rgb514" THEN @ ELSE <<>>,
                   !.from = IF t.kind = "ramdac" THEN e ELSE @]

SetReadIndex(e) ==
    /\ t.kind \in {"rage", "rgb514"}
    /\ t' = IF t.kind = "rage"
            THEN [t EXCEPT !.rd = e, !.comp = 0, !.read = <<>>, !.from = e, !.mine = <<>>]
            ELSE [t EXCEPT !.rd = e, !.compRd = 0, !.read = <<>>, !.from = e]

\* One component; the third completes the entry.
WriteComponent(c) ==
    LET start == IF t.kind = "ramdac" /\ t.comp = 0 THEN t.table[t.wr] ELSE t.buf
        b == [start EXCEPT ![t.comp + 1] = c]
        last == t.comp = 2
    IN  [t EXCEPT !.buf = b, !.comp = IF last THEN 0 ELSE @ + 1,
                  !.table = IF last THEN [@ EXCEPT ![t.wr] = b] ELSE @,
                  !.wr = IF last THEN Following(@) ELSE @,
                  !.rd = IF last /\ t.kind = "ramdac" THEN Following(t.wr) ELSE @]

ClutWrite(colour) ==
    LET n == Append(t.mine, <<colour, Len(t.mine) + 1>>)
        whole == Len(n) = 3
        w == WriteComponent(n[Len(n)])
    IN  /\ t.mine # <<>> => colour = t.mine[1][1]
        /\ t.kind = "rgb514" \/ t.read = <<>>
        /\ t' = [w EXCEPT !.want = IF whole THEN [@ EXCEPT ![t.at] = n] ELSE @,
                          !.mine = IF whole THEN <<>> ELSE n,
                          !.at = IF whole THEN Following(@) ELSE @,
                          !.from = IF whole /\ t.kind = "ramdac" THEN Following(t.at) ELSE @]

\* Ports with one component index share it, and the buffer, with the writes.
ReadComponent ==
    IF t.kind = "rgb514"
    THEN LET b == IF t.compRd = 0 THEN t.table[t.rd] ELSE t.bufRd
         IN  <<b[t.compRd + 1],
               [t EXCEPT !.bufRd = b, !.compRd = (@ + 1) % 3,
                         !.rd = IF t.compRd = 2 THEN Following(@) ELSE @]>>
    ELSE LET b == IF t.comp = 0 THEN t.table[t.rd] ELSE t.buf
         IN  <<b[t.comp + 1],
               [t EXCEPT !.buf = b, !.comp = (@ + 1) % 3,
                         !.rd = IF t.comp = 2 THEN Following(@) ELSE @,
                         !.wr = IF t.comp = 2 /\ t.kind = "ramdac" THEN Following(@) ELSE @]>>

ClutRead ==
    LET r == ReadComponent
        n == Append(t.read, r[1])
        whole == Len(n) = 3
        snap == IF t.read = <<>> THEN t.want[t.from] ELSE t.snap
    IN  /\ t.kind # "plain"
        /\ t.kind = "rgb514" \/ t.mine = <<>>
        /\ t' = [r[2] EXCEPT !.read = IF whole THEN <<>> ELSE n,
                             !.from = IF whole THEN Following(@) ELSE @,
                             !.at = IF whole /\ t.kind = "ramdac" THEN Following(@) ELSE @,
                             !.snap = snap, !.wrong = @ \/ (whole /\ n # snap)]

ClutNext ==
    /\ t.port = "clut"
    /\ \/ \E e \in Entries : SetIndex(e) \/ SetReadIndex(e)
       \/ \E c \in Colours : ClutWrite(c)
       \/ ClutRead

\* The palette holds the entries the guest has sent, each whole and in the
\* place it named, and what it reads is the entry at the index it set, as it
\* was when the first component was read.
EntriesWhole == t.port = "clut" => t.table = t.want /\ ~t.wrong

-----------------------------------------------------------------------------
(* The monitor's end of the data channel: state is next_state.               *)
NewDdc ==
    [port |-> "ddc", state |-> "STOP", prev |-> "STOP", sda |-> 1, scl |-> 1,
     byte |-> 0, count |-> 0, dev |-> 0, reg |-> 0, pos |-> 0,
     \* the guest's end: what it is doing, how many bits of it are done, the
     \* bits it has read, the bytes it has got right
     op |-> "idle", done |-> 0, bits |-> 0, got |-> 0, ok |-> TRUE]

SetResult(s, sda, scl) == [s EXCEPT !.sda = sda, !.scl = scl]
BitOf(byte, n) == (byte \div 2^(7 - n)) % 2
EdidByte(n) == IF n < Len(Edid) THEN Edid[n + 1] ELSE 0

\* SDA changes while SCL is high: START or STOP.
Detected(s, sda) ==
    IF sda = 0 THEN [s EXCEPT !.state = "DEV_ADDR", !.count = 0]
    ELSE [s EXCEPT !.state = "STOP"]

\* The acknowledge bit after each kind of byte.
Acknowledge(s, sda) ==
    LET c == [s EXCEPT !.count = 0, !.byte = 0]
        known == s.dev \div 2 = 80
    IN  CASE s.prev = "DEV_ADDR" ->
               SetResult(IF s.dev % 2 = 1
                         THEN [c EXCEPT !.state = "DATA", !.byte = EdidByte(0), !.pos = 1]
                         ELSE [c EXCEPT !.state = "REG_ADDR"],
                         IF known THEN 0 ELSE 1, 1)
          [] s.prev = "REG_ADDR" ->
               SetResult([c EXCEPT !.state = "DATA"], IF s.reg = 0 THEN 0 ELSE 1, 1)
          [] s.prev = "DATA" /\ s.dev % 2 = 1 ->
               SetResult(IF sda = 0
                         THEN [c EXCEPT !.state = "DATA", !.byte = EdidByte(s.pos),
                                        !.pos = IF @ < Len(Edid) THEN @ + 1 ELSE @]
                         ELSE [c EXCEPT !.state = "DATA"], sda, 1)
          [] OTHER -> SetResult([c EXCEPT !.state = "DATA"], 0, 1)

\* A bit shifted in or out on the rising edge of SCL.
ShiftIn(s, sda) ==
    LET b == (s.byte * 2 + sda) % 256
        full == s.count = 7
    IN  [s EXCEPT !.byte = b, !.count = IF full THEN 0 ELSE @ + 1,
                  !.prev = IF full THEN s.state ELSE @,
                  !.state = IF full THEN "ACK" ELSE @,
                  !.dev = IF full /\ s.state = "DEV_ADDR" THEN b ELSE @,
                  !.reg = IF full /\ s.state = "REG_ADDR" THEN b ELSE @]

ShiftOut(s) ==
    LET full == s.count = 7
    IN  SetResult([s EXCEPT !.count = IF full THEN 0 ELSE @ + 1,
                            !.prev = IF full THEN "DATA" ELSE @,
                            !.state = IF full THEN "ACK" ELSE @],
                  BitOf(s.byte, s.count), 1)

UpdateDdcI2c(s, sda, scl) ==
    LET rising == scl = 1 /\ s.scl = 0
    IN  IF sda # s.sda
        THEN SetResult(IF scl = 1 THEN Detected(s, sda) ELSE s, sda, scl)
        ELSE IF ~rising THEN SetResult(s, sda, scl)
        ELSE CASE s.state = "STOP" -> SetResult(s, sda, scl)
               [] s.state = "ACK" -> Acknowledge(s, sda)
               [] s.state \in {"DEV_ADDR", "REG_ADDR"} -> SetResult(ShiftIn(s, sda), sda, scl)
               [] s.state = "DATA" -> ShiftOut(s)

-----------------------------------------------------------------------------
(* The guest's driver: it sets the pins, a clock is three of these calls, and *)
(* what it reads is the SDA of the second.                                   *)
Pins(s, sda, scl) == UpdateDdcI2c(s, sda, scl)
High(s, b) == Pins(Pins(s, b, 0), b, 1)
Clock(s, b) == Pins(High(s, b), b, 0)

\* START from the idle bus; the driver ends a transfer, finished or not, by a
\* STOP, at any bit.
Start(what) ==
    /\ t.op = "idle"
    /\ t' = [Pins(t, 0, 1) EXCEPT !.op = what, !.done = 0, !.got = 0, !.bits = 0]

Stop ==
    /\ t.op # "idle"
    /\ t' = [Pins(Pins(Pins(t, 0, 0), 0, 1), 1, 1) EXCEPT !.op = "idle"]

\* The address byte, most significant bit first, then the acknowledge.
Address(what) == CASE what = "read" -> 161 [] what = "write" -> 160 [] what = "other" -> 98

SendAddress ==
    /\ t.op \in {"read", "write", "other"} /\ t.done < 8
    /\ t' = [Clock(t, BitOf(Address(t.op), t.done)) EXCEPT !.done = @ + 1]

TakeAck ==
    /\ t.op \in {"read", "write", "other"} /\ t.done = 8
    /\ LET ack == High(t, 1).sda = 0
       IN  t' = [Clock(t, 1) EXCEPT !.op = IF ack /\ t.op # "other" THEN t.op \o "ing" ELSE "end",
                                    !.done = 0, !.ok = @ /\ (ack <=> t.op # "other")]

ReadBit ==
    /\ t.op = "reading" /\ t.done < 8
    /\ t' = [Clock(t, 1) EXCEPT !.done = @ + 1, !.bits = t.bits * 2 + High(t, 1).sda]

\* The driver acknowledges a byte and goes on, or refuses it and ends.
AnswerByte(more) ==
    /\ t.op = "reading" /\ t.done = 8
    /\ t.got < Len(Edid) + 1
    /\ t' = [Clock(t, IF more THEN 0 ELSE 1)
                EXCEPT !.done = 0, !.bits = 0, !.got = @ + 1,
                       !.op = IF more THEN @ ELSE "end",
                       !.ok = @ /\ t.bits = EdidByte(t.got)]

SendRegister ==
    /\ t.op = "writing" /\ t.done < 8
    /\ t' = [Clock(t, 0) EXCEPT !.done = @ + 1]

DdcNext ==
    /\ t.port = "ddc"
    /\ \/ \E what \in {"read", "write", "other"} : Start(what)
       \/ Stop \/ SendAddress \/ TakeAck \/ ReadBit \/ SendRegister
       \/ \E more \in BOOLEAN : AnswerByte(more)

\* A driver that addresses the monitor for reading gets the identification
\* from its first byte, zeroes behind its end, whatever transfers went before
\* and wherever they were broken off; no other address is acknowledged.
EdidRead == t.port = "ddc" => t.ok

-----------------------------------------------------------------------------
(* Sense lines: bit k of a mask is line k.                                   *)
Bit(v, k) == (v \div 2^k) % 2
AndBits(a, b) == Bit(a, 0) * Bit(b, 0) + 2 * Bit(a, 1) * Bit(b, 1) + 4 * Bit(a, 2) * Bit(b, 2)
Inv(a) == 7 - (a % 8)
Or(a, b) == Inv(AndBits(Inv(a), Inv(b)))

ReadMonitorSense(levels, dirs, std, ext) ==
    CASE <<dirs, levels>> = <<4, 3>> -> (ext \div 16) % 4
      [] <<dirs, levels>> = <<2, 5>> -> 4 * Bit(ext, 3) + Bit(ext, 2)
      [] <<dirs, levels>> = <<1, 6>> -> 2 * (ext % 4)
      [] OTHER -> std

\* The lines a guest drives low, as the value it writes into each controller's
\* register and the levels and directions that controller makes of it.
Wiring(chip, low) ==
    CASE chip = "control" ->
           LET dirs == Inv(Inv(low)) IN <<Or(AndBits(0, dirs), Inv(dirs)), dirs>>
      [] chip = "platinum" ->
           LET dirs == Inv(Inv(low)) IN <<Or(AndBits(0, dirs), Inv(dirs)), dirs>>
      [] chip = "valkyrie" -> <<Or(Inv(low), AndBits(0, low)), low>>
      [] chip = "amic" ->
           LET dirs == Inv(Inv(low)) IN <<Or(Inv(dirs), AndBits(0, dirs)), dirs>>
      [] chip = "rage" -> <<AndBits(Inv(0), Inv(low)), low>>
      [] chip = "gx" -> <<Inv(low), low>>

\* What the guest finds in the register: Platinum shows the lines inverted.
Sensed(chip, low, std, ext) ==
    LET w == Wiring(chip, low)
        r == ReadMonitorSense(w[1], w[2], std, ext)
    IN  IF chip = "platinum" THEN Inv(r) ELSE r

Chips == {"control", "platinum", "valkyrie", "amic", "rage", "gx"}

NewSense == [port |-> "sense", std |-> 6, ext |-> 43]
SenseNext ==
    /\ t.port = "sense"
    /\ \E std \in {0, 6, 7}, ext \in 0 .. 63 :
          t' = [port |-> "sense", std |-> std, ext |-> ext]

\* Every controller shows the same monitor: the standard code with no line
\* driven, and with one driven low the other two lines of the extended code.
SensesAgree ==
    t.port = "sense" =>
        \A chip \in Chips :
            LET Shown(low) == IF chip = "platinum" THEN Inv(Sensed(chip, low, t.std, t.ext))
                              ELSE Sensed(chip, low, t.std, t.ext)
            IN  /\ Shown(0) = t.std
                /\ <<Bit(Shown(4), 1), Bit(Shown(4), 0)>> = <<Bit(t.ext, 5), Bit(t.ext, 4)>>
                /\ <<Bit(Shown(2), 2), Bit(Shown(2), 0)>> = <<Bit(t.ext, 3), Bit(t.ext, 2)>>
                /\ <<Bit(Shown(1), 2), Bit(Shown(1), 1)>> = <<Bit(t.ext, 1), Bit(t.ext, 0)>>

-----------------------------------------------------------------------------
Init == t \in {NewClut(k) : k \in Kinds} \union {NewDdc, NewSense}
Next == ClutNext \/ DdcNext \/ SenseNext
=============================================================================
