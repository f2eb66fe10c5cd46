-------------------------------- MODULE Cuda --------------------------------
(* The Cuda half of ViaCuda (devices/common/viacuda.cpp): the serial         *)
(* handshake over TIP, BYTEACK and TREQ, the packets, the                   *)
(* timers behind them and the packets it sends of its own accord: autopoll  *)
(* data of the ADB bus and one-second ticks. The host driver is the         *)
(* environment: it waits for the shift register's interrupt before it       *)
(* touches the lines, sends only while TREQ is negated, reads only while it *)
(* is asserted, and may give up anywhere. Lengths are scaled down: a header *)
(* is two bytes, its data one, and a packet to Cuda at most InMax.          *)
(* The module ends with the VIA half.                                       *)
EXTENDS Integers

CONSTANTS InMax,   \* size of in_buf
          MaxKeys  \* bound: key events of one behaviour

VARIABLES cuda,    \* handshake, packet buffers, timers and modes
          keys     \* history: where every key event is

vars == <<cuda, keys>>

Cmds == {"autopoll", "stop", "onesec", "warm", "data", "plain", "pram",
         "i2c", "i2cerr", "bad", "off"}
Msgs == [type : {"pseudo"}, cmd : Cmds] \cup {[type |-> "adb", cmd |-> "talk"],
         [type |-> "adb", cmd |-> "none"], [type |-> "other", cmd |-> "bad"]}

NoMsg == [type |-> "other", cmd |-> "bad"]
PowerOn ==
    [tip |-> TRUE, ack |-> TRUE, treq |-> TRUE, sync |-> FALSE,
     sr |-> FALSE, treqT |-> 0, out |-> FALSE, n |-> 0,
     msg |-> NoMsg,
     buf |-> "none", left |-> 0, open |-> FALSE,
     handler |-> "null", next |-> "null",
     auto |-> FALSE, sec |-> 0, first |-> TRUE, missed |-> FALSE,
     late |-> FALSE, owed |-> FALSE, off |-> FALSE]
NoKeys == [typed |-> 0, pending |-> 0, packet |-> 0, got |-> 0, given |-> 0]

Init == cuda = PowerOn /\ keys = NoKeys

-----------------------------------------------------------------------------
(* Packets to the host.                                                    *)

Packet(c, what, len) ==
    [c EXCEPT !.buf = what, !.left = len, !.open = FALSE,
              !.handler = "buf", !.next = "null"]
ResponseHeader(c, data) == Packet(c, "response", 2 + data)
ErrorResponse(c) == Packet(c, "error", 2)
OneByteHeader(c) == Packet(c, "async", 1)
OpenEnded(c, next) == [c EXCEPT !.open = TRUE, !.next = next]
DisableAsync(c) ==
    [c EXCEPT !.auto = FALSE, !.sec = 0, !.first = TRUE, !.missed = FALSE]

PseudoCommand(c) ==
    LET r == ResponseHeader(c, 0) IN
    CASE c.msg.cmd = "autopoll" -> [r EXCEPT !.auto = TRUE]
      [] c.msg.cmd = "stop" -> [r EXCEPT !.auto = FALSE]
      [] c.msg.cmd = "onesec" -> [r EXCEPT !.sec = IF c.n > 2 THEN 3 ELSE 1,
                                           !.first = TRUE]
      [] c.msg.cmd = "warm" -> DisableAsync(r)
      [] c.msg.cmd = "data" -> ResponseHeader(c, 1)
      [] c.msg.cmd = "plain" -> r
      [] c.msg.cmd = "pram" -> OpenEnded(r, "pram")
      [] c.msg.cmd = "i2c" -> OpenEnded(r, "i2c")
      [] c.msg.cmd = "off" -> [c EXCEPT !.off = TRUE]
      [] OTHER -> ErrorResponse(c)

\* the keyboard hands out up to two key events in register 0
Take(n) == IF n > 2 THEN 2 ELSE n

ProcessPacket(c) ==
    IF c.n < 2 \/ c.msg.type = "other" THEN ErrorResponse(c)
    ELSE IF c.msg.type = "pseudo" THEN PseudoCommand(c)
    ELSE ResponseHeader(c, IF c.msg.cmd = "talk" /\ keys.pending > 0 THEN 1 ELSE 0)

\* out_buf_handler, pram_out_handler, i2c_handler, null_out_handler
OutHandler(c) ==
    IF c.handler # "buf" THEN c
    ELSE IF c.left > 0
         THEN [c EXCEPT !.left = @ - 1,
                        !.treq = @ \/ (~c.open /\ c.left = 1),
                        !.owed = @ /\ ~(~c.open /\ c.left = 1)]
    ELSE IF c.open THEN [c EXCEPT !.handler = c.next, !.next = "null",
                                  !.owed = FALSE]
    ELSE [c EXCEPT !.left = 0, !.treq = TRUE]

-----------------------------------------------------------------------------
(* ViaCuda::write(new_state).                                              *)

\* keys in the packet buffer move to the host with the packet's last byte,
\* or are given up with a packet the host does not read to its end
Collected(k) == [k EXCEPT !.got = @ + k.packet, !.packet = 0]
GivenUp(k) == [k EXCEPT !.given = @ + k.packet, !.packet = 0]
Polled(k) == [k EXCEPT !.pending = @ - Take(@), !.packet = Take(k.pending)]

\* TIP and BYTEACK negated: the transaction ends
EndTransaction ==
    LET c == [cuda EXCEPT !.tip = TRUE, !.ack = TRUE, !.treq = TRUE]
        d == IF c.sync THEN [DisableAsync(c) EXCEPT !.sync = FALSE] ELSE c
        p == ProcessPacket(d)
        e == IF d.n > 0
             THEN [p EXCEPT !.treqT = @ + 1, !.owed = ~p.off]
             ELSE [d EXCEPT !.owed = FALSE]
    IN /\ cuda' = [e EXCEPT !.n = 0, !.msg = NoMsg, !.sr = TRUE]
       /\ keys' = IF d.n > 1 /\ d.msg.cmd = "talk" /\ keys.pending > 0
                  THEN Polled(GivenUp(keys)) ELSE GivenUp(keys)

\* BYTEACK alone: sync
EnterSync ==
    /\ cuda' = [cuda EXCEPT !.tip = TRUE, !.ack = FALSE, !.treq = FALSE,
                            !.n = 0, !.left = 0, !.sync = TRUE, !.sr = TRUE,
                            !.owed = FALSE]
    /\ keys' = GivenUp(keys)

\* TIP asserted: a byte to Cuda; a full buffer takes it without an answer
SendByte(a) ==
    /\ cuda' = IF cuda.n < InMax
               THEN [cuda EXCEPT !.tip = FALSE, !.ack = a, !.n = @ + 1, !.sr = TRUE]
               ELSE [cuda EXCEPT !.tip = FALSE, !.ack = a]
    /\ UNCHANGED keys

\* or a byte from Cuda
ReceiveByte(a) ==
    LET c == OutHandler([cuda EXCEPT !.tip = FALSE, !.ack = a])
    IN /\ cuda' = [c EXCEPT !.sr = TRUE]
       /\ keys' = IF c.left = 0 /\ cuda.left = 1 THEN Collected(keys) ELSE keys

\* The host's driver.
Host ==
    /\ ~cuda.sr
    /\ \/ /\ ~cuda.tip \/ cuda.sync
          /\ EndTransaction
       \/ /\ cuda.tip /\ cuda.ack
          /\ EnterSync
       \/ /\ cuda.tip /\ ~cuda.sync /\ cuda.treq
          /\ \E m \in Msgs : cuda' = [cuda EXCEPT !.tip = FALSE, !.out = TRUE,
                                         !.n = 1, !.msg = m, !.sr = TRUE]
          /\ UNCHANGED keys
       \/ ~cuda.tip /\ cuda.out /\ SendByte(~cuda.ack)
       \/ /\ cuda.tip /\ ~cuda.sync /\ ~cuda.treq
          /\ LET c == OutHandler([cuda EXCEPT !.tip = FALSE, !.out = FALSE])
             IN /\ cuda' = [c EXCEPT !.sr = TRUE]
                /\ keys' = IF cuda.left = 1 THEN Collected(keys) ELSE keys
       \/ ~cuda.tip /\ ~cuda.out /\ ~cuda.treq /\ ReceiveByte(~cuda.ack)

\* the sr_timer's callback; treq_timer, set at the same time for 13 us, is
\* always due before a shift of 61 us and more
SrFires ==
    /\ cuda.sr /\ cuda.treqT = 0
    /\ cuda' = [cuda EXCEPT !.sr = FALSE]
    /\ UNCHANGED keys

TreqFires ==
    /\ cuda.treqT > 0
    /\ cuda' = [cuda EXCEPT !.treqT = @ - 1, !.treq = FALSE]
    /\ UNCHANGED keys

-----------------------------------------------------------------------------
(* autopoll_handler(), called after host events.                           *)

\* mutant: only TREQ is looked at
PendingTreqOnly(c) == ~c.treq
ResponsePending(c) == ~c.treq \/ c.treqT > 0 \/ c.sr

Attention(c) == [c EXCEPT !.treq = FALSE, !.sr = TRUE]

Tick(c) ==
    LET full == c.first \/ c.missed \/ c.sec = 1
        p == IF full THEN Packet(c, "async", 3) ELSE OneByteHeader(c)
    IN Attention([p EXCEPT !.first = FALSE, !.missed = FALSE, !.late = FALSE])

Autopoll ==
    /\ cuda.tip
    /\ IF cuda.auto /\ ~ResponsePending(cuda) /\ keys.pending > 0
       THEN /\ cuda' = Attention(Packet(cuda, "async", 3))
            /\ keys' = Polled(keys)
       ELSE /\ cuda.sec # 0 /\ cuda.late
            /\ UNCHANGED keys
            /\ cuda' = IF ResponsePending(cuda) THEN [cuda EXCEPT !.missed = TRUE]
                       ELSE Tick(cuda)

\* the clock's second changes
Second ==
    /\ ~cuda.late
    /\ cuda' = [cuda EXCEPT !.late = TRUE]
    /\ UNCHANGED keys

\* a key is pressed or released
KeyEvent ==
    /\ keys.typed < MaxKeys
    /\ keys' = [keys EXCEPT !.typed = @ + 1, !.pending = @ + 1]
    /\ UNCHANGED cuda

\* after CUDA_RESTART_SYSTEM or CUDA_POWER_DOWN main() builds a new machine
Restart == cuda.off /\ cuda' = PowerOn /\ keys' = NoKeys

Next ==
    \/ /\ ~cuda.off
       /\ Host \/ SrFires \/ TreqFires \/ Autopoll \/ Second \/ KeyEvent
    \/ Restart

Spec == Init /\ [][Next]_vars

-----------------------------------------------------------------------------
(* Properties.                                                             *)

\* Registers stay in range, and at most one treq_timer is ever queued: the
\* code only logs "treq_timer is already active" and adds it once more.
TypeOK ==
    /\ cuda.n \in 0..InMax /\ cuda.left \in 0..3
    /\ cuda.treqT \in 0..1

\* An answer that the host has not read is never replaced by a packet Cuda
\* sends of its own accord: "Building an autopoll packet over the top of it
\* loses the answer the guest is waiting for, and it waits for it forever".
AnswerKept == cuda.owed => cuda.buf # "async"

\* Every key event is in the keyboard's queue, in the packet buffer, at the
\* host, or in a packet the host gave up: polled data are never dropped.
NoKeyLost == keys.typed = keys.pending + keys.packet + keys.got + keys.given

-----------------------------------------------------------------------------
(* The VIA half of ViaCuda (devices/common/viacuda.cpp): interrupt flags and *)
(* enables, the line to the interrupt controller, and the counters T1 and   *)
(* T2 with their timers. Counter values are abstracted to whether they have *)
(* wrapped. The shift register's flag is raised by Cuda at any time.        *)

VARIABLE via    \* flags, enables, line, counters; acked and saw are history:
                \* T2's flag was cleared, the guest saw the counter wrapped

Flags == {"SR", "T1", "T2", "CA1"}

ViaInit ==
    via = [ifr |-> {}, ier |-> {}, line |-> FALSE, free |-> FALSE,
           t1 |-> FALSE, t2 |-> "done", acked |-> TRUE, saw |-> FALSE]


UpdateIrq(v) == [v EXCEPT !.line = v.ifr \cap v.ier # {}]
Raise(v, f) == UpdateIrq([v EXCEPT !.ifr = @ \cup {f}])
Clear(v, fs) ==
    UpdateIrq([v EXCEPT !.ifr = @ \ fs,
                        !.acked = @ \/ ("T2" \in fs /\ v.t2 = "done"),
                        !.saw = @ /\ "T2" \notin fs])
WriteIer(v, fs, set) ==
    UpdateIrq([v EXCEPT !.ier = IF set THEN @ \cup fs ELSE @ \ fs])

LoadT1(v) == [Clear(v, {"T1"}) EXCEPT !.t1 = TRUE]
T1Fires(v) == [Raise(v, "T1") EXCEPT !.t1 = v.free]
LoadT2(v) == [Clear(v, {"T2"}) EXCEPT !.t2 = "run", !.acked = FALSE]
T2Fires(v) == [Raise(v, "T2") EXCEPT !.t2 = "done"]

CheckT2(v) == IF v.t2 = "due" THEN T2Fires(v) ELSE v

\* the guest sees that the counter has wrapped
ReadT2CH(v) ==
    LET w == CheckT2(v) IN [w EXCEPT !.saw = w.t2 # "run" /\ ~w.acked]

ViaNext ==
    \/ \E f \in Flags : via' = Clear(via, {f})                \* VIA_IFR
    \/ \E f \in Flags, b \in BOOLEAN : via' = WriteIer(via, {f}, b)
    \/ via' = LoadT1(via)                                      \* VIA_T1CH
    \/ via.t1 /\ via' = T1Fires(via)
    \/ \E b \in BOOLEAN : via' = [via EXCEPT !.free = b]       \* VIA_ACR
    \/ via' = LoadT2(via)                                      \* VIA_T2CH
    \/ via.t2 = "run" /\ via' = [via EXCEPT !.t2 = "due"]      \* time passes
    \/ via.t2 = "due" /\ via' = T2Fires(via)
    \/ via' = ReadT2CH(via)
    \/ via' = Clear(CheckT2(via), {"T2"})                      \* VIA_T2CL
    \/ via' = CheckT2(via)                                     \* VIA_IFR
    \/ \E f \in {"CA1", "SR"} : via' = Raise(via, f)  \* assert_ctrl_line

ViaSpec == ViaInit /\ [][ViaNext]_via

-----------------------------------------------------------------------------
(* Properties.                                                             *)

\* The line to the interrupt controller follows flags and enables.
LineFollows == via.line = (via.ifr \cap via.ier # {})

\* A guest that has seen the counter of T2 wrap finds the flag of T2 set
\* until it clears it: check_t2() runs the callback of an expired timer that
\* the interpreter loop has not looked at yet ("Microseconds in classic Mac
\* OS will fail").
WrapFlagged == via.saw => "T2" \in via.ifr
=============================================================================
