-------------------------------- MODULE Escc --------------------------------
(* The ESCC serial controller (escc.cpp): two channels behind one register   *)
(* pointer, receive FIFO, character timers, interrupts, DMA. Channel "a" is  *)
(* attached to the socket back end (chario.cpp), whose peer comes and goes,  *)
(* channel "b" to the null back end. Characters are numbered as they are     *)
(* sent; clock generators, sync modes, the vector and WR15 are left out.     *)
EXTENDS Integers, Sequences, SequencesExt

CONSTANTS FifoSize,     \* 3 in the code
          MaxSent,      \* bound: characters the peer sends
          MaxOut        \* bound: characters in the output queue

VARIABLES scc,          \* channels, register pointer, WR9, interrupt lines
          sock,         \* the socket of channel a
          rx            \* history: characters sent, read by the guest, gone;
                        \* lost to an overrun that was not reset since

vars == <<scc, sock, rx>>

Channel == {"a", "b"}

\* EsccChannel::reset(); what a reset keeps of WR1, WR3 and WR5 does not
\* enable anything, and it leaves the modem lines in RR0
ResetChannel(c) ==
    [rxEnable |-> FALSE, txEnable |-> FALSE, ext |-> FALSE, tx |-> FALSE, mode |-> "off",
     fifo |-> <<>>, overrun |-> FALSE, txEmpty |-> TRUE, txPending |-> FALSE,
     extPending |-> FALSE, armed |-> TRUE, rxTimer |-> FALSE, txTimer |-> FALSE,
     lines |-> c.lines]

Init ==
    /\ \E shared \in BOOLEAN :      \* AMIC has one interrupt for both channels
        scc = [ch |-> [c \in Channel |-> ResetChannel([lines |-> FALSE])],
               mie |-> FALSE, shared |-> shared, irq |-> [c \in Channel |-> FALSE],
               direct |-> FALSE]
    /\ sock = [peer |-> "none", inbox |-> <<>>, out |-> 0, inited |-> FALSE]
    /\ rx = [sent |-> 0, got |-> <<>>, gone |-> {}, lost |-> {}]

-----------------------------------------------------------------------------
(* The socket: [sock, rx] pairs, as a disconnection loses what was not read. *)

Connected(p) == p.sock.peer \in {"open", "closed"}

Disconnect(p) ==
    [sock |-> [p.sock EXCEPT !.peer = "none", !.inbox = <<>>, !.out = 0],
     rx |-> [p.rx EXCEPT !.gone = @ \cup ToSet(p.sock.inbox)]]

\* flush_output(): the peer takes all but left characters; sending to one that
\* has closed disconnects
FlushOutput(p, left) ==
    IF ~Connected(p) \/ p.sock.out = 0 THEN p
    ELSE IF p.sock.peer = "closed" THEN Disconnect(p)
    ELSE [p EXCEPT !.sock.out = IF left < @ THEN left ELSE @]

PollConnection(p, left) ==
    FlushOutput(IF p.sock.peer = "waiting" THEN [p EXCEPT !.sock.peer = "open"] ELSE p, left)

\* rcv_char_available_now(): the state it leaves, and its answer
Peek(p, left) ==
    LET q == PollConnection(p, left)
    IN IF q.sock.peer = "closed" /\ q.sock.inbox = <<>> THEN Disconnect(q) ELSE q
Available(p, left) ==
    LET q == Peek(p, left) IN Connected(q) /\ q.sock.inbox # <<>> /\ q.sock.inited

XmitChar(p, left) ==
    LET q == PollConnection(p, left)
    IN IF Connected(q) THEN FlushOutput([q EXCEPT !.sock.out = @ + 1], left) ELSE q

-----------------------------------------------------------------------------
(* A channel: [ch, sock, rx].                                              *)

State(c) == [ch |-> scc.ch[c], sock |-> sock, rx |-> rx]
OnSocket(s, p) == [s EXCEPT !.sock = p.sock, !.rx = p.rx]
AsPair(s) == [sock |-> s.sock, rx |-> s.rx]

InterruptPending(ch) ==
    \/ ch.extPending /\ ch.ext
    \/ ch.txPending /\ ch.tx /\ ch.txEnable
    \/ /\ ch.rxEnable
       /\ \/ ch.overrun /\ ch.mode # "off"
          \/ ch.fifo # <<>> /\ (ch.mode = "all" \/ (ch.mode = "first" /\ ch.armed))

UpdateModemStatus(s, c) ==
    LET up == c = "a" /\ Connected(AsPair(s))
    IN [s EXCEPT !.ch.lines = up, !.ch.extPending = @ \/ s.ch.lines # up]

ReceiveByte(s) ==
    LET x == [s EXCEPT !.ch.armed = FALSE]
    IN IF s.ch.fifo = <<>> THEN x
       ELSE [x EXCEPT !.ch.fifo = Tail(@), !.rx.got = Append(@, Head(s.ch.fifo))]

SendByte(s, c, left) ==
    LET x == IF c = "a" THEN OnSocket(s, XmitChar(AsPair(s), left)) ELSE s
    IN [x EXCEPT !.ch.txPending = FALSE, !.ch.txEmpty = FALSE, !.ch.txTimer = TRUE]

\* poll_dma(): the transmit channel has a character or not, the receive channel
\* has room for n
PollDma(s, c, left, hasTx, n) ==
    LET x == UpdateModemStatus(IF c = "a" THEN OnSocket(s, Peek(AsPair(s), left)) ELSE s, c)
        y == IF hasTx /\ x.ch.txEnable /\ x.ch.txEmpty THEN SendByte(x, c, left) ELSE x
        Take[k \in 0..FifoSize] ==
            IF k = 0 THEN y
            ELSE IF Take[k - 1].ch.fifo = <<>> THEN Take[k - 1] ELSE ReceiveByte(Take[k - 1])
    IN IF y.ch.rxEnable THEN Take[n] ELSE y

\* mutant: a character that finds the FIFO full is dropped
StoreDrop(s, b) ==
    IF Len(s.ch.fifo) < FifoSize THEN [s EXCEPT !.ch.fifo = Append(@, b)]
    ELSE [s EXCEPT !.rx.gone = @ \cup {b}, !.rx.lost = @ \cup {b}]

Store(s, b) ==
    IF Len(s.ch.fifo) < FifoSize THEN [s EXCEPT !.ch.fifo = Append(@, b)]
    ELSE [s EXCEPT !.ch.overrun = TRUE, !.rx.gone = @ \cup {b}, !.rx.lost = @ \cup {b}]

-----------------------------------------------------------------------------
(* The controller.                                                         *)

UpdateInterrupts(s) ==
    LET on(c) == s.mie /\ InterruptPending(s.ch[c])
    IN [s EXCEPT !.direct = FALSE,
                 !.irq = IF s.shared THEN [@ EXCEPT !["a"] = on("a") \/ on("b")]
                         ELSE [c \in Channel |-> on(c)]]

\* a step of channel c
Do(c, s) ==
    /\ scc' = UpdateInterrupts([scc EXCEPT !.ch[c] = s.ch])
    /\ sock' = s.sock /\ rx' = s.rx

\* rx_timer and tx_timer of a channel
ReceiveTick(left, hasTx, n) ==
    LET s == State("a")
        x == OnSocket(s, Peek(AsPair(s), left))
        y == IF ~Available(AsPair(s), left) THEN x
             ELSE Store([x EXCEPT !.sock.inbox = Tail(@)], Head(x.sock.inbox))
    IN /\ scc.ch["a"].rxTimer
       /\ Do("a", PollDma(y, "a", left, hasTx, n))

TransmitTick(c, left, hasTx, n) ==
    LET s == [State(c) EXCEPT !.ch.txTimer = FALSE, !.ch.txEmpty = TRUE, !.ch.txPending = TRUE]
    IN /\ scc.ch[c].txTimer
       /\ Do(c, PollDma(s, c, left, hasTx, n))

\* EsccController::poll(), after the host's events
Poll(left, hasTx, n) ==
    LET a == PollDma(State("a"), "a", left, hasTx, n)
        b == PollDma([ch |-> scc.ch["b"], sock |-> a.sock, rx |-> a.rx], "b", left, FALSE, 0)
    IN /\ scc' = UpdateInterrupts([scc EXCEPT !.ch = [c \in Channel |->
                                      IF c = "a" THEN a.ch ELSE b.ch]])
       /\ sock' = b.sock /\ rx' = b.rx

\* xfer_from(), xfer_to() when the guest starts a channel: nobody looks at the
\* interrupts
DmaStart(left, tx) ==
    LET s == State("a")
        x == IF tx THEN SendByte(s, "a", left) ELSE ReceiveByte(s)
    IN /\ IF tx THEN s.ch.txEnable /\ s.ch.txEmpty ELSE s.ch.fifo # <<>>
       /\ scc' = [scc EXCEPT !.ch["a"] = x.ch, !.direct = TRUE]
       /\ sock' = x.sock /\ rx' = x.rx

-----------------------------------------------------------------------------
(* Accesses of the guest.                                                  *)

Cleared(s) == [s EXCEPT !.rx.gone = @ \cup ToSet(s.ch.fifo), !.rx.lost = {},
                        !.sock.inited = FALSE, !.ch = ResetChannel(@)]

\* The register pointer is set by one access and used by the next; nothing in
\* between looks at it, so that both are one step here.
Command(c, what) ==
    LET s == State(c)
    IN Do(c, CASE what = "RESET_TXINT" -> [s EXCEPT !.ch.txPending = FALSE]
               [] what = "RESET_EXT" -> [s EXCEPT !.ch.extPending = FALSE]
               [] what = "NEXT_RX" -> [s EXCEPT !.ch.armed = TRUE]
               [] what = "ERROR_RESET" ->
                     [s EXCEPT !.ch.overrun = FALSE, !.rx.lost = IF c = "a" THEN {} ELSE @])

WriteWr1(c, ext, tx, mode) ==
    Do(c, [State(c) EXCEPT !.ch.ext = ext, !.ch.tx = tx, !.ch.mode = mode,
                              !.ch.txPending = @ \/ (tx /\ ~scc.ch[c].tx /\ scc.ch[c].txEmpty),
                              !.ch.armed = @ \/ mode # scc.ch[c].mode])

WriteWr3(c, on) ==
    Do(c, [State(c) EXCEPT !.ch.rxEnable = on, !.ch.rxTimer = on,
                              !.sock.inited = IF c = "a" /\ scc.ch[c].rxEnable # on THEN on ELSE @])

WriteWr5(c, on) == Do(c, [State(c) EXCEPT !.ch.txEnable = on])

\* WR8 and the data port
WriteData(c, left) == Do(c, SendByte(State(c), c, left))
ReadData(c) == Do(c, ReceiveByte(State(c)))

\* a read of RR0
ReadStatus(c) == Do(c, UpdateModemStatus(State(c), c))

\* WR9: reset of one channel or of both, master interrupt enable
WriteWr9(which, mie) ==
    LET a == IF "a" \in which THEN Cleared(State("a")) ELSE State("a")
        ch == [c \in Channel |-> IF c = "a" THEN a.ch
                                 ELSE IF c \in which THEN ResetChannel(scc.ch[c]) ELSE scc.ch[c]]
    IN /\ scc' = UpdateInterrupts([scc EXCEPT !.ch = ch, !.mie = mie])
       /\ sock' = a.sock /\ rx' = a.rx

\* Channel b only transmits, and only where it shares the interrupt with a;
\* there a only receives.
Transmits == IF scc.shared THEN "b" ELSE "a"
Guest ==
    \/ \E w \in {"RESET_EXT", "NEXT_RX", "ERROR_RESET"} : Command("a", w)
    \/ Command(Transmits, "RESET_TXINT")
    \/ \E w \in {<<TRUE, "all">>, <<FALSE, "first">>} : WriteWr1("a", w[1], ~scc.shared, w[2])
    \/ scc.shared /\ WriteWr1("b", FALSE, TRUE, "off")
    \/ \E on \in BOOLEAN : WriteWr3("a", on)
    \/ WriteWr5(Transmits, TRUE)
    \/ \E left \in 0..1 : sock.out < MaxOut /\ WriteData(Transmits, left)
    \/ ReadData("a")
    \/ ReadStatus("a")
    \/ \E which \in {{}, {"a"}, Channel}, mie \in BOOLEAN : WriteWr9(which, mie)

Host ==
    \/ /\ sock.peer = "none" /\ sock' = [sock EXCEPT !.peer = "waiting"]
       /\ UNCHANGED <<scc, rx>>
    \/ /\ sock.peer \in {"waiting", "open"} /\ rx.sent < MaxSent
       /\ sock' = [sock EXCEPT !.inbox = Append(@, rx.sent + 1)]
       /\ rx' = [rx EXCEPT !.sent = @ + 1]
       /\ UNCHANGED scc
    \/ /\ sock.peer = "open" /\ sock' = [sock EXCEPT !.peer = "closed"]
       /\ UNCHANGED <<scc, rx>>

Machine ==
    \E left \in 0..1, hasTx \in BOOLEAN, n \in 0..1 :
        /\ hasTx => sock.out < MaxOut /\ ~scc.shared
        /\ \/ ReceiveTick(left, hasTx, n) \/ Poll(left, hasTx, n)
           \/ TransmitTick("a", left, hasTx, n)
           \/ TransmitTick("b", left, hasTx, n) /\ left = 0
           \/ DmaStart(left, hasTx) /\ n = 0

Next == Guest \/ Host \/ Machine
Spec == Init /\ [][Next]_vars

-----------------------------------------------------------------------------
(* Properties.                                                             *)

\* Every character that the peer sent is still in the socket, in the FIFO, was
\* read by the guest in the order it was sent, or is gone; one that an overrun
\* lost is reported until the guest resets the error.
CharsAccounted ==
    LET all == rx.got \o scc.ch["a"].fifo \o sock.inbox
    IN /\ ToSet(all) \cup rx.gone = 1..rx.sent
       /\ \A i, j \in 1..Len(all) : i < j => all[i] < all[j]
       /\ rx.lost # {} => scc.ch["a"].overrun

\* A pending interrupt of either channel is on its line; the line only stays
\* up without one after a transfer that a DMA channel made on its own.
InterruptShown ==
    LET line(c) == scc.irq[IF scc.shared THEN "a" ELSE c]
        on(c) == scc.mie /\ InterruptPending(scc.ch[c])
    IN /\ \A c \in Channel : on(c) => line(c)
       /\ ~scc.direct => \A c \in Channel : line(c) => \E d \in Channel :
                             on(d) /\ (scc.shared \/ d = c)

\* A transmitter that is not empty has its timer running, and so has a receiver
\* that is enabled, across resets and register writes in any order.
TimersRun ==
    \A c \in Channel : /\ scc.ch[c].txTimer = ~scc.ch[c].txEmpty
                       /\ scc.ch[c].rxTimer = scc.ch[c].rxEnable

\* What the serial controller owes guest and peer: characters, interrupts, timers.
EsccOK == CharsAccounted /\ InterruptShown /\ TimersRun
=============================================================================
