------------------------------- MODULE MacIo --------------------------------
(***************************************************************************)
(* The interrupt controller of the Mac I/O chips: GrandCentral with one    *)
(* bank of sources (devices/ioctrl/grandcentral.cpp), O'Hare, Heathrow and *)
(* Paddington with two (maciobase.cpp, maciotwo.cpp).  int_levels follows  *)
(* the lines, int_events latches their edges until the guest clears them,  *)
(* and cpu_int_latch is the pin of the processor.                          *)
(***************************************************************************)
EXTENDS FiniteSets

CONSTANTS
    Dev,        \* sources that drive a line: devices and slots
    Dma,        \* DMA channels of the first bank (bits 0 to 10)
    Bank2,      \* sources of the second bank; empty for GrandCentral
    Dma2        \* DMA channels of the second bank (Ethernet)

Source == Dev \cup Dma \cup Bank2

VARIABLES
    io,         \* [levels, events, mask, mode, latch]
    line,       \* the lines that devices hold asserted
    owed,       \* history: requests the guest has not cleared since
    blind       \* history: channels cleared while their level stayed set

macioVars == <<io, line, owed, blind>>

Init ==
    /\ io = [levels |-> {}, events |-> {}, mask |-> {}, mode |-> "native",
             latch |-> FALSE]
    /\ line = {} /\ owed = {} /\ blind = {}

\* one register changed
Latched(s, on) == [levels |-> s.levels, events |-> s.events, mask |-> s.mask,
                   mode |-> s.mode, latch |-> on]
Events(s, E) == [levels |-> s.levels, events |-> E, mask |-> s.mask,
                 mode |-> s.mode, latch |-> s.latch]
Levels(s, V) == [levels |-> V, events |-> s.events, mask |-> s.mask,
                 mode |-> s.mode, latch |-> s.latch]
Masked(s, m, mode) == [levels |-> s.levels, events |-> s.events, mask |-> m,
                       mode |-> mode, latch |-> s.latch]

\* signal_cpu_int(): asserts the pin, and never releases it
SignalCpuInt(s) ==
    IF s.events \cap s.mask # {} THEN Latched(s, TRUE) ELSE s

\* clear_cpu_int(): releases the pin when nothing enabled is pending
ClearCpuIntAny(s) == Latched(s, FALSE)
ClearCpuInt(s) ==
    IF s.events \cap s.mask = {} THEN Latched(s, FALSE) ELSE s

\* ack_int_common(): native mode latches rising edges, emulated mode all
AckIntCommon(s, irq, state) ==
    LET t == Levels(s, IF state THEN s.levels \cup {irq} ELSE s.levels \ {irq})
    IN  IF state # (irq \in s.levels) /\ (state \/ s.mode = "emulated")
        THEN LET u == Events(t, t.events \cup {irq})
             IN  IF u.events # s.events THEN SignalCpuInt(u) ELSE u
        ELSE t

\* clear_dma_int(): drops the levels of the channels of the first bank
ClearDmaIntKeep(s, flags) == s

ClearDmaInt(s, flags) ==
    LET dma == flags \cap Dma
        t == Levels(s, s.levels \ dma)
    IN  IF dma # {} /\ s.mode = "emulated"
        THEN SignalCpuInt(Events(t, t.events \cup (s.levels \cap dma)))
        ELSE t

-----------------------------------------------------------------------------
(* Devices.                                                                *)

\* ack_int(): a device changes its line
AckInt(d) ==
    /\ d \in Source \ (Dma \cup Dma2)
    /\ line' = IF d \in line THEN line \ {d} ELSE line \cup {d}
    /\ io' = AckIntCommon(io, d, d \in line')
    /\ owed' = IF d \in line' THEN owed \cup {d} ELSE owed
    /\ UNCHANGED blind

\* ack_dma_int(): a channel requests an interrupt, and never withdraws it
AckDmaInt(d) ==
    /\ d \in Dma \cup Dma2
    /\ io' = AckIntCommon(io, d, TRUE)
    /\ owed' = IF d \in blind THEN owed ELSE owed \cup {d}
    /\ UNCHANGED <<line, blind>>

-----------------------------------------------------------------------------
(* Registers.                                                              *)

\* MIO_INT_MASK1: the mask of the first bank and the mode
WriteMask1(m, mode) ==
    /\ io' = SignalCpuInt(ClearCpuInt(
                Masked(io, (io.mask \cap Bank2) \cup m, mode)))
    /\ UNCHANGED <<line, owed, blind>>

\* MIO_INT_MASK2: leaves the first bank and the mode alone
WriteMask2(m) ==
    /\ Bank2 # {}
    /\ io' = SignalCpuInt(ClearCpuInt(Masked(io, (io.mask \ Bank2) \cup m, io.mode)))
    /\ UNCHANGED <<line, owed, blind>>

\* MIO_INT_CLEAR1 with MACIO_INT_CLR in emulated mode: every event, no level
ClearAllEvents ==
    /\ io.mode = "emulated"
    /\ io' = ClearCpuInt(Events(io, {}))
    /\ owed' = {}
    /\ blind' = blind \cup (io.levels \cap (Dma \cup Dma2))
    /\ UNCHANGED line

\* MIO_INT_CLEAR1 otherwise
WriteClear1(c) ==
    /\ io' = ClearDmaInt(ClearCpuInt(Events(io, io.events \ c)), c)
    /\ owed' = owed \ c
    /\ blind' = blind \ c
    /\ UNCHANGED line

\* MIO_INT_CLEAR2: the levels of the second bank's channels stay
WriteClear2(c) ==
    /\ Bank2 # {}
    /\ io' = ClearCpuInt(Events(io, io.events \ c))
    /\ owed' = owed \ c
    /\ blind' = blind \cup (io.levels \cap Dma2 \cap c)
    /\ UNCHANGED line

Next ==
    \/ \E d \in Source : AckInt(d) \/ AckDmaInt(d)
    \/ \E m \in SUBSET (Dev \cup Dma), mode \in {"native", "emulated"} :
           WriteMask1(m, mode)
    \/ \E m \in SUBSET Bank2 : WriteMask2(m) \/ WriteClear2(m)
    \/ \E c \in SUBSET (Dev \cup Dma) : WriteClear1(c)
    \/ ClearAllEvents

Spec == Init /\ [][Next]_macioVars

-----------------------------------------------------------------------------
(* Registers that the guest reads: MIO_INT_EVENTS shows enabled events.    *)
Shows == io.events \cap io.mask

TypeOK ==
    /\ io \in [levels : SUBSET Source, events : SUBSET Source,
               mask : SUBSET Source, mode : {"native", "emulated"},
               latch : BOOLEAN]
    /\ line \in SUBSET Source /\ owed \in SUBSET Source
    /\ blind \in SUBSET (Dma \cup Dma2)

\* A device that raised its line, and a channel that requested an interrupt,
\* is pending until the guest clears it - but for a channel whose level was
\* left set by the clear (blind): its later requests make no edge.
NoneLost == owed \subseteq io.events

\* int_levels is the state of the lines of the devices, and a channel is
\* deaf only while its level is stuck.
LevelsFollow ==
    /\ io.levels \ (Dma \cup Dma2) = line
    /\ blind \subseteq io.levels

\* The controller implements the interrupt line: the pin follows enabled
\* events through every order of edges, mask writes and clears.
Line == INSTANCE IntLine WITH pending <- io.events, enabled <- io.mask,
                              pin <- io.latch
LineSpec == Line!Spec
=============================================================================
