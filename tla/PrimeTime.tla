----------------------------- MODULE PrimeTime ------------------------------
(***************************************************************************)
(* The interrupt cascade of PrimeTime II (devices/ioctrl/primetime.cpp)    *)
(* and the acknowledge and status registers of Capella that the guest      *)
(* reaches it through (devices/memctrl/f108.cpp).  F108 flags feed a slot  *)
(* line, slot lines a flag of VIA2, VIA2, VIA1 and the serial controller   *)
(* one 68k interrupt level each; the processor is interrupted whenever the *)
(* highest level differs from the one it last acknowledged.                *)
(***************************************************************************)
EXTENDS Integers, FiniteSets

CONSTANTS
    F108Src,    \* flags of the F108 that drives raise (IDE0, IDE1, VBL)
    F108Gated,  \* flags that an enable bit gates (IR, CC)
    SlotSrc,    \* slot lines of their own: PDS, video
    Via2Src     \* VIA2 flags of their own: SCSI, sound, floppy

Slots == SlotSrc \cup {"F108"}
Via2Flags == Via2Src \cup {"ALL_SLOT"}
Levels == {1, 2, 4, 7}      \* CPU_INT_VIA1, VIA2, ESCC, NMI

VARIABLES
    pt,         \* the registers
    edge        \* history: a slot line rose since ALL_SLOT was dismissed

ptVars == <<pt, edge>>

Init ==
    /\ pt = [flags |-> {}, gates |-> {}, f108Irq |-> FALSE, slot |-> {},
             via2 |-> {}, ier |-> {}, via2Irq |-> FALSE, escc |-> {},
             lines |-> {}, acked |-> 0, since |-> FALSE, cpuIrq |-> FALSE]
    /\ edge = FALSE

\* get_int_level(): the highest level that is asserted
IntLevel(s) == CHOOSE l \in s.lines \cup {0} : \A k \in s.lines : k <= l

\* ack_cpu_int()
AckCpuInt(s, level, state) ==
    LET t == [s EXCEPT !.lines = IF state THEN @ \cup {level} ELSE @ \ {level},
                       !.since = @ \/ state]
    IN  [t EXCEPT !.cpuIrq = @ \/ IntLevel(t) # t.acked]

\* update_via2_irq()
UpdateVia2Irq(s) ==
    LET irq == s.via2 \cap s.ier # {}
    IN  IF irq # s.via2Irq
        THEN AckCpuInt([s EXCEPT !.via2Irq = irq], 2, irq)
        ELSE s

\* ack_via2_int()
AckVia2Int(s, f, state) ==
    UpdateVia2Irq(
        IF state THEN [s EXCEPT !.via2 = @ \cup {f},
                                !.since = @ \/ f \in s.ier]
                 ELSE [s EXCEPT !.via2 = @ \ {f}])

\* ack_slot_int(): each rising line latches ALL_SLOT, the last falling one
\* clears it
AckSlotInt(s, S, state) ==
    LET t == [s EXCEPT !.slot = IF state THEN @ \cup S ELSE @ \ S]
    IN  IF state THEN AckVia2Int(t, "ALL_SLOT", TRUE)
        ELSE IF t.slot = {} THEN AckVia2Int(t, "ALL_SLOT", FALSE)
        ELSE t

\* update_f108_irq(): the enables gate their own flags only
UpdateF108Irq(s) ==
    LET irq == (s.flags \cap F108Src) \cup (s.flags \cap s.gates) # {}
    IN  IF irq # s.f108Irq
        THEN AckSlotInt([s EXCEPT !.f108Irq = irq], {"F108"}, irq)
        ELSE s

-----------------------------------------------------------------------------
(* Sources.                                                                *)

\* A slot line that rises in this step, by its own device or by the F108.
Rose(t) == t.slot \ pt.slot # {}

\* ack_f108_int()
F108Line(f, state) ==
    /\ pt' = UpdateF108Irq(
                [pt EXCEPT !.flags = IF state THEN @ \cup {f} ELSE @ \ {f}])
    /\ edge' = (edge \/ Rose(pt'))

SlotLine(s, state) ==
    /\ state = (s \notin pt.slot)
    /\ pt' = AckSlotInt(pt, {s}, state)
    /\ edge' = (edge \/ Rose(pt'))

Via2Line(f, state) ==
    /\ pt' = AckVia2Int(pt, f, state)
    /\ UNCHANGED edge

\* ack_escc_int(): the two channels share one level
EsccLine(c, state) ==
    /\ LET t == [pt EXCEPT !.escc = IF state THEN @ \cup {c} ELSE @ \ {c}]
       IN  pt' = AckCpuInt(t, 4, t.escc # {})
    /\ UNCHANGED edge

\* VIA1 and the NMI key drive a level directly
CpuLine(level, state) ==
    /\ pt' = AckCpuInt(pt, level, state)
    /\ UNCHANGED edge

-----------------------------------------------------------------------------
(* The guest.                                                              *)

\* f108_write(): register 0x100 clears flags and enables, 0x101 sets the
\* enables and clears the flags written as ones
WriteF108(off, S, G) ==
    /\ pt' = UpdateF108Irq(
                [pt EXCEPT !.flags = @ \ S,
                           !.gates = IF off = 0 THEN @ \ G ELSE G])
    /\ edge' = (edge \/ Rose(pt'))

\* via2_write()
WriteVia2Ifr(S) ==
    /\ pt' = UpdateVia2Irq([pt EXCEPT !.via2 = @ \ S])
    /\ edge' = (edge /\ "ALL_SLOT" \notin S)

WriteVia2Ier(set, S) ==
    /\ pt' = UpdateVia2Irq([pt EXCEPT !.ier = IF set THEN @ \cup S ELSE @ \ S])
    /\ UNCHANGED edge

\* the slot enables are stored and never used; the write re-evaluates
WriteSlotIer ==
    /\ pt' = AckSlotInt(pt, {}, FALSE)
    /\ UNCHANGED edge

\* Capella::INT_STATUS
ReadLevel ==
    /\ pt' = [pt EXCEPT !.since = FALSE]
    /\ UNCHANGED edge

\* Capella::INT_ACK: clear_cpu_int()
ClearCpuInt ==
    /\ LET level == IntLevel(pt)
           again == pt.since /\ level # 0
       IN  pt' = [pt EXCEPT !.acked = level, !.cpuIrq = again,
                            !.since = @ /\ ~again]
    /\ UNCHANGED edge

Next ==
    \/ \E b \in BOOLEAN :
           \/ \E f \in F108Src \cup F108Gated : F108Line(f, b)
           \/ \E s \in SlotSrc : SlotLine(s, b)
           \/ \E f \in Via2Src : Via2Line(f, b)
           \/ \E c \in {"A", "B"} : EsccLine(c, b)
           \/ \E l \in {1, 7} : CpuLine(l, b)
           \/ \E S \in SUBSET Via2Flags : WriteVia2Ier(b, S)
    \/ \E off \in 0..1, S \in SUBSET (F108Src \cup F108Gated),
          G \in SUBSET F108Gated : WriteF108(off, S, G)
    \/ \E S \in SUBSET Via2Flags : WriteVia2Ifr(S)
    \/ WriteSlotIer \/ ReadLevel \/ ClearCpuInt

Spec == Init /\ [][Next]_ptVars

-----------------------------------------------------------------------------
Registers ==
    [flags : SUBSET (F108Src \cup F108Gated), gates : SUBSET F108Gated,
     f108Irq : BOOLEAN, slot : SUBSET Slots, via2 : SUBSET Via2Flags,
     ier : SUBSET Via2Flags, via2Irq : BOOLEAN, escc : SUBSET {"A", "B"},
     lines : SUBSET Levels, acked : Levels \cup {0}, since : BOOLEAN,
     cpuIrq : BOOLEAN]

TypeOK == pt \in Registers /\ edge \in BOOLEAN

\* The processor is interrupted as long as the level it last acknowledged is
\* not the level that is pending, the fall back to idle included.
LevelReported == IntLevel(pt) # pt.acked => pt.cpuIrq

\* Every stage of the cascade agrees with the one below it: the F108 line
\* with the live flags, VIA2 with its enabled flags, the levels with both.
CascadeAgrees ==
    /\ ("F108" \in pt.slot) =
           (pt.flags \cap (F108Src \cup pt.gates) # {})
    /\ (2 \in pt.lines) = (pt.via2 \cap pt.ier # {})
    /\ (4 \in pt.lines) = (pt.escc # {})

\* A slot line that rose after ALL_SLOT was last dismissed shows in ALL_SLOT
\* as long as some slot line is asserted, even when another line was asserted
\* all the time.
SlotEdgeKept == edge /\ pt.slot # {} => "ALL_SLOT" \in pt.via2

-----------------------------------------------------------------------------
(***************************************************************************)
(* The cascade holds for any sources.  Each stage forwards a change of its *)
(* summary only, so that a stage is right when its latched summary agrees  *)
(* with the stage above and with the stage below; these two agreements are *)
(* what the invariants below lack to be inductive.                         *)
(***************************************************************************)

\* No device has the line of the F108 or the summary flag for its own.
OwnLines == "F108" \notin SlotSrc /\ "ALL_SLOT" \notin Via2Src

\* What one call of ack_slot_int() may name.
SlotSets == SUBSET Slots

\* The flags of the F108 that pass their enables.
Live(s) == s.flags \cap (F108Src \cup s.gates)

Reported(s) == IntLevel(s) # s.acked => s.cpuIrq
Forwarded(s) == s.via2Irq = (2 \in s.lines)
Summed(s) == s.via2Irq = (s.via2 \cap s.ier # {})

CascadeInv ==
    /\ TypeOK
    /\ Reported(pt) /\ Forwarded(pt) /\ Summed(pt)
    /\ pt.f108Irq = (Live(pt) # {})
    /\ pt.f108Irq = ("F108" \in pt.slot)
    /\ (4 \in pt.lines) = (pt.escc # {})
    /\ SlotEdgeKept

\* What a call further down the cascade leaves alone.
SameAbove(s, t) ==
    /\ t.flags = s.flags /\ t.gates = s.gates /\ t.f108Irq = s.f108Irq
    /\ t.escc = s.escc /\ (4 \in t.lines) = (4 \in s.lines)
=============================================================================
