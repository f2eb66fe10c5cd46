--------------------------- MODULE PpcExecProofs ---------------------------
(***************************************************************************)
(* Proofs about the interpreter loop and its exceptions: for every length  *)
(* of memory and of a page, and whichever MSR bits, thermal unit, fetch    *)
(* faults and restarts the machine has, interrupts are precise and none is *)
(* missed.                                                                 *)
(***************************************************************************)
EXTENDS PpcExec, TLAPS

-----------------------------------------------------------------------------
(* The inductive invariant.                                                *)

\* an instruction that has left exec_flags set, other than for a change of the
\* decoder alone, has set ppc_next_instruction_address
Jumps(c) == c.flags \ {"OPC_DECODER"} # {}

\* The registers c are well typed, and SRR0 is right if the exception just
\* taken is an interrupt.
Sound(c) ==
    /\ c \in CpuType
    /\ c.last \in {"EXT_INT", "DECR"} /\ "EXCEPTION" \in c.flags => c.srr0 = c.want

\* The program goes on at ppc_next_instruction_address after a jump and
\* otherwise behind the instruction: what ReturnAddr reads is what the
\* architecture asks for.
Onward(c) == c.next = IF Jumps(c) THEN c.nia ELSE c.pc + 1

\* It does so between the end of an instruction and the start of the next.
NextKnown == at \in {"events", "sleep", "boundary"} => Onward(cpu)

\* An instruction starts with no flags, so that those it leaves are its own.
FlagsCleared == at = "exec" => cpu.flags = {}

\* Whoever sets MSR[EE] or raises an exception looks at the other: with
\* interrupts enabled nothing is left pending, at no point of the loop.
NonePending == "EE" \in cpu.msr => ~Pending

PinType ==
    /\ {int_pin, dec_exception_pending, thrm_exception_pending} \subseteq BOOLEAN
    /\ {dec_timer, thermal_timer} \subseteq BOOLEAN

Where == {"start", "exec", "events", "sleep", "boundary"}

ExecInv ==
    /\ Sound(cpu) /\ PinType /\ at \in Where
    /\ NextKnown /\ FlagsCleared /\ NonePending

-----------------------------------------------------------------------------
(* What the operations on the registers do.                                *)

\* ppc_msr_did_change() touches the MSR, the decoder and, if it is told to, the
\* next address.
LEMMA MsrFields ==
    ASSUME NEW c, NEW new, NEW set_nia \in BOOLEAN
    PROVE  LET m == MsrDidChange(c, new, set_nia) IN
           /\ m.pc = c.pc /\ m.msr = new /\ m.srr0 = c.srr0 /\ m.srr1 = c.srr1
           /\ m.decoder = c.decoder /\ m.next = c.next /\ m.last = c.last
           /\ m.want = c.want
           /\ m.flags \in {c.flags, c.flags \cup {"OPC_DECODER"}}
           /\ m.nia \in {c.nia, c.pc + 1}
           /\ ~set_nia => m.nia = c.nia
BY DEF MsrDidChange

\* It keeps the registers in their types.
LEMMA MsrType ==
    ASSUME NEW c \in CpuType, NEW new \in SUBSET MsrBits, NEW set_nia \in BOOLEAN,
           set_nia => c.pc + 1 \in Addr
    PROVE  MsrDidChange(c, new, set_nia) \in CpuType
<1> DEFINE fp == ("FP" \in c.msr) # ("FP" \in new)
           g == IF fp THEN "FP" \in new ELSE c.grabber
           f == IF fp THEN c.flags \cup {"OPC_DECODER"} ELSE c.flags
           n == IF fp /\ set_nia THEN c.pc + 1 ELSE c.nia
<1>1. g \in BOOLEAN
  <2>1. c.grabber \in BOOLEAN
    BY DEF CpuType
  <2>2. ("FP" \in new) \in BOOLEAN
    <3>1. CASE "FP" \in new
      <4>1. ("FP" \in new) = TRUE
        BY <3>1
      <4> QED
        BY <4>1
    <3>2. CASE "FP" \notin new
      <4>1. ("FP" \in new) = FALSE
        BY <3>2
      <4> QED
        BY <4>1
    <3> QED
      BY <3>1, <3>2
  <2>3. CASE fp
    <3>1. g = ("FP" \in new)
      BY <2>3, Zenon
    <3> QED
      BY <2>2, <3>1, Zenon
  <2>4. CASE ~fp
    <3>1. g = c.grabber
      BY <2>4, Zenon
    <3> QED
      BY <2>1, <3>1, Zenon
  <2> QED
    BY <2>3, <2>4, Zenon
<1>2. f \in SUBSET Flag
  BY DEF CpuType, Flag
<1>3. n \in Addr
  BY DEF CpuType
<1>4. MsrDidChange(c, new, set_nia)
        = [c EXCEPT !.msr = new, !.grabber = g, !.flags = f, !.nia = n]
  BY Zenon DEF MsrDidChange
<1> HIDE DEF g, f, n
<1> QED
  BY <1>1, <1>2, <1>3, <1>4, Zenon DEF CpuType

\* ppc_exception_handler(): what it saves and where it goes.
LEMMA HandlerFields ==
    ASSUME NEW c \in CpuType, NEW exc
    PROVE  LET h == Handler(c, exc) IN
           /\ h.pc = c.pc /\ h.nia = Vector /\ h.msr = {}
           /\ h.srr0 = ReturnAddr(c, exc) /\ h.flags = {"EXCEPTION"}
           /\ h.next = Vector /\ h.last = exc /\ h.want = c.next
<1>1. MsrDidChange(c, {}, FALSE).msr = {} /\ MsrDidChange(c, {}, FALSE).pc = c.pc
  BY MsrFields, ZenonT(60)
<1>2. MsrDidChange(c, {}, FALSE) \in CpuType
  BY MsrType
<1> QED
  BY <1>1, <1>2 DEF Handler, CpuType

\* It keeps the registers in their types, given a proper return address.
LEMMA HandlerType ==
    ASSUME NEW c \in CpuType, NEW exc \in Except_Type, ReturnAddr(c, exc) \in Addr
    PROVE  Handler(c, exc) \in CpuType
<1> DEFINE m == MsrDidChange(c, {}, FALSE)
<1>1. m \in CpuType
  BY MsrType
<1>2. c.msr \ {"POW"} \in SUBSET (MsrBits \ {"POW"}) /\ c.next \in Addr
  BY DEF CpuType
<1>3. Vector \in Addr /\ {"EXCEPTION"} \in SUBSET Flag
  BY PpcExecAssumption DEF Vector, Addr, Flag
<1>4. exc \in Except_Type \cup {"none"}
  OBVIOUS
<1>5. Handler(c, exc) = [m EXCEPT
        !.srr0 = ReturnAddr(c, exc), !.srr1 = c.msr \ {"POW"}, !.nia = Vector,
        !.flags = {"EXCEPTION"}, !.next = Vector, !.last = exc, !.want = c.next]
  BY Zenon DEF Handler
<1> HIDE DEF m
<1> QED
  BY <1>1, <1>2, <1>3, <1>4, <1>5, ZenonT(60) DEF CpuType

\* An exception taken with a proper return address leaves sound registers and
\* goes on at its vector.
LEMMA HandlerSound ==
    ASSUME NEW c \in CpuType, NEW exc \in Except_Type, ReturnAddr(c, exc) \in Addr,
           exc \in {"EXT_INT", "DECR"} => ReturnAddr(c, exc) = c.next
    PROVE  Sound(Handler(c, exc)) /\ Onward(Handler(c, exc))
<1>1. Handler(c, exc) \in CpuType
  BY HandlerType
<1> QED
  BY <1>1, HandlerFields DEF Sound, Onward, Jumps

\* An asynchronous exception does so wherever the next address is known.
LEMMA AsyncSound ==
    ASSUME NEW c \in CpuType, NEW exc \in Async, Onward(c)
    PROVE  Sound(Handler(c, exc)) /\ Onward(Handler(c, exc))
<1>1. ReturnAddr(c, exc) = c.next
  BY DEF ReturnAddr, Onward, Jumps, Async
<1>2. c.next \in Addr
  BY DEF CpuType
<1> QED
  BY <1>1, <1>2, HandlerSound DEF Except_Type

\* longjmp() into ppc_exec().
LEMMA LongJmpSound ==
    ASSUME NEW c, Sound(c), LongJmp(c)
    PROVE  Sound(cpu') /\ cpu'.msr = c.msr /\ at' = "start"
<1>1. cpu' \in CpuType
  BY DEF LongJmp, Sound, CpuType
<1> QED
  BY <1>1 DEF LongJmp, Sound, CpuType

\* An instruction that ends in an exception.
LEMMA FaultSound ==
    ASSUME NEW c \in CpuType, NEW exc \in Except_Type \ Async, Fault(c, exc),
           c.pc + 1 \in Addr \/ exc # "SYSCALL"
    PROVE  Sound(cpu') /\ cpu'.msr = {} /\ at' = "start"
<1>1. ReturnAddr(c, exc) \in Addr
  BY DEF ReturnAddr, CpuType, Except_Type, Async
<1>2. Sound(Handler(c, exc)) /\ Handler(c, exc).msr = {}
  BY <1>1, HandlerSound, HandlerFields DEF Async
<1> QED
  BY <1>2, LongJmpSound DEF Fault

\* The registers of an instruction that goes on at a.
LEMMA GoingSound ==
    ASSUME cpu \in CpuType, NEW a \in Addr
    PROVE  /\ Going(a) \in CpuType /\ Going(a).next = a
           /\ Going(a).pc = cpu.pc /\ Going(a).msr = cpu.msr
           /\ Going(a).flags = cpu.flags /\ Going(a).nia = cpu.nia
           /\ Going(a).srr0 = cpu.srr0 /\ Going(a).srr1 = cpu.srr1
BY DEF Going, CpuType

\* The start of an instruction.
LEMMA BeginSound ==
    ASSUME NEW c \in CpuType, NEW a \in Addr
    PROVE  Sound(Begin(c, a)) /\ Begin(c, a).flags = {} /\ Begin(c, a).msr = c.msr
<1>1. {} \in SUBSET Flag /\ "none" \in Except_Type \cup {"none"} /\ 0 \in Addr
  BY PpcExecAssumption DEF Addr
<1>2. Begin(c, a) \in CpuType
  BY <1>1, Zenon DEF Begin, CpuType
<1>3. Begin(c, a).flags = {} /\ Begin(c, a).msr = c.msr
  BY DEF Begin, CpuType
<1> QED
  BY <1>2, <1>3 DEF Sound

\* The address translation of the next instruction, which begins or faults.
LEMMA FetchSound ==
    ASSUME NEW c \in CpuType, NEW a \in Addr, Fetch(c, a)
    PROVE  /\ Sound(cpu') /\ cpu'.msr \in {c.msr, {}} /\ at' \in {"exec", "start"}
           /\ at' = "exec" => cpu'.flags = {}
<1>1. CASE cpu' = Begin(c, a) /\ at' = "exec"
  BY <1>1, BeginSound
<1>2. CASE LongJmp(Handler(c, "ISI"))
  <2>1. ReturnAddr(c, "ISI") \in Addr /\ "ISI" \in Except_Type
    BY DEF ReturnAddr, CpuType, Except_Type, Async
  <2>2. Sound(Handler(c, "ISI")) /\ Handler(c, "ISI").msr = {}
    BY <2>1, HandlerSound, HandlerFields
  <2> QED
    BY <1>2, <2>2, LongJmpSound
<1> QED
  BY <1>1, <1>2 DEF Fetch

\* mtmsr and rfi with MSR[EE] set while an exception is pending.
LEMMA TakePendingSound ==
    ASSUME PinType, NEW c \in CpuType, NEW rfi \in BOOLEAN, TakePending(c, rfi),
           ~Jumps(c), c.pc + 1 \in Addr, cpu.srr0 \in Addr,
           c.next = IF rfi THEN cpu.srr0 ELSE c.pc + 1
    PROVE  /\ Sound(cpu') /\ cpu'.msr = {} /\ at' \in {"events", "start"}
           /\ at' = "events" => Onward(cpu')
           /\ PinType'
<1> DEFINE Taken(exc) == IF rfi THEN [Handler(c, exc) EXCEPT !.srr0 = cpu.srr0]
                                ELSE Handler(c, exc)
<1>1. ASSUME NEW exc \in Async
      PROVE  /\ Handler(c, exc) \in CpuType /\ ReturnAddr(c, exc) \in Addr
             /\ Onward(Handler(c, exc))
  <2>1. ReturnAddr(c, exc) = c.pc + 1
    BY DEF ReturnAddr, Jumps, Async
  <2>2. Handler(c, exc) \in CpuType
    BY <2>1, HandlerType DEF Except_Type
  <2> QED
    BY <2>1, <2>2, HandlerFields DEF Onward, Jumps
<1>2. ASSUME NEW exc \in {"EXT_INT", "DECR"}, Complete(Taken(exc))
      PROVE  Sound(cpu') /\ cpu'.msr = {} /\ at' = "events" /\ Onward(cpu')
  <2>1. exc \in Async
    BY DEF Async
  <2>2. CASE rfi
    <3> DEFINE h == Handler(c, exc)
    <3>1. cpu' = [h EXCEPT !.srr0 = cpu.srr0] /\ at' = "events"
      BY <1>2, <2>2 DEF Complete
    <3>2. h \in CpuType /\ Onward(h)
      BY <1>1, <2>1
    <3>3. h.want = c.next /\ h.last = exc /\ h.msr = {}
      BY HandlerFields
    <3> HIDE DEF h
    <3>4. cpu' \in CpuType
      BY <3>1, <3>2 DEF CpuType
    <3>5. cpu'.srr0 = cpu.srr0 /\ cpu'.want = h.want /\ cpu'.msr = h.msr
          /\ cpu'.next = h.next /\ cpu'.nia = h.nia /\ cpu'.pc = h.pc
          /\ cpu'.flags = h.flags
      BY <3>1, <3>2 DEF CpuType
    <3> QED
      BY <2>2, <3>1, <3>2, <3>3, <3>4, <3>5 DEF Sound, Onward, Jumps
  <2>3. CASE ~rfi
    <3>1. cpu' = Handler(c, exc) /\ at' = "events"
      BY <1>2, <2>3 DEF Complete
    <3>2. Onward(c)
      BY <2>3 DEF Onward
    <3> QED
      BY <2>1, <3>1, <3>2, AsyncSound, HandlerFields
  <2> QED
    BY <2>2, <2>3
<1>3. CASE int_pin
  <2>1. Complete(Taken("EXT_INT")) /\ UNCHANGED <<pins, timers>>
    BY <1>3 DEF TakePending
  <2> QED
    BY <1>2, <2>1 DEF PinType, pins, timers
<1>4. CASE ~int_pin /\ dec_exception_pending
  <2>1. /\ Complete(Taken("DECR")) /\ dec_exception_pending' = FALSE
        /\ UNCHANGED <<int_pin, thrm_exception_pending, timers>>
    BY <1>4 DEF TakePending
  <2> QED
    BY <1>2, <2>1 DEF PinType, timers
<1>5. CASE ~int_pin /\ ~dec_exception_pending
  <2>1. /\ LongJmp(Handler(c, "THRM")) /\ thrm_exception_pending' = FALSE
        /\ UNCHANGED <<int_pin, dec_exception_pending, timers>>
    BY <1>5 DEF TakePending
  <2>2. "THRM" \in Async
    BY DEF Async
  <2>3. Sound(Handler(c, "THRM")) /\ Handler(c, "THRM").msr = {}
    BY <1>1, <2>2, HandlerFields DEF Sound
  <2> QED
    BY <2>1, <2>3, LongJmpSound DEF PinType, timers
<1> QED
  BY <1>3, <1>4, <1>5

-----------------------------------------------------------------------------
(* The invariant is inductive.                                             *)

LEMMA ExecInit == Init => ExecInv
<1> SUFFICES ASSUME Init
             PROVE  ExecInv
  OBVIOUS
<1>1. cpu = CpuInit(FALSE) /\ Vector \in Addr
  BY PpcExecAssumption DEF Init, Vector, Addr
<1>2. cpu \in CpuType
  BY <1>1 DEF CpuInit, CpuType, Vector
<1>3. Sound(cpu) /\ cpu.msr = {}
  BY <1>1, <1>2 DEF CpuInit, Sound
<1> QED
  BY <1>3 DEF Init, ExecInv, PinType, Where, NextKnown, FlagsCleared, NonePending

\* The interrupt line moves, in a device access or in a timer callback.
LEMMA SetPinSound ==
    ASSUME PinType, NEW c, Sound(c), Onward(c), "EE" \in c.msr => ~Pending,
           NEW level \in BOOLEAN, SetPin(c, level)
    PROVE  Sound(cpu') /\ Onward(cpu') /\ PinType' /\ NonePending'
<1>1. /\ int_pin' = level
      /\ UNCHANGED <<dec_exception_pending, thrm_exception_pending, timers>>
  BY DEF SetPin
<1>2. PinType'
  BY <1>1 DEF PinType, timers
<1>3. CASE level /\ "EE" \in c.msr
  <2>1. cpu' = Handler(c, "EXT_INT")
    BY <1>3 DEF SetPin
  <2>2. c \in CpuType /\ "EXT_INT" \in Async
    BY DEF Sound, Async
  <2>3. cpu'.msr = {}
    BY <2>1, <2>2, HandlerFields
  <2> QED
    BY <1>2, <2>1, <2>2, <2>3, AsyncSound DEF NonePending
<1>4. CASE ~(level /\ "EE" \in c.msr)
  <2>1. cpu' = c
    BY <1>4 DEF SetPin
  <2> QED
    BY <1>1, <1>2, <1>4, <2>1 DEF NonePending, Pending
<1> QED
  BY <1>3, <1>4

\* Every instruction keeps the invariant.
LEMMA InstructionStep ==
    ASSUME ExecInv, Instruction
    PROVE  ExecInv'
<1> USE DEF Where
<1>1. /\ cpu \in CpuType /\ Sound(cpu) /\ PinType
      /\ at = "exec" /\ cpu.flags = {} /\ NonePending
  BY DEF ExecInv, Sound, FlagsCleared, Instruction, Plain, FpuOff, DataFault,
         NotAllowed, Sc, Rfi, MtDec, MtThrm, Branch, Mtmsr, MtSrr, DeviceAccess
<1>2. /\ cpu.pc \in Addr
      /\ cpu.pc < LastAddr => cpu.pc + 1 \in Addr
      /\ cpu.srr0 \in Addr /\ cpu.srr1 \in SUBSET MsrBits
  BY <1>1, PpcExecAssumption DEF CpuType, Addr
<1>3. ASSUME NEW a \in Addr
      PROVE  /\ Going(a) \in CpuType /\ Going(a).next = a /\ Going(a).flags = {}
             /\ Going(a).pc = cpu.pc /\ Going(a).msr = cpu.msr /\ Going(a).nia = cpu.nia
             /\ Sound(Going(a)) /\ ~Jumps(Going(a))
  BY <1>1, GoingSound DEF Sound, Jumps
\* what remains of an instruction that completes without an exception
<1>4. ASSUME NEW c \in CpuType, Complete(c), Onward(c), "EXCEPTION" \notin c.flags,
             "EE" \in c.msr => ~Pending', PinType'
      PROVE  ExecInv'
  <2>1. cpu' = c /\ at' = "events"
    BY <1>4 DEF Complete
  <2> QED
    BY <1>4, <2>1 DEF ExecInv, Sound, NextKnown, FlagsCleared, NonePending
\* and of one that ends in an exception
<1>5. ASSUME Sound(cpu'), cpu'.msr = {}, at' \in {"events", "start"},
             at' = "events" => Onward(cpu'), PinType'
      PROVE  ExecInv'
  BY <1>5 DEF ExecInv, NextKnown, FlagsCleared, NonePending
<1>6. CASE Plain
  <2>1. Complete(Going(cpu.pc + 1)) /\ UNCHANGED <<pins, timers>> /\ cpu.pc + 1 \in Addr
    BY <1>2, <1>6 DEF Plain
  <2>2. PinType' /\ Pending' = Pending
    BY <1>1, <2>1 DEF PinType, Pending, pins, timers
  <2> QED
    BY <1>1, <1>3, <1>4, <2>1, <2>2 DEF Onward, NonePending
<1>7. ASSUME NEW a \in Addr, Branch(a)
      PROVE  ExecInv'
  <2> DEFINE c == [Going(a) EXCEPT !.nia = a, !.flags = {"BRANCH"}]
  <2>1. Complete(c) /\ UNCHANGED <<pins, timers>>
    BY <1>7 DEF Branch
  <2>2. PinType' /\ Pending' = Pending
    BY <1>1, <2>1 DEF PinType, Pending, pins, timers
  <2>3. {"BRANCH"} \in SUBSET Flag
    BY DEF Flag
  <2>4. c \in CpuType
    <3>1. Going(a) \in CpuType
      BY <1>3
    <3> QED
      BY <2>3, <3>1, Zenon DEF CpuType
  <2>5. c.next = a /\ c.nia = a /\ c.flags = {"BRANCH"} /\ c.msr = cpu.msr
    BY <1>3 DEF CpuType
  <2> HIDE DEF c
  <2>6. Onward(c)
    BY <2>5 DEF Onward, Jumps
  <2> QED
    BY <1>1, <1>4, <2>1, <2>2, <2>4, <2>5, <2>6 DEF NonePending
<1>8. CASE FpuOff
  <2>1. Fault(Going(cpu.pc), "NO_FPU") /\ UNCHANGED <<pins, timers>>
    BY <1>8 DEF FpuOff, Fault
  <2>2. Sound(cpu') /\ cpu'.msr = {} /\ at' = "start"
    BY <1>2, <1>3, <2>1, FaultSound DEF Except_Type, Async
  <2> QED
    BY <1>1, <1>5, <2>1, <2>2 DEF PinType, pins, timers
<1>9. CASE DataFault
  <2>1. Fault(Going(cpu.pc), "DSI") /\ UNCHANGED <<pins, timers>>
    BY <1>9 DEF DataFault, Fault
  <2>2. Sound(cpu') /\ cpu'.msr = {} /\ at' = "start"
    BY <1>2, <1>3, <2>1, FaultSound DEF Except_Type, Async
  <2> QED
    BY <1>1, <1>5, <2>1, <2>2 DEF PinType, pins, timers
<1>10. CASE NotAllowed
  <2>1. Fault(Going(cpu.pc), "PROGRAM") /\ UNCHANGED <<pins, timers>>
    BY <1>10 DEF NotAllowed, Fault
  <2>2. Sound(cpu') /\ cpu'.msr = {} /\ at' = "start"
    BY <1>2, <1>3, <2>1, FaultSound DEF Except_Type, Async
  <2> QED
    BY <1>1, <1>5, <2>1, <2>2 DEF PinType, pins, timers
<1>11. CASE Sc
  <2>1. /\ Fault(Going(cpu.pc + 1), "SYSCALL") /\ UNCHANGED <<pins, timers>>
        /\ cpu.pc + 1 \in Addr
    BY <1>2, <1>11 DEF Sc, Fault
  <2>2. Sound(cpu') /\ cpu'.msr = {} /\ at' = "start"
    BY <1>2, <1>3, <2>1, FaultSound DEF Except_Type, Async
  <2> QED
    BY <1>1, <1>5, <2>1, <2>2 DEF PinType, pins, timers
<1>12. ASSUME NEW a \in Addr, NEW m \in SUBSET (MsrBits \ {"POW"}), MtSrr(a, m)
       PROVE  ExecInv'
  <2> DEFINE c == [Going(cpu.pc + 1) EXCEPT !.srr0 = a, !.srr1 = m]
  <2>1. Complete(c) /\ UNCHANGED <<pins, timers>> /\ cpu.pc + 1 \in Addr
    BY <1>2, <1>12 DEF MtSrr
  <2>2. PinType' /\ Pending' = Pending
    BY <1>1, <2>1 DEF PinType, Pending, pins, timers
  <2>4. c \in CpuType
    <3>1. Going(cpu.pc + 1) \in CpuType
      BY <1>3, <2>1
    <3> QED
      BY <3>1, Zenon DEF CpuType
  <2>5. /\ c.next = cpu.pc + 1 /\ c.pc = cpu.pc /\ c.flags = {} /\ c.msr = cpu.msr
    BY <1>3, <2>1 DEF CpuType
  <2> HIDE DEF c
  <2>6. Onward(c)
    BY <2>5 DEF Onward, Jumps
  <2> QED
    BY <1>1, <1>4, <2>1, <2>2, <2>4, <2>5, <2>6 DEF NonePending
<1>13. CASE MtDec
  <2>1. /\ Complete(Going(cpu.pc + 1)) /\ cpu.pc + 1 \in Addr
        /\ dec_exception_pending' = FALSE /\ dec_timer' = TRUE
        /\ UNCHANGED <<int_pin, thrm_exception_pending, thermal_timer>>
    BY <1>2, <1>13 DEF MtDec
  <2>2. PinType' /\ (Pending' => Pending)
    BY <1>1, <2>1 DEF PinType, Pending
  <2> QED
    BY <1>1, <1>3, <1>4, <2>1, <2>2 DEF Onward, NonePending
<1>14. CASE MtThrm
  <2>1. /\ Complete(Going(cpu.pc + 1)) /\ cpu.pc + 1 \in Addr
        /\ thermal_timer' = TRUE /\ UNCHANGED <<pins, dec_timer>>
    BY <1>2, <1>14 DEF MtThrm
  <2>2. PinType' /\ Pending' = Pending
    BY <1>1, <2>1 DEF PinType, Pending, pins
  <2> QED
    BY <1>1, <1>3, <1>4, <2>1, <2>2 DEF Onward, NonePending
<1>15. ASSUME NEW level \in BOOLEAN, DeviceAccess(level)
       PROVE  ExecInv'
  <2>1. SetPin(Going(cpu.pc + 1), level) /\ cpu.pc + 1 \in Addr /\ at' = "events"
    BY <1>2, <1>15 DEF DeviceAccess
  <2>2. Sound(cpu') /\ Onward(cpu') /\ PinType' /\ NonePending'
    BY <1>1, <1>3, <2>1, SetPinSound DEF Onward, NonePending
  <2> QED
    BY <2>1, <2>2 DEF ExecInv, NextKnown, FlagsCleared
<1>16. ASSUME NEW new \in SUBSET MsrBits, NEW sleep \in BOOLEAN, Mtmsr(new, sleep)
       PROVE  ExecInv'
  <2> DEFINE c == MsrDidChange(Going(cpu.pc + 1), new, TRUE)
  <2>1. cpu.pc + 1 \in Addr
    BY <1>2, <1>16 DEF Mtmsr
  <2>2. c \in CpuType
    BY <1>3, <2>1, MsrType
  <2>3. /\ c.next = cpu.pc + 1 /\ c.pc = cpu.pc /\ c.msr = new
        /\ c.flags \subseteq {"OPC_DECODER"}
    <3> DEFINE g == Going(cpu.pc + 1)
    <3>1. g.next = cpu.pc + 1 /\ g.pc = cpu.pc /\ g.flags = {}
      BY <1>3, <2>1
    <3> HIDE DEF g
    <3>2. c = MsrDidChange(g, new, TRUE)
      BY DEF g
    <3> HIDE DEF c
    <3>3. /\ c.next = g.next /\ c.pc = g.pc /\ c.msr = new
      BY <3>2 DEF MsrDidChange
    <3>4. c.flags \in {g.flags, g.flags \cup {"OPC_DECODER"}}
      BY <3>2, MsrFields
    <3> QED
      BY <3>1, <3>3, <3>4
  <2>4. ~Jumps(c) /\ Onward(c)
    BY <2>3 DEF Onward, Jumps
  <2>5. CASE "EE" \in new /\ Pending
    <3>1. TakePending(c, FALSE)
      BY <1>16, <2>5 DEF Mtmsr
    <3> HIDE DEF c
    <3>2. /\ Sound(cpu') /\ cpu'.msr = {} /\ at' \in {"events", "start"}
          /\ at' = "events" => Onward(cpu')
          /\ PinType'
      BY <1>1, <1>2, <2>1, <2>2, <2>3, <2>4, <3>1, TakePendingSound
    <3> QED
      BY <1>5, <3>2
  <2>6. CASE ~("EE" \in new /\ Pending)
    <3>1. /\ Complete(IF sleep THEN [c EXCEPT !.flags = @ \cup {"SLEEP"},
                                              !.nia = c.pc + 1]
                               ELSE c)
          /\ UNCHANGED <<pins, timers>>
      BY <1>16, <2>6 DEF Mtmsr
    <3>2. PinType' /\ Pending' = Pending
      BY <1>1, <3>1 DEF PinType, Pending, pins, timers
    <3> HIDE DEF c
    <3>3. CASE sleep
      <4> DEFINE d == [c EXCEPT !.flags = @ \cup {"SLEEP"}, !.nia = c.pc + 1]
      <4>1. Complete(d)
        BY <3>1, <3>3
      <4>2. c.flags \cup {"SLEEP"} \in SUBSET Flag /\ c.pc + 1 \in Addr
        BY <2>1, <2>3 DEF Flag
      <4>3. d \in CpuType
        BY <2>2, <4>2, Zenon DEF CpuType
      <4>4. /\ d.next = c.next /\ d.nia = c.pc + 1 /\ d.msr = c.msr
            /\ d.flags = c.flags \cup {"SLEEP"}
        BY <2>2 DEF CpuType
      <4> HIDE DEF d
      <4>5. Onward(d) /\ "EXCEPTION" \notin d.flags
        BY <2>3, <4>4 DEF Onward, Jumps
      <4> QED
        BY <1>4, <2>3, <2>6, <3>2, <4>1, <4>3, <4>4, <4>5
    <3>4. CASE ~sleep
      BY <1>4, <2>2, <2>3, <2>4, <2>6, <3>1, <3>2, <3>4
    <3> QED
      BY <3>3, <3>4
  <2> QED
    BY <2>5, <2>6
<1>17. CASE Rfi
  <2> DEFINE c == MsrDidChange(Going(cpu.srr0), cpu.srr1, TRUE)
  <2>1. cpu.pc + 1 \in Addr
    BY <1>2, <1>17 DEF Rfi
  <2>2. c \in CpuType
    BY <1>2, <1>3, <2>1, MsrType
  <2>3. /\ c.next = cpu.srr0 /\ c.pc = cpu.pc /\ c.msr = cpu.srr1
        /\ c.flags \subseteq {"OPC_DECODER"}
    <3> DEFINE g == Going(cpu.srr0)
    <3>1. g.next = cpu.srr0 /\ g.pc = cpu.pc /\ g.flags = {}
      BY <1>2, <1>3
    <3> HIDE DEF g
    <3>2. c = MsrDidChange(g, cpu.srr1, TRUE)
      BY DEF g
    <3> HIDE DEF c
    <3>3. /\ c.next = g.next /\ c.pc = g.pc /\ c.msr = cpu.srr1
      BY <3>2 DEF MsrDidChange
    <3>4. c.flags \in {g.flags, g.flags \cup {"OPC_DECODER"}}
      BY <3>2, MsrFields
    <3> QED
      BY <3>1, <3>3, <3>4
  <2>4. ~Jumps(c)
    BY <2>3 DEF Jumps
  <2>5. CASE "EE" \in cpu.srr1 /\ Pending
    <3>1. TakePending(c, TRUE)
      BY <1>17, <2>5 DEF Rfi
    <3> HIDE DEF c
    <3>2. /\ Sound(cpu') /\ cpu'.msr = {} /\ at' \in {"events", "start"}
          /\ at' = "events" => Onward(cpu')
          /\ PinType'
      BY <1>1, <1>2, <2>1, <2>2, <2>3, <2>4, <3>1, TakePendingSound
    <3> QED
      BY <1>5, <3>2
  <2>6. CASE ~("EE" \in cpu.srr1 /\ Pending)
    <3> DEFINE d == [c EXCEPT !.nia = cpu.srr0, !.flags = @ \cup {"RFI"}]
    <3>1. Complete(d) /\ UNCHANGED <<pins, timers>>
      BY <1>17, <2>6 DEF Rfi
    <3>2. PinType' /\ Pending' = Pending
      BY <1>1, <3>1 DEF PinType, Pending, pins, timers
    <3> HIDE DEF c
    <3>3. c.flags \cup {"RFI"} \in SUBSET Flag
      BY <2>3 DEF Flag
    <3>4. d \in CpuType
      BY <1>2, <2>2, <3>3, Zenon DEF CpuType
    <3>5. /\ d.next = c.next /\ d.nia = cpu.srr0 /\ d.msr = c.msr
          /\ d.flags = c.flags \cup {"RFI"}
      BY <2>2 DEF CpuType
    <3> HIDE DEF d
    <3>6. Onward(d) /\ "EXCEPTION" \notin d.flags
      BY <2>3, <3>5 DEF Onward, Jumps
    <3> QED
      BY <1>4, <2>3, <2>6, <3>1, <3>2, <3>4, <3>5, <3>6
  <2> QED
    BY <2>5, <2>6
<1> QED
  BY <1>6, <1>7, <1>8, <1>9, <1>10, <1>11, <1>12, <1>13, <1>14, <1>15, <1>16, <1>17
     DEF Instruction

\* Every timer callback keeps it.
LEMMA CallbackStep ==
    ASSUME ExecInv, Callback
    PROVE  ExecInv'
<1>1. /\ cpu \in CpuType /\ Sound(cpu) /\ PinType /\ NonePending
      /\ at \in {"events", "sleep"} /\ Onward(cpu)
  BY DEF ExecInv, Sound, NextKnown, Callback, DecFires, DeviceFires, ThermalFires, InEvents
<1>2. ASSUME NEW level \in BOOLEAN, DeviceFires(level)
      PROVE  ExecInv'
  <2>1. SetPin(cpu, level) /\ at' = at
    BY <1>2 DEF DeviceFires
  <2>2. Sound(cpu') /\ Onward(cpu') /\ PinType' /\ NonePending'
    BY <1>1, <2>1, SetPinSound DEF NonePending
  <2> QED
    BY <1>1, <2>1, <2>2 DEF ExecInv, Where, NextKnown, FlagsCleared
<1>3. CASE DecFires
  <2>1. at' = at /\ UNCHANGED <<int_pin, thrm_exception_pending, timers>>
    BY <1>3 DEF DecFires
  <2>2. CASE "EE" \in cpu.msr
    <3>1. cpu' = Handler(cpu, "DECR") /\ dec_exception_pending' = FALSE
      BY <1>3, <2>2 DEF DecFires
    <3>2. Sound(cpu') /\ Onward(cpu') /\ cpu'.msr = {}
      BY <1>1, <3>1, AsyncSound, HandlerFields DEF Async
    <3> QED
      BY <1>1, <2>1, <3>1, <3>2
         DEF ExecInv, PinType, timers, Where, NextKnown, FlagsCleared, NonePending
  <2>3. CASE "EE" \notin cpu.msr
    <3>1. cpu' = cpu /\ dec_exception_pending' = TRUE
      BY <1>3, <2>3 DEF DecFires
    <3> QED
      BY <1>1, <2>1, <2>3, <3>1
         DEF ExecInv, PinType, timers, Where, NextKnown, FlagsCleared, NonePending
  <2> QED
    BY <2>2, <2>3
<1>4. ASSUME NEW hot \in BOOLEAN, ThermalFires(hot)
      PROVE  ExecInv'
  <2>1. thermal_timer' = FALSE /\ UNCHANGED <<int_pin, dec_exception_pending, dec_timer>>
    BY <1>4 DEF ThermalFires
  <2>2. CASE hot /\ "EE" \in cpu.msr
    <3>1. LongJmp(Handler(cpu, "THRM")) /\ thrm_exception_pending' = FALSE
      BY <1>4, <2>2 DEF ThermalFires
    <3>2. Sound(Handler(cpu, "THRM")) /\ Handler(cpu, "THRM").msr = {}
      BY <1>1, AsyncSound, HandlerFields DEF Async
    <3>3. Sound(cpu') /\ cpu'.msr = {} /\ at' = "start"
      BY <3>1, <3>2, LongJmpSound
    <3> QED
      BY <1>1, <2>1, <3>1, <3>3
         DEF ExecInv, PinType, Where, NextKnown, FlagsCleared, NonePending
  <2>3. CASE ~(hot /\ "EE" \in cpu.msr)
    <3>1. /\ thrm_exception_pending' = (thrm_exception_pending \/ hot)
          /\ UNCHANGED <<cpu, at>>
      BY <1>4, <2>3 DEF ThermalFires
    <3>2. "EE" \in cpu.msr => ~Pending'
      BY <1>1, <2>1, <2>3, <3>1 DEF NonePending, Pending
    <3>3. PinType'
      <4>1. (thrm_exception_pending \/ hot) \in BOOLEAN
        <5>1. CASE hot
          BY <5>1, Zenon
        <5>2. CASE ~hot
          <6>1. thrm_exception_pending \in BOOLEAN
            BY <1>1 DEF PinType
          <6>2. (thrm_exception_pending \/ hot) = thrm_exception_pending
            BY <5>2, <6>1
          <6> QED
            BY <6>1, <6>2, Zenon
        <5> QED
          BY <5>1, <5>2
      <4>2. thrm_exception_pending' \in BOOLEAN
        BY <3>1, <4>1, Zenon
      <4> QED
        BY <1>1, <2>1, <4>2 DEF PinType
    <3> QED
      BY <1>1, <3>1, <3>2, <3>3
         DEF ExecInv, Where, NextKnown, FlagsCleared, NonePending
  <2> QED
    BY <2>2, <2>3
<1> QED
  BY <1>2, <1>3, <1>4 DEF Callback

\* So do the steps of the loop between instructions.
LEMMA LoopStep ==
    ASSUME ExecInv, Loop
    PROVE  ExecInv'
<1>1. cpu \in CpuType /\ Sound(cpu) /\ PinType /\ NonePending
  BY DEF ExecInv, Sound
<1>2. UNCHANGED <<pins, timers>>
  BY DEF Loop, EventsDone, WakeUp, Start, Sequential, NextBlock
<1>3. PinType' /\ Pending' = Pending
  BY <1>1, <1>2 DEF PinType, Pending, pins, timers
<1>4. ASSUME Sound(cpu'), cpu'.msr \in {cpu.msr, {}}, at' \in {"exec", "start"},
             at' = "exec" => cpu'.flags = {}
      PROVE  ExecInv'
  BY <1>1, <1>3, <1>4 DEF ExecInv, Where, NextKnown, FlagsCleared, NonePending
<1>5. CASE EventsDone \/ WakeUp
  <2>1. cpu' = cpu /\ at' \in {"sleep", "boundary"} /\ at \in {"events", "sleep"}
    BY <1>5 DEF EventsDone, WakeUp
  <2> QED
    BY <1>1, <1>3, <2>1 DEF ExecInv, Where, NextKnown, FlagsCleared, NonePending
<1>6. CASE Start
  <2> DEFINE c == [cpu EXCEPT !.flags = {}, !.decoder = cpu.grabber]
  <2>1. Fetch(c, cpu.pc) /\ cpu.pc \in Addr
    BY <1>1, <1>6 DEF Start, CpuType
  <2>2. c.msr = cpu.msr
    BY <1>1 DEF CpuType
  <2>3. cpu.grabber \in BOOLEAN /\ {} \in SUBSET Flag
    BY <1>1 DEF CpuType
  <2>4. c \in CpuType
    BY <1>1, <2>3, Zenon DEF CpuType
  <2> HIDE DEF c
  <2> QED
    BY <1>4, <2>1, <2>2, <2>4, FetchSound
<1>7. CASE Sequential
  <2> DEFINE c == [cpu EXCEPT !.pc = @ + 1]
  <2>1. /\ at = "boundary" /\ cpu.flags = {}
        /\ IF Page(c.pc) = Page(cpu.pc) THEN cpu' = c /\ at' = "exec" ELSE Fetch(c, c.pc)
    BY <1>7 DEF Sequential
  <2>2. cpu.pc + 1 \in Addr
    BY <1>1, <2>1 DEF ExecInv, NextKnown, Onward, Jumps, CpuType
  <2>3. /\ c \in CpuType /\ c.msr = cpu.msr /\ c.flags = {} /\ c.pc \in Addr
        /\ c.last = cpu.last
    BY <1>1, <2>1, <2>2 DEF CpuType
  <2> HIDE DEF c
  <2>4. CASE cpu' = c /\ at' = "exec"
    BY <1>4, <2>3, <2>4 DEF Sound
  <2>5. CASE Fetch(c, c.pc)
    BY <1>4, <2>3, <2>5, FetchSound
  <2> QED
    BY <2>1, <2>4, <2>5
<1>8. CASE NextBlock
  <2> DEFINE d == IF "OPC_DECODER" \in cpu.flags THEN cpu.grabber ELSE cpu.decoder
             c == [cpu EXCEPT !.decoder = d]
  <2>1. IF "RFI" \notin c.flags /\ Page(c.nia) = Page(c.pc)
        THEN cpu' = Begin(c, c.nia) /\ at' = "exec"
        ELSE Fetch(c, c.nia)
    BY <1>8 DEF NextBlock
  <2>2. d \in BOOLEAN
    BY <1>1 DEF CpuType
  <2> HIDE DEF d
  <2>3. c \in CpuType /\ c.msr = cpu.msr /\ c.nia \in Addr
    BY <1>1, <2>2 DEF CpuType
  <2> HIDE DEF c
  <2>4. CASE cpu' = Begin(c, c.nia) /\ at' = "exec"
    BY <1>4, <2>3, <2>4, BeginSound
  <2>5. CASE Fetch(c, c.nia)
    BY <1>4, <2>3, <2>5, FetchSound
  <2> QED
    BY <2>1, <2>4, <2>5
<1> QED
  BY <1>5, <1>6, <1>7, <1>8 DEF Loop

\* And so does a restart, whose pending exceptions survive behind a clear MSR.
LEMMA RestartStep ==
    ASSUME ExecInv, Restart
    PROVE  ExecInv'
<1>1. /\ cpu' = CpuInit(cpu.grabber) /\ at' = "start"
      /\ int_pin' = FALSE /\ dec_timer' = FALSE /\ thermal_timer' = FALSE
      /\ UNCHANGED <<dec_exception_pending, thrm_exception_pending>>
  BY DEF Restart
<1>2. PinType'
  BY <1>1 DEF ExecInv, PinType
<1>3. cpu.grabber \in BOOLEAN /\ Vector \in Addr /\ 0 \in Addr
  BY PpcExecAssumption DEF ExecInv, Sound, CpuType, Vector, Addr
<1>4. cpu' \in CpuType /\ cpu'.msr = {} /\ cpu'.last = "none"
  BY <1>1, <1>3 DEF CpuInit, CpuType
<1> QED
  BY <1>1, <1>2, <1>4
     DEF ExecInv, Sound, Where, NextKnown, FlagsCleared, NonePending

\* The invariant holds in every state of the interpreter.
THEOREM ExecInvariant == Spec => []ExecInv
<1>1. ExecInv /\ [Next]_vars => ExecInv'
  <2> SUFFICES ASSUME ExecInv, [Next]_vars
               PROVE  ExecInv'
    OBVIOUS
  <2>1. CASE UNCHANGED vars
    BY <2>1 DEF vars, pins, timers, ExecInv, PinType, NextKnown, FlagsCleared,
                NonePending, Pending
  <2> QED
    BY <2>1, InstructionStep, CallbackStep, LoopStep, RestartStep DEF Next
<1> QED
  BY <1>1, ExecInit, PTL DEF Spec

\* External and decrementer exceptions are precise wherever the loop takes them.
THEOREM InterruptsPrecise == Spec => []PreciseInterrupts
<1>1. ExecInv => PreciseInterrupts
  BY DEF ExecInv, PreciseInterrupts, TypeOK, Returns, Sound, PinType, Where
<1> QED
  BY <1>1, ExecInvariant, PTL

\* No instruction begins, and the processor does not sleep on, with an exception
\* pending that MSR[EE] lets through.
THEOREM NoInterruptMissed == Spec => []NoMissedInterrupt
<1>1. ExecInv => NoMissedInterrupt
  BY DEF ExecInv, NonePending, NoMissedInterrupt
<1> QED
  BY <1>1, ExecInvariant, PTL
=============================================================================
