------------------------------ MODULE PpcExec ------------------------------
(***************************************************************************)
(* The interpreter loop of the emulated PowerPC (cpu/ppc/ppcexec.cpp) and  *)
(* its exceptions (ppcexceptions.cpp, and mtmsr, rfi, sc, mtspr DEC and    *)
(* THRMn of ppcopcodes.cpp).                                               *)
(*                                                                         *)
(* After each instruction the loop may run timer callbacks, which raise    *)
(* the interrupt line or the decrementer and thermal exceptions; then it   *)
(* acts on exec_flags. External and decrementer exceptions return to the   *)
(* loop, all others leave it with longjmp. Programs are arbitrary: any     *)
(* instruction may stand at any address.                                   *)
(***************************************************************************)
EXTENDS Integers

CONSTANTS
    LastAddr,   \* instruction addresses 0..LastAddr, the last one never left
    PageLen,    \* instructions per page
    MsrBits,    \* the MSR bits that the guest uses
    Thermal,    \* the CPU has the thermal unit (MPC750)
    FetchFaults,\* instruction pages may be unmapped
    Restarts    \* the machine may be restarted

Addr == 0..LastAddr

\* all exception vectors, in the first page
Vector == 0

Async == {"EXT_INT", "DECR", "THRM"}
Except_Type == Async \cup {"ISI", "SYSCALL", "DSI", "PROGRAM", "NO_FPU"}
Flag == {"BRANCH", "EXCEPTION", "RFI", "OPC_DECODER", "SLEEP"}

ASSUME PpcExecAssumption ==
    /\ LastAddr \in Nat /\ PageLen \in Nat \ {0}
    /\ MsrBits \subseteq {"EE", "FP", "PR", "POW", "IR"}
    /\ {Thermal, FetchFaults, Restarts} \subseteq BOOLEAN

VARIABLES
    cpu,                    \* registers and execution state
    int_pin,
    dec_exception_pending,
    thrm_exception_pending,
    dec_timer,              \* decrementer_timer is queued
    thermal_timer,          \* thermal_timer is queued
    at                      \* where the interpreter loop is

pins == <<int_pin, dec_exception_pending, thrm_exception_pending>>
timers == <<dec_timer, thermal_timer>>
vars == <<cpu, pins, timers, at>>

Page(a) == a \div PageLen

-----------------------------------------------------------------------------
(* ppc_cpu_init(): all but the globals that it leaves alone. "grabber" is  *)
(* ppc_opcode_grabber, TRUE for the table with floating point; "decoder"   *)
(* is the copy of it in ppc_exec_inner(). History: "next", where the       *)
(* program continues after the instruction according to the architecture;  *)
(* "last" and "want", the exception taken last and where it must return to. *)
CpuInit(grabber) ==
    [pc |-> Vector, nia |-> 0, msr |-> {}, srr0 |-> 0, srr1 |-> {},
     flags |-> {}, grabber |-> grabber, decoder |-> grabber,
     next |-> Vector, last |-> "none", want |-> 0]

Init ==
    /\ cpu = CpuInit(FALSE)
    /\ int_pin = FALSE
    /\ dec_exception_pending = FALSE
    /\ thrm_exception_pending = FALSE
    /\ dec_timer = FALSE
    /\ thermal_timer = FALSE
    /\ at = "start"

\* ppc_msr_did_change()
MsrDidChange(c, new, set_nia) ==
    LET fp == ("FP" \in c.msr) # ("FP" \in new)
    IN  [c EXCEPT !.msr = new,
                  !.grabber = IF fp THEN "FP" \in new ELSE @,
                  !.flags = IF fp THEN @ \cup {"OPC_DECODER"} ELSE @,
                  !.nia = IF fp /\ set_nia THEN c.pc + 1 ELSE @]

\* the return address of an exception
ReturnAddr(c, exc) ==
    LET jump == c.flags \ {"OPC_DECODER"} # {}
    IN  CASE exc \in Async   -> IF jump THEN c.nia ELSE c.pc + 1
          [] exc = "ISI"     -> IF jump THEN c.nia ELSE c.pc
          [] exc = "SYSCALL" -> c.pc + 1
          [] OTHER           -> c.pc

\* mutant: the flags of the interrupted instruction survive
HandlerKeepsFlags(c, exc) ==
    [MsrDidChange(c, {}, FALSE) EXCEPT
        !.srr0 = ReturnAddr(c, exc), !.srr1 = c.msr \ {"POW"}, !.nia = Vector,
        !.flags = c.flags \cup {"EXCEPTION"},
        !.next = Vector, !.last = exc, !.want = c.next]

\* mutant: a branch taken by the interrupted instruction is forgotten
HandlerIgnoresBranch(c, exc) ==
    [MsrDidChange(c, {}, FALSE) EXCEPT
        !.srr0 = c.pc + 1, !.srr1 = c.msr \ {"POW"}, !.nia = Vector,
        !.flags = {"EXCEPTION"},
        !.next = Vector, !.last = exc, !.want = c.next]

\* ppc_exception_handler(): the flags it sets replace those that
\* ppc_msr_did_change() has just added
Handler(c, exc) ==
    [MsrDidChange(c, {}, FALSE) EXCEPT
        !.srr0 = ReturnAddr(c, exc), !.srr1 = c.msr \ {"POW"}, !.nia = Vector,
        !.flags = {"EXCEPTION"},
        !.next = Vector, !.last = exc, !.want = c.next]

\* ppc_exec() after longjmp(): the inner loop is entered anew
LongJmp(c) ==
    /\ cpu' = [c EXCEPT !.pc = c.nia]
    /\ at' = "start"

\* an instruction that ends in exception exc
Fault(c, exc) == LongJmp(Handler(c, exc)) /\ UNCHANGED <<pins, timers>>

\* an instruction that completes
Complete(c) == cpu' = c /\ at' = "events"

-----------------------------------------------------------------------------
(* Instructions.                                                           *)

\* the program goes on at a unless an exception intervenes
Going(a) == [cpu EXCEPT !.next = a]

Privileged == "PR" \notin cpu.msr

Plain ==
    /\ at = "exec"
    /\ cpu.pc < LastAddr
    /\ Complete(Going(cpu.pc + 1))
    /\ UNCHANGED <<pins, timers>>

Branch(a) ==
    /\ at = "exec"
    /\ Complete([Going(a) EXCEPT !.nia = a, !.flags = {"BRANCH"}])
    /\ UNCHANGED <<pins, timers>>

\* A floating point instruction of the table that has it mapped to
\* ppc_fpu_off(); the other table's behaves like Plain.
FpuOff ==
    /\ at = "exec"
    /\ ~cpu.decoder
    /\ Fault(Going(cpu.pc), "NO_FPU")

DataFault ==
    /\ at = "exec"
    /\ Fault(Going(cpu.pc), "DSI")

NotAllowed ==
    /\ at = "exec"
    /\ ~Privileged
    /\ Fault(Going(cpu.pc), "PROGRAM")

Sc ==
    /\ at = "exec"
    /\ cpu.pc < LastAddr
    /\ Fault(Going(cpu.pc + 1), "SYSCALL")

\* what mtmsr and rfi do when MSR[EE] lets a pending exception through: an
\* exception that returns to rfi gets the address rfi was to go to
TakePending(c, rfi) ==
    LET Taken(exc) == LET d == Handler(c, exc)
                      IN  IF rfi THEN [d EXCEPT !.srr0 = cpu.srr0] ELSE d
    IN  IF int_pin
        THEN /\ Complete(Taken("EXT_INT"))
             /\ UNCHANGED <<pins, timers>>
        ELSE IF dec_exception_pending
        THEN /\ dec_exception_pending' = FALSE
             /\ Complete(Taken("DECR"))
             /\ UNCHANGED <<int_pin, thrm_exception_pending, timers>>
        ELSE /\ thrm_exception_pending' = FALSE
             /\ LongJmp(Handler(c, "THRM"))
             /\ UNCHANGED <<int_pin, dec_exception_pending, timers>>

Pending == int_pin \/ dec_exception_pending \/ thrm_exception_pending

\* ppc_mtmsr(); sleep tells whether the power mode lets MSR[POW] in
Mtmsr(new, sleep) ==
    /\ at = "exec"
    /\ Privileged
    /\ cpu.pc < LastAddr
    /\ sleep => "POW" \in new
    /\ LET c == MsrDidChange(Going(cpu.pc + 1), new, TRUE)
       IN  IF "EE" \in new /\ Pending
           THEN TakePending(c, FALSE)
           ELSE /\ Complete(IF sleep
                            THEN [c EXCEPT !.flags = @ \cup {"SLEEP"},
                                           !.nia = c.pc + 1]
                            ELSE c)
                /\ UNCHANGED <<pins, timers>>

\* mutant: rfi enables interrupts without looking for pending ones
RfiUnchecked ==
    /\ at = "exec"
    /\ Privileged
    /\ LET c == MsrDidChange(Going(cpu.srr0), cpu.srr1, TRUE)
       IN  Complete([c EXCEPT !.nia = cpu.srr0, !.flags = @ \cup {"RFI"}])
    /\ UNCHANGED <<pins, timers>>

\* ppc_rfi()
Rfi ==
    /\ at = "exec"
    /\ Privileged
    /\ cpu.pc < LastAddr
    /\ LET c == MsrDidChange(Going(cpu.srr0), cpu.srr1, TRUE)
       IN  IF "EE" \in cpu.srr1 /\ Pending
           THEN TakePending(c, TRUE)
           ELSE /\ Complete([c EXCEPT !.nia = cpu.srr0, !.flags = @ \cup {"RFI"}])
                /\ UNCHANGED <<pins, timers>>

\* ppc_mtspr() of SRR0 and SRR1
MtSrr(a, m) ==
    /\ at = "exec"
    /\ Privileged
    /\ cpu.pc < LastAddr
    /\ Complete([Going(cpu.pc + 1) EXCEPT !.srr0 = a, !.srr1 = m])
    /\ UNCHANGED <<pins, timers>>

\* ppc_mtspr() of DEC: update_decrementer() drops an exception that is still
\* pending and queues the timer, to fire at once or when the count runs out
MtDec ==
    /\ at = "exec"
    /\ Privileged
    /\ cpu.pc < LastAddr
    /\ Complete(Going(cpu.pc + 1))
    /\ dec_exception_pending' = FALSE
    /\ dec_timer' = TRUE
    /\ UNCHANGED <<int_pin, thrm_exception_pending, thermal_timer>>

\* ppc_mtspr() of THRM1, THRM2 and THRM3
MtThrm ==
    /\ at = "exec"
    /\ Thermal
    /\ Privileged
    /\ cpu.pc < LastAddr
    /\ Complete(Going(cpu.pc + 1))
    /\ thermal_timer' = TRUE
    /\ UNCHANGED <<pins, dec_timer>>

\* ppc_assert_int(), ppc_release_int()
SetPin(c, level) ==
    /\ cpu' = IF level /\ "EE" \in c.msr THEN Handler(c, "EXT_INT") ELSE c
    /\ int_pin' = level
    /\ UNCHANGED <<dec_exception_pending, thrm_exception_pending, timers>>

\* a load or store whose last access moves the interrupt line
DeviceAccess(level) ==
    /\ at = "exec"
    /\ cpu.pc < LastAddr
    /\ SetPin(Going(cpu.pc + 1), level)
    /\ at' = "events"

-----------------------------------------------------------------------------
(* process_events(): timer callbacks, after an instruction and while the   *)
(* processor sleeps.                                                       *)

InEvents == at \in {"events", "sleep"}

DeviceFires(level) ==
    /\ InEvents
    /\ SetPin(cpu, level)
    /\ UNCHANGED at

\* trigger_timed_decrementer_exception() and the immediate one: the timer is
\* queued again for the next time the count runs out
DecFires ==
    /\ InEvents
    /\ dec_timer
    /\ IF "EE" \in cpu.msr
       THEN cpu' = Handler(cpu, "DECR") /\ dec_exception_pending' = FALSE
       ELSE UNCHANGED cpu /\ dec_exception_pending' = TRUE
    /\ UNCHANGED <<int_pin, thrm_exception_pending, timers, at>>

\* update_thermal(); hot tells whether an enabled threshold is passed
ThermalFires(hot) ==
    /\ InEvents
    /\ thermal_timer
    /\ thermal_timer' = FALSE
    /\ IF hot /\ "EE" \in cpu.msr
       THEN LongJmp(Handler(cpu, "THRM")) /\ thrm_exception_pending' = FALSE
       ELSE /\ thrm_exception_pending' = (thrm_exception_pending \/ hot)
            /\ UNCHANGED <<cpu, at>>
    /\ UNCHANGED <<int_pin, dec_exception_pending, dec_timer>>

\* process_events() returns, or was not called
EventsDone ==
    /\ at = "events"
    /\ at' = IF "SLEEP" \in cpu.flags THEN "sleep" ELSE "boundary"
    /\ UNCHANGED <<cpu, pins, timers>>

\* the sleep loop ends once an exception has replaced the flags
WakeUp ==
    /\ at = "sleep"
    /\ "SLEEP" \notin cpu.flags
    /\ at' = "boundary"
    /\ UNCHANGED <<cpu, pins, timers>>

-----------------------------------------------------------------------------
(* The loop between instructions.                                          *)

\* exec_flags = 0, and the instruction at a is next
Begin(c, a) ==
    [c EXCEPT !.pc = a, !.flags = {}, !.next = a, !.last = "none", !.want = 0]

\* mmu_translate_imem(a), then exec_flags = 0
Fetch(c, a) ==
    \/ /\ cpu' = Begin(c, a)
       /\ at' = "exec"
    \/ /\ FetchFaults /\ "IR" \in c.msr
       /\ LongJmp(Handler(c, "ISI"))

\* ppc_exec_inner() is entered: its first block begins at pc
Start ==
    /\ at = "start"
    /\ Fetch([cpu EXCEPT !.flags = {}, !.decoder = cpu.grabber], cpu.pc)
    /\ UNCHANGED <<pins, timers>>

\* the next instruction in sequence, in this block or at the start of the next
Sequential ==
    /\ at = "boundary"
    /\ cpu.flags = {}
    /\ LET c == [cpu EXCEPT !.pc = @ + 1]
       IN  IF Page(c.pc) = Page(cpu.pc)
           THEN cpu' = c /\ at' = "exec"
           ELSE Fetch(c, c.pc)
    /\ UNCHANGED <<pins, timers>>

\* exec_flags are set: the next block begins at ppc_next_instruction_address.
\* Within the page, and after anything but rfi, pc_real is only moved.
NextBlock ==
    /\ at = "boundary"
    /\ cpu.flags # {}
    /\ LET c == [cpu EXCEPT !.decoder = IF "OPC_DECODER" \in cpu.flags
                                        THEN cpu.grabber ELSE @]
       IN  IF "RFI" \notin c.flags /\ Page(c.nia) = Page(c.pc)
           THEN /\ cpu' = Begin(c, c.nia)
                /\ at' = "exec"
           ELSE Fetch(c, c.nia)
    /\ UNCHANGED <<pins, timers>>

\* The machine is restarted: ppc_cpu_init() after cancel_all_timers(). The
\* pending exceptions and ppc_opcode_grabber are globals it does not touch.
Restart ==
    /\ Restarts
    /\ at = "exec"
    /\ cpu' = CpuInit(cpu.grabber)
    /\ int_pin' = FALSE
    /\ dec_timer' = FALSE
    /\ thermal_timer' = FALSE
    /\ at' = "start"
    /\ UNCHANGED <<dec_exception_pending, thrm_exception_pending>>

-----------------------------------------------------------------------------
Instruction ==
    \/ Plain \/ FpuOff \/ DataFault \/ NotAllowed \/ Sc \/ Rfi \/ MtDec \/ MtThrm
    \/ \E a \in Addr : Branch(a)
    \/ \E m \in SUBSET MsrBits, sleep \in BOOLEAN : Mtmsr(m, sleep)
    \/ \E a \in Addr, m \in SUBSET (MsrBits \ {"POW"}) : MtSrr(a, m)
    \/ \E level \in BOOLEAN : DeviceAccess(level)

Callback ==
    \/ DecFires
    \/ \E level \in BOOLEAN : DeviceFires(level)
    \/ \E hot \in BOOLEAN : ThermalFires(hot)

Loop == EventsDone \/ WakeUp \/ Start \/ Sequential \/ NextBlock

Next == Instruction \/ Callback \/ Loop \/ Restart

Spec == Init /\ [][Next]_vars

\* The interpreter is sequential code, and virtual time reaches every deadline:
\* the sleep loop sets the instruction counter to the next one.
FairSpec == Spec /\ WF_vars(Loop) /\ WF_vars(DecFires)

-----------------------------------------------------------------------------
(* Properties.                                                             *)

CpuType ==
    [pc : Addr, nia : Addr, msr : SUBSET MsrBits,
     srr0 : Addr, srr1 : SUBSET (MsrBits \ {"POW"}),
     flags : SUBSET Flag, grabber : BOOLEAN, decoder : BOOLEAN,
     next : Addr, last : Except_Type \cup {"none"}, want : Addr]

\* Types of the variables.
TypeOK ==
    /\ cpu \in CpuType
    /\ {int_pin, dec_exception_pending, thrm_exception_pending} \subseteq BOOLEAN
    /\ {dec_timer, thermal_timer} \subseteq BOOLEAN
    /\ at \in {"start", "exec", "events", "sleep", "boundary"}

\* SRR0 leads back to the instruction that would have come next.
Returns(exc) ==
    cpu.last = exc /\ "EXCEPTION" \in cpu.flags => cpu.srr0 = cpu.want

\* External and decrementer exceptions are precise: wherever in the loop they
\* are taken, in a device access, in mtmsr, rfi or a timer callback, after a
\* branch or asleep, SRR0 holds the address of the next instruction, so that
\* none is skipped or executed twice, and SRR1 never asks for sleep.
PreciseInterrupts == TypeOK /\ Returns("EXT_INT") /\ Returns("DECR")

\* With MSR[EE] set no instruction begins, and the processor does not sleep,
\* while an exception is pending: setting MSR[EE] in any way delivers it, and
\* so does raising it while MSR[EE] is set.
NoMissedInterrupt ==
    at = "exec" \/ (at = "sleep" /\ "SLEEP" \in cpu.flags) =>
        ~("EE" \in cpu.msr /\ Pending)

\* A processor that sleeps with interrupts enabled and a running decrementer
\* wakes up.
SleepEnds ==
    at = "sleep" /\ "EE" \in cpu.msr /\ dec_timer ~> at = "exec"

\* Instructions are decoded with the table that MSR[FP] asks for (ppcexec.cpp:
\* "Alternate lookup table when floating point instructions are disabled"), so
\* that a program without the FPU never runs on another's registers.
DecoderFollowsMsr == at = "exec" => cpu.decoder = ("FP" \in cpu.msr)
=============================================================================
