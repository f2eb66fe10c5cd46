----------------------------- MODULE MCPpcInstr -----------------------------
(* The processor's clock and its instructions, one group at a time: focus    *)
(* says which one moves, so that the state spaces add up.                    *)
EXTENDS PpcClock

VARIABLES focus, alu, br, ls, fp, dec

Units == INSTANCE PpcInteger WITH W <- 4, Width <- 2
Ls == INSTANCE PpcLoadStore WITH NReg <- 4, Page <- 8, Pages <- 3
Fp == INSTANCE PpcFp WITH Length <- 2
Dc == INSTANCE PpcDecode

mcVars == <<vars, focus, alu, br, ls, fp, dec>>

MCInit ==
    /\ focus \in {"clock", "alu", "branch", "memory", "float", "decode"}
    /\ Init /\ (focus = "clock" \/ ~g_realtime)
    /\ Units!AluInit /\ Ls!LsInit /\ Dc!DecInit
    /\ Units!BrInit /\ (focus = "branch" \/ (br.ctr = 0 /\ br.so))
    /\ Fp!FpInit /\ (focus = "float" \/ fp.fpscr = {})

Clock1 == focus = "clock" /\ Next /\ UNCHANGED <<focus, alu, br, ls, fp, dec>>
Alu1 == focus = "alu" /\ Units!AluNext /\ UNCHANGED <<vars, focus, br, ls, fp, dec>>
Branch1 == focus = "branch" /\ Units!BrNext /\ UNCHANGED <<vars, focus, alu, ls, fp, dec>>
Memory1 == focus = "memory" /\ Ls!LsNext /\ UNCHANGED <<vars, focus, alu, br, fp, dec>>
Float1 == focus = "float" /\ Fp!FpNext /\ UNCHANGED <<vars, focus, alu, br, ls, dec>>
Decode1 == focus = "decode" /\ Dc!DecNext /\ UNCHANGED <<vars, focus, alu, br, ls, fp>>

MCNext == Clock1 \/ Alu1 \/ Branch1 \/ Memory1 \/ Float1 \/ Decode1

MCSpec == MCInit /\ [][MCNext]_mcVars

\* Every integer instruction leaves the result, carry, overflow and CR0 that
\* the architecture defines, at every operand of a small word; branches and
\* traps follow from the relation that the guest compared; the exception bits
\* of FPSCR are sticky, and a signalling NaN is flagged and made quiet.
InstructionsExact == Units!AluExact /\ Units!BranchExact /\ Fp!FpExact
\* A load or store that faults between two pages, in any register of a
\* multiple or string access, can be run again: no register it needs is
\* changed, and the second run gives what one run would have given.
AccessRestartable == Ls!LoadStoreOK
\* What the interpreter runs is what the debugger's disassembler shows.
DecodersMatch == Dc!DecodersMatch
=============================================================================
