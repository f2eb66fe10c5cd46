----------------------------- MODULE MCPpcMmu ------------------------------
(* The processors that search the page table themselves, and the 603 that   *)
(* leaves it to its guest: focus says which one moves.                      *)
EXTENDS PpcMmu, TLC

CONSTANTS Pages, PerSegment, Sets, Vsids, Frames, Stores, Written   \* of the 603

VARIABLES focus, t603, host, late, miss, pte, seg, stale

M603 == INSTANCE Mpc603Tlb

\* A set holds the same page of every segment: 32 sets, segments of 65536 pages.
ASSUME GeometryOK == M603!Geometry

vars603 == <<t603, host, late, miss, pte, seg, stale>>
mcVars == <<focus, vars, vars603>>

MCInit ==
    /\ focus \in {"walk", "603"} /\ Init /\ M603!Init
    /\ focus = "603" => ~is_601
    /\ focus = "walk" => \A s \in DOMAIN seg : seg[s] = 1
MCNext ==
    \/ focus = "walk" /\ Next /\ UNCHANGED <<focus, vars603>>
    \/ focus = "603" /\ M603!Next /\ UNCHANGED <<focus, vars>>
MCSpec == MCInit /\ [][MCNext]_mcVars

\* Entries are what the refill functions make; on the 603 no set holds a page
\* twice, and what the emulator caches is what the guest loaded and has not
\* evicted, invalidated or changed since.
TablesOK == TypeOK /\ (focus = "603" => M603!Tlb603OK)

\* what the guest of the 603 accesses, and the entry that it changes
MCPages == {<<"D", 0>>, <<"D", 1>>, <<"D", 2>>}
MCWritten == {<<1, 0>>}

\* memory, a device, and nothing
MCRegion == 0 :> "MEM" @@ 1 :> "IO" @@ 2 :> "none"

\* two address spaces: user mode has the key of the second, and nothing can be
\* executed there
MCSrValue ==
    {[vsid |-> 0, t |-> FALSE, n |-> FALSE, keys |-> {}],
     [vsid |-> 1, t |-> FALSE, n |-> TRUE, keys |-> {"user"}]}

\* in one page table memory that the guest maps and unmaps, and by the other
\* address space a device that user mode may only read; the other page table
\* leads nowhere
MCPteValues(k) ==
    CASE k[1] = 1 -> {[valid |-> TRUE, phys |-> 2, pp |-> 2, c |-> TRUE]}
      [] k[1] = 0 /\ k[2] = 1 -> {[valid |-> TRUE, phys |-> 1, pp |-> 1, c |-> TRUE]}
      [] OTHER -> {NoPte, [valid |-> TRUE, phys |-> 0, pp |-> 1, c |-> FALSE]}

\* a block of memory and a device, writable by the supervisor
MCBatValue ==
    {[base |-> 0, len |-> 2, phys |-> 0, access |-> {"supervisor"}, prot |-> 2], BatOff}

MCMsrValue == {{}, {"IR", "DR"}, {"IR", "DR", "PR"}}

\* entries of real mode are never tracked, and never wrong
MCTouched == {<<"D", "supervisor", 0>>, <<"D", "supervisor", 1>>,
              <<"D", "user", 0>>, <<"I", "supervisor", 0>>}
==============================================================================
