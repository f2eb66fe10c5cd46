------------------------------ MODULE MCDBDMA ------------------------------
(***************************************************************************)
(* Instances of DBDMA: a few command lists that exercise transfers, early  *)
(* ends, branches, loops, bad commands and waits.                          *)
(***************************************************************************)
EXTENDS DBDMA, TLC

Cmd(op, req, w, b, i, arg) ==
    [op |-> op, req |-> req, w |-> w, b |-> b, i |-> i, arg |-> arg]

STOP == Cmd("STOP", 0, 0, 0, 0, 0)

List(c0, c1, c2) == (0 :> c0) @@ (1 :> c1) @@ (2 :> c2) @@ (3 :> STOP)

\* transfers in both directions, a branch on a status bit, an empty transfer
Transfers == List(Cmd("INPUT", 2, 0, 0, 3, 0), Cmd("OUTPUT", 1, 0, 1, 1, 3),
                  Cmd("INPUT", 0, 0, 0, 2, 0))
\* a ring that never stops by itself, as sound drivers build
Ring == List(Cmd("OUTPUT", 2, 0, 0, 3, 0), Cmd("STORE_QUAD", 1, 0, 0, 0, 0),
             Cmd("NOP", 0, 0, 3, 0, 0))
\* a command the channel does not know, and one with a key
Broken == List(Cmd("NOP", 0, 0, 2, 0, 2), Cmd("BAD", 0, 0, 0, 0, 0),
               Cmd("KEYED", 1, 0, 0, 0, 0))
\* a transfer that waits while a status bit is set
Waiting == List(Cmd("OUTPUT", 1, 1, 0, 3, 0), Cmd("NOP", 0, 0, 0, 0, 0),
                Cmd("NOP", 0, 0, 0, 0, 0))

MCPrograms == {Transfers, Ring, Broken}
MCWaiting  == {Waiting}
MCOneSelect == {[mask |-> {"s6"}, value |-> {"s6"}]}
=============================================================================
