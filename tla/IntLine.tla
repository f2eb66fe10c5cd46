------------------------------ MODULE IntLine -------------------------------
(***************************************************************************)
(* What an interrupt controller promises to the processor and to the       *)
(* guest: a request stays pending until the guest serves it, serving one   *)
(* request loses no other, and the pin shows whether an enabled request is *)
(* pending.                                                                *)
(***************************************************************************)
CONSTANT Source

VARIABLES pending, enabled, pin

lineVars == <<pending, enabled, pin>>

\* the pin after a step: asserted for an enabled pending request
Shown(p, e) == p \cap e # {}

Init == pending = {} /\ enabled = {} /\ pin = FALSE

Request(S) ==
    /\ pending' = pending \cup S
    /\ UNCHANGED enabled

\* A request of the set being served may come back at once.
Serve(S) ==
    /\ \E again \in SUBSET S : pending' = (pending \ S) \cup again
    /\ UNCHANGED enabled

Enable(E) ==
    /\ enabled' = E
    /\ UNCHANGED pending

Next ==
    /\ \E S \in SUBSET Source : Request(S) \/ Serve(S) \/ Enable(S)
    /\ pin' = Shown(pending', enabled')

Spec == Init /\ [][Next]_lineVars
=============================================================================
