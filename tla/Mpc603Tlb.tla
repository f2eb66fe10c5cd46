----------------------------- MODULE Mpc603Tlb ------------------------------
(* The software-loaded TLBs of the 603 (cpu/ppc/ppcmmu.cpp): two ways per    *)
(* set that the guest's miss handlers fill with tlbld and tlbli, and behind  *)
(* them the emulator's own cache of the translations it took from there.     *)
(* Of a page table entry the model has the page, whether stores are allowed  *)
(* and the C bit; the cache holds what its levels and modes hold together,   *)
(* of which PpcMmu is the model.                                             *)
EXTENDS Integers, FiniteSets

CONSTANTS
    Pages,              \* <<kind of access, page>>: what the guest accesses
    PerSegment,         \* pages of a segment
    Sets,               \* sets of a TLB (32)
    Vsids, Frames,
    Stores,             \* the pages it stores to
    Written             \* the page table entries that the guest changes

VARIABLES t603,         \* tlb603 and tlb603_lru
          host,         \* the cached translations
          late,         \* the cache waits for a context synchronisation
          miss,         \* the miss whose handler is running
          pte, seg,     \* page table and segment registers
          stale         \* history: entries changed and not yet invalidated

vars == <<t603, host, late, miss, pte, seg, stale>>

Kind == {"I", "D"}
Way == {0, 1}
Index(p) == p % PerSegment
SetOf(p) == p % Sets
Vsid(p) == seg[p \div PerSegment]
Segs == {x[2] \div PerSegment : x \in Pages}
Key(p) == <<Vsid(p), Index(p)>>
Keys == Vsids \X {Index(x[2]) : x \in Pages}

\* A page and its index in the segment are in the same set (32 sets, segments
\* of 65536 pages), and the guest changes entries of its own page table.
Geometry ==
    /\ Sets \in Nat \ {0} /\ PerSegment \in Nat \ {0} /\ Frames # {}
    /\ \A x \in Pages : x[1] \in Kind /\ x[2] \in Nat /\ SetOf(Index(x[2])) = SetOf(x[2])
    /\ Written \subseteq Keys

\* nothing else is read of an entry that is not valid
Invalid == [valid |-> FALSE, vsid |-> 0, tag |-> 0, pte |-> [phys |-> 0, rw |-> FALSE, c |-> FALSE]]
NoMiss == [kind |-> "none", page |-> 0, way |-> 0, write |-> FALSE]

Init ==
    /\ t603 = [e |-> [k \in Kind |-> [s \in 0..(Sets - 1) |-> [w \in Way |-> Invalid]]],
               lru |-> [k \in Kind |-> [s \in 0..(Sets - 1) |-> 0]]]
    /\ host = {} /\ late = FALSE /\ miss = NoMiss /\ stale = {}
    /\ pte = [k \in Keys |-> [phys |-> CHOOSE f \in Frames : TRUE, rw |-> TRUE, c |-> FALSE]]
    /\ seg \in {[s \in Segs |-> v] : v \in Vsids}

\* The ways that translate page p: segment and page index count, the segment's
\* number does not.
Hits(k, p) ==
    {w \in Way : LET x == t603.e[k][SetOf(p)][w]
                 IN  x.valid /\ x.vsid = Vsid(p) /\ Index(x.tag) = Index(p)}

Cached(k, p) == {h \in host : h.kind = k /\ h.page = p}

\* the way for SRR1: the one that was hit, one that is free, or the older one
VictimWay(k, p) ==
    LET ways == t603.e[k][SetOf(p)]
    IN  IF ~ways[0].valid THEN 0 ELSE IF ~ways[1].valid THEN 1 ELSE t603.lru[k][SetOf(p)]

\* mpc603_tlb_miss(): the exception synchronises, and the handler starts
Takes(k, p, write, way) ==
    /\ miss' = [kind |-> k, page |-> p, way |-> way, write |-> write]
    /\ host' = IF late THEN {} ELSE host
    /\ late' = FALSE

Used(k, p, w) == [t603 EXCEPT !.lru[k][SetOf(p)] = 1 - w]

\* mpc603_page_address_translation() with the caches in front of it
Access(k, p, write) ==
    /\ miss = NoMiss /\ <<k, p>> \in Pages /\ (write => k = "D" /\ p \in Stores)
    /\ LET goes == {h \in Cached(k, p) : write => h.pte.rw /\ h.pte.c}
           hit == Hits(k, p)
       IN  \/ goes # {} /\ UNCHANGED <<t603, host, late, miss>>
           \/ /\ goes = {} /\ hit = {}
              /\ Takes(k, p, write, VictimWay(k, p)) /\ UNCHANGED t603
           \/ /\ goes = {}
              /\ \E w \in hit :
                    LET x == t603.e[k][SetOf(p)][w]
                    IN  /\ \A v \in hit : w <= v
                        /\ t603' = Used(k, p, w)
                        /\ CASE write /\ ~x.pte.rw ->       \* DSI
                                  /\ host' = IF late THEN {} ELSE host
                                  /\ late' = FALSE /\ UNCHANGED miss
                             [] write /\ x.pte.rw /\ ~x.pte.c -> Takes(k, p, write, w)
                             [] OTHER ->
                                  /\ host' = (host \ Cached(k, p)) \cup
                                        {[kind |-> k, page |-> p, pte |-> x.pte,
                                          own |-> x.tag = p, key |-> Key(p)]}
                                  /\ UNCHANGED <<late, miss>>
    /\ UNCHANGED <<pte, seg, stale>>

\* mutant: the evicted page stays in the caches
LoadedKeep(k, p, w, x) ==
    /\ t603' = [Used(k, p, w) EXCEPT !.e[k][SetOf(p)][w] = x]
    /\ host' = host \ Cached(k, p)

\* mmu_603_tlb_load(): the entry goes into the way of SRR1, another one for the
\* same page goes, and the pages of the old and the new entry leave the caches.
Loaded(k, p, w, x) ==
    LET old == t603.e[k][SetOf(p)][w]
        other == t603.e[k][SetOf(p)][1 - w]
        twin == other.valid /\ other.vsid = x.vsid /\ Index(other.tag) = Index(p)
    IN  /\ t603' = [Used(k, p, w) EXCEPT !.e[k][SetOf(p)] =
                       [v \in Way |-> IF v = w THEN x ELSE IF twin THEN Invalid ELSE other]]
        /\ host' = {IF twin /\ h.kind = k /\ h.page = other.tag THEN [h EXCEPT !.own = FALSE] ELSE h :
                       h \in (host \ Cached(k, p)) \ (IF old.valid THEN Cached(k, old.tag) ELSE {})}

EntryOf(p, e) == [valid |-> TRUE, vsid |-> Vsid(p), tag |-> p, pte |-> e]

\* The guest's handler finds the entry, sets its C bit for a store, loads it
\* and returns, which synchronises; or it finds that the store is not allowed.
Handler ==
    /\ miss # NoMiss
    /\ LET p == miss.page
           e == [pte[Key(p)] EXCEPT !.c = @ \/ (miss.write /\ pte[Key(p)].rw)]
       IN  /\ Loaded(miss.kind, p, miss.way, EntryOf(p, e))
           /\ pte' = [pte EXCEPT ![Key(p)] = e]
    /\ miss' = NoMiss
    /\ UNCHANGED <<late, seg, stale>>

\* The guest loads an entry ahead of its use, into either way.
Preload(k, p, w) ==
    /\ miss = NoMiss /\ <<k, p>> \in Pages
    /\ Loaded(k, p, w, EntryOf(p, pte[Key(p)]))
    /\ UNCHANGED <<late, miss, pte, seg, stale>>

\* ppc_tlbie(), mmu_603_tlb_invalidate_set(): both ways of the set in both
\* TLBs, and all that the caches hold of pages.
Tlbie(p) ==
    /\ miss = NoMiss
    /\ t603' = [t603 EXCEPT !.e = [k \in Kind |-> [@[k] EXCEPT ![SetOf(p)] =
                                      [w \in Way |-> Invalid]]]]
    /\ host' = {}
    /\ stale' = {q \in stale : q[2] % Sets # SetOf(p)}
    /\ UNCHANGED <<late, miss, pte, seg>>

\* mmu_pat_ctx_changed()
Mtsr(s, v) ==
    /\ miss = NoMiss /\ seg[s] # v
    /\ seg' = [seg EXCEPT ![s] = v] /\ late' = TRUE
    /\ UNCHANGED <<t603, host, miss, pte, stale>>
Isync ==
    /\ miss = NoMiss /\ late
    /\ host' = {} /\ late' = FALSE
    /\ UNCHANGED <<t603, miss, pte, seg, stale>>
WritePte(q, e) ==
    /\ miss = NoMiss /\ pte[q] # e
    /\ pte' = [pte EXCEPT ![q] = e] /\ stale' = stale \cup {q}
    /\ UNCHANGED <<t603, host, late, miss, seg>>

Next ==
    \/ \E x \in Pages :
          \/ \E write \in BOOLEAN : Access(x[1], x[2], write)
          \/ \E w \in Way : Preload(x[1], x[2], w)
          \/ Tlbie(x[2])
    \/ Handler \/ Isync
    \/ \E s \in Segs, v \in Vsids : Mtsr(s, v)
    \/ \E q \in Written, f \in Frames, rw \in BOOLEAN : WritePte(q, [phys |-> f, rw |-> rw, c |-> FALSE])

Spec == Init /\ [][Next]_vars
-----------------------------------------------------------------------------
(* Properties *)

\* No two ways of a set hold the same page, or a lookup would depend on their
\* order (mmu_603_tlb_load).
NoTwins ==
    \A k \in Kind, s \in 0..(Sets - 1) :
        LET a == t603.e[k][s][0]
            b == t603.e[k][s][1]
        IN  a.valid /\ b.valid => <<a.vsid, Index(a.tag)>> # <<b.vsid, Index(b.tag)>>

\* An entry of the TLBs and a cached translation say what the page table says,
\* until the guest changes it and has not executed tlbie yet.
TlbAgrees ==
    /\ \A k \in Kind, s \in 0..(Sets - 1), w \in Way :
          LET x == t603.e[k][s][w]
              q == <<x.vsid, Index(x.tag)>>
          IN  x.valid /\ q \notin stale =>
                  /\ x.pte.phys = pte[q].phys /\ x.pte.rw = pte[q].rw
                  /\ x.pte.c => pte[q].c
    /\ \A h \in host : h.key \notin stale =>
          h.pte.phys = pte[h.key].phys /\ h.pte.rw = pte[h.key].rw /\ (h.pte.c => pte[h.key].c)

\* What the caches hold of a page is also in the guest's TLB, so that evicting
\* an entry evicts it everywhere.  Two segments with the same VSID are the
\* exception: a page translated through the other segment's entry, and one
\* whose entry gave way to the other segment's, stay in the caches.
CachedIsLoaded ==
    \A h \in host : h.own /\ ~late =>
        LET hit == Hits(h.kind, h.page)
        IN  /\ hit # {}
            /\ \A w \in hit : LET x == t603.e[h.kind][SetOf(h.page)][w]
                              IN  x.tag = h.page => x.pte = h.pte

Tlb603OK == NoTwins /\ TlbAgrees /\ CachedIsLoaded
=============================================================================
