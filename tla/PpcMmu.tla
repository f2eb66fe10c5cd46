------------------------------ MODULE PpcMmu -------------------------------
(***************************************************************************)
(* The software TLBs of the emulated PowerPC (cpu/ppc/ppcmmu.cpp).         *)
(*                                                                         *)
(* Instruction and data accesses each have, for real, supervisor and user  *)
(* mode, a direct-mapped primary TLB and a set-associative secondary one   *)
(* behind it. A miss in both walks the BATs and the page table. Entries    *)
(* that come from either are recorded in a vector; a change of the context *)
(* is noted in a set of pending sources, and the next context              *)
(* synchronisation invalidates the recorded entries that came from them.   *)
(*                                                                         *)
(* Pages are numbers. Of a page table entry the model has what decides a   *)
(* translation; the R bit is left out. Which of several valid ways is      *)
(* replaced is left open, so that lru_bits are not needed. The 601 and the *)
(* processors with a hardware table walk are covered; Mpc603Tlb has the 603.*)
(***************************************************************************)
EXTENDS Integers, FiniteSets, FiniteSetsExt

CONSTANTS
    Page,               \* effective pages
    Touched,            \* <<type, mode, page>>: what the guest accesses
    PagesPerSegment,
    TLB_SIZE,           \* sets of the TLBs
    TLB2_WAYS,          \* ways of the secondary TLBs
    Region,             \* physical page -> "MEM", "IO" or "none" where nothing is
    MsrValue,           \* translation and privilege: subsets of {IR, DR, PR}
    SrValue,            \* values of a segment register
    Sdr1Value,          \* values of SDR1, each one page table
    PteValues(_),       \* what the entry at a key may be
    BatValue,           \* values of a BAT register pair
    NumBats,            \* BAT pairs of each array
    Family              \* the processors: TRUE for the 601

TLBType == {"I", "D"}
Mode == {"real", "supervisor", "user"}
Source == {"FROM_BAT", "FROM_PAT"}
Flag == Source \cup {"MEM", "IO", "WRITABLE", "SET_C", "TRACKED"}

Segment(p) == p \div PagesPerSegment
PageIndex(p) == p % PagesPerSegment
Segments == {Segment(p) : p \in Page}

\* a page of no access, and a page table without an entry
TLB_INVALID_TAG == -1
NoPte == [valid |-> FALSE, phys |-> 0, pp |-> 0, c |-> FALSE]
Pte == [valid : BOOLEAN, phys : DOMAIN Region, pp : 0..3, c : BOOLEAN]

Covers(b, p) == b.base <= p /\ p < b.base + b.len

\* where the hashed search finds the entry of a page
PteKey == Sdr1Value \X {v.vsid : v \in SrValue} \X {PageIndex(p) : p \in Page}

\* way 0 stands for the primary TLB
Slot == [type : TLBType, mode : Mode, way : 0..TLB2_WAYS, set : 0..(TLB_SIZE - 1)]

ASSUME PpcMmuAssumption ==
    /\ Page \subseteq Nat /\ Page \subseteq DOMAIN Region
    /\ Touched \subseteq TLBType \X Mode \X Page
    /\ PagesPerSegment \in Nat \ {0} /\ TLB_SIZE \in Nat \ {0}
    /\ TLB2_WAYS \in Nat \ {0} /\ NumBats \in Nat
    /\ {} \in MsrValue
    /\ Family \subseteq BOOLEAN /\ Family # {}

\* What the registers and the page tables hold, and that every page they map
\* has its region.
ASSUME PpcMmuValues ==
    /\ Region \in [DOMAIN Region -> {"MEM", "IO", "none"}] /\ 0 \in DOMAIN Region
    /\ SrValue \subseteq [vsid : Nat, t : BOOLEAN, n : BOOLEAN, keys : SUBSET Mode]
    /\ \E v \in SrValue : ~v.t
    /\ \A v \in SrValue, p \in Page :
          v.t => v.vsid * PagesPerSegment + PageIndex(p) \in DOMAIN Region
    /\ Sdr1Value # {}
    /\ \A k \in PteKey : PteValues(k) # {} /\ PteValues(k) \subseteq Pte
    /\ \A b \in BatValue : {b.base, b.len} \subseteq Nat
    /\ \A b \in BatValue, p \in Page :
          Covers(b, p) => b.phys + (p - b.base) \in DOMAIN Region

VARIABLES
    is_601,
    msr,
    sr,                 \* segment registers
    sdr1,
    bat,                \* ibat_array, dbat_array
    pt,                 \* the page tables in memory
    tlb,                \* all TLB entries
    tracked,            \* how often a slot is in gTrackedIEntries/DEntries
    pending,            \* gPendingIInvalidationSources, gPendingDInvalidationSources
    callbacks,          \* the kinds of TLB with an action in gCtxSyncCallbacks
    dirty               \* history: entries changed in memory and not yet tlbie'd

regs == <<sr, sdr1, bat>>
cache == <<tlb, tracked>>
sched == <<pending, callbacks>>
vars == <<is_601, msr, regs, pt, cache, sched, dirty>>

-----------------------------------------------------------------------------
(* ppc_mmu_init(): the BAT update functions schedule their invalidations   *)
(* before the TLBs are emptied.                                            *)

Empty == [tag |-> TLB_INVALID_TAG, flags |-> {}, phys |-> 0]
BatOff == [base |-> 0, len |-> 0, phys |-> 0, access |-> {}, prot |-> 0]

SrInit == [s \in Segments |-> CHOOSE v \in SrValue : ~v.t]
Sdr1Init == CHOOSE v \in Sdr1Value : TRUE
BatInit == [t \in TLBType |-> [i \in 1..NumBats |-> BatOff]]
PtInit == [k \in PteKey |-> CHOOSE e \in PteValues(k) : TRUE]
TlbInit == [x \in Slot |-> Empty]
TrackedInit == [x \in Slot |-> 0]
PendingInit == [t \in TLBType |-> Source]

Init ==
    /\ is_601 \in Family
    /\ msr = {} /\ sr = SrInit /\ sdr1 = Sdr1Init /\ bat = BatInit /\ pt = PtInit
    /\ tlb = TlbInit /\ tracked = TrackedInit
    /\ pending = PendingInit
    /\ callbacks = TLBType
    /\ dirty = {}

-----------------------------------------------------------------------------
(* Address translation.                                                    *)

\* mmu_change_mode(): user mode cannot do without translation
ModeOf(t) ==
    IF (IF t = "I" THEN "IR" ELSE "DR") \notin msr THEN "real"
    ELSE IF "PR" \in msr THEN "user" ELSE "supervisor"

\* mpc601_block_address_translation(), ppc_block_address_translation(): the
\* BAT pairs that match. The 601 has one array for both, and an I/O segment
\* takes precedence over it; the others match in the modes of the access bits.
BatArray(t) == IF is_601 THEN bat["I"] ELSE bat[t]

BatHits(t, mode, p) ==
    {i \in 1..NumBats :
        /\ Covers(BatArray(t)[i], p)
        /\ IF is_601 THEN ~sr[Segment(p)].t ELSE mode \in BatArray(t)[i].access}

\* access_conv: 601 protection to PowerPC protection, by key and PP
AccessConv(key, pp) == CASE key /\ pp = 0            -> 0
                         [] key /\ pp \in {1, 3}     -> 1
                         [] ~key /\ pp = 3           -> 1
                         [] OTHER                    -> 2

\* on the 601 the access bits are the keys Ks and Ku
BatProt(b, mode) == IF is_601 THEN AccessConv(mode \in b.access, b.prot) ELSE b.prot

Key(p) == <<sdr1, sr[Segment(p)].vsid, PageIndex(p)>>

\* a translation: whether the access is allowed, where it goes, and the flags
\* that the TLB entry gets
Failed == [ok |-> FALSE, phys |-> 0, flags |-> {}]

\* page_address_translation()
PageTranslation(t, mode, p, write) ==
    LET s == sr[Segment(p)]
        e == pt[Key(p)]
        key == mode \in s.keys
        denied == \/ key /\ (e.pp = 0 \/ (e.pp = 1 /\ write))
                  \/ e.pp = 3 /\ write
    IN  CASE s.t -> [ok |-> TRUE, phys |-> s.vsid * PagesPerSegment + PageIndex(p),
                     flags |-> {"FROM_PAT", "WRITABLE", "SET_C"}]
          [] ~s.t /\ (~e.valid \/ denied \/ (s.n /\ t = "I")) -> Failed
          [] OTHER ->
                [ok |-> TRUE, phys |-> e.phys,
                 flags |-> {"FROM_PAT"}
                    \cup (IF e.pp = 2 \/ (~key /\ e.pp < 2) THEN {"WRITABLE"} ELSE {})
                    \cup (IF write \/ e.c THEN {"SET_C"} ELSE {})]

BlockTranslation(b, mode, p, write) ==
    LET prot == BatProt(b, mode)
    IN  IF prot = 0 \/ (prot # 2 /\ write) THEN Failed
        ELSE [ok |-> TRUE, phys |-> b.phys + (p - b.base),
              flags |-> {"FROM_BAT", "SET_C"}
                        \cup (IF prot = 2 THEN {"WRITABLE"} ELSE {})]

\* itlb2_refill(), dtlb2_refill(): the BATs come first
Translate(t, mode, p, write) ==
    LET hits == BatHits(t, mode, p)
    IN  CASE mode = "real" -> [ok |-> TRUE, phys |-> p, flags |-> {"WRITABLE", "SET_C"}]
          [] mode # "real" /\ hits # {} ->
                BlockTranslation(BatArray(t)[Min(hits)], mode, p, write)
          [] OTHER -> PageTranslation(t, mode, p, write)

\* the page table after page_address_translation() of a store
MarkChanged(p) ==
    IF sr[Segment(p)].t THEN pt ELSE [pt EXCEPT ![Key(p)].c = TRUE]

-----------------------------------------------------------------------------
(* TLB entries. An operation takes and gives c = [tlb, tracked].           *)

Cache == [tlb |-> tlb, tracked |-> tracked]
Becomes(c) == tlb' = c.tlb /\ tracked' = c.tracked

WithFlags(e, flags) == [tag |-> e.tag, flags |-> flags, phys |-> e.phys]
SetEntry(c, x, e) == [tlb |-> [c.tlb EXCEPT ![x] = e], tracked |-> c.tracked]

\* track_translated_entry()
Track(c, x) ==
    IF c.tlb[x].flags \cap Source = {} \/ "TRACKED" \in c.tlb[x].flags THEN c
    ELSE [tlb |-> [c.tlb EXCEPT ![x] = WithFlags(@, @.flags \cup {"TRACKED"})],
          tracked |-> [c.tracked EXCEPT ![x] = @ + 1]]

\* mutant: the copied entry brings its own flag along
PutCopiesFlag(c, x, e) == Track(SetEntry(c, x, e), x)

\* what promote_tlb_entry() and the refill functions do with their slot: it
\* stays in the vector if it is there
Put(c, x, e) ==
    LET kept == c.tlb[x].flags \cap {"TRACKED"}
    IN  Track(SetEntry(c, x, WithFlags(e, (e.flags \ {"TRACKED"}) \cup kept)), x)

\* tlb_invalidate_tracked_entries(): of an entry that is no longer valid and
\* no longer tracked nothing is read again
Invalidate(c, types, sources) ==
    LET listed == {x \in Slot : x.type \in types /\ c.tracked[x] > 0}
        gone == {x \in listed : c.tlb[x].flags \cap sources[x.type] # {}}
        stale == {x \in listed : c.tlb[x].flags \cap Source = {}}
    IN  [tlb |-> [x \in Slot |->
                    IF x \in gone THEN Empty
                    ELSE IF x \in stale
                    THEN WithFlags(c.tlb[x], c.tlb[x].flags \ {"TRACKED"})
                    ELSE c.tlb[x]],
         tracked |-> [x \in Slot |-> IF x \in gone \cup stale THEN 0 ELSE c.tracked[x]]]

Primary(t, p) == [type |-> t, mode |-> ModeOf(t), way |-> 0, set |-> p % TLB_SIZE]
Ways(t, p) == {x \in Slot : /\ x.type = t /\ x.mode = ModeOf(t)
                            /\ x.way > 0 /\ x.set = p % TLB_SIZE}

\* lookup_secondary_tlb()
Matches(t, p) == {x \in Ways(t, p) : tlb[x].tag = p}

\* tlb2_target_entry(): the first way that is invalid, or one that is not
Targets(t, p) ==
    LET free == {x \in Ways(t, p) : tlb[x].tag = TLB_INVALID_TAG}
    IN  IF free = {} THEN Ways(t, p)
        ELSE {x \in free : \A y \in free : x.way <= y.way}

\* the entry that a refill makes of translation r
EntryFor(t, p, r) ==
    [tag |-> p, phys |-> r.phys,
     flags |-> {Region[r.phys]}
               \cup (IF t = "I" THEN r.flags \cap Source ELSE r.flags)]

\* only memory is entered into the primary TLB
Promote(c, t, p, x) ==
    IF "MEM" \in c.tlb[x].flags THEN Put(c, Primary(t, p), c.tlb[x]) ELSE c

-----------------------------------------------------------------------------
(* Context synchronisation and exceptions.                                 *)

\* do_ctx_sync(): a second action of the same kind finds nothing pending
DoCtxSync(c) ==
    /\ Becomes(Invalidate(c, callbacks, pending))
    /\ pending' = [t \in TLBType |-> IF t \in callbacks THEN {} ELSE pending[t]]
    /\ callbacks' = {}

\* ppc_exception_handler()
Exception ==
    /\ DoCtxSync(Cache)
    /\ msr' = {}
    /\ UNCHANGED <<is_601, regs, pt, dirty>>

\* a machine check, raised by a PCI host, does not synchronise
MachineCheck ==
    /\ msr' = {}
    /\ UNCHANGED <<is_601, regs, pt, cache, sched, dirty>>

Privileged == "PR" \notin msr

Mtmsr(m) ==
    /\ Privileged
    /\ msr' = m
    /\ UNCHANGED <<is_601, regs, pt, cache, sched, dirty>>

Rfi(m) ==
    /\ Privileged
    /\ DoCtxSync(Cache)
    /\ msr' = m
    /\ UNCHANGED <<is_601, regs, pt, dirty>>

Isync ==
    /\ DoCtxSync(Cache)
    /\ UNCHANGED <<is_601, msr, regs, pt, dirty>>

-----------------------------------------------------------------------------
(* Memory accesses.                                                        *)

Accessible(t, p) == <<t, ModeOf(t), p>> \in Touched

\* an access that leaves the context alone
Done(c) == Becomes(c) /\ UNCHANGED <<is_601, msr, regs, sched, dirty>>

\* mmu_translate_imem() and mmu_read_vmem(). Instructions are fetched from
\* memory only: anything else ends the emulation.
Read(t, p) ==
    /\ Accessible(t, p)
    /\ LET r == Translate(t, ModeOf(t), p, FALSE)
           m == Matches(t, p)
       IN  \/ /\ tlb[Primary(t, p)].tag = p
              /\ Done(Cache)
           \/ /\ tlb[Primary(t, p)].tag # p
              /\ \E x \in m : Done(Promote(Cache, t, p, x))
           \/ /\ tlb[Primary(t, p)].tag # p /\ m = {} /\ r.ok
              /\ t = "I" => Region[r.phys] = "MEM"
              /\ IF Region[r.phys] = "none" THEN Done(Cache)
                 ELSE \E x \in Targets(t, p) :
                        Done(Promote(Put(Cache, x, EntryFor(t, p, r)), t, p, x))
    /\ UNCHANGED pt

\* the same where the access is not allowed: ISI or DSI
ReadFault(t, p) ==
    /\ Accessible(t, p)
    /\ tlb[Primary(t, p)].tag # p /\ Matches(t, p) = {}
    /\ ~Translate(t, ModeOf(t), p, FALSE).ok
    /\ Exception

\* prepare_dtlb_write() of the entry e: whether it lets the store through, and
\* whether it has to set the C bit
MayWrite(e, p) ==
    /\ "WRITABLE" \in e.flags
    /\ "SET_C" \in e.flags \/ PageTranslation("D", ModeOf("D"), p, TRUE).ok
SetsC(e) == "SET_C" \notin e.flags

WithC(c, xs) ==
    [tlb |-> [x \in Slot |-> IF x \in xs
                THEN WithFlags(c.tlb[x], c.tlb[x].flags \cup {"SET_C"}) ELSE c.tlb[x]],
     tracked |-> c.tracked]

\* mmu_write_vmem(), mmu_dcbz(): a hit in the primary TLB sets the C bit in the
\* secondary one as well
Store(p) ==
    /\ Accessible("D", p)
    /\ LET x1 == Primary("D", p)
           m == Matches("D", p)
           r == Translate("D", ModeOf("D"), p, TRUE)
       IN  \/ /\ tlb[x1].tag = p /\ MayWrite(tlb[x1], p)
              /\ IF SetsC(tlb[x1])
                 THEN Done(WithC(Cache, {x1} \cup m)) /\ pt' = MarkChanged(p)
                 ELSE Done(Cache) /\ UNCHANGED pt
           \/ /\ tlb[x1].tag # p
              /\ \E x \in m :
                    /\ MayWrite(tlb[x], p)
                    /\ Done(Promote(WithC(Cache, {x}), "D", p, x))
                    /\ pt' = IF SetsC(tlb[x]) THEN MarkChanged(p) ELSE pt
           \/ /\ tlb[x1].tag # p /\ m = {} /\ r.ok
              /\ IF Region[r.phys] = "none" THEN Done(Cache)
                 ELSE \E x \in Targets("D", p) :
                        Done(Promote(Put(Cache, x, EntryFor("D", p, r)), "D", p, x))
              /\ pt' = IF "FROM_PAT" \in r.flags THEN MarkChanged(p) ELSE pt

StoreFault(p) ==
    /\ Accessible("D", p)
    /\ LET x1 == Primary("D", p)
           m == Matches("D", p)
       IN  IF tlb[x1].tag = p THEN ~MayWrite(tlb[x1], p)
           ELSE IF m # {} THEN \E x \in m : ~MayWrite(tlb[x], p)
           ELSE ~Translate("D", ModeOf("D"), p, TRUE).ok
    /\ Exception

-----------------------------------------------------------------------------
(* Changes of the context.                                                 *)

\* mutant: what is already waiting is not added to
ScheduleOnce(types, sources) ==
    /\ pending' = [t \in TLBType |-> IF t \in types /\ pending[t] = {} THEN sources
                                     ELSE pending[t]]
    /\ callbacks' = callbacks \cup {t \in types : pending[t] = {}}

\* mutant: no action is registered while there is one, of whatever kind
ScheduleOneKind(types, sources) ==
    /\ pending' = [t \in TLBType |-> IF t \in types THEN pending[t] \cup sources
                                     ELSE pending[t]]
    /\ callbacks' = IF callbacks = {} THEN types ELSE callbacks

\* schedule_tlb_invalidation()
Schedule(types, sources) ==
    /\ pending' = [t \in TLBType |-> IF t \in types THEN pending[t] \cup sources
                                     ELSE pending[t]]
    /\ callbacks' = callbacks \cup {t \in types : pending[t] = {}}

\* mmu_pat_ctx_changed()
PatCtxChanged == Schedule(TLBType, {"FROM_PAT"})

\* ppc_mtsr(), ppc_mtsrin()
Mtsr(s, v) ==
    /\ Privileged
    /\ v.t => is_601
    /\ sr[s] # v
    /\ sr' = [sr EXCEPT ![s] = v]
    /\ PatCtxChanged
    /\ UNCHANGED <<is_601, msr, sdr1, bat, pt, cache, dirty>>

\* ppc_mtspr() of SDR1
MtSdr1(v) ==
    /\ Privileged
    /\ sdr1 # v
    /\ sdr1' = v
    /\ PatCtxChanged
    /\ UNCHANGED <<is_601, msr, sr, bat, pt, cache, dirty>>

\* ppc_mtspr() of a BAT pair: mpc601_bat_update(), ppc_ibat_update(),
\* ppc_dbat_update(). The 601 has only the first array.
MtBat(t, i, b) ==
    /\ Privileged
    /\ bat[t][i] # b
    /\ is_601 => t = "I"
    /\ bat' = [bat EXCEPT ![t][i] = b]
    /\ Schedule(IF is_601 THEN TLBType ELSE {t}, Source)
    /\ UNCHANGED <<is_601, msr, sr, sdr1, pt, cache, dirty>>

\* the guest writes a page table entry
WritePte(k, e) ==
    /\ Privileged
    /\ pt[k] # e
    /\ pt' = [pt EXCEPT ![k] = e]
    /\ dirty' = dirty \cup {k}
    /\ UNCHANGED <<is_601, msr, regs, cache, sched>>

\* ppc_tlbie(): at once, and all page translations
Tlbie(p) ==
    /\ Privileged
    /\ Becomes(Invalidate(Cache, TLBType, [t \in TLBType |-> {"FROM_PAT"}]))
    /\ dirty' = {k \in dirty : k[3] # PageIndex(p)}
    /\ UNCHANGED <<is_601, msr, regs, pt, sched>>

\* the machine is restarted: gCtxSyncCallbacks is not emptied
Restart ==
    /\ msr' = {} /\ sr' = SrInit /\ sdr1' = Sdr1Init /\ bat' = BatInit /\ pt' = PtInit
    /\ tlb' = TlbInit /\ tracked' = TrackedInit
    /\ pending' = PendingInit
    /\ callbacks' = TLBType
    /\ dirty' = {}
    /\ UNCHANGED is_601

-----------------------------------------------------------------------------
Access ==
    \/ \E t \in TLBType, p \in Page : Read(t, p) \/ ReadFault(t, p)
    \/ \E p \in Page : Store(p) \/ StoreFault(p)

Context ==
    \/ \E s \in Segments, v \in SrValue : Mtsr(s, v)
    \/ \E v \in Sdr1Value : MtSdr1(v)
    \/ \E t \in TLBType, i \in 1..NumBats, b \in BatValue : MtBat(t, i, b)
    \/ \E k \in PteKey : \E e \in PteValues(k) : WritePte(k, e)
    \/ \E p \in Page : Tlbie(p)

Next ==
    \/ Access \/ Context \/ Exception \/ MachineCheck \/ Isync \/ Restart
    \/ \E m \in MsrValue : Mtmsr(m) \/ Rfi(m)

Spec == Init /\ [][Next]_vars

-----------------------------------------------------------------------------
(* Properties.                                                             *)

Entry == [tag : Page \cup {TLB_INVALID_TAG},
          flags : SUBSET Flag, phys : DOMAIN Region]

\* Types of the variables.
TypeOK ==
    /\ is_601 \in Family /\ msr \in MsrValue
    /\ sr \in [Segments -> SrValue] /\ sdr1 \in Sdr1Value
    /\ bat \in [TLBType -> [1..NumBats -> BatValue \cup {BatOff}]]
    /\ \A x \in Slot : tlb[x] \in Entry /\ tracked[x] \in Nat
    /\ pending \in [TLBType -> SUBSET Source]
    /\ callbacks \subseteq TLBType
    /\ dirty \subseteq PteKey

Valid(x) == tlb[x].tag # TLB_INVALID_TAG
Cached(x) == Valid(x) /\ tlb[x].flags \cap Source # {}

\* The entry in slot x is what a walk of the BATs and the page table gives now.
AgreesWithWalk(x) ==
    LET e == tlb[x]
        r == Translate(x.type, x.mode, e.tag, FALSE)
        data == x.type = "D"
    IN  /\ r.ok
        /\ e.phys = r.phys
        /\ e.flags \cap Source = r.flags \cap Source
        /\ data => ("WRITABLE" \in e.flags <=> "WRITABLE" \in r.flags)
        /\ data /\ "SET_C" \in e.flags => "SET_C" \in r.flags

\* No stale translation: an entry of either TLB, in every mode, agrees with the
\* BATs, segment registers and page table as they are now, unless a change is
\* waiting for the next context synchronisation or the guest has changed the
\* page table entry and not executed tlbie yet. In particular a store is let
\* through without setting the C bit only where the bit is set.
NoStaleTranslation ==
    \A x \in Slot :
        Cached(x) /\ tlb[x].flags \cap pending[x.type] = {} =>
            \/ AgreesWithWalk(x)
            \/ "FROM_PAT" \in tlb[x].flags /\ Key(tlb[x].tag) \in dirty

\* Every entry that came from a translation is in the vector of its kind, and
\* no slot is in it twice, whatever order it is filled, promoted, replaced and
\* invalidated in.
TrackedOnce ==
    \A x \in Slot :
        /\ Cached(x) => "TRACKED" \in tlb[x].flags
        /\ tracked[x] = IF "TRACKED" \in tlb[x].flags THEN 1 ELSE 0

\* A pending invalidation has an action that the next context synchronisation
\* will run, across restarts of the machine too.
NoLostInvalidation ==
    \A t \in TLBType : pending[t] # {} => t \in callbacks

\* A context synchronisation, the only step that runs the registered actions,
\* leaves no entry in any TLB that came from a source whose change was waiting.
SyncIsComplete ==
    [][callbacks # {} /\ callbacks' = {} =>
        \A x \in Slot :
            tlb'[x].tag # TLB_INVALID_TAG =>
                tlb'[x].flags \cap pending[x.type] = {}]_vars
=============================================================================
