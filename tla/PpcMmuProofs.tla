---------------------------- MODULE PpcMmuProofs ----------------------------
(***************************************************************************)
(* Proofs about PpcMmu for any number of pages, ways, BATs, segments and   *)
(* page tables. No registered invalidation is lost, the vectors of tracked *)
(* entries are exact, and a context synchronisation therefore removes      *)
(* every entry that came from a source whose change was waiting. From      *)
(* there: what a TLB holds is what a walk of the BATs and the page table   *)
(* gives, through every order of accesses, context changes and             *)
(* invalidations.                                                          *)
(***************************************************************************)
EXTENDS MCPpcMmu, WellFoundedInduction, TLAPS

\* A step that changes the schedule either registers more, starts again, or
\* runs everything.
SchedStep ==
    \/ UNCHANGED sched
    \/ \E types \in SUBSET TLBType, sources \in SUBSET Source : Schedule(types, sources)
    \/ pending' = PendingInit /\ callbacks' = TLBType
    \/ /\ pending' = [t \in TLBType |-> IF t \in callbacks THEN {} ELSE pending[t]]
       /\ callbacks' = {}

\* What every action does to the schedule.
LEMMA NextSched == [Next]_vars => SchedStep
<1> SUFFICES ASSUME [Next]_vars PROVE SchedStep
  OBVIOUS
<1>0. /\ TLBType \in SUBSET TLBType /\ {"FROM_PAT"} \in SUBSET Source
      /\ Source \in SUBSET Source
  BY DEF Source
<1>1. CASE UNCHANGED vars
  BY <1>1 DEF vars, sched, SchedStep
<1>2. ASSUME NEW c, DoCtxSync(c) PROVE SchedStep
  BY <1>2 DEF DoCtxSync, SchedStep
<1>3. ASSUME NEW c, Done(c) PROVE SchedStep
  BY <1>3 DEF Done, SchedStep
<1>4. ASSUME Exception PROVE SchedStep
  BY <1>2, <1>4 DEF Exception
<1>5. CASE Access
  <2>1. ASSUME NEW t \in TLBType, NEW p \in Page, Read(t, p) PROVE SchedStep
    BY <1>3, <2>1 DEF Read
  <2>2. ASSUME NEW p \in Page, Store(p) PROVE SchedStep
    BY <1>3, <2>2 DEF Store
  <2>3. QED
    BY <1>4, <1>5, <2>1, <2>2 DEF Access, ReadFault, StoreFault
<1>6. CASE Context
  <2>1. ASSUME PatCtxChanged PROVE SchedStep
    BY <1>0, <2>1 DEF PatCtxChanged, SchedStep
  <2>2. ASSUME NEW t \in TLBType, NEW i, NEW b, MtBat(t, i, b) PROVE SchedStep
    <3>1. (IF is_601 THEN TLBType ELSE {t}) \in SUBSET TLBType
      BY <2>2
    <3>2. QED
      BY <1>0, <2>2, <3>1 DEF MtBat, SchedStep
  <2>3. QED
    BY <1>6, <2>1, <2>2 DEF Context, Mtsr, MtSdr1, WritePte, Tlbie, SchedStep
<1>7. CASE MachineCheck \/ Restart
  BY <1>7 DEF MachineCheck, Restart, SchedStep
<1>8. CASE Isync
  BY <1>2, <1>8 DEF Isync
<1>9. CASE \E m \in MsrValue : Mtmsr(m) \/ Rfi(m)
  BY <1>2, <1>9 DEF Mtmsr, Rfi, SchedStep
<1>10. QED
  BY <1>1, <1>4, <1>5, <1>6, <1>7, <1>8, <1>9 DEF Next

\* The inductive invariant of the schedule.
SchedInv == pending \in [TLBType -> SUBSET Source] /\ NoLostInvalidation

\* SchedInv holds in every reachable state.
LEMMA SchedCorrect == Spec => []SchedInv
<1>1. Init => SchedInv
  BY DEF Init, PendingInit, SchedInv, NoLostInvalidation
<1>2. SchedInv /\ [Next]_vars => SchedInv'
  <2> SUFFICES ASSUME SchedInv, [Next]_vars PROVE SchedInv'
    OBVIOUS
  <2> USE DEF SchedInv, NoLostInvalidation
  <2>1. CASE UNCHANGED sched
    BY <2>1 DEF sched
  <2>2. ASSUME NEW types \in SUBSET TLBType, NEW sources \in SUBSET Source,
               Schedule(types, sources)
        PROVE  SchedInv'
    BY <2>2 DEF Schedule
  <2>3. CASE pending' = PendingInit /\ callbacks' = TLBType
    BY <2>3 DEF PendingInit
  <2>4. CASE /\ pending' = [t \in TLBType |-> IF t \in callbacks THEN {} ELSE pending[t]]
             /\ callbacks' = {}
    BY <2>4
  <2>5. QED
    BY <2>1, <2>2, <2>3, <2>4, NextSched DEF SchedStep
<1>3. QED
  BY <1>1, <1>2, PTL DEF Spec

\* schedule_tlb_invalidation() registers an action for a kind of TLB exactly
\* when nothing was pending for it, and do_ctx_sync() and a restart change
\* both together: whatever is pending will be run.
THEOREM InvalidationKept == Spec => []NoLostInvalidation
<1>1. SchedInv => NoLostInvalidation
  BY DEF SchedInv
<1>2. QED
  BY <1>1, SchedCorrect, PTL

-----------------------------------------------------------------------------
(* The vectors of tracked entries.                                         *)

\* c has the fields of a cache, and its entries those of a TLB entry
Shaped(c) ==
    /\ c = [tlb |-> c.tlb, tracked |-> c.tracked]
    /\ c.tlb = [x \in Slot |-> c.tlb[x]]
    /\ c.tracked = [x \in Slot |-> c.tracked[x]]
    /\ \A x \in Slot : c.tlb[x] = [tag |-> c.tlb[x].tag, flags |-> c.tlb[x].flags,
                                   phys |-> c.tlb[x].phys]

\* Stronger than TrackedOnce by the entries that are not valid.
Exact(c) ==
    \A x \in Slot :
        /\ c.tlb[x].flags \cap Source # {} => "TRACKED" \in c.tlb[x].flags
        /\ c.tracked[x] = IF "TRACKED" \in c.tlb[x].flags THEN 1 ELSE 0

\* The inductive invariant of the TLBs.
CacheInv == Shaped(Cache) /\ Exact(Cache)

\* promote_tlb_entry() and the refill functions keep the vectors exact,
\* whatever the slot and the entry that is put there were before.
LEMMA PutExact ==
    ASSUME NEW c, Shaped(c), Exact(c), NEW x \in Slot, NEW e,
           e = [tag |-> e.tag, flags |-> e.flags, phys |-> e.phys]
    PROVE  Shaped(Put(c, x, e)) /\ Exact(Put(c, x, e))
<1> DEFINE fl == (e.flags \ {"TRACKED"}) \cup (c.tlb[x].flags \cap {"TRACKED"})
           new == [tag |-> e.tag, flags |-> fl, phys |-> e.phys]
           d == [tlb |-> [y \in Slot |-> IF y = x THEN new ELSE c.tlb[y]],
                 tracked |-> c.tracked]
<1>1. SetEntry(c, x, new) = d
  BY DEF Shaped, SetEntry
<1>2. Put(c, x, e) = Track(d, x)
  BY <1>1 DEF Put, WithFlags
<1>3. d.tlb[x].flags = fl /\ ("TRACKED" \in fl <=> "TRACKED" \in c.tlb[x].flags)
  OBVIOUS
<1>4. Shaped(d)
  BY DEF Shaped
<1>5. CASE fl \cap Source = {} \/ "TRACKED" \in fl
  <2>1. Track(d, x) = d
    BY <1>3, <1>5 DEF Track
  <2>2. Exact(d)
    BY <1>3, <1>5 DEF Exact
  <2>3. QED
    BY <1>2, <1>4, <2>1, <2>2
<1>6. CASE ~(fl \cap Source = {} \/ "TRACKED" \in fl)
  <2> DEFINE g == [tlb |-> [y \in Slot |-> IF y = x
                              THEN [tag |-> e.tag, flags |-> fl \cup {"TRACKED"},
                                    phys |-> e.phys]
                              ELSE c.tlb[y]],
                   tracked |-> [y \in Slot |-> IF y = x THEN 1 ELSE c.tracked[y]]]
  <2>1. c.tracked[x] = 0
    BY <1>3, <1>6 DEF Exact
  <2>2. [d.tlb EXCEPT ![x] = WithFlags(@, @.flags \cup {"TRACKED"})] = g.tlb
    BY DEF WithFlags
  <2>3. [d.tracked EXCEPT ![x] = @ + 1] = g.tracked
    BY <2>1 DEF Shaped
  <2>4. Track(d, x) = g
    BY <1>3, <1>6, <2>2, <2>3 DEF Track
  <2>5. Shaped(g)
    BY DEF Shaped
  <2>6. Exact(g)
    BY DEF Exact
  <2>7. QED
    BY <1>2, <2>4, <2>5, <2>6
<1>7. QED
  BY <1>5, <1>6

\* tlb_invalidate_tracked_entries() keeps the vectors exact.
LEMMA InvalidateExact ==
    ASSUME NEW c, Shaped(c), Exact(c), NEW types, NEW sources
    PROVE  /\ Shaped(Invalidate(c, types, sources))
           /\ Exact(Invalidate(c, types, sources))
<1> DEFINE d == Invalidate(c, types, sources)
<1>1. /\ d = [tlb |-> d.tlb, tracked |-> d.tracked]
      /\ d.tlb = [x \in Slot |-> d.tlb[x]]
      /\ d.tracked = [x \in Slot |-> d.tracked[x]]
  BY DEF Invalidate
<1>2. ASSUME NEW x \in Slot
      PROVE  \/ d.tlb[x] = Empty /\ d.tracked[x] = 0
             \/ /\ d.tlb[x] = WithFlags(c.tlb[x], c.tlb[x].flags \ {"TRACKED"})
                /\ d.tracked[x] = 0 /\ c.tlb[x].flags \cap Source = {}
             \/ d.tlb[x] = c.tlb[x] /\ d.tracked[x] = c.tracked[x]
  BY DEF Invalidate
<1>3. ASSUME NEW x \in Slot, d.tlb[x] = Empty, d.tracked[x] = 0
      PROVE  /\ d.tlb[x] = [tag |-> d.tlb[x].tag, flags |-> d.tlb[x].flags,
                            phys |-> d.tlb[x].phys]
             /\ d.tlb[x].flags \cap Source # {} => "TRACKED" \in d.tlb[x].flags
             /\ d.tracked[x] = IF "TRACKED" \in d.tlb[x].flags THEN 1 ELSE 0
  BY <1>3 DEF Empty
<1>4. ASSUME NEW x \in Slot, d.tracked[x] = 0, c.tlb[x].flags \cap Source = {},
             d.tlb[x] = WithFlags(c.tlb[x], c.tlb[x].flags \ {"TRACKED"})
      PROVE  /\ d.tlb[x] = [tag |-> d.tlb[x].tag, flags |-> d.tlb[x].flags,
                            phys |-> d.tlb[x].phys]
             /\ d.tlb[x].flags \cap Source # {} => "TRACKED" \in d.tlb[x].flags
             /\ d.tracked[x] = IF "TRACKED" \in d.tlb[x].flags THEN 1 ELSE 0
  BY <1>4 DEF WithFlags
<1>5. ASSUME NEW x \in Slot, d.tlb[x] = c.tlb[x], d.tracked[x] = c.tracked[x]
      PROVE  /\ d.tlb[x] = [tag |-> d.tlb[x].tag, flags |-> d.tlb[x].flags,
                            phys |-> d.tlb[x].phys]
             /\ d.tlb[x].flags \cap Source # {} => "TRACKED" \in d.tlb[x].flags
             /\ d.tracked[x] = IF "TRACKED" \in d.tlb[x].flags THEN 1 ELSE 0
  BY <1>5 DEF Shaped, Exact
<1> HIDE DEF d
<1>6. Shaped(d) /\ Exact(d)
  BY <1>1, <1>2, <1>3, <1>4, <1>5 DEF Shaped, Exact
<1>7. QED
  BY <1>6 DEF d

\* Setting PTE_SET_C in entries leaves the vectors alone.
LEMMA WithCExact ==
    ASSUME NEW c, Shaped(c), Exact(c), NEW xs
    PROVE  Shaped(WithC(c, xs)) /\ Exact(WithC(c, xs))
<1> DEFINE d == WithC(c, xs)
<1>1. d.tracked = c.tracked /\ d.tlb = [x \in Slot |-> d.tlb[x]]
  BY DEF WithC
<1>2. ASSUME NEW x \in Slot
      PROVE  /\ d.tlb[x] = [tag |-> d.tlb[x].tag, flags |-> d.tlb[x].flags,
                            phys |-> d.tlb[x].phys]
             /\ d.tlb[x].flags \cap Source = c.tlb[x].flags \cap Source
             /\ "TRACKED" \in d.tlb[x].flags <=> "TRACKED" \in c.tlb[x].flags
  <2>1. CASE x \in xs
    <3>1. d.tlb[x] = [tag |-> c.tlb[x].tag, flags |-> c.tlb[x].flags \cup {"SET_C"},
                      phys |-> c.tlb[x].phys]
      BY <2>1 DEF WithC, WithFlags
    <3>2. d.tlb[x].flags = c.tlb[x].flags \cup {"SET_C"}
      BY <3>1
    <3> HIDE DEF d
    <3>3. QED
      BY <3>1, <3>2 DEF Source
  <2>2. CASE x \notin xs
    <3>1. d.tlb[x] = c.tlb[x]
      BY <2>2 DEF WithC
    <3>2. QED
      BY <3>1 DEF Shaped
  <2>3. QED
    BY <2>1, <2>2
<1>3. d = [tlb |-> d.tlb, tracked |-> d.tracked]
  BY DEF WithC
<1> HIDE DEF d
<1>4. Shaped(d) /\ Exact(d)
  BY <1>1, <1>2, <1>3 DEF Shaped, Exact
<1>5. QED
  BY <1>4 DEF d

\* The slots that an access uses are slots.
LEMMA SlotsExist ==
    ASSUME NEW t \in TLBType, NEW p \in Page
    PROVE  /\ Primary(t, p) \in Slot
           /\ Matches(t, p) \subseteq Slot /\ Targets(t, p) \subseteq Slot
<1>1. p \in Nat /\ TLB_SIZE \in Nat \ {0} /\ TLB2_WAYS \in Nat
  BY PpcMmuAssumption
<1>2. p % TLB_SIZE \in 0..(TLB_SIZE - 1)
  BY <1>1
<1>3. ModeOf(t) \in Mode
  BY DEF ModeOf, Mode
<1>4. Primary(t, p) \in Slot
  BY <1>1, <1>2, <1>3 DEF Primary, Slot
<1>5. Ways(t, p) \subseteq Slot
  BY DEF Ways
<1>6. QED
  BY <1>4, <1>5 DEF Matches, Targets

\* Promotion to the primary TLB keeps the vectors exact.
LEMMA PromoteExact ==
    ASSUME NEW c, Shaped(c), Exact(c), NEW t \in TLBType, NEW p \in Page, NEW x \in Slot
    PROVE  Shaped(Promote(c, t, p, x)) /\ Exact(Promote(c, t, p, x))
<1>1. c.tlb[x] = [tag |-> c.tlb[x].tag, flags |-> c.tlb[x].flags, phys |-> c.tlb[x].phys]
  BY DEF Shaped
<1>2. QED
  BY <1>1, PutExact, SlotsExist DEF Promote

\* The empty TLBs of ppc_mmu_init().
LEMMA EmptyExact ==
    ASSUME NEW c, c = [tlb |-> TlbInit, tracked |-> TrackedInit]
    PROVE  Shaped(c) /\ Exact(c)
<1>1. c.tlb = [x \in Slot |-> Empty] /\ c.tracked = [x \in Slot |-> 0]
  BY DEF TlbInit, TrackedInit
<1>2. Shaped(c)
  BY <1>1 DEF Shaped, Empty
<1>3. Exact(c)
  BY <1>1 DEF Exact, Empty
<1>4. QED
  BY <1>2, <1>3

\* Every step keeps the vectors exact.
LEMMA CacheStep ==
    ASSUME CacheInv, [Next]_vars
    PROVE  CacheInv'
<1> USE DEF CacheInv
<1>0. ASSUME NEW c, Shaped(c), Exact(c), Becomes(c) PROVE CacheInv'
  <2>1. Cache' = c
    BY <1>0 DEF Becomes, Shaped, Cache
  <2>2. QED
    BY <1>0, <2>1 DEF Shaped, Exact
<1>1. ASSUME UNCHANGED cache PROVE CacheInv'
  <2>1. Becomes(Cache)
    BY <1>1 DEF Becomes, Cache, cache
  <2>2. QED
    BY <1>0, <2>1
<1>2. ASSUME DoCtxSync(Cache) PROVE CacheInv'
  BY <1>0, <1>2, InvalidateExact DEF DoCtxSync
<1>3. ASSUME NEW c, Shaped(c), Exact(c), Done(c) PROVE CacheInv'
  BY <1>0, <1>3 DEF Done
<1>4. ASSUME Exception PROVE CacheInv'
  BY <1>2, <1>4 DEF Exception
<1>5. ASSUME NEW t \in TLBType, NEW p \in Page, NEW r, NEW x \in Targets(t, p),
             Done(Promote(Put(Cache, x, EntryFor(t, p, r)), t, p, x))
      PROVE  CacheInv'
  <2>1. x \in Slot
    BY SlotsExist
  <2>2. EntryFor(t, p, r) = [tag |-> EntryFor(t, p, r).tag,
                             flags |-> EntryFor(t, p, r).flags,
                             phys |-> EntryFor(t, p, r).phys]
    BY DEF EntryFor
  <2>3. /\ Shaped(Put(Cache, x, EntryFor(t, p, r)))
        /\ Exact(Put(Cache, x, EntryFor(t, p, r)))
    BY <2>1, <2>2, PutExact
  <2>4. QED
    BY <1>3, <1>5, <2>1, <2>3, PromoteExact
<1>6. CASE Access
  <2>1. ASSUME NEW t \in TLBType, NEW p \in Page, Read(t, p) PROVE CacheInv'
    <3>1. ASSUME NEW x \in Matches(t, p), Done(Promote(Cache, t, p, x)) PROVE CacheInv'
      BY <1>3, <3>1, SlotsExist, PromoteExact
    <3>2. QED
      BY <1>3, <1>5, <2>1, <3>1 DEF Read
  <2>2. ASSUME NEW p \in Page, Store(p) PROVE CacheInv'
    <3>0. "D" \in TLBType
      BY DEF TLBType
    <3>1. ASSUME NEW xs, Done(WithC(Cache, xs)) PROVE CacheInv'
      BY <1>3, <3>1, WithCExact
    <3>2. ASSUME NEW x \in Matches("D", p), Done(Promote(WithC(Cache, {x}), "D", p, x))
          PROVE  CacheInv'
      <4>1. Shaped(WithC(Cache, {x})) /\ Exact(WithC(Cache, {x}))
        BY WithCExact
      <4>2. x \in Slot
        BY <3>0, SlotsExist
      <4>3. QED
        BY <1>3, <3>0, <3>2, <4>1, <4>2, PromoteExact
    <3>3. QED
      BY <1>3, <1>5, <2>2, <3>0, <3>1, <3>2 DEF Store
  <2>3. QED
    BY <1>4, <1>6, <2>1, <2>2 DEF Access, ReadFault, StoreFault
<1>7. CASE Context
  <2>1. ASSUME NEW p, Tlbie(p) PROVE CacheInv'
    BY <1>0, <2>1, InvalidateExact DEF Tlbie
  <2>2. QED
    BY <1>1, <1>7, <2>1 DEF Context, Mtsr, MtSdr1, MtBat, WritePte
<1>8. CASE Restart
  BY <1>8, EmptyExact DEF Restart, Cache
<1>9. CASE Isync
  BY <1>2, <1>9 DEF Isync
<1>10. CASE \E m \in MsrValue : Mtmsr(m) \/ Rfi(m)
  BY <1>1, <1>2, <1>10 DEF Mtmsr, Rfi
<1>11. CASE MachineCheck \/ UNCHANGED vars
  BY <1>1, <1>11 DEF MachineCheck, vars
<1>12. QED
  BY <1>4, <1>6, <1>7, <1>8, <1>9, <1>10, <1>11 DEF Next

\* CacheInv holds in every reachable state.
LEMMA CacheCorrect == Spec => []CacheInv
<1>1. Init => CacheInv
  BY EmptyExact DEF Init, CacheInv, Cache
<1>2. CacheInv /\ [Next]_vars => CacheInv'
  BY CacheStep
<1>3. QED
  BY <1>1, <1>2, PTL DEF Spec

\* gTrackedIEntries and gTrackedDEntries list every entry that came from a
\* translation, and none twice, however slots are refilled, promoted into,
\* replaced and invalidated: track_translated_entry() relies on TLBE_TRACKED
\* alone, which travels with the slot and not with the entry.
THEOREM TrackingExact == Spec => []TrackedOnce
<1>1. CacheInv => TrackedOnce
  BY DEF CacheInv, Exact, Cache, TrackedOnce, Cached
<1>2. QED
  BY <1>1, CacheCorrect, PTL

-----------------------------------------------------------------------------
(* Context synchronisation.                                                *)

\* No other step runs the registered actions.
LEMMA OnlySyncRuns ==
    ASSUME [Next]_vars, callbacks # {}, callbacks' = {}
    PROVE  DoCtxSync(Cache)
<1>1. ASSUME UNCHANGED sched PROVE FALSE
  BY <1>1 DEF sched
<1>2. ASSUME NEW types, NEW sources, Schedule(types, sources) PROVE FALSE
  BY <1>2 DEF Schedule
<1>3. ASSUME NEW c, Done(c) PROVE FALSE
  BY <1>1, <1>3 DEF Done
<1>4. CASE Access
  <2>1. ASSUME NEW t \in TLBType, NEW p \in Page, Read(t, p) PROVE FALSE
    BY <1>3, <2>1 DEF Read
  <2>2. ASSUME NEW p \in Page, Store(p) PROVE FALSE
    BY <1>3, <2>2 DEF Store
  <2>3. QED
    BY <1>4, <2>1, <2>2 DEF Access, ReadFault, StoreFault, Exception
<1>5. CASE Context
  BY <1>1, <1>2, <1>5 DEF Context, Mtsr, MtSdr1, MtBat, PatCtxChanged, WritePte, Tlbie
<1>6. CASE MachineCheck \/ UNCHANGED vars
  BY <1>1, <1>6 DEF MachineCheck, vars
<1>7. CASE Restart
  BY <1>7 DEF Restart, TLBType
<1>8. CASE Exception \/ Isync
  BY <1>8 DEF Exception, Isync
<1>9. CASE \E m \in MsrValue : Mtmsr(m) \/ Rfi(m)
  BY <1>1, <1>9 DEF Mtmsr, Rfi
<1>10. QED
  BY <1>4, <1>5, <1>6, <1>7, <1>8, <1>9 DEF Next

\* do_ctx_sync() misses no entry that came from a source whose change
\* mmu_pat_ctx_changed() or a BAT update has scheduled: whatever is pending has
\* its action registered, and whatever came from a translation is listed.
THEOREM SyncComplete == Spec => SyncIsComplete
<1>1. ASSUME SchedInv, CacheInv, [Next]_vars, callbacks # {}, callbacks' = {},
             NEW x \in Slot, tlb'[x].tag # TLB_INVALID_TAG
      PROVE  tlb'[x].flags \cap pending[x.type] = {}
  <2> DEFINE d == Invalidate(Cache, callbacks, pending)
             e == Cache.tlb[x]
  <2>1. tlb' = d.tlb
    BY <1>1, OnlySyncRuns DEF DoCtxSync, Becomes
  <2>2. x.type \in TLBType
    BY DEF Slot
  <2>3. pending[x.type] \subseteq Source
    BY <1>1, <2>2 DEF SchedInv
  <2>4. SUFFICES ASSUME pending[x.type] # {} PROVE d.tlb[x].flags \cap pending[x.type] = {}
    BY <2>1
  <2>5. x.type \in callbacks
    BY <1>1, <2>2, <2>4 DEF SchedInv, NoLostInvalidation
  <2>6. CASE e.flags \cap pending[x.type] # {}
    <3>1. Cache.tracked[x] > 0
      BY <1>1, <2>3, <2>6 DEF CacheInv, Exact
    <3>2. d.tlb[x] = Empty
      BY <2>5, <2>6, <3>1 DEF Invalidate
    <3>3. QED
      BY <1>1, <2>1, <3>2 DEF Empty
  <2>7. CASE e.flags \cap pending[x.type] = {}
    <3>1. d.tlb[x] = e \/ d.tlb[x] = WithFlags(e, e.flags \ {"TRACKED"})
      BY <2>7 DEF Invalidate
    <3>2. d.tlb[x].flags \subseteq e.flags
      BY <3>1 DEF WithFlags
    <3>3. QED
      BY <2>7, <3>2
  <2>8. QED
    BY <2>6, <2>7
<1>2. SchedInv /\ CacheInv /\ [Next]_vars =>
        [callbacks # {} /\ callbacks' = {} =>
            \A x \in Slot :
                tlb'[x].tag # TLB_INVALID_TAG =>
                    tlb'[x].flags \cap pending[x.type] = {}]_vars
  BY <1>1
<1>3. QED
  BY <1>2, SchedCorrect, CacheCorrect, PTL DEF Spec, SyncIsComplete

-----------------------------------------------------------------------------
(* What a walk of the BATs and the page table depends on.                  *)

\* The registers and the page tables.
WalkType ==
    /\ is_601 \in Family
    /\ sr \in [Segments -> SrValue] /\ sdr1 \in Sdr1Value
    /\ bat \in [TLBType -> [1..NumBats -> BatValue \cup {BatOff}]]
    /\ pt \in [PteKey -> Pte]

\* There is a first matching BAT pair.
LEMMA MinHit ==
    ASSUME NEW T \in SUBSET Nat, T # {}
    PROVE  Min(T) \in T
<1>1. \E x \in T : \A y \in T : ~(<<y, x>> \in OpToRel(<, Nat))
  BY NatLessThanWellFounded, WFMin, Zenon
<1>2. \A x \in Nat, y \in Nat : ~(<<y, x>> \in OpToRel(<, Nat)) => x <= y
  BY DEF OpToRel
<1>3. \E x \in T : \A y \in T : x <= y
  BY <1>1, <1>2, Zenon
<1> QED
  BY <1>3 DEF Min

\* The page table has an entry for every page.
LEMMA KeyExists ==
    ASSUME WalkType, NEW p \in Page
    PROVE  /\ Segment(p) \in Segments /\ sr[Segment(p)] \in SrValue
           /\ Key(p) \in PteKey /\ pt[Key(p)] \in Pte
<1>1. Segment(p) \in Segments
  BY DEF Segments
<1>2. sr[Segment(p)] \in SrValue
  BY <1>1 DEF WalkType
<1>3. Key(p) \in PteKey
  BY <1>2 DEF WalkType, Key, PteKey
<1> QED
  BY <1>1, <1>2, <1>3 DEF WalkType

\* The three ways to translate an address.
LEMMA WalkCases ==
    ASSUME NEW t, NEW m, NEW p, NEW w
    PROVE  /\ m = "real" => Translate(t, m, p, w) =
                [ok |-> TRUE, phys |-> p, flags |-> {"WRITABLE", "SET_C"}]
           /\ m # "real" /\ BatHits(t, m, p) # {} => Translate(t, m, p, w) =
                BlockTranslation(BatArray(t)[Min(BatHits(t, m, p))], m, p, w)
           /\ m # "real" /\ BatHits(t, m, p) = {} => Translate(t, m, p, w) =
                PageTranslation(t, m, p, w)
BY DEF Translate

\* Where a translation came from is in its flags.
LEMMA BlockFlags ==
    ASSUME NEW b, NEW m, NEW p, NEW w
    PROVE  LET r == BlockTranslation(b, m, p, w)
           IN  /\ r.ok \in BOOLEAN
               /\ r.flags \subseteq {"FROM_BAT", "WRITABLE", "SET_C"}
               /\ r.ok => /\ {"FROM_BAT", "SET_C"} \subseteq r.flags
                          /\ r.phys = b.phys + (p - b.base)
BY DEF BlockTranslation, Failed

\* The same of the page table.
LEMMA PageFlags ==
    ASSUME WalkType, NEW t \in TLBType, NEW m \in Mode, NEW p \in Page, NEW w \in BOOLEAN
    PROVE  LET r == PageTranslation(t, m, p, w)
           IN  /\ r.ok \in BOOLEAN
               /\ r.flags \subseteq {"FROM_PAT", "WRITABLE", "SET_C"}
               /\ r.ok => "FROM_PAT" \in r.flags /\ r.phys \in DOMAIN Region
<1> DEFINE r == PageTranslation(t, m, p, w)
           s == sr[Segment(p)]
           e == pt[Key(p)]
<1>1. s \in SrValue /\ e \in Pte
  BY KeyExists
<1>2. s.t \in BOOLEAN /\ s.n \in BOOLEAN
  BY <1>1, PpcMmuValues
<1>3. e.valid \in BOOLEAN /\ e.phys \in DOMAIN Region /\ e.c \in BOOLEAN
  BY <1>1 DEF Pte
<1>4. CASE s.t
  <2>1. r = [ok |-> TRUE, phys |-> s.vsid * PagesPerSegment + PageIndex(p),
             flags |-> {"FROM_PAT", "WRITABLE", "SET_C"}]
    BY <1>4 DEF PageTranslation
  <2>2. s.vsid * PagesPerSegment + PageIndex(p) \in DOMAIN Region
    BY <1>1, <1>4, PpcMmuValues
  <2> QED
    BY <2>1, <2>2
<1>5. CASE ~s.t /\ r = Failed
  BY <1>5 DEF Failed
<1>6. CASE ~s.t /\ r # Failed
  <2>1. r = [ok |-> TRUE, phys |-> e.phys,
             flags |-> {"FROM_PAT"}
               \cup (IF e.pp = 2 \/ (~(m \in s.keys) /\ e.pp < 2) THEN {"WRITABLE"} ELSE {})
               \cup (IF w \/ e.c THEN {"SET_C"} ELSE {})]
    BY <1>6 DEF PageTranslation
  <2> QED
    BY <1>3, <2>1
<1> QED
  BY <1>2, <1>4, <1>5, <1>6

\* A walk that succeeds ends at a page that has a region, and its flags say
\* which of the three ways it took.
LEMMA WalkFlags ==
    ASSUME WalkType, NEW t \in TLBType, NEW m \in Mode, NEW p \in Page, NEW w \in BOOLEAN
    PROVE  LET r == Translate(t, m, p, w)
           IN  /\ r.ok \in BOOLEAN
               /\ r.flags \subseteq Source \cup {"WRITABLE", "SET_C"}
               /\ r.ok => r.phys \in DOMAIN Region
               /\ "FROM_BAT" \in r.flags => m # "real" /\ BatHits(t, m, p) # {}
               /\ "FROM_PAT" \in r.flags => m # "real" /\ BatHits(t, m, p) = {}
<1> DEFINE r == Translate(t, m, p, w)
           hits == BatHits(t, m, p)
<1>1. CASE m = "real"
  <2>1. r = [ok |-> TRUE, phys |-> p, flags |-> {"WRITABLE", "SET_C"}]
    BY <1>1, WalkCases
  <2>2. r.ok = TRUE /\ r.phys = p /\ r.flags = {"WRITABLE", "SET_C"}
    BY <2>1
  <2>3. "FROM_BAT" \notin r.flags /\ "FROM_PAT" \notin r.flags
    BY <2>2
  <2>4. p \in DOMAIN Region
    BY PpcMmuAssumption
  <2> HIDE DEF r
  <2>5. /\ r.ok \in BOOLEAN /\ r.phys \in DOMAIN Region
        /\ r.flags \subseteq Source \cup {"WRITABLE", "SET_C"}
    BY <2>2, <2>4
  <2> QED
    BY <2>3, <2>5 DEF r
<1>2. CASE m # "real" /\ hits # {}
  <2> DEFINE b == BatArray(t)[Min(hits)]
  <2>1. r = BlockTranslation(b, m, p, w)
    BY <1>2, WalkCases
  <2>2. hits \in SUBSET (1..NumBats) /\ NumBats \in Nat
    BY PpcMmuAssumption DEF BatHits
  <2>3. Min(hits) \in hits
    BY <1>2, <2>2, MinHit
  <2>4. Covers(b, p) /\ Min(hits) \in 1..NumBats
    BY <2>3 DEF BatHits
  <2>5. b \in BatValue \cup {BatOff}
    BY <2>4 DEF WalkType, BatArray, TLBType
  <2>6. b # BatOff
    <3> SUFFICES ASSUME b = BatOff PROVE FALSE
      OBVIOUS
    <3>1. b.base = 0 /\ b.len = 0
      BY DEF BatOff
    <3>2. 0 <= p /\ p < 0 + 0 /\ p \in Nat
      BY <2>4, <3>1, PpcMmuAssumption DEF Covers
    <3> QED
      BY <3>2
  <2>7. b.phys + (p - b.base) \in DOMAIN Region
    BY <2>4, <2>5, <2>6, PpcMmuValues
  <2> HIDE DEF b, hits
  <2>8. /\ r.ok \in BOOLEAN
        /\ r.flags \subseteq {"FROM_BAT", "WRITABLE", "SET_C"}
        /\ r.ok => r.phys = b.phys + (p - b.base)
    BY <2>1, BlockFlags
  <2>9. "FROM_PAT" \notin r.flags
    BY <2>8
  <2> QED
    BY <1>2, <2>7, <2>8, <2>9 DEF hits, Source
<1>3. CASE m # "real" /\ hits = {}
  <2>1. r = PageTranslation(t, m, p, w)
    BY <1>3, WalkCases
  <2>2. /\ r.ok \in BOOLEAN
        /\ r.flags \subseteq {"FROM_PAT", "WRITABLE", "SET_C"}
        /\ r.ok => r.phys \in DOMAIN Region
    BY <2>1, PageFlags
  <2>3. "FROM_BAT" \notin r.flags
    BY <2>2
  <2> QED
    BY <1>3, <2>2, <2>3 DEF Source
<1> QED
  BY <1>1, <1>2, <1>3

-----------------------------------------------------------------------------
(* Stale translations.                                                     *)

\* On the 601 a segment register that makes its segment an I/O segment (T)
\* overrides the BATs and invalidates page translations only: the theorem
\* leaves such values of segment registers out. Other processors ignore T.
NoIoSegments == TRUE \in Family => \A v \in SrValue : ~v.t
PlainSegments == \A s \in Segments : ~sr[s].t

\* AgreesWithWalk and NoStaleTranslation, of an entry e of a TLB for accesses
\* of type t in mode m.
Agrees(t, m, e) ==
    LET r == Translate(t, m, e.tag, FALSE)
    IN  /\ r.ok
        /\ e.phys = r.phys
        /\ e.flags \cap Source = r.flags \cap Source
        /\ t = "D" => ("WRITABLE" \in e.flags <=> "WRITABLE" \in r.flags)
        /\ t = "D" /\ "SET_C" \in e.flags => "SET_C" \in r.flags

Fresh(t, m, e) ==
    \/ e.tag = TLB_INVALID_TAG
    \/ e.flags \cap Source = {}
    \/ e.flags \cap pending[t] # {}
    \/ Agrees(t, m, e)
    \/ "FROM_PAT" \in e.flags /\ Key(e.tag) \in dirty

\* The inductive invariant, together with SchedInv and CacheInv.
StaleInv ==
    /\ WalkType /\ PlainSegments
    /\ \A x \in Slot : tlb[x] \in Entry /\ Fresh(x.type, x.mode, tlb[x])

\* TRACKED does not matter to it.
LEMMA FreshUntracked ==
    ASSUME pending' \in [TLBType -> SUBSET Source],
           NEW t \in TLBType, NEW m, NEW e, NEW f,
           e.tag = f.tag, e.phys = f.phys,
           e.flags \ {"TRACKED"} = f.flags \ {"TRACKED"},
           Fresh(t, m, e)'
    PROVE  Fresh(t, m, f)'
<1>1. \A g : g # "TRACKED" => (g \in e.flags <=> g \in f.flags)
  OBVIOUS
<1>2. e.flags \cap Source = f.flags \cap Source
  BY <1>1 DEF Source
<1>3. pending'[t] \subseteq Source
  OBVIOUS
<1>4. e.flags \cap pending'[t] = f.flags \cap pending'[t]
  BY <1>2, <1>3
<1>5. /\ "WRITABLE" \in e.flags <=> "WRITABLE" \in f.flags
      /\ "SET_C" \in e.flags <=> "SET_C" \in f.flags
      /\ "FROM_PAT" \in e.flags <=> "FROM_PAT" \in f.flags
  BY <1>1
<1>6. Agrees(t, m, e)' => Agrees(t, m, f)'
  BY <1>2, <1>5 DEF Agrees
<1> QED
  BY <1>2, <1>4, <1>5, <1>6 DEF Fresh

\* What a refill enters is what the walk gave.
LEMMA ReadAgrees ==
    ASSUME WalkType, NEW t \in TLBType, NEW m \in Mode, NEW p \in Page,
           Translate(t, m, p, FALSE).ok
    PROVE  Agrees(t, m, EntryFor(t, p, Translate(t, m, p, FALSE)))
<1> DEFINE r == Translate(t, m, p, FALSE)
           e == EntryFor(t, p, r)
<1>1. r.flags \subseteq Source \cup {"WRITABLE", "SET_C"} /\ r.phys \in DOMAIN Region
  BY WalkFlags
<1> HIDE DEF r
<1>2. Region[r.phys] \in {"MEM", "IO", "none"}
  BY <1>1, PpcMmuValues
<1>3. e.tag = p /\ e.phys = r.phys
  BY DEF EntryFor
<1>4. e.flags = {Region[r.phys]} \cup (IF t = "I" THEN r.flags \cap Source ELSE r.flags)
  BY DEF EntryFor
<1>5. e.flags \cap Source = r.flags \cap Source
  BY <1>2, <1>4 DEF Source
<1>6. t = "D" => /\ "WRITABLE" \in e.flags <=> "WRITABLE" \in r.flags
                 /\ "SET_C" \in e.flags <=> "SET_C" \in r.flags
  BY <1>2, <1>4
<1> HIDE DEF e
<1>7. r.ok /\ r = Translate(t, m, e.tag, FALSE)
  BY <1>3 DEF r
<1>8. Agrees(t, m, e)
  BY <1>3, <1>5, <1>6, <1>7 DEF Agrees
<1> QED
  BY <1>8 DEF e, r

\* A step that leaves the registers alone.
SameRegs == UNCHANGED <<is_601, sr, sdr1, bat>>

\* The C bit of the entry at k is set.
SetsBit(k) == pt' = [pt EXCEPT ![k].c = TRUE]

\* The BATs are a matter of registers only.
LEMMA SameBlocks ==
    ASSUME SameRegs, NEW t, NEW m, NEW p
    PROVE  /\ BatHits(t, m, p)' = BatHits(t, m, p)
           /\ BatArray(t)' = BatArray(t)
           /\ Key(p)' = Key(p)
           /\ \A b, w : BlockTranslation(b, m, p, w)' = BlockTranslation(b, m, p, w)
<1>1. BatArray(t)' = BatArray(t)
  BY DEF SameRegs, BatArray
<1>2. BatHits(t, m, p)' = BatHits(t, m, p)
  BY <1>1 DEF SameRegs, BatHits
<1>3. Key(p)' = Key(p)
  BY DEF SameRegs, Key
<1>4. ASSUME NEW b, NEW w
      PROVE  BlockTranslation(b, m, p, w)' = BlockTranslation(b, m, p, w)
  BY DEF SameRegs, BlockTranslation, BatProt
<1> QED
  BY <1>1, <1>2, <1>3, <1>4

\* What changes in a page table entry when its C bit is set.
LEMMA SetBitEntry ==
    ASSUME WalkType, NEW k \in PteKey, SetsBit(k), NEW j \in PteKey
    PROVE  /\ pt' \in [PteKey -> Pte]
           /\ pt'[j].valid = pt[j].valid /\ pt'[j].phys = pt[j].phys
           /\ pt'[j].pp = pt[j].pp /\ (pt[j].c => pt'[j].c)
           /\ j = k => pt'[j].c
<1>1. pt[j] \in Pte /\ pt[k] \in Pte /\ pt \in [PteKey -> Pte]
  BY DEF WalkType
<1>2. \A v \in Pte :
         /\ [v EXCEPT !.c = TRUE].valid = v.valid /\ [v EXCEPT !.c = TRUE].phys = v.phys
         /\ [v EXCEPT !.c = TRUE].pp = v.pp /\ [v EXCEPT !.c = TRUE].c
         /\ [v EXCEPT !.c = TRUE] \in Pte
  BY DEF Pte
<1>3. pt' = [i \in PteKey |-> IF i = k THEN [pt[k] EXCEPT !.c = TRUE] ELSE pt[i]]
  BY <1>1 DEF SetsBit
<1>4. [pt[k] EXCEPT !.c = TRUE] \in Pte
  BY <1>1, <1>2
<1>5. pt' \in [PteKey -> Pte]
  BY <1>1, <1>3, <1>4
<1>6. CASE j = k
  <2>1. pt'[j] = [pt[k] EXCEPT !.c = TRUE]
    BY <1>3, <1>6
  <2> QED
    BY <1>1, <1>2, <1>5, <1>6, <2>1
<1>7. CASE j # k
  <2>1. pt'[j] = pt[j]
    BY <1>3, <1>7
  <2> QED
    BY <1>5, <1>7, <2>1
<1> QED
  BY <1>6, <1>7

\* A walk gives what it gave before, and the C bit if it was set or is set now.
LEMMA WalkWithC ==
    ASSUME WalkType, PlainSegments, SameRegs, NEW k \in PteKey, SetsBit(k) \/ pt' = pt,
           NEW t \in TLBType, NEW m \in Mode, NEW p \in Page
    PROVE  LET r == Translate(t, m, p, FALSE)
           IN  /\ r.ok' = r.ok /\ r.phys' = r.phys
               /\ \A g : g # "SET_C" => (g \in r.flags' <=> g \in r.flags)
               /\ "SET_C" \in r.flags => "SET_C" \in r.flags'
               /\ r.ok /\ "FROM_PAT" \in r.flags /\ Key(p) = k /\ SetsBit(k)
                    => "SET_C" \in r.flags'
<1> DEFINE r == Translate(t, m, p, FALSE)
           hits == BatHits(t, m, p)
<1>1. /\ BatHits(t, m, p)' = hits /\ BatArray(t)' = BatArray(t) /\ Key(p)' = Key(p)
      /\ \A b, w : BlockTranslation(b, m, p, w)' = BlockTranslation(b, m, p, w)
  BY SameBlocks
<1>2. CASE m = "real"
  <2>1. /\ r = [ok |-> TRUE, phys |-> p, flags |-> {"WRITABLE", "SET_C"}]
        /\ r' = [ok |-> TRUE, phys |-> p, flags |-> {"WRITABLE", "SET_C"}]
    BY <1>2 DEF Translate
  <2> HIDE DEF r
  <2>2. r' = r /\ r.flags = {"WRITABLE", "SET_C"}
    BY <2>1
  <2>3. r.ok' = r.ok /\ r.phys' = r.phys /\ r.flags' = r.flags
        /\ "FROM_PAT" \notin r.flags
    BY <2>2
  <2> QED
    BY <2>3 DEF r
<1>3. CASE m # "real" /\ hits # {}
  <2>1. /\ r = BlockTranslation(BatArray(t)[Min(hits)], m, p, FALSE)
        /\ r' = BlockTranslation(BatArray(t)[Min(hits)], m, p, FALSE)
    BY <1>1, <1>3 DEF Translate
  <2>2. r' = r /\ "FROM_PAT" \notin r.flags
    BY <1>3, <2>1, WalkFlags
  <2> QED
    BY <2>2
<1>4. CASE m # "real" /\ hits = {}
  <2> DEFINE s == sr[Segment(p)]
             e == pt[Key(p)]
             key == m \in s.keys
             wr == IF e.pp = 2 \/ (~key /\ e.pp < 2) THEN {"WRITABLE"} ELSE {}
             bad == ~e.valid \/ (key /\ e.pp = 0) \/ (s.n /\ t = "I")
  <2>1. /\ r = PageTranslation(t, m, p, FALSE)
        /\ r' = PageTranslation(t, m, p, FALSE)'
    BY <1>1, <1>4 DEF Translate
  <2>2. ~s.t /\ s' = s /\ s \in SrValue /\ e \in Pte
    BY KeyExists DEF PlainSegments, SameRegs
  <2>3. /\ e.valid' = e.valid /\ e.phys' = e.phys /\ e.pp' = e.pp
        /\ (e.c => e.c') /\ (Key(p) = k /\ SetsBit(k) => e.c')
    <3>1. Key(p) \in PteKey
      BY KeyExists
    <3>2. e' = pt'[Key(p)]
      BY <1>1
    <3>3. CASE SetsBit(k)
      BY <3>1, <3>2, <3>3, SetBitEntry
    <3>4. CASE pt' = pt /\ ~SetsBit(k)
      BY <3>2, <3>4
    <3> QED
      BY <3>3, <3>4
  <2>4. PageTranslation(t, m, p, FALSE) =
          IF bad THEN Failed
          ELSE [ok |-> TRUE, phys |-> e.phys,
                flags |-> {"FROM_PAT"} \cup wr \cup (IF e.c THEN {"SET_C"} ELSE {})]
    BY <2>2 DEF PageTranslation
  <2>5. PageTranslation(t, m, p, FALSE)' =
          IF bad' THEN Failed
          ELSE [ok |-> TRUE, phys |-> e.phys',
                flags |-> {"FROM_PAT"} \cup wr' \cup (IF e.c' THEN {"SET_C"} ELSE {})]
    BY <2>2 DEF PageTranslation, Failed
  <2>6. bad' = bad /\ wr' = wr
    BY <2>2, <2>3
  <2> HIDE DEF bad, wr, e, s, r
  <2>7. CASE bad
    <3>1. r = Failed /\ r' = Failed
      BY <2>1, <2>4, <2>5, <2>6, <2>7
    <3>2. r.ok' = r.ok /\ r.phys' = r.phys /\ r.flags' = r.flags /\ ~r.ok
      BY <3>1 DEF Failed
    <3> QED
      BY <3>2 DEF r
  <2>8. CASE ~bad
    <3>1. /\ r.ok = TRUE /\ r.phys = e.phys
          /\ r.flags = {"FROM_PAT"} \cup wr \cup (IF e.c THEN {"SET_C"} ELSE {})
      <4>1. r = [ok |-> TRUE, phys |-> e.phys,
                 flags |-> {"FROM_PAT"} \cup wr \cup (IF e.c THEN {"SET_C"} ELSE {})]
        BY <2>1, <2>4, <2>8, Zenon
      <4> QED
        BY <4>1
    <3>2. /\ r.ok' = TRUE /\ r.phys' = e.phys'
          /\ r.flags' = {"FROM_PAT"} \cup wr \cup (IF e.c' THEN {"SET_C"} ELSE {})
      <4>1. r' = [ok |-> TRUE, phys |-> e.phys',
                  flags |-> {"FROM_PAT"} \cup wr' \cup (IF e.c' THEN {"SET_C"} ELSE {})]
        BY <2>1, <2>5, <2>6, <2>8, Zenon
      <4> QED
        BY <2>6, <4>1
    <3> QED
      BY <2>3, <3>1, <3>2 DEF r
  <2> QED
    BY <2>7, <2>8
<1> QED
  BY <1>2, <1>3, <1>4

\* Nothing that an access does to the page table makes an entry stale.
LEMMA FreshStays ==
    ASSUME WalkType, PlainSegments, SameRegs, UNCHANGED <<pending, dirty>>,
           NEW k \in PteKey, SetsBit(k) \/ pt' = pt,
           NEW t \in TLBType, NEW m \in Mode, NEW e \in Entry, Fresh(t, m, e)
    PROVE  Fresh(t, m, e)'
<1>1. CASE \/ e.tag = TLB_INVALID_TAG \/ e.flags \cap Source = {}
           \/ e.flags \cap pending[t] # {}
  BY <1>1 DEF Fresh
<1>2. CASE "FROM_PAT" \in e.flags /\ Key(e.tag) \in dirty
  BY <1>2, SameBlocks DEF Fresh
<1>3. CASE Agrees(t, m, e) /\ e.tag # TLB_INVALID_TAG
  <2> DEFINE r == Translate(t, m, e.tag, FALSE)
  <2>1. e.tag \in Page
    BY <1>3 DEF Entry
  <2>2. /\ r.ok' = r.ok /\ r.phys' = r.phys
        /\ \A g : g # "SET_C" => (g \in r.flags' <=> g \in r.flags)
        /\ "SET_C" \in r.flags => "SET_C" \in r.flags'
    BY <2>1, WalkWithC
  <2>3. /\ r.ok /\ e.phys = r.phys /\ e.flags \cap Source = r.flags \cap Source
        /\ t = "D" => ("WRITABLE" \in e.flags <=> "WRITABLE" \in r.flags)
        /\ t = "D" /\ "SET_C" \in e.flags => "SET_C" \in r.flags
    BY <1>3 DEF Agrees
  <2> HIDE DEF r
  <2>4. r.flags' \cap Source = r.flags \cap Source
    BY <2>2 DEF Source
  <2>5. "WRITABLE" \in r.flags' <=> "WRITABLE" \in r.flags
    BY <2>2
  <2>6. /\ r.ok' /\ e.phys = r.phys' /\ e.flags \cap Source = r.flags' \cap Source
        /\ t = "D" => ("WRITABLE" \in e.flags <=> "WRITABLE" \in r.flags')
        /\ t = "D" /\ "SET_C" \in e.flags => "SET_C" \in r.flags'
    BY <2>2, <2>3, <2>4, <2>5
  <2>7. Agrees(t, m, e)'
    BY <2>6 DEF Agrees, r
  <2> QED
    BY <2>7 DEF Fresh
<1> QED
  BY <1>1, <1>2, <1>3 DEF Fresh

\* An entry may be given PTE_SET_C when the C bit is set with it, or when it
\* has it already.
LEMMA FreshWithC ==
    ASSUME WalkType, PlainSegments, SameRegs,
           pending \in [TLBType -> SUBSET Source], UNCHANGED <<pending, dirty>>,
           NEW p \in Page, NEW m \in Mode, NEW e \in Entry, e.tag = p, Fresh("D", m, e),
           SetsBit(Key(p)) \/ ("SET_C" \in e.flags /\ pt' = pt),
           NEW f, f.tag = e.tag, f.phys = e.phys, f.flags = e.flags \cup {"SET_C"}
    PROVE  Fresh("D", m, f)'
<1>1. Key(p) \in PteKey /\ "D" \in TLBType
  BY KeyExists DEF TLBType
<1>2. Fresh("D", m, e)'
  BY <1>1, FreshStays
<1>3. CASE "SET_C" \in e.flags
  <2>1. f.flags = e.flags
    BY <1>3
  <2>2. Agrees("D", m, e)' => Agrees("D", m, f)'
    BY <2>1 DEF Agrees
  <2> QED
    BY <1>2, <2>1, <2>2 DEF Fresh
<1>4. CASE "SET_C" \notin e.flags
  <2>1. SetsBit(Key(p))
    BY <1>4
  <2>2. pending["D"] \subseteq Source
    BY <1>1
  <2>3. /\ f.flags \cap Source = e.flags \cap Source
        /\ f.flags \cap pending["D"] = e.flags \cap pending["D"]
        /\ "FROM_PAT" \in f.flags <=> "FROM_PAT" \in e.flags
        /\ "WRITABLE" \in f.flags <=> "WRITABLE" \in e.flags
    BY <2>2 DEF Source
  <2>4. CASE ~(Agrees("D", m, e) /\ e.flags \cap Source # {})
    <3>1. \/ e.tag = TLB_INVALID_TAG \/ e.flags \cap Source = {}
          \/ e.flags \cap pending["D"] # {}
          \/ "FROM_PAT" \in e.flags /\ Key(e.tag) \in dirty
      BY <2>4 DEF Fresh
    <3>2. Key(e.tag)' = Key(e.tag)
      BY SameBlocks
    <3> QED
      BY <2>3, <3>1, <3>2 DEF Fresh
  <2>5. CASE Agrees("D", m, e) /\ e.flags \cap Source # {}
    <3> DEFINE r == Translate("D", m, p, FALSE)
    <3>1. /\ r.ok' = r.ok /\ r.phys' = r.phys
          /\ \A g : g # "SET_C" => (g \in r.flags' <=> g \in r.flags)
          /\ "SET_C" \in r.flags => "SET_C" \in r.flags'
          /\ r.ok /\ "FROM_PAT" \in r.flags => "SET_C" \in r.flags'
      BY <1>1, <2>1, WalkWithC, ZenonT(60)
    <3>2. /\ r.ok /\ e.phys = r.phys /\ e.flags \cap Source = r.flags \cap Source
          /\ "WRITABLE" \in e.flags <=> "WRITABLE" \in r.flags
      BY <2>5 DEF Agrees
    <3>3. "FROM_BAT" \in r.flags => "SET_C" \in r.flags
      <4> SUFFICES ASSUME "FROM_BAT" \in r.flags PROVE "SET_C" \in r.flags
        OBVIOUS
      <4>1. m # "real" /\ BatHits("D", m, p) # {}
        BY <1>1, WalkFlags
      <4> DEFINE b == BatArray("D")[Min(BatHits("D", m, p))]
      <4>2. r = BlockTranslation(b, m, p, FALSE)
        BY <4>1 DEF Translate
      <4> HIDE DEF b, r
      <4> QED
        BY <3>2, <4>2 DEF BlockTranslation, Failed
    <3> HIDE DEF r
    <3>4. "FROM_BAT" \in r.flags \/ "FROM_PAT" \in r.flags
      BY <2>5, <3>2 DEF Source
    <3>5. "SET_C" \in r.flags'
      BY <3>1, <3>2, <3>3, <3>4
    <3>6. r.flags' \cap Source = r.flags \cap Source
      BY <3>1 DEF Source
    <3>7. "WRITABLE" \in r.flags' <=> "WRITABLE" \in r.flags
      BY <3>1
    <3>8. /\ r.ok' /\ f.phys = r.phys' /\ f.flags \cap Source = r.flags' \cap Source
          /\ "WRITABLE" \in f.flags <=> "WRITABLE" \in r.flags'
      BY <2>3, <3>1, <3>2, <3>6, <3>7
    <3>9. Agrees("D", m, f)'
      BY <3>5, <3>8 DEF Agrees, r
    <3> QED
      BY <3>9 DEF Fresh
  <2> QED
    BY <2>4, <2>5
<1> QED
  BY <1>3, <1>4

\* Where a store is allowed a load is, with the same result.
LEMMA WriteWalk ==
    ASSUME WalkType, PlainSegments, NEW m \in Mode, NEW p \in Page,
           Translate("D", m, p, TRUE).ok
    PROVE  LET r == Translate("D", m, p, TRUE)
               q == Translate("D", m, p, FALSE)
           IN  /\ q.ok /\ q.phys = r.phys
               /\ \A g : g # "SET_C" => (g \in q.flags <=> g \in r.flags)
               /\ "FROM_PAT" \notin r.flags => "SET_C" \in q.flags
<1> DEFINE r == Translate("D", m, p, TRUE)
           q == Translate("D", m, p, FALSE)
           hits == BatHits("D", m, p)
<1>1. r.ok
  OBVIOUS
<1>2. CASE m = "real"
  <2>1. /\ r = [ok |-> TRUE, phys |-> p, flags |-> {"WRITABLE", "SET_C"}]
        /\ q = [ok |-> TRUE, phys |-> p, flags |-> {"WRITABLE", "SET_C"}]
    BY <1>2 DEF Translate
  <2> HIDE DEF r, q
  <2>2. q.ok /\ q.phys = r.phys /\ q.flags = r.flags /\ "SET_C" \in q.flags
    BY <2>1
  <2> QED
    BY <2>2 DEF r, q
<1>3. CASE m # "real" /\ hits # {}
  <2> DEFINE b == BatArray("D")[Min(hits)]
  <2>1. r = BlockTranslation(b, m, p, TRUE) /\ q = BlockTranslation(b, m, p, FALSE)
    BY <1>3 DEF Translate
  <2> HIDE DEF r, q, b
  <2>2. q = r /\ "SET_C" \in r.flags
    BY <1>1, <2>1 DEF BlockTranslation, Failed
  <2> QED
    BY <1>1, <2>2 DEF r, q
<1>4. CASE m # "real" /\ hits = {}
  <2> DEFINE s == sr[Segment(p)]
             e == pt[Key(p)]
             key == m \in s.keys
             wr == IF e.pp = 2 \/ (~key /\ e.pp < 2) THEN {"WRITABLE"} ELSE {}
             bad(w) == \/ ~e.valid \/ (key /\ (e.pp = 0 \/ (e.pp = 1 /\ w)))
                       \/ (e.pp = 3 /\ w)
  <2>1. r = PageTranslation("D", m, p, TRUE) /\ q = PageTranslation("D", m, p, FALSE)
    BY <1>4 DEF Translate
  <2>2. ~s.t /\ e \in Pte
    BY KeyExists DEF PlainSegments
  <2>3. r = IF bad(TRUE) THEN Failed
            ELSE [ok |-> TRUE, phys |-> e.phys, flags |-> {"FROM_PAT"} \cup wr \cup {"SET_C"}]
    BY <2>1, <2>2 DEF PageTranslation
  <2>4. q = IF bad(FALSE) THEN Failed
            ELSE [ok |-> TRUE, phys |-> e.phys,
                  flags |-> {"FROM_PAT"} \cup wr \cup (IF e.c THEN {"SET_C"} ELSE {})]
    BY <2>1, <2>2 DEF PageTranslation
  <2>5. ~bad(TRUE)
    <3> SUFFICES ASSUME bad(TRUE) PROVE FALSE
      OBVIOUS
    <3>1. r = Failed
      BY <2>3
    <3> HIDE DEF r
    <3> QED
      BY <1>1, <3>1 DEF Failed
  <2>6. ~bad(FALSE)
    BY <2>5
  <2> HIDE DEF r, q, e, wr, bad
  <2>7. /\ r = [ok |-> TRUE, phys |-> e.phys, flags |-> {"FROM_PAT"} \cup wr \cup {"SET_C"}]
        /\ q = [ok |-> TRUE, phys |-> e.phys,
                flags |-> {"FROM_PAT"} \cup wr \cup (IF e.c THEN {"SET_C"} ELSE {})]
    BY <2>3, <2>4, <2>5, <2>6, Zenon
  <2>8. /\ r.flags = {"FROM_PAT"} \cup wr \cup {"SET_C"}
        /\ q.flags = {"FROM_PAT"} \cup wr \cup (IF e.c THEN {"SET_C"} ELSE {})
        /\ q.ok /\ q.phys = r.phys
    BY <2>7
  <2> QED
    BY <2>8 DEF r, q
<1> QED
  BY <1>2, <1>3, <1>4

\* What a store enters is what the walk gives once the C bit is set.
LEMMA StoreAgrees ==
    ASSUME WalkType, PlainSegments, SameRegs, NEW m \in Mode, NEW p \in Page, NEW r,
           r = Translate("D", m, p, TRUE), r.ok,
           IF "FROM_PAT" \in r.flags THEN SetsBit(Key(p)) ELSE pt' = pt
    PROVE  Agrees("D", m, EntryFor("D", p, r))'
<1> DEFINE q == Translate("D", m, p, FALSE)
           e == EntryFor("D", p, r)
<1>1. Key(p) \in PteKey /\ "D" \in TLBType
  BY KeyExists DEF TLBType
<1>2. /\ q.ok /\ q.phys = r.phys
      /\ \A g : g # "SET_C" => (g \in q.flags <=> g \in r.flags)
      /\ "FROM_PAT" \notin r.flags => "SET_C" \in q.flags
  BY WriteWalk
<1>3. /\ q.ok' = q.ok /\ q.phys' = q.phys
      /\ \A g : g # "SET_C" => (g \in q.flags' <=> g \in q.flags)
      /\ "SET_C" \in q.flags => "SET_C" \in q.flags'
      /\ q.ok /\ "FROM_PAT" \in q.flags /\ SetsBit(Key(p)) => "SET_C" \in q.flags'
  BY <1>1, WalkWithC
<1>4. r.flags \subseteq Source \cup {"WRITABLE", "SET_C"} /\ r.phys \in DOMAIN Region
  <2>1. \A w \in BOOLEAN : r = Translate("D", m, p, w) =>
           r.flags \subseteq Source \cup {"WRITABLE", "SET_C"} /\ r.phys \in DOMAIN Region
    BY <1>1, WalkFlags
  <2> QED
    BY <2>1
<1> HIDE DEF q
<1>5. Region[r.phys] \in {"MEM", "IO", "none"}
  BY <1>4, PpcMmuValues
<1>6. e.tag = p /\ e.phys = r.phys /\ e.flags = {Region[r.phys]} \cup r.flags
  BY DEF EntryFor
<1> HIDE DEF e
<1>7. "SET_C" \in q.flags'
  BY <1>2, <1>3
<1>8. e.flags \cap Source = q.flags' \cap Source
  BY <1>2, <1>3, <1>5, <1>6 DEF Source
<1>9. "WRITABLE" \in e.flags <=> "WRITABLE" \in q.flags'
  BY <1>2, <1>3, <1>5, <1>6
<1>10. e.phys = q.phys' /\ q.ok' /\ q' = Translate("D", m, e.tag, FALSE)'
  <2>1. e' = e
    BY DEF e, EntryFor
  <2> QED
    BY <1>2, <1>3, <1>6, <2>1 DEF q
<1>11. Agrees("D", m, e)'
  <2>1. e' = e
    BY DEF e, EntryFor
  <2> QED
    BY <1>7, <1>8, <1>9, <1>10, <2>1 DEF Agrees
<1> QED
  BY <1>11 DEF e

-----------------------------------------------------------------------------
(* The operations on TLB entries keep them fresh.                          *)

\* The entries of a cache c that becomes the next one.
GoodNext(c) ==
    \A x \in Slot : \A e : e = c.tlb[x] => e \in Entry /\ Fresh(x.type, x.mode, e)'

\* promote_tlb_entry() and the refill functions change one slot.
LEMMA PutForm ==
    ASSUME NEW c, Shaped(c), NEW x \in Slot, NEW e
    PROVE  LET d == Put(c, x, e)
           IN  /\ \A y \in Slot : y # x => d.tlb[y] = c.tlb[y]
               /\ d.tlb[x] = [tag |-> e.tag, flags |-> d.tlb[x].flags, phys |-> e.phys]
               /\ d.tlb[x].flags \ {"TRACKED"} = e.flags \ {"TRACKED"}
<1> DEFINE fl == (e.flags \ {"TRACKED"}) \cup (c.tlb[x].flags \cap {"TRACKED"})
           new == [tag |-> e.tag, flags |-> fl, phys |-> e.phys]
           d == [tlb |-> [y \in Slot |-> IF y = x THEN new ELSE c.tlb[y]],
                 tracked |-> c.tracked]
<1>1. SetEntry(c, x, new) = d
  BY DEF Shaped, SetEntry
<1>2. Put(c, x, e) = Track(d, x)
  BY <1>1 DEF Put, WithFlags
<1>3. fl \ {"TRACKED"} = e.flags \ {"TRACKED"}
  OBVIOUS
<1>4. d.tlb[x] = new /\ \A y \in Slot : y # x => d.tlb[y] = c.tlb[y]
  OBVIOUS
<1>5. CASE Track(d, x) = d
  <2> HIDE DEF d, fl
  <2> QED
    BY <1>2, <1>3, <1>4, <1>5
<1>6. CASE Track(d, x) # d
  <2> DEFINE g == [d.tlb EXCEPT ![x] = WithFlags(@, @.flags \cup {"TRACKED"})]
  <2>1. Track(d, x).tlb = g
    BY <1>6 DEF Track
  <2>2. /\ g[x] = [tag |-> e.tag, flags |-> fl \cup {"TRACKED"}, phys |-> e.phys]
        /\ \A y \in Slot : y # x => g[y] = c.tlb[y]
    BY DEF WithFlags
  <2>3. (fl \cup {"TRACKED"}) \ {"TRACKED"} = e.flags \ {"TRACKED"}
    BY <1>3
  <2> HIDE DEF g, fl, d
  <2> QED
    BY <1>2, <2>1, <2>2, <2>3
<1> QED
  BY <1>5, <1>6

\* A fresh entry can be put anywhere.
LEMMA PutGood ==
    ASSUME pending' \in [TLBType -> SUBSET Source],
           NEW c, Shaped(c), GoodNext(c), NEW x \in Slot,
           NEW e \in Entry, Fresh(x.type, x.mode, e)'
    PROVE  GoodNext(Put(c, x, e))
<1> DEFINE d == Put(c, x, e)
<1> DEFINE fl == Put(c, x, e).tlb[x].flags
<1>1. /\ d.tlb[x] = [tag |-> e.tag, flags |-> fl, phys |-> e.phys]
      /\ fl \ {"TRACKED"} = e.flags \ {"TRACKED"}
  BY PutForm
<1>2. ASSUME NEW y \in Slot, y # x PROVE d.tlb[y] = c.tlb[y]
  <2>1. \A w : SetEntry(c, x, w).tlb = [z \in Slot |-> IF z = x THEN w ELSE c.tlb[z]]
    BY DEF Shaped, SetEntry
  <2> QED
    BY <1>2, <2>1, ZenonT(60) DEF Put, Track
<1> HIDE DEF fl, d
<1> DEFINE f == [tag |-> e.tag, flags |-> fl, phys |-> e.phys]
<1>3. fl \subseteq e.flags \cup {"TRACKED"}
  BY <1>1
<1>4. f \in Entry
  BY <1>3 DEF Entry, Flag
<1>5. x.type \in TLBType
  BY DEF Slot
<1>6. f.tag = e.tag /\ f.phys = e.phys /\ f.flags = fl
  OBVIOUS
<1> HIDE DEF f
<1>7. Fresh(x.type, x.mode, f)'
  BY <1>1, <1>5, <1>6, FreshUntracked
<1>8. ASSUME NEW y \in Slot, NEW h, h = d.tlb[y]
      PROVE  h \in Entry /\ Fresh(y.type, y.mode, h)'
  <2>1. CASE y = x
    <3>1. h = f
      BY <1>1, <1>8, <2>1 DEF f
    <3> QED
      BY <1>4, <1>7, <2>1, <3>1
  <2>2. CASE y # x
    BY <1>2, <1>8, <2>2 DEF GoodNext
  <2> QED
    BY <2>1, <2>2
<1>9. GoodNext(d)
  BY <1>8 DEF GoodNext
<1> QED
  BY <1>9 DEF d

\* Promotion copies an entry to a slot of the same type and mode.
LEMMA PromoteGood ==
    ASSUME pending' \in [TLBType -> SUBSET Source],
           NEW c, Shaped(c), GoodNext(c), NEW t \in TLBType, NEW p \in Page,
           NEW x \in Slot, x.type = t, x.mode = ModeOf(t)
    PROVE  GoodNext(Promote(c, t, p, x))
<1> DEFINE e == c.tlb[x]
<1>1. Primary(t, p) \in Slot
  BY SlotsExist
<1>2. \A f : f = e => f \in Entry /\ Fresh(x.type, x.mode, f)'
  BY DEF GoodNext
<1>3. ASSUME NEW f, f = e, NEW z \in Slot, z = Primary(t, p)
      PROVE  GoodNext(Put(c, z, f))
  <2>1. z.type = x.type /\ z.mode = x.mode
    BY <1>3 DEF Primary
  <2>2. f \in Entry /\ Fresh(z.type, z.mode, f)'
    BY <1>2, <1>3, <2>1
  <2> QED
    BY <2>2, PutGood
<1>4. GoodNext(Put(c, Primary(t, p), e))
  BY <1>1, <1>3
<1> QED
  BY <1>4 DEF Promote

\* What holds of all entries in the cache that comes next holds of the TLBs.
LEMMA BecomesGood ==
    ASSUME NEW c, GoodNext(c), Becomes(c), WalkType', PlainSegments'
    PROVE  StaleInv'
<1>1. tlb' = c.tlb
  BY DEF Becomes
<1>2. ASSUME NEW x \in Slot PROVE (tlb[x] \in Entry /\ Fresh(x.type, x.mode, tlb[x]))'
  BY <1>1 DEF GoodNext
<1> QED
  BY <1>2 DEF StaleInv

\* An access: it leaves the registers alone, and the page table but for a C bit.
LEMMA AccessFrame ==
    ASSUME StaleInv, SchedInv, NEW c, Done(c), NEW p \in Page,
           SetsBit(Key(p)) \/ pt' = pt
    PROVE  /\ SameRegs /\ UNCHANGED <<pending, dirty>>
           /\ pending' \in [TLBType -> SUBSET Source]
           /\ WalkType' /\ PlainSegments'
           /\ GoodNext(Cache)
<1>1. SameRegs /\ UNCHANGED <<pending, dirty>>
  BY DEF Done, SameRegs, regs, sched
<1>2. pending' \in [TLBType -> SUBSET Source]
  BY <1>1 DEF SchedInv
<1>3. Key(p) \in PteKey
  BY KeyExists DEF StaleInv
<1>4. pt' \in [PteKey -> Pte]
  BY <1>3, SetBitEntry DEF StaleInv, WalkType
<1>5. WalkType' /\ PlainSegments'
  BY <1>1, <1>4 DEF StaleInv, WalkType, PlainSegments, SameRegs
<1>6. ASSUME NEW x \in Slot, NEW e, e = Cache.tlb[x]
      PROVE  e \in Entry /\ Fresh(x.type, x.mode, e)'
  <2>1. e = tlb[x]
    BY <1>6 DEF Cache
  <2>2. e \in Entry /\ Fresh(x.type, x.mode, e)
    BY <2>1 DEF StaleInv
  <2>3. x.type \in TLBType /\ x.mode \in Mode
    BY DEF Slot
  <2> QED
    BY <1>1, <1>3, <2>2, <2>3, FreshStays DEF StaleInv
<1> QED
  BY <1>1, <1>2, <1>5, <1>6 DEF GoodNext

\* The slots that an access to a page may use are for its type and mode.
LEMMA WaysFit ==
    ASSUME NEW t \in TLBType, NEW p \in Page, NEW x \in Matches(t, p) \cup Targets(t, p)
    PROVE  x \in Slot /\ x.type = t /\ x.mode = ModeOf(t)
BY DEF Matches, Targets, Ways

\* What a refill enters is a TLB entry.
LEMMA EntryForType ==
    ASSUME NEW t \in TLBType, NEW p \in Page, NEW r, r.phys \in DOMAIN Region,
           r.flags \subseteq Source \cup {"WRITABLE", "SET_C"}, Region[r.phys] # "none"
    PROVE  EntryFor(t, p, r) \in Entry /\ EntryFor(t, p, r).tag = p
<1>1. Region[r.phys] \in {"MEM", "IO"}
  BY PpcMmuValues
<1> DEFINE fl == {Region[r.phys]} \cup (IF t = "I" THEN r.flags \cap Source ELSE r.flags)
<1>2. fl \subseteq Flag
  BY <1>1 DEF Flag, Source
<1>3. EntryFor(t, p, r) = [tag |-> p, phys |-> r.phys, flags |-> fl]
  BY DEF EntryFor
<1> HIDE DEF fl
<1> QED
  BY <1>2, <1>3 DEF Entry

\* A refill keeps all entries fresh, given that the one it makes is.
LEMMA RefillGood ==
    ASSUME pending' \in [TLBType -> SUBSET Source], CacheInv, GoodNext(Cache),
           NEW t \in TLBType, NEW p \in Page, NEW x \in Targets(t, p),
           NEW e \in Entry, Fresh(x.type, x.mode, e)'
    PROVE  GoodNext(Promote(Put(Cache, x, e), t, p, x))
<1>1. x \in Slot /\ x.type = t /\ x.mode = ModeOf(t)
  BY WaysFit
<1>2. e = [tag |-> e.tag, flags |-> e.flags, phys |-> e.phys]
  BY DEF Entry
<1>3. Shaped(Cache) /\ Exact(Cache)
  BY DEF CacheInv
<1>4. GoodNext(Put(Cache, x, e))
  BY <1>1, <1>3, PutGood
<1>5. Shaped(Put(Cache, x, e))
  BY <1>1, <1>2, <1>3, PutExact
<1> QED
  BY <1>1, <1>4, <1>5, PromoteGood

\* Loads and fetches keep the TLBs fresh.
LEMMA ReadFresh ==
    ASSUME StaleInv, SchedInv, CacheInv, NEW t \in TLBType, NEW p \in Page, Read(t, p)
    PROVE  StaleInv'
<1> DEFINE r == Translate(t, ModeOf(t), p, FALSE)
<1>1. pt' = pt
  BY DEF Read
<1>2. ASSUME NEW c, Done(c), GoodNext(c) PROVE StaleInv'
  BY <1>1, <1>2, AccessFrame, BecomesGood DEF Done
<1>3. ASSUME NEW c, Done(c) PROVE GoodNext(Cache) /\ pending' \in [TLBType -> SUBSET Source]
  BY <1>1, <1>3, AccessFrame
<1>4. CASE Done(Cache)
  BY <1>2, <1>3, <1>4
<1>5. ASSUME NEW x \in Matches(t, p), Done(Promote(Cache, t, p, x)) PROVE StaleInv'
  <2>1. GoodNext(Promote(Cache, t, p, x))
    BY <1>3, <1>5, WaysFit, PromoteGood DEF CacheInv
  <2> QED
    BY <1>2, <1>5, <2>1
<1>6. ASSUME r.ok, Region[r.phys] # "none", NEW x \in Targets(t, p),
             Done(Promote(Put(Cache, x, EntryFor(t, p, r)), t, p, x))
      PROVE  StaleInv'
  <2> DEFINE m == ModeOf(t)
  <2>1. m \in Mode
    BY DEF ModeOf, Mode
  <2>2. r.phys \in DOMAIN Region /\ r.flags \subseteq Source \cup {"WRITABLE", "SET_C"}
    BY <1>6, <2>1, WalkFlags DEF StaleInv
  <2>3. Agrees(t, m, EntryFor(t, p, r))
    BY <1>6, <2>1, ReadAgrees DEF StaleInv
  <2>4. EntryFor(t, p, r) \in Entry /\ EntryFor(t, p, r).tag = p
    BY <1>6, <2>2, EntryForType
  <2>5. Fresh(t, m, EntryFor(t, p, r))
    BY <2>3 DEF Fresh
  <2>6. SameRegs /\ UNCHANGED <<pending, dirty>> /\ Key(p) \in PteKey
    BY <1>1, <1>6, AccessFrame, KeyExists DEF StaleInv
  <2>7. x.type = t /\ x.mode = m
    BY WaysFit
  <2>8. ASSUME NEW e, e = EntryFor(t, p, r)
        PROVE  GoodNext(Promote(Put(Cache, x, e), t, p, x))
    <3>1. e \in Entry /\ Fresh(x.type, x.mode, e) /\ x.type \in TLBType /\ x.mode \in Mode
      BY <2>1, <2>4, <2>5, <2>7, <2>8
    <3>2. Fresh(x.type, x.mode, e)'
      BY <1>1, <2>6, <3>1, FreshStays DEF StaleInv
    <3> QED
      BY <1>3, <1>6, <3>1, <3>2, RefillGood
  <2> QED
    BY <1>2, <1>6, <2>8
<1> QED
  BY <1>4, <1>5, <1>6 DEF Read

\* Setting PTE_SET_C in entries of a page whose C bit is set, or that have it.
LEMMA WithCGood ==
    ASSUME StaleInv, SchedInv, NEW c, Done(c), NEW p \in Page,
           SetsBit(Key(p)) \/ pt' = pt,
           NEW xs \in SUBSET Slot,
           \A x \in xs : x.type = "D" /\ tlb[x].tag = p
                         /\ (SetsBit(Key(p)) \/ "SET_C" \in tlb[x].flags)
    PROVE  GoodNext(WithC(Cache, xs))
<1> DEFINE d == WithC(Cache, xs)
<1>1. /\ SameRegs /\ UNCHANGED <<pending, dirty>> /\ GoodNext(Cache)
      /\ pending \in [TLBType -> SUBSET Source]
  BY AccessFrame DEF SchedInv
<1>2. WalkType /\ PlainSegments
  BY DEF StaleInv
<1>3. ASSUME NEW x \in Slot, NEW f, f = d.tlb[x]
      PROVE  f \in Entry /\ Fresh(x.type, x.mode, f)'
  <2>1. CASE x \notin xs
    <3>1. f = Cache.tlb[x]
      BY <1>3, <2>1 DEF WithC
    <3> QED
      BY <1>1, <3>1 DEF GoodNext
  <2>2. CASE x \in xs
    <3>1. f = [tag |-> tlb[x].tag, flags |-> tlb[x].flags \cup {"SET_C"},
               phys |-> tlb[x].phys]
      BY <1>3, <2>2 DEF WithC, WithFlags, Cache
    <3>2. tlb[x] \in Entry /\ Fresh(x.type, x.mode, tlb[x])
      BY DEF StaleInv
    <3>3. f \in Entry
      BY <3>1, <3>2 DEF Entry, Flag
    <3>4. x.mode \in Mode
      BY DEF Slot
    <3>5. ASSUME NEW e \in Entry, e = tlb[x] PROVE Fresh("D", x.mode, f)'
      <4>1. f.tag = e.tag /\ f.phys = e.phys /\ f.flags = e.flags \cup {"SET_C"}
        BY <3>1, <3>5
      <4>2. e.tag = p /\ Fresh("D", x.mode, e)
        BY <2>2, <3>2, <3>5
      <4>3. SetsBit(Key(p)) \/ ("SET_C" \in e.flags /\ pt' = pt)
        BY <2>2, <3>5
      <4> QED
        BY <1>1, <1>2, <3>4, <4>1, <4>2, <4>3, FreshWithC
    <3>6. Fresh("D", x.mode, f)' /\ x.type = "D"
      BY <2>2, <3>2, <3>5
    <3> QED
      BY <3>3, <3>6
  <2> QED
    BY <2>1, <2>2
<1>4. GoodNext(d)
  BY <1>3 DEF GoodNext
<1> QED
  BY <1>4 DEF d

\* Stores keep the TLBs fresh.
LEMMA StoreFresh ==
    ASSUME StaleInv, SchedInv, CacheInv, NEW p \in Page, Store(p)
    PROVE  StaleInv'
<1> DEFINE m == ModeOf("D")
           x1 == Primary("D", p)
           ms == Matches("D", p)
           r == Translate("D", m, p, TRUE)
<1>1. "D" \in TLBType /\ m \in Mode /\ WalkType /\ PlainSegments
  BY DEF TLBType, ModeOf, Mode, StaleInv
<1>2. pt' = MarkChanged(p) => SetsBit(Key(p))
  <2>1. ~sr[Segment(p)].t
    BY <1>1, KeyExists DEF PlainSegments
  <2> QED
    BY <2>1 DEF MarkChanged, SetsBit
<1>3. ASSUME NEW c, Done(c), SetsBit(Key(p)) \/ pt' = pt, GoodNext(c) PROVE StaleInv'
  BY <1>3, AccessFrame, BecomesGood DEF Done
<1>4. ASSUME NEW c, Done(c), SetsBit(Key(p)) \/ pt' = pt
      PROVE  GoodNext(Cache) /\ pending' \in [TLBType -> SUBSET Source]
  BY <1>4, AccessFrame
<1>5. x1 \in Slot /\ x1.type = "D" /\ ms \subseteq Slot
  BY <1>1, SlotsExist DEF Primary
<1>6. \A x \in ms : x \in Slot /\ x.type = "D" /\ x.mode = m /\ tlb[x].tag = p
  BY <1>1, WaysFit DEF Matches
<1>7. CASE Done(Cache) /\ pt' = pt
  BY <1>3, <1>4, <1>7
<1>8. CASE tlb[x1].tag = p /\ Done(WithC(Cache, {x1} \cup ms)) /\ pt' = MarkChanged(p)
  <2>1. \A x \in {x1} \cup ms : x.type = "D" /\ tlb[x].tag = p
    BY <1>5, <1>6, <1>8
  <2>2. SetsBit(Key(p)) /\ {x1} \cup ms \in SUBSET Slot
    BY <1>2, <1>5, <1>8
  <2>3. GoodNext(WithC(Cache, {x1} \cup ms))
    BY <1>8, <2>1, <2>2, WithCGood
  <2> QED
    BY <1>3, <1>8, <2>2, <2>3
<1>9. ASSUME NEW x \in ms, Done(Promote(WithC(Cache, {x}), "D", p, x)),
             pt' = IF SetsC(tlb[x]) THEN MarkChanged(p) ELSE pt
      PROVE  StaleInv'
  <2>1. SetsBit(Key(p)) \/ ("SET_C" \in tlb[x].flags /\ pt' = pt)
    BY <1>2, <1>9 DEF SetsC
  <2>2. GoodNext(WithC(Cache, {x}))
    <3>1. {x} \in SUBSET Slot
      BY <1>6
    <3>2. \A y \in {x} : y.type = "D" /\ tlb[y].tag = p
                         /\ (SetsBit(Key(p)) \/ "SET_C" \in tlb[y].flags)
      BY <1>6, <2>1
    <3> QED
      BY <1>9, <2>1, <3>1, <3>2, WithCGood
  <2>3. Shaped(WithC(Cache, {x}))
    BY WithCExact DEF CacheInv
  <2>4. pending' \in [TLBType -> SUBSET Source]
    BY <1>4, <1>9, <2>1
  <2>5. GoodNext(Promote(WithC(Cache, {x}), "D", p, x))
    BY <1>1, <1>6, <2>2, <2>3, <2>4, PromoteGood
  <2> QED
    BY <1>3, <1>9, <2>1, <2>5
<1>10. ASSUME r.ok, pt' = IF "FROM_PAT" \in r.flags THEN MarkChanged(p) ELSE pt
       PROVE  IF "FROM_PAT" \in r.flags THEN SetsBit(Key(p)) ELSE pt' = pt
  BY <1>2, <1>10
<1>11. ASSUME r.ok, pt' = IF "FROM_PAT" \in r.flags THEN MarkChanged(p) ELSE pt,
              Done(Cache)
       PROVE  StaleInv'
  BY <1>3, <1>4, <1>10, <1>11
<1>12. ASSUME r.ok, pt' = IF "FROM_PAT" \in r.flags THEN MarkChanged(p) ELSE pt,
              Region[r.phys] # "none", NEW x \in Targets("D", p),
              Done(Promote(Put(Cache, x, EntryFor("D", p, r)), "D", p, x))
       PROVE  StaleInv'
  <2>1. IF "FROM_PAT" \in r.flags THEN SetsBit(Key(p)) ELSE pt' = pt
    BY <1>10, <1>12
  <2>2. r.phys \in DOMAIN Region /\ r.flags \subseteq Source \cup {"WRITABLE", "SET_C"}
    BY <1>1, <1>12, WalkFlags
  <2>3. EntryFor("D", p, r) \in Entry
    BY <1>1, <1>12, <2>2, EntryForType
  <2>4. SameRegs /\ GoodNext(Cache) /\ pending' \in [TLBType -> SUBSET Source]
    BY <1>12, <2>1, AccessFrame
  <2>5. x \in Slot /\ x.type = "D" /\ x.mode = m
    BY <1>1, WaysFit
  <2>6. ASSUME NEW q, q = r, NEW e, e = EntryFor("D", p, q)
        PROVE  GoodNext(Promote(Put(Cache, x, e), "D", p, x))
    <3>1. x.mode \in Mode /\ q = Translate("D", x.mode, p, TRUE) /\ q.ok
      BY <1>1, <1>12, <2>5, <2>6
    <3>2. IF "FROM_PAT" \in q.flags THEN SetsBit(Key(p)) ELSE pt' = pt
      BY <2>1, <2>6
    <3>3. Agrees("D", x.mode, EntryFor("D", p, q))'
      BY <1>1, <2>4, <3>1, <3>2, StoreAgrees
    <3>4. EntryFor("D", p, q)' = e
      BY <2>6 DEF EntryFor
    <3>5. Agrees("D", x.mode, e)'
      BY <3>3, <3>4
    <3>6. e \in Entry /\ Fresh(x.type, x.mode, e)'
      BY <2>3, <2>5, <2>6, <3>5 DEF Fresh
    <3> QED
      BY <1>1, <2>4, <3>6, RefillGood
  <2>7. GoodNext(Promote(Put(Cache, x, EntryFor("D", p, r)), "D", p, x))
    BY <2>6
  <2> QED
    BY <1>3, <1>12, <2>1, <2>7
<1> QED
  BY <1>7, <1>8, <1>9, <1>11, <1>12 DEF Store

-----------------------------------------------------------------------------
(* Invalidation and changes of the context.                                *)

\* A walk gives the same while nothing that it reads changes.
LEMMA SameWalk ==
    ASSUME SameRegs, pt' = pt, NEW t, NEW m, NEW p, NEW w
    PROVE  Translate(t, m, p, w)' = Translate(t, m, p, w) /\ Key(p)' = Key(p)
<1>1. /\ BatHits(t, m, p)' = BatHits(t, m, p) /\ BatArray(t)' = BatArray(t)
      /\ Key(p)' = Key(p)
      /\ \A b, v : BlockTranslation(b, m, p, v)' = BlockTranslation(b, m, p, v)
  BY SameBlocks
<1>2. PageTranslation(t, m, p, w)' = PageTranslation(t, m, p, w)
  BY <1>1 DEF PageTranslation, SameRegs
<1> QED
  BY <1>1, <1>2 DEF Translate

\* An entry agrees with the walk as long as the walk gives the same.
LEMMA SameAgrees ==
    ASSUME NEW t, NEW m, NEW e, Agrees(t, m, e),
           Translate(t, m, e.tag, FALSE)' = Translate(t, m, e.tag, FALSE)
    PROVE  Agrees(t, m, e)'
BY DEF Agrees

\* An entry e that an invalidation of the given kinds and sources has left in
\* slot x.
LeftBy(e, x, types, sources) ==
    \/ e = Empty
    \/ /\ e = [tag |-> tlb[x].tag, flags |-> tlb[x].flags \ {"TRACKED"},
               phys |-> tlb[x].phys]
       /\ e.flags \cap Source = {}
    \/ /\ e = tlb[x]
       /\ x.type \in types => e.flags \cap sources[x.type] = {}

\* tlb_invalidate_tracked_entries() empties a slot, or leaves its entry; what
\* it leaves did not come from the sources it was given.
LEMMA InvalidateForm ==
    ASSUME CacheInv, NEW types,
           NEW sources \in [TLBType -> SUBSET Source], NEW x \in Slot,
           NEW e, e = Invalidate(Cache, types, sources).tlb[x]
    PROVE  LeftBy(e, x, types, sources)
<1> DEFINE c == Cache
           listed == {y \in Slot : y.type \in types /\ c.tracked[y] > 0}
           gone == {y \in listed : c.tlb[y].flags \cap sources[y.type] # {}}
           outdated == {y \in listed : c.tlb[y].flags \cap Source = {}}
<1>1. e = IF x \in gone THEN Empty
          ELSE IF x \in outdated THEN WithFlags(c.tlb[x], c.tlb[x].flags \ {"TRACKED"})
          ELSE c.tlb[x]
  BY DEF Invalidate
<1>2. c.tlb[x] = tlb[x]
  BY DEF Cache
<1> USE DEF LeftBy
<1>3. CASE x \in gone
  BY <1>1, <1>3
<1>4. CASE x \notin gone /\ x \in outdated
  <2>1. e = [tag |-> tlb[x].tag, flags |-> tlb[x].flags \ {"TRACKED"}, phys |-> tlb[x].phys]
    BY <1>1, <1>2, <1>4 DEF WithFlags
  <2>2. tlb[x].flags \cap Source = {}
    BY <1>2, <1>4
  <2>3. e.flags \cap Source = {}
    BY <2>1, <2>2
  <2> QED
    BY <2>1, <2>3
<1>5. CASE x \notin gone /\ x \notin outdated
  <2>1. e = tlb[x]
    BY <1>1, <1>2, <1>5
  <2>2. ASSUME x.type \in types, tlb[x].flags \cap sources[x.type] # {} PROVE FALSE
    <3>1. x.type \in TLBType
      BY DEF Slot
    <3>2. tlb[x].flags \cap Source # {}
      BY <2>2, <3>1
    <3>3. c.tracked[x] = 1
      BY <1>2, <3>2 DEF CacheInv, Exact
    <3> QED
      BY <1>2, <1>5, <2>2, <3>3
  <2> QED
    BY <2>1, <2>2
<1> QED
  BY <1>3, <1>4, <1>5

\* Hence it gives fresh entries, if what it leaves is fresh.
LEMMA InvalidateGood ==
    ASSUME CacheInv, StaleInv, NEW types,
           NEW sources \in [TLBType -> SUBSET Source],
           \A x \in Slot : \A e :
               e = tlb[x] /\ (x.type \in types => e.flags \cap sources[x.type] = {})
               => Fresh(x.type, x.mode, e)'
    PROVE  GoodNext(Invalidate(Cache, types, sources))
<1> DEFINE d == Invalidate(Cache, types, sources)
<1>1. ASSUME NEW x \in Slot, NEW e, e = d.tlb[x]
      PROVE  e \in Entry /\ Fresh(x.type, x.mode, e)'
  <2>1. tlb[x] \in Entry
    BY DEF StaleInv
  <2>2. CASE e = Empty
    <3>1. Empty \in Entry
      BY PpcMmuValues DEF Empty, Entry
    <3>2. e.tag = TLB_INVALID_TAG
      BY <2>2 DEF Empty
    <3> QED
      BY <2>2, <3>1, <3>2 DEF Fresh
  <2>3. CASE /\ e = [tag |-> tlb[x].tag, flags |-> tlb[x].flags \ {"TRACKED"},
                     phys |-> tlb[x].phys]
             /\ e.flags \cap Source = {}
    <3>1. e \in Entry
      BY <2>1, <2>3 DEF Entry
    <3> QED
      BY <2>3, <3>1 DEF Fresh
  <2>4. CASE /\ e = tlb[x]
             /\ x.type \in types => e.flags \cap sources[x.type] = {}
    BY <2>1, <2>4
  <2>5. LeftBy(e, x, types, sources)
    BY <1>1, InvalidateForm
  <2> QED
    BY <2>2, <2>3, <2>4, <2>5 DEF LeftBy
<1> HIDE DEF d
<1>2. GoodNext(d)
  BY <1>1 DEF GoodNext
<1> QED
  BY <1>2 DEF d

\* do_ctx_sync(): nothing is waiting any more, and what was waited for is gone.
LEMMA SyncFresh ==
    ASSUME StaleInv, SchedInv, CacheInv, DoCtxSync(Cache), SameRegs,
           pt' = pt, dirty' = dirty
    PROVE  StaleInv'
<1> DEFINE d == Invalidate(Cache, callbacks, pending)
<1>1. ASSUME NEW x \in Slot, NEW e, e = tlb[x],
             x.type \in callbacks => e.flags \cap pending[x.type] = {}
      PROVE  Fresh(x.type, x.mode, e)'
  <2>1. x.type \in TLBType
    BY DEF Slot
  <2>2. e.flags \cap pending[x.type] = {}
    BY <1>1, <2>1 DEF SchedInv, NoLostInvalidation
  <2>3. Fresh(x.type, x.mode, e)
    BY <1>1 DEF StaleInv
  <2>4. /\ Translate(x.type, x.mode, e.tag, FALSE)' = Translate(x.type, x.mode, e.tag, FALSE)
        /\ Key(e.tag)' = Key(e.tag)
    <3>1. \A w : Translate(x.type, x.mode, e.tag, w)' = Translate(x.type, x.mode, e.tag, w)
      BY SameWalk
    <3> QED
      BY <3>1, SameWalk, Zenon
  <2>5. Agrees(x.type, x.mode, e) => Agrees(x.type, x.mode, e)'
    BY <2>4, SameAgrees
  <2> QED
    BY <2>2, <2>3, <2>4, <2>5 DEF Fresh
<1>2. pending \in [TLBType -> SUBSET Source]
  BY DEF SchedInv
<1>3. GoodNext(d)
  BY <1>1, <1>2, InvalidateGood
<1>4. WalkType' /\ PlainSegments'
  BY DEF StaleInv, WalkType, PlainSegments, SameRegs
<1> QED
  BY <1>3, <1>4, BecomesGood DEF DoCtxSync

\* A change of the context leaves an entry fresh when the BATs of its kind are
\* as they were or everything is waiting to be invalidated, and the segments
\* and the page table are as they were or page translations are waiting or the
\* entry of the page is dirty.
LEMMA ContextFresh ==
    ASSUME WalkType, PlainSegments, PlainSegments', is_601' = is_601, WalkType',
           NEW t \in TLBType, NEW m \in Mode, NEW e \in Entry, Fresh(t, m, e),
           pending[t] \subseteq pending'[t],
           BatArray(t)' = BatArray(t) \/ Source \subseteq pending'[t],
           \/ "FROM_PAT" \in pending'[t]
           \/ /\ UNCHANGED <<sr, sdr1>> /\ dirty \subseteq dirty'
              /\ \A k \in PteKey : pt'[k] = pt[k] \/ k \in dirty'
    PROVE  Fresh(t, m, e)'
<1>1. CASE \/ e.tag = TLB_INVALID_TAG \/ e.flags \cap Source = {}
           \/ e.flags \cap pending[t] # {} \/ Source \subseteq pending'[t]
           \/ ("FROM_PAT" \in pending'[t] /\ "FROM_PAT" \in e.flags)
  BY <1>1 DEF Fresh
<1> SUFFICES ASSUME e.tag # TLB_INVALID_TAG, e.flags \cap Source # {},
                    e.flags \cap pending[t] = {}, BatArray(t)' = BatArray(t),
                    ~("FROM_PAT" \in pending'[t] /\ "FROM_PAT" \in e.flags)
             PROVE  Fresh(t, m, e)'
  BY <1>1
<1> DEFINE p == e.tag
           r == Translate(t, m, p, FALSE)
<1>2. p \in Page
  BY DEF Entry
<1>3. Segment(p) \in Segments
  BY <1>2, KeyExists
<1>4. BatHits(t, m, p)' = BatHits(t, m, p)
  BY <1>3 DEF BatHits, PlainSegments
<1>5. \A b, w : BlockTranslation(b, m, p, w)' = BlockTranslation(b, m, p, w)
  BY DEF BlockTranslation, BatProt
<1>6. CASE "FROM_PAT" \in e.flags
  <2>1. /\ UNCHANGED <<sr, sdr1>> /\ dirty \subseteq dirty'
        /\ \A k \in PteKey : pt'[k] = pt[k] \/ k \in dirty'
    BY <1>6
  <2>2. Key(p)' = Key(p) /\ Key(p) \in PteKey
    BY <1>2, <2>1, KeyExists DEF Key
  <2>3. CASE Key(p) \in dirty'
    BY <1>6, <2>2, <2>3 DEF Fresh
  <2>4. CASE Key(p) \notin dirty'
    <3>1. Agrees(t, m, e)
      BY <2>1, <2>4 DEF Fresh
    <3>2. pt'[Key(p)] = pt[Key(p)]
      BY <2>1, <2>2, <2>4
    <3>3. \A w : PageTranslation(t, m, p, w)' = PageTranslation(t, m, p, w)
      BY <2>1, <2>2, <3>2 DEF PageTranslation
    <3>4. \A w : Translate(t, m, p, w)' = Translate(t, m, p, w)
      BY <1>4, <1>5, <3>3 DEF Translate
    <3>5. r' = r
      BY <3>4, Zenon
    <3>6. Agrees(t, m, e)'
      BY <3>1, <3>5, SameAgrees
    <3> QED
      BY <3>6 DEF Fresh
  <2> QED
    BY <2>3, <2>4
<1>7. CASE "FROM_PAT" \notin e.flags
  <2>1. Agrees(t, m, e) /\ "FROM_BAT" \in e.flags
    BY <1>7 DEF Fresh, Source
  <2>2. "FROM_BAT" \in r.flags
    BY <2>1 DEF Agrees, Source
  <2>3. m # "real" /\ BatHits(t, m, p) # {}
    BY <1>2, <2>2, WalkFlags
  <2>4. \A w : Translate(t, m, p, w)' = Translate(t, m, p, w)
    BY <1>4, <1>5, <2>3 DEF Translate
  <2>5. r' = r
    BY <2>4, Zenon
  <2>6. Agrees(t, m, e)'
    BY <2>1, <2>5, SameAgrees
  <2> QED
    BY <2>6 DEF Fresh
<1> QED
  BY <1>6, <1>7

\* schedule_tlb_invalidation() only adds.
LEMMA ScheduleAdds ==
    ASSUME SchedInv, NEW types, NEW sources, Schedule(types, sources), NEW t \in TLBType
    PROVE  /\ pending[t] \subseteq pending'[t]
           /\ t \in types => sources \subseteq pending'[t]
BY DEF Schedule, SchedInv

\* The TLBs stay fresh when every kind of entry does.
LEMMA ContextKeeps ==
    ASSUME StaleInv, PlainSegments', WalkType', is_601' = is_601, tlb' = tlb,
           \A t \in TLBType :
               /\ pending[t] \subseteq pending'[t]
               /\ BatArray(t)' = BatArray(t) \/ Source \subseteq pending'[t]
               /\ \/ "FROM_PAT" \in pending'[t]
                  \/ /\ UNCHANGED <<sr, sdr1>> /\ dirty \subseteq dirty'
                     /\ \A k \in PteKey : pt'[k] = pt[k] \/ k \in dirty'
    PROVE  StaleInv'
<1>1. ASSUME NEW x \in Slot, NEW e, e = tlb[x] PROVE e \in Entry /\ Fresh(x.type, x.mode, e)'
  <2>1. x.type \in TLBType /\ x.mode \in Mode
    BY DEF Slot
  <2>2. e \in Entry /\ Fresh(x.type, x.mode, e)
    BY <1>1 DEF StaleInv
  <2>3. /\ pending[x.type] \subseteq pending'[x.type]
        /\ BatArray(x.type)' = BatArray(x.type) \/ Source \subseteq pending'[x.type]
        /\ \/ "FROM_PAT" \in pending'[x.type]
           \/ /\ UNCHANGED <<sr, sdr1>> /\ dirty \subseteq dirty'
              /\ \A k \in PteKey : pt'[k] = pt[k] \/ k \in dirty'
    BY <2>1
  <2> QED
    BY <2>1, <2>2, <2>3, ContextFresh DEF StaleInv
<1>2. GoodNext(Cache)
  BY <1>1 DEF GoodNext, Cache
<1>3. ASSUME NEW x \in Slot PROVE (tlb[x] \in Entry /\ Fresh(x.type, x.mode, tlb[x]))'
  BY <1>2 DEF GoodNext, Cache
<1> QED
  BY <1>3 DEF StaleInv

\* Stores to segment registers and to SDR1: page translations are waiting.
LEMMA SegmentsFresh ==
    ASSUME StaleInv, SchedInv, NoIoSegments,
           (\E s \in Segments, v \in SrValue : Mtsr(s, v)) \/ (\E v \in Sdr1Value : MtSdr1(v))
    PROVE  StaleInv'
<1>1. PatCtxChanged /\ UNCHANGED <<is_601, bat, pt, tlb, dirty>>
  BY DEF Mtsr, MtSdr1, cache
<1>2. WalkType' /\ PlainSegments'
  <2>1. CASE \E s \in Segments, v \in SrValue : Mtsr(s, v)
    <3>1. PICK s \in Segments, v \in SrValue : Mtsr(s, v)
      BY <2>1
    <3>2. ~v.t
      <4>1. v.t => is_601
        BY <3>1 DEF Mtsr
      <4>2. is_601 \in Family /\ Family \subseteq BOOLEAN /\ v.t \in BOOLEAN
        BY PpcMmuAssumption, PpcMmuValues DEF StaleInv, WalkType
      <4> QED
        BY <4>1, <4>2 DEF NoIoSegments
    <3>3. sr' = [sr EXCEPT ![s] = v] /\ sdr1' = sdr1
      BY <3>1 DEF Mtsr
    <3> QED
      BY <1>1, <3>2, <3>3 DEF StaleInv, WalkType, PlainSegments
  <2>2. CASE \E v \in Sdr1Value : MtSdr1(v)
    BY <1>1, <2>2 DEF StaleInv, WalkType, PlainSegments, MtSdr1
  <2> QED
    BY <2>1, <2>2
<1>3. ASSUME NEW t \in TLBType
      PROVE  /\ pending[t] \subseteq pending'[t] /\ "FROM_PAT" \in pending'[t]
             /\ BatArray(t)' = BatArray(t)
  <2>1. pending[t] \subseteq pending'[t] /\ {"FROM_PAT"} \subseteq pending'[t]
    BY <1>1, ScheduleAdds DEF PatCtxChanged
  <2> QED
    BY <1>1, <2>1 DEF BatArray
<1> QED
  BY <1>1, <1>2, <1>3, ContextKeeps

\* Stores to the BATs: the TLBs that use them wait for both sources.
LEMMA BatsFresh ==
    ASSUME StaleInv, SchedInv, NEW t \in TLBType, NEW i \in 1..NumBats, NEW b \in BatValue,
           MtBat(t, i, b)
    PROVE  StaleInv'
<1>1. UNCHANGED <<is_601, sr, sdr1, pt, tlb, dirty>> /\ bat' = [bat EXCEPT ![t][i] = b]
  BY DEF MtBat, cache
<1>2. WalkType' /\ PlainSegments'
  BY <1>1 DEF StaleInv, WalkType, PlainSegments
<1>3. ASSUME NEW u \in TLBType
      PROVE  /\ pending[u] \subseteq pending'[u]
             /\ BatArray(u)' = BatArray(u) \/ Source \subseteq pending'[u]
  <2> DEFINE types == IF is_601 THEN TLBType ELSE {t}
  <2>1. Schedule(types, Source)
    BY DEF MtBat
  <2>2. pending[u] \subseteq pending'[u] /\ (u \in types => Source \subseteq pending'[u])
    BY <2>1, ScheduleAdds
  <2>3. CASE u \notin types
    BY <1>1, <2>2, <2>3 DEF BatArray, StaleInv, WalkType
  <2> QED
    BY <2>2, <2>3
<1> QED
  BY <1>1, <1>2, <1>3, ContextKeeps

\* A store to the page table makes its entry dirty.
LEMMA PteFresh ==
    ASSUME StaleInv, SchedInv, NEW k \in PteKey, NEW v \in PteValues(k), WritePte(k, v)
    PROVE  StaleInv'
<1>1. /\ UNCHANGED <<is_601, sr, sdr1, bat, tlb, pending>>
      /\ pt' = [pt EXCEPT ![k] = v] /\ dirty' = dirty \cup {k}
  BY DEF WritePte, regs, cache, sched
<1>2. v \in Pte
  BY PpcMmuValues
<1>3. WalkType' /\ PlainSegments'
  BY <1>1, <1>2 DEF StaleInv, WalkType, PlainSegments
<1>4. \A j \in PteKey : pt'[j] = pt[j] \/ j \in dirty'
  BY <1>1 DEF StaleInv, WalkType
<1>5. \A t \in TLBType : BatArray(t)' = BatArray(t)
  BY <1>1 DEF BatArray
<1> QED
  BY <1>1, <1>3, <1>4, <1>5, ContextKeeps

\* tlbie: no page translation is left.
LEMMA TlbieFresh ==
    ASSUME StaleInv, SchedInv, CacheInv, NEW p, Tlbie(p)
    PROVE  StaleInv'
<1> DEFINE src == [t \in TLBType |-> {"FROM_PAT"}]
<1>1. /\ SameRegs /\ pt' = pt /\ pending' = pending
      /\ Becomes(Invalidate(Cache, TLBType, src))
  BY DEF Tlbie, SameRegs, regs, sched
<1>2. ASSUME NEW x \in Slot, NEW e, e = tlb[x],
             x.type \in TLBType => e.flags \cap src[x.type] = {}
      PROVE  Fresh(x.type, x.mode, e)'
  <2>1. x.type \in TLBType
    BY DEF Slot
  <2>2. "FROM_PAT" \notin e.flags
    BY <1>2, <2>1
  <2>3. Fresh(x.type, x.mode, e)
    BY <1>2 DEF StaleInv
  <2>4. \A w : Translate(x.type, x.mode, e.tag, w)' = Translate(x.type, x.mode, e.tag, w)
    BY <1>1, SameWalk
  <2>5. Translate(x.type, x.mode, e.tag, FALSE)' = Translate(x.type, x.mode, e.tag, FALSE)
    BY <2>4, Zenon
  <2>6. Agrees(x.type, x.mode, e) => Agrees(x.type, x.mode, e)'
    BY <2>5, SameAgrees
  <2> QED
    BY <1>1, <2>2, <2>3, <2>6 DEF Fresh
<1>3. src \in [TLBType -> SUBSET Source]
  BY DEF Source
<1> HIDE DEF src
<1>4. GoodNext(Invalidate(Cache, TLBType, src))
  BY <1>2, <1>3, InvalidateGood
<1>5. WalkType' /\ PlainSegments'
  BY <1>1 DEF StaleInv, WalkType, PlainSegments, SameRegs
<1> QED
  BY <1>1, <1>4, <1>5, BecomesGood

\* The registers, page tables and TLBs as ppc_mmu_init() leaves them.
Reset ==
    /\ is_601 \in Family
    /\ sr = SrInit /\ sdr1 = Sdr1Init /\ bat = BatInit /\ pt = PtInit /\ tlb = TlbInit

\* No segment is an I/O segment then, and no entry is valid.
LEMMA InitFresh ==
    ASSUME Reset
    PROVE  StaleInv
<1>1. \A s \in Segments : sr[s] \in SrValue /\ ~sr[s].t
  BY PpcMmuValues DEF Reset, SrInit
<1>2. sr \in [Segments -> SrValue]
  BY <1>1 DEF Reset, SrInit
<1>3. sdr1 \in Sdr1Value
  BY PpcMmuValues DEF Reset, Sdr1Init
<1>4. bat \in [TLBType -> [1..NumBats -> BatValue \cup {BatOff}]]
  BY DEF Reset, BatInit
<1>5. ASSUME NEW k \in PteKey PROVE (CHOOSE e \in PteValues(k) : TRUE) \in Pte
  BY PpcMmuValues
<1>6. pt \in [PteKey -> Pte]
  BY <1>5 DEF Reset, PtInit
<1>7. ASSUME NEW x \in Slot PROVE tlb[x] \in Entry /\ Fresh(x.type, x.mode, tlb[x])
  <2>1. tlb[x] = Empty
    BY DEF Reset, TlbInit
  <2>2. Empty \in Entry /\ Empty.tag = TLB_INVALID_TAG
    BY PpcMmuValues DEF Empty, Entry
  <2> QED
    BY <2>1, <2>2 DEF Fresh
<1> QED
  BY <1>1, <1>2, <1>3, <1>4, <1>6, <1>7 DEF Reset, StaleInv, WalkType, PlainSegments

\* Every step keeps the TLBs fresh.
LEMMA StaleStep ==
    ASSUME NoIoSegments, StaleInv, SchedInv, CacheInv, [Next]_vars
    PROVE  StaleInv'
<1>1. ASSUME UNCHANGED <<is_601, regs, pt, tlb, pending, dirty>> PROVE StaleInv'
  <2>1. /\ UNCHANGED <<is_601, sr, sdr1, bat, pt, tlb, pending, dirty>>
        /\ WalkType' /\ PlainSegments'
    BY <1>1 DEF regs, StaleInv, WalkType, PlainSegments
  <2>2. \A t \in TLBType : BatArray(t)' = BatArray(t)
    BY <2>1 DEF BatArray
  <2> QED
    BY <2>1, <2>2, ContextKeeps
<1>2. ASSUME DoCtxSync(Cache), UNCHANGED <<is_601, regs, pt, dirty>> PROVE StaleInv'
  BY <1>2, SyncFresh DEF SameRegs, regs
<1>3. ASSUME Exception PROVE StaleInv'
  BY <1>2, <1>3 DEF Exception
<1>4. CASE Access
  BY <1>3, <1>4, ReadFresh, StoreFresh DEF Access, ReadFault, StoreFault
<1>5. CASE Context
  BY <1>5, SegmentsFresh, BatsFresh, PteFresh, TlbieFresh DEF Context
<1>6. CASE Isync
  BY <1>2, <1>6 DEF Isync
<1>7. CASE MachineCheck \/ UNCHANGED vars
  BY <1>1, <1>7 DEF MachineCheck, vars, cache, sched
<1>8. CASE \E m \in MsrValue : Mtmsr(m) \/ Rfi(m)
  BY <1>1, <1>2, <1>8 DEF Mtmsr, Rfi, cache, sched
<1>9. CASE Restart
  <2>1. Reset'
    BY <1>9 DEF Restart, Reset, StaleInv, WalkType, SrInit, Sdr1Init, BatInit, PtInit, TlbInit
  <2> QED
    BY <2>1, InitFresh, PTL
<1> QED
  BY <1>3, <1>4, <1>5, <1>6, <1>7, <1>8, <1>9 DEF Next

\* StaleInv holds in every reachable state.
LEMMA StaleCorrect ==
    ASSUME NoIoSegments
    PROVE  Spec => []StaleInv
<1>1. Init => StaleInv
  BY InitFresh DEF Init, Reset
<1>2. StaleInv /\ SchedInv /\ CacheInv /\ [Next]_vars => StaleInv'
  BY StaleStep
<1> QED
  BY <1>1, <1>2, SchedCorrect, CacheCorrect, PTL DEF Spec

\* Where no segment register can make an I/O segment of a 601's segment, an
\* entry of a TLB that came from a BAT or from the page table says what a walk
\* would say now, unless its invalidation is waiting or its page table entry is
\* dirty. Refills, promotions, the C bits of stores, context changes,
\* invalidations, exceptions and restarts may come in any order.
THEOREM TranslationsFresh ==
    ASSUME NoIoSegments
    PROVE  Spec => []NoStaleTranslation
<1>1. StaleInv => NoStaleTranslation
  BY DEF StaleInv, Fresh, Agrees, NoStaleTranslation, Cached, Valid, AgreesWithWalk
<1> QED
  BY <1>1, StaleCorrect, PTL

-----------------------------------------------------------------------------
(***************************************************************************)
(* The software-loaded TLBs of the 603.  A cached translation that its own *)
(* page's entry gave is backed by that entry, with the VSID it was made    *)
(* under: whatever evicts the entry evicts the translation, and a change   *)
(* of segments only matters until the next synchronisation.                *)
(***************************************************************************)
PageNo == {x[2] : x \in Pages}
Set603 == 0..(Sets - 1)
Pte603 == [phys : Frames, rw : BOOLEAN, c : BOOLEAN]
Entry603 == {M603!Invalid} \cup
            [valid : {TRUE}, vsid : Vsids, tag : PageNo, pte : Pte603]
Host603 == [kind : M603!Kind, page : PageNo, pte : Pte603, own : BOOLEAN, key : M603!Keys]
Miss603 == {M603!NoMiss} \cup
           [kind : M603!Kind, page : PageNo, way : M603!Way, write : BOOLEAN]

Shape603 ==
    /\ t603 \in [e : [M603!Kind -> [Set603 -> [M603!Way -> Entry603]]],
                 lru : [M603!Kind -> [Set603 -> M603!Way]]]
    /\ host \subseteq Host603 /\ late \in BOOLEAN /\ miss \in Miss603
    /\ pte \in [M603!Keys -> Pte603] /\ seg \in [M603!Segs -> Vsids]
    /\ stale \subseteq M603!Keys

\* an entry e of the page table says what a copy c of it says; the copy may
\* lack the C bit
SaysSame(c, e) == c.phys = e.phys /\ c.rw = e.rw /\ (c.c => e.c)

\* entry x of set s
EntryOk(x, s) ==
    x.valid => /\ M603!SetOf(x.tag) = s
               /\ <<x.vsid, M603!Index(x.tag)>> \notin stale =>
                      SaysSame(x.pte, pte[<<x.vsid, M603!Index(x.tag)>>])

\* the entry that translation h was taken from
Backs(x, h) == x.valid /\ x.tag = h.page /\ x.vsid = h.key[1] /\ x.pte = h.pte

HostOk(h) ==
    /\ ~late => h.key = M603!Key(h.page)
    /\ h.key \notin stale => SaysSame(h.pte, pte[h.key])
    /\ h.own => \E w \in M603!Way : Backs(t603.e[h.kind][M603!SetOf(h.page)][w], h)

Inv603 ==
    /\ Shape603 /\ M603!NoTwins
    /\ \A k \in M603!Kind, s \in Set603, w \in M603!Way : EntryOk(t603.e[k][s][w], s)
    /\ \A h \in host : HostOk(h)

\* A page of the guest has its set, its segment and its page table entry.
LEMMA PageHasKey ==
    ASSUME M603!Geometry, seg \in [M603!Segs -> Vsids], NEW p \in PageNo
    PROVE  /\ M603!SetOf(p) \in Set603 /\ M603!SetOf(M603!Index(p)) = M603!SetOf(p)
           /\ M603!Vsid(p) \in Vsids /\ M603!Key(p) \in M603!Keys
           /\ \A v \in Vsids : <<v, M603!Index(p)>> \in M603!Keys
           /\ M603!Key(p) = <<M603!Vsid(p), M603!Index(p)>>
<1>1. PICK x \in Pages : p = x[2]
  BY DEF PageNo
<1>2. p \in Nat /\ Sets \in Nat \ {0} /\ M603!SetOf(M603!Index(p)) = M603!SetOf(p)
  BY <1>1 DEF M603!Geometry
<1>3. M603!SetOf(p) \in Set603
  BY <1>2 DEF M603!SetOf, Set603
<1>4. M603!Vsid(p) \in Vsids
  BY <1>1 DEF M603!Vsid, M603!Segs
<1>5. \A v \in Vsids : <<v, M603!Index(p)>> \in M603!Keys
  BY <1>1 DEF M603!Keys
<1> QED
  BY <1>2, <1>3, <1>4, <1>5 DEF M603!Key

\* What mmu_603_tlb_load() leaves in each way of each set.
LEMMA LoadedForm ==
    ASSUME M603!Geometry, Shape603, NEW k \in M603!Kind, NEW p \in PageNo,
           NEW w \in M603!Way, NEW x \in Entry603, M603!Loaded(k, p, w, x)
    PROVE  LET other == t603.e[k][M603!SetOf(p)][1 - w]
               twin == other.valid /\ other.vsid = x.vsid
                          /\ M603!Index(other.tag) = M603!Index(p)
           IN  /\ t603' \in [e : [M603!Kind -> [Set603 -> [M603!Way -> Entry603]]],
                             lru : [M603!Kind -> [Set603 -> M603!Way]]]
               /\ t603'.e[k][M603!SetOf(p)][w] = x
               /\ t603'.e[k][M603!SetOf(p)][1 - w] = IF twin THEN M603!Invalid ELSE other
               /\ \A j \in M603!Kind, s \in Set603, v \in M603!Way :
                     j # k \/ s # M603!SetOf(p) => t603'.e[j][s][v] = t603.e[j][s][v]
<1> DEFINE s0 == M603!SetOf(p)
           other == t603.e[k][s0][1 - w]
           twin == other.valid /\ other.vsid = x.vsid
                      /\ M603!Index(other.tag) = M603!Index(p)
           E == [M603!Kind -> [Set603 -> [M603!Way -> Entry603]]]
           L == [M603!Kind -> [Set603 -> M603!Way]]
           y == IF twin THEN M603!Invalid ELSE other
           pair == [v \in M603!Way |-> IF v = w THEN x ELSE y]
           e1 == [t603.e EXCEPT ![k][s0] = pair]
           l1 == [t603.lru EXCEPT ![k][s0] = 1 - w]
<1>1. s0 \in Set603 /\ w \in {0, 1} /\ 1 - w \in {0, 1} /\ 1 - w # w
  BY PageHasKey DEF Shape603, M603!Way
<1>2. t603 \in [e : E, lru : L] /\ t603.e \in E /\ t603.lru \in L
  BY DEF Shape603
<1>3. y \in Entry603
  <2>1. other \in Entry603
    BY <1>1, <1>2 DEF M603!Way
  <2>2. M603!Invalid \in Entry603
    BY DEF Entry603
  <2> QED
    BY <2>1, <2>2
<1> HIDE DEF y
<1>4. pair \in [M603!Way -> Entry603] /\ pair[w] = x /\ pair[1 - w] = y
  BY <1>1, <1>3 DEF M603!Way
<1> HIDE DEF pair
<1>5. e1 \in E /\ e1[k][s0] = pair
  BY <1>1, <1>2, <1>4
<1>6. \A j \in M603!Kind, s \in Set603 : j # k \/ s # s0 => e1[j][s] = t603.e[j][s]
  BY <1>1, <1>2
<1>7. l1 \in L
  BY <1>1, <1>2 DEF M603!Way
<1>8. t603' = [M603!Used(k, p, w) EXCEPT !.e[k][s0] = pair]
  BY DEF M603!Loaded, pair, y
<1> DEFINE u == M603!Used(k, p, w)
<1> HIDE DEF other, twin, E, L
<1>9. u \in [e : E, lru : L] /\ u.e = t603.e
  BY <1>2, <1>7 DEF M603!Used
<1> HIDE DEF s0, u
<1>10. t603' \in [e : E, lru : L] /\ t603'.e = e1
  BY <1>8, <1>5, <1>9 DEF u
<1> HIDE DEF e1
<1>11. t603'.e[k][s0][w] = x /\ t603'.e[k][s0][1 - w] = y
  BY <1>4, <1>5, <1>10
<1>12. \A j \in M603!Kind, s \in Set603, v \in M603!Way :
          j # k \/ s # s0 => t603'.e[j][s][v] = t603.e[j][s][v]
  BY <1>6, <1>10
<1> QED
  BY <1>10, <1>11, <1>12, Zenon DEF y, s0, other, twin, E, L

\* Loading an entry that says what the page table says keeps the TLBs and the
\* caches in agreement: the pages of the old entry and of the new one leave the
\* caches, and a twin takes the backing of its translations with it.
LEMMA LoadedKept ==
    ASSUME M603!Geometry, Inv603, NEW k \in M603!Kind, NEW p \in PageNo,
           NEW w \in M603!Way, NEW e \in Pte603,
           M603!Loaded(k, p, w, M603!EntryOf(p, e)),
           UNCHANGED <<late, seg, stale>>, pte' \in [M603!Keys -> Pte603],
           SaysSame(e, pte'[M603!Key(p)]),
           \A q \in M603!Keys : SaysSame(pte[q], pte'[q]),
           miss' \in Miss603
    PROVE  Inv603'
<1> DEFINE x == M603!EntryOf(p, e)
           s0 == M603!SetOf(p)
           old == t603.e[k][s0][w]
           other == t603.e[k][s0][1 - w]
           twin == other.valid /\ other.vsid = x.vsid /\ M603!Index(other.tag) = M603!Index(p)
           kept == (host \ M603!Cached(k, p)) \ (IF old.valid THEN M603!Cached(k, old.tag) ELSE {})
<1>1. Shape603 /\ seg \in [M603!Segs -> Vsids]
  BY DEF Inv603, Shape603
<1>2. /\ s0 \in Set603 /\ M603!Vsid(p) \in Vsids
      /\ M603!Key(p) = <<M603!Vsid(p), M603!Index(p)>> /\ M603!Key(p) \in M603!Keys
  BY <1>1, PageHasKey
<1>3. /\ x \in Entry603 /\ x.valid = TRUE /\ x.vsid = M603!Vsid(p) /\ x.tag = p /\ x.pte = e
  BY <1>2 DEF M603!EntryOf, Entry603
<1> HIDE DEF x
<1>4. /\ t603' \in [e : [M603!Kind -> [Set603 -> [M603!Way -> Entry603]]],
                    lru : [M603!Kind -> [Set603 -> M603!Way]]]
      /\ t603'.e[k][s0][w] = x
      /\ t603'.e[k][s0][1 - w] = IF twin THEN M603!Invalid ELSE other
      /\ \A j \in M603!Kind, s \in Set603, v \in M603!Way :
            j # k \/ s # s0 => t603'.e[j][s][v] = t603.e[j][s][v]
  BY <1>1, <1>3, LoadedForm DEF x
<1>5. M603!Way = {w, 1 - w} /\ w # 1 - w /\ 1 - w \in M603!Way
  BY DEF M603!Way
<1>6. ~M603!Invalid.valid
  BY DEF M603!Invalid
<1>7. host' = {IF twin /\ h.kind = k /\ h.page = other.tag THEN [h EXCEPT !.own = FALSE] ELSE h :
                  h \in kept}
  BY DEF M603!Loaded, x
<1>8. \A h \in host : h \in Host603 /\ HostOk(h)
  BY DEF Inv603, Shape603
<1>9. ASSUME NEW g \in host'
      PROVE  g \in Host603 /\ HostOk(g)'
  <2>1. PICK h \in kept :
            g = IF twin /\ h.kind = k /\ h.page = other.tag THEN [h EXCEPT !.own = FALSE] ELSE h
    BY <1>7, <1>9
  <2>2. h \in host /\ h \in Host603 /\ HostOk(h)
    BY <1>8
  <2>3. ~(h.kind = k /\ h.page = p) /\ ~(old.valid /\ h.kind = k /\ h.page = old.tag)
    BY <2>2 DEF M603!Cached
  <2>4. /\ g \in Host603 /\ g.kind = h.kind /\ g.page = h.page /\ g.pte = h.pte
        /\ g.key = h.key /\ (g.own => h.own /\ ~(twin /\ h.kind = k /\ h.page = other.tag))
    BY <2>1, <2>2 DEF Host603
  <2>5. h.kind \in M603!Kind /\ h.page \in PageNo /\ h.key \in M603!Keys
    BY <2>2 DEF Host603
  <2>6. M603!SetOf(h.page) \in Set603
    BY <1>1, <2>5, PageHasKey
  <2>7. ~late' => g.key = M603!Key(g.page)'
    BY <2>2, <2>4 DEF HostOk, M603!Key, M603!Vsid
  <2>8. g.key \notin stale' => SaysSame(g.pte, pte'[g.key])
    BY <2>2, <2>4, <2>5 DEF HostOk, SaysSame
  <2>9. ASSUME g.own
        PROVE  \E v \in M603!Way : Backs(t603'.e[g.kind][M603!SetOf(g.page)][v], g)
    <3>1. PICK v \in M603!Way : Backs(t603.e[h.kind][M603!SetOf(h.page)][v], h)
      BY <2>2, <2>4, <2>9 DEF HostOk
    <3>2. CASE h.kind # k \/ M603!SetOf(h.page) # s0
      <4>1. t603'.e[h.kind][M603!SetOf(h.page)][v] = t603.e[h.kind][M603!SetOf(h.page)][v]
        BY <1>4, <2>5, <2>6, <3>2
      <4> QED
        BY <2>4, <3>1, <4>1, ZenonT(60) DEF Backs
    <3>3. CASE h.kind = k /\ M603!SetOf(h.page) = s0
      <4>1. v # w
        BY <2>3, <3>1, <3>3 DEF Backs
      <4>2. v = 1 - w /\ ~twin
        BY <1>5, <2>4, <2>9, <3>1, <3>3, <4>1 DEF Backs
      <4>3. t603'.e[k][s0][v] = t603.e[k][s0][v]
        BY <1>4, <4>2
      <4> QED
        BY <2>4, <3>1, <3>3, <4>3 DEF Backs
    <3> QED
      BY <3>2, <3>3
  <2> QED
    BY <2>4, <2>7, <2>8, <2>9 DEF HostOk
<1>10. ASSUME NEW j \in M603!Kind, NEW s \in Set603, NEW v \in M603!Way
       PROVE  EntryOk(t603.e[j][s][v], s)'
  <2> DEFINE Ok(y) == y.valid => /\ M603!SetOf(y.tag) = s
                                 /\ <<y.vsid, M603!Index(y.tag)>> \notin stale' =>
                                        SaysSame(y.pte, pte'[<<y.vsid, M603!Index(y.tag)>>])
  <2> SUFFICES Ok(t603'.e[j][s][v])
    BY DEF EntryOk
  <2>1. ASSUME NEW y \in Entry603, EntryOk(y, s)
        PROVE  Ok(y)
    <3> SUFFICES ASSUME y.valid
                 PROVE  /\ M603!SetOf(y.tag) = s
                        /\ <<y.vsid, M603!Index(y.tag)>> \notin stale =>
                               SaysSame(y.pte, pte'[<<y.vsid, M603!Index(y.tag)>>])
      OBVIOUS
    <3>1. y.vsid \in Vsids /\ y.tag \in PageNo
      BY <1>6 DEF Entry603
    <3>2. <<y.vsid, M603!Index(y.tag)>> \in M603!Keys
      BY <1>1, <3>1, PageHasKey
    <3> QED
      BY <2>1, <3>2 DEF EntryOk, SaysSame
  <2>2. EntryOk(t603.e[j][s][v], s) /\ t603.e[j][s][v] \in Entry603
    BY DEF Inv603, Shape603
  <2>3. CASE j # k \/ s # s0
    <3>1. t603'.e[j][s][v] = t603.e[j][s][v]
      BY <1>4, <2>3
    <3> QED
      BY <2>1, <2>2, <3>1
  <2>4. CASE j = k /\ s = s0 /\ v = w
    <3>1. Ok(x)
      BY <1>2, <1>3, <2>4
    <3> QED
      BY <1>4, <2>4, <3>1
  <2>5. CASE j = k /\ s = s0 /\ v = 1 - w
    <3>1. Ok(M603!Invalid)
      BY <1>6
    <3>2. t603'.e[j][s][v] = M603!Invalid \/ t603'.e[j][s][v] = t603.e[j][s][v]
      BY <1>4, <2>5
    <3> HIDE DEF Ok
    <3> QED
      BY <2>1, <2>2, <3>1, <3>2
  <2> QED
    BY <1>5, <2>3, <2>4, <2>5
<1>11. M603!NoTwins'
  <2> SUFFICES ASSUME NEW j \in M603!Kind, NEW s \in Set603,
                      t603'.e[j][s][0].valid, t603'.e[j][s][1].valid
               PROVE  <<t603'.e[j][s][0].vsid, M603!Index(t603'.e[j][s][0].tag)>>
                         # <<t603'.e[j][s][1].vsid, M603!Index(t603'.e[j][s][1].tag)>>
    BY DEF M603!NoTwins, Set603
  <2>1. CASE j # k \/ s # s0
    <3>1. t603'.e[j][s][0] = t603.e[j][s][0] /\ t603'.e[j][s][1] = t603.e[j][s][1]
      BY <1>4, <2>1 DEF M603!Way
    <3> QED
      BY <3>1 DEF Inv603, M603!NoTwins, Set603
  <2>2. CASE j = k /\ s = s0
    <3>1. t603'.e[k][s0][w].valid /\ t603'.e[k][s0][1 - w].valid /\ w \in {0, 1}
      BY <2>2, <1>5 DEF M603!Way
    <3>2. t603'.e[k][s0][1 - w] = other /\ ~twin
      BY <1>4, <1>6, <3>1
    <3>3. other.vsid # x.vsid \/ M603!Index(other.tag) # M603!Index(x.tag)
      BY <1>3, <3>1, <3>2
    <3> HIDE DEF other, twin, s0
    <3>4. <<x.vsid, M603!Index(x.tag)>> # <<other.vsid, M603!Index(other.tag)>>
      BY <3>3
    <3> QED
      BY <1>4, <2>2, <3>1, <3>2, <3>4
  <2> QED
    BY <2>1, <2>2
<1>12. Shape603'
  BY <1>1, <1>4, <1>9 DEF Shape603
<1> QED
  BY <1>9, <1>10, <1>11, <1>12 DEF Inv603

\* The TLBs of the 603 start empty.
LEMMA Init603 ==
    ASSUME M603!Geometry, M603!Init
    PROVE  Inv603
<1>0. M603!Invalid \in Entry603 /\ ~M603!Invalid.valid
  BY DEF Entry603, M603!Invalid
<1>1. t603 = [e |-> [k \in M603!Kind |-> [s \in Set603 |-> [w \in M603!Way |-> M603!Invalid]]],
              lru |-> [k \in M603!Kind |-> [s \in Set603 |-> 0]]]
  BY DEF M603!Init, Set603
<1>2. \A k \in M603!Kind, s \in Set603, w \in M603!Way : t603.e[k][s][w] = M603!Invalid
  BY <1>1
<1>3. pte \in [M603!Keys -> Pte603]
  <2>1. (CHOOSE f \in Frames : TRUE) \in Frames
    BY DEF M603!Geometry
  <2> QED
    BY <2>1 DEF M603!Init, Pte603
<1>4. Shape603
  <2>1. t603 \in [e : [M603!Kind -> [Set603 -> [M603!Way -> Entry603]]],
                  lru : [M603!Kind -> [Set603 -> M603!Way]]]
    BY <1>0, <1>1 DEF M603!Way
  <2> QED
    BY <1>3, <2>1 DEF M603!Init, Shape603, Miss603
<1>5. M603!NoTwins
  BY <1>0, <1>2 DEF M603!NoTwins, Set603, M603!Way
<1> QED
  BY <1>0, <1>2, <1>4, <1>5 DEF Inv603, EntryOk, M603!Init

\* A step that leaves the entries, the page table and the segments alone.
LEMMA HostKept ==
    ASSUME Inv603, t603'.e = t603.e, UNCHANGED <<pte, seg, stale>>,
           t603' \in [e : [M603!Kind -> [Set603 -> [M603!Way -> Entry603]]],
                      lru : [M603!Kind -> [Set603 -> M603!Way]]],
           late' \in BOOLEAN, miss' \in Miss603,
           \A h \in host' : late' = late /\ h \in Host603 /\ HostOk(h)
    PROVE  Inv603'
<1>1. Shape603'
  BY DEF Inv603, Shape603
<1>2. M603!NoTwins'
  BY DEF Inv603, M603!NoTwins
<1>3. \A k \in M603!Kind, s \in Set603, w \in M603!Way : EntryOk(t603.e[k][s][w], s)'
  BY DEF Inv603, EntryOk
<1>4. ASSUME NEW h \in host' PROVE HostOk(h)'
  BY <1>4 DEF HostOk, M603!Key, M603!Vsid
<1> QED
  BY <1>1, <1>2, <1>3, <1>4 DEF Inv603

\* mpc603_page_address_translation() caches what the entry it hit says, for the
\* page that was accessed; a miss or a fault synchronises.
LEMMA Access603 ==
    ASSUME M603!Geometry, Inv603, NEW k, NEW p, NEW write \in BOOLEAN,
           M603!Access(k, p, write)
    PROVE  Inv603'
<1> DEFINE E == [M603!Kind -> [Set603 -> [M603!Way -> Entry603]]]
           L == [M603!Kind -> [Set603 -> M603!Way]]
           s0 == M603!SetOf(p)
<1>1. k \in M603!Kind /\ p \in PageNo
  <2>1. <<k, p>> \in Pages /\ <<k, p>>[1] = k /\ <<k, p>>[2] = p
    BY DEF M603!Access
  <2>2. \A y \in Pages : y[1] \in M603!Kind /\ y[2] \in PageNo
    BY DEF PageNo, M603!Geometry
  <2> QED
    BY <2>1, <2>2
<1>2. /\ Shape603 /\ t603 \in [e : E, lru : L] /\ t603.e \in E /\ t603.lru \in L
      /\ seg \in [M603!Segs -> Vsids] /\ late \in BOOLEAN /\ miss \in Miss603
  BY DEF Inv603, Shape603
<1>3. s0 \in Set603 /\ M603!Key(p) \in M603!Keys /\ M603!Key(p) = <<M603!Vsid(p), M603!Index(p)>>
  BY <1>1, <1>2, PageHasKey
<1>4. UNCHANGED <<pte, seg, stale>>
  BY DEF M603!Access
<1>5. \A h \in host : h \in Host603 /\ HostOk(h)
  BY DEF Inv603, Shape603
<1>6. ASSUME NEW w \in M603!Way, M603!Takes(k, p, write, w)
      PROVE  late' \in BOOLEAN /\ miss' \in Miss603 /\ \A h \in host' : late' = late /\ h \in host
  BY <1>1, <1>2, <1>6 DEF M603!Takes, Miss603
<1>7. CASE UNCHANGED <<t603, host, late, miss>>
  BY <1>2, <1>4, <1>5, <1>7, HostKept
<1>8. CASE M603!Takes(k, p, write, M603!VictimWay(k, p)) /\ UNCHANGED t603
  <2>1. M603!VictimWay(k, p) \in M603!Way
    BY <1>1, <1>2, <1>3 DEF M603!VictimWay, M603!Way
  <2> QED
    BY <1>2, <1>4, <1>5, <1>6, <1>8, <2>1, HostKept
<1>9. ASSUME NEW w \in M603!Hits(k, p), t603' = M603!Used(k, p, w),
             LET x == t603.e[k][s0][w]
             IN  \/ host' = (IF late THEN {} ELSE host) /\ late' = FALSE /\ miss' = miss
                 \/ M603!Takes(k, p, write, w)
                 \/ /\ host' = (host \ M603!Cached(k, p)) \cup
                          {[kind |-> k, page |-> p, pte |-> x.pte,
                            own |-> x.tag = p, key |-> M603!Key(p)]}
                    /\ UNCHANGED <<late, miss>>
      PROVE  Inv603'
  <2> DEFINE x == t603.e[k][s0][w]
             new == [kind |-> k, page |-> p, pte |-> x.pte, own |-> x.tag = p,
                     key |-> M603!Key(p)]
  <2>1. w \in M603!Way /\ x.valid /\ x.vsid = M603!Vsid(p) /\ M603!Index(x.tag) = M603!Index(p)
    BY <1>9 DEF M603!Hits
  <2>2. x \in Entry603 /\ EntryOk(x, s0)
    BY <1>1, <1>2, <1>3, <2>1 DEF Inv603
  <2>3. t603' \in [e : E, lru : L] /\ t603'.e = t603.e
    <3>1. 1 - w \in M603!Way
      BY <2>1 DEF M603!Way
    <3>2. [t603.lru EXCEPT ![k][s0] = 1 - w] \in L
      BY <1>1, <1>2, <1>3, <3>1
    <3> HIDE DEF E, L
    <3> QED
      BY <1>2, <1>9, <3>2 DEF M603!Used
  <2> HIDE DEF E, L
  <2>4. new \in Host603 /\ HostOk(new)
    <3>1. x.pte \in Pte603
      <4> HIDE DEF x
      <4>1. ~M603!Invalid.valid
        BY DEF M603!Invalid
      <4> QED
        BY <2>1, <2>2, <4>1 DEF Entry603
    <3>2. <<x.vsid, M603!Index(x.tag)>> = M603!Key(p)
      BY <1>3, <2>1
    <3>3. M603!Key(p) \notin stale => SaysSame(x.pte, pte[M603!Key(p)])
      BY <2>1, <2>2, <3>2 DEF EntryOk
    <3>4. M603!Key(p)[1] = M603!Vsid(p)
      BY <1>3
    <3> HIDE DEF x
    <3>5. /\ new.kind = k /\ new.page = p /\ new.pte = x.pte /\ new.own = (x.tag = p)
          /\ new.key = M603!Key(p)
      OBVIOUS
    <3>6. new \in Host603
      BY <1>1, <1>3, <3>1 DEF Host603
    <3> HIDE DEF new
    <3>7. new.own => Backs(x, new)
      BY <2>1, <3>4, <3>5 DEF Backs
    <3> QED
      BY <2>1, <3>3, <3>5, <3>6, <3>7 DEF HostOk, x
  <2> HIDE DEF x, new, s0
  <2>5. CASE host' = (IF late THEN {} ELSE host) /\ late' = FALSE /\ miss' = miss
    BY <1>2, <1>4, <1>5, <2>3, <2>5, HostKept DEF E, L
  <2>6. CASE M603!Takes(k, p, write, w)
    BY <1>2, <1>4, <1>5, <1>6, <2>1, <2>3, <2>6, HostKept DEF E, L
  <2>7. CASE host' = (host \ M603!Cached(k, p)) \cup {new} /\ UNCHANGED <<late, miss>>
    <3>1. \A h \in host' : late' = late /\ h \in Host603 /\ HostOk(h)
      BY <1>5, <2>4, <2>7
    <3> QED
      BY <1>2, <1>4, <2>3, <2>7, <3>1, HostKept DEF E, L
  <2> QED
    BY <1>9, <2>5, <2>6, <2>7 DEF new, x, s0
<1>10. \/ UNCHANGED <<t603, host, late, miss>>
       \/ M603!Takes(k, p, write, M603!VictimWay(k, p)) /\ UNCHANGED t603
       \/ \E w \in M603!Hits(k, p) :
             LET x == t603.e[k][s0][w]
             IN  /\ t603' = M603!Used(k, p, w)
                 /\ \/ host' = (IF late THEN {} ELSE host) /\ late' = FALSE /\ miss' = miss
                    \/ M603!Takes(k, p, write, w)
                    \/ /\ host' = (host \ M603!Cached(k, p)) \cup
                             {[kind |-> k, page |-> p, pte |-> x.pte,
                               own |-> x.tag = p, key |-> M603!Key(p)]}
                       /\ UNCHANGED <<late, miss>>
  BY DEF M603!Access
<1> QED
  BY <1>7, <1>8, <1>9, <1>10

\* The guest's miss handler loads the entry of its page table and may set its C
\* bit; a load ahead of use copies the entry as it is.
LEMMA Handler603 ==
    ASSUME M603!Geometry, Inv603,
           \/ M603!Handler
           \/ \E x \in Pages, w \in M603!Way : M603!Preload(x[1], x[2], w)
    PROVE  Inv603'
<1>1. /\ seg \in [M603!Segs -> Vsids] /\ pte \in [M603!Keys -> Pte603]
      /\ miss \in Miss603 /\ M603!NoMiss \in Miss603
  BY DEF Inv603, Shape603, Miss603
<1>2. \A q \in M603!Keys : SaysSame(pte[q], pte[q])
  BY DEF SaysSame
<1>3. CASE M603!Handler
  <2> DEFINE p == miss.page
             key == M603!Key(p)
             e == [pte[key] EXCEPT !.c = @ \/ (miss.write /\ pte[key].rw)]
  <2>1. miss # M603!NoMiss
    BY <1>3 DEF M603!Handler
  <2>2. p \in PageNo /\ miss.kind \in M603!Kind /\ miss.way \in M603!Way /\ miss.write \in BOOLEAN
    BY <1>1, <2>1 DEF Miss603
  <2>3. /\ M603!Loaded(miss.kind, p, miss.way, M603!EntryOf(p, e))
        /\ pte' = [pte EXCEPT ![key] = e]
        /\ miss' = M603!NoMiss /\ UNCHANGED <<late, seg, stale>>
    BY <1>3 DEF M603!Handler
  <2>4. key \in M603!Keys
    BY <1>1, <2>2, PageHasKey
  <2>5. pte[key] \in Pte603
    BY <1>1, <2>4
  <2>6. e \in Pte603 /\ SaysSame(pte[key], e) /\ SaysSame(e, e)
    BY <2>2, <2>5 DEF Pte603, SaysSame
  <2> HIDE DEF e, key
  <2>7. /\ pte' \in [M603!Keys -> Pte603] /\ pte'[key] = e
        /\ \A q \in M603!Keys : q # key => pte'[q] = pte[q]
    BY <1>1, <2>3, <2>4, <2>6
  <2>8. \A q \in M603!Keys : SaysSame(pte[q], pte'[q])
    BY <1>2, <2>6, <2>7
  <2> QED
    BY <1>1, <2>2, <2>3, <2>6, <2>7, <2>8, LoadedKept DEF key
<1>4. ASSUME NEW x \in Pages, NEW w \in M603!Way, M603!Preload(x[1], x[2], w)
      PROVE  Inv603'
  <2>1. x[1] \in M603!Kind /\ x[2] \in PageNo
    BY DEF PageNo, M603!Geometry
  <2>2. M603!Key(x[2]) \in M603!Keys
    BY <1>1, <2>1, PageHasKey
  <2>3. /\ M603!Loaded(x[1], x[2], w, M603!EntryOf(x[2], pte[M603!Key(x[2])]))
        /\ UNCHANGED <<late, miss, pte, seg, stale>>
    BY <1>4 DEF M603!Preload
  <2>4. pte[M603!Key(x[2])] \in Pte603
    BY <1>1, <2>2
  <2> QED
    BY <1>1, <1>2, <2>1, <2>2, <2>3, <2>4, LoadedKept
<1> QED
  BY <1>3, <1>4

\* tlbie clears the set of a page in both TLBs, which is where every entry of
\* the page table entries that it declares current again is kept.
LEMMA Tlbie603 ==
    ASSUME M603!Geometry, Inv603, NEW p \in PageNo, M603!Tlbie(p)
    PROVE  Inv603'
<1> DEFINE E == [M603!Kind -> [Set603 -> [M603!Way -> Entry603]]]
           L == [M603!Kind -> [Set603 -> M603!Way]]
           s0 == M603!SetOf(p)
           none == [w \in M603!Way |-> M603!Invalid]
           e1 == [k \in M603!Kind |-> [t603.e[k] EXCEPT ![s0] = none]]
<1>1. /\ t603 \in [e : E, lru : L] /\ t603.e \in E /\ stale \subseteq M603!Keys
      /\ seg \in [M603!Segs -> Vsids] /\ miss \in Miss603 /\ late \in BOOLEAN
      /\ pte \in [M603!Keys -> Pte603]
  BY DEF Inv603, Shape603
<1>2. /\ host' = {} /\ UNCHANGED <<late, miss, pte, seg>>
      /\ stale' = {q \in stale : q[2] % Sets # s0}
      /\ t603' = [t603 EXCEPT !.e = e1]
  BY DEF M603!Tlbie
<1>3. M603!Invalid \in Entry603 /\ ~M603!Invalid.valid
  BY DEF Entry603, M603!Invalid
<1>4. e1 \in E
  BY <1>1, <1>3
<1>5. \A k \in M603!Kind, w \in M603!Way : s0 \in Set603 => e1[k][s0][w] = M603!Invalid
  BY <1>1
<1>6. \A k \in M603!Kind, s \in Set603, w \in M603!Way : s # s0 => e1[k][s][w] = t603.e[k][s][w]
  BY <1>1
<1> HIDE DEF e1, none, E, L
<1>7. t603'.e = e1 /\ t603' \in [e : E, lru : L]
  BY <1>1, <1>2, <1>4
<1>8. Shape603'
  BY <1>1, <1>2, <1>7 DEF Shape603, E, L
<1>9. M603!NoTwins'
  <2> SUFFICES ASSUME NEW k \in M603!Kind, NEW s \in Set603, e1[k][s][0].valid, e1[k][s][1].valid
               PROVE  <<e1[k][s][0].vsid, M603!Index(e1[k][s][0].tag)>>
                         # <<e1[k][s][1].vsid, M603!Index(e1[k][s][1].tag)>>
    BY <1>7 DEF M603!NoTwins, Set603
  <2>1. s # s0
    BY <1>3, <1>5 DEF M603!Way
  <2>2. e1[k][s][0] = t603.e[k][s][0] /\ e1[k][s][1] = t603.e[k][s][1]
    BY <1>6, <2>1 DEF M603!Way
  <2> QED
    BY <2>2 DEF Inv603, M603!NoTwins, Set603
<1>10. ASSUME NEW k \in M603!Kind, NEW s \in Set603, NEW w \in M603!Way
       PROVE  EntryOk(t603.e[k][s][w], s)'
  <2> DEFINE x == e1[k][s][w]
             q == <<x.vsid, M603!Index(x.tag)>>
  <2> SUFFICES ASSUME x.valid
               PROVE  M603!SetOf(x.tag) = s /\ (q \notin stale' => SaysSame(x.pte, pte[q]))
    BY <1>2, <1>7 DEF EntryOk
  <2>1. s # s0
    BY <1>3, <1>5
  <2>2. x = t603.e[k][s][w]
    BY <1>6, <2>1
  <2>3. EntryOk(x, s) /\ x \in Entry603
    BY <1>1, <2>2 DEF Inv603, E
  <2>4. M603!SetOf(x.tag) = s
    BY <2>3 DEF EntryOk
  <2>5. x.tag \in PageNo
    <3> HIDE DEF x
    <3> QED
      BY <1>3, <2>3 DEF Entry603
  <2>6. M603!SetOf(M603!Index(x.tag)) = s
    BY <1>1, <2>4, <2>5, PageHasKey
  <2>7. q[2] % Sets = s
    BY <2>6 DEF M603!SetOf
  <2>8. q \notin stale' => q \notin stale
    BY <1>2, <2>1, <2>7
  <2> QED
    BY <2>3, <2>4, <2>8 DEF EntryOk
<1> QED
  BY <1>2, <1>8, <1>9, <1>10 DEF Inv603

\* Every operation keeps the TLBs and the caches in agreement.
LEMMA Step603 ==
    ASSUME M603!Geometry, Inv603, [M603!Next]_(M603!vars)
    PROVE  Inv603'
<1>1. /\ Shape603 /\ late \in BOOLEAN /\ miss \in Miss603 /\ seg \in [M603!Segs -> Vsids]
      /\ pte \in [M603!Keys -> Pte603] /\ stale \subseteq M603!Keys
      /\ \A h \in host : h \in Host603 /\ HostOk(h)
  BY DEF Inv603, Shape603
<1>2. CASE UNCHANGED M603!vars
  <2>1. UNCHANGED <<t603, host, late, miss, pte, seg, stale>>
    BY <1>2 DEF M603!vars
  <2> QED
    BY <1>1, <2>1, HostKept DEF Shape603
<1>3. ASSUME NEW x \in Pages, NEW write \in BOOLEAN, M603!Access(x[1], x[2], write)
      PROVE  Inv603'
  BY <1>3, Access603
<1>4. ASSUME NEW x \in Pages, M603!Tlbie(x[2])
      PROVE  Inv603'
  BY <1>4, Tlbie603 DEF PageNo
<1>5. CASE M603!Isync
  <2>1. host' = {} /\ late' = FALSE /\ UNCHANGED <<t603, miss, pte, seg, stale>>
    BY <1>5 DEF M603!Isync
  <2> QED
    BY <1>1, <2>1, HostKept DEF Shape603
<1>6. ASSUME NEW s \in M603!Segs, NEW v \in Vsids, M603!Mtsr(s, v)
      PROVE  Inv603'
  <2>1. /\ seg' = [seg EXCEPT ![s] = v] /\ late' = TRUE
        /\ UNCHANGED <<t603, host, miss, pte, stale>>
    BY <1>6 DEF M603!Mtsr
  <2>2. Shape603'
    BY <1>1, <2>1 DEF Shape603
  <2>3. M603!NoTwins'
    BY <2>1 DEF Inv603, M603!NoTwins
  <2>4. \A k \in M603!Kind, c \in Set603, w \in M603!Way : EntryOk(t603.e[k][c][w], c)'
    BY <2>1 DEF Inv603, EntryOk
  <2>5. \A h \in host' : HostOk(h)'
    BY <1>1, <2>1 DEF HostOk
  <2> QED
    BY <2>2, <2>3, <2>4, <2>5 DEF Inv603
<1>7. ASSUME NEW q \in Written, NEW e \in Pte603, M603!WritePte(q, e)
      PROVE  Inv603'
  <2>1. /\ pte' = [pte EXCEPT ![q] = e] /\ stale' = stale \cup {q}
        /\ UNCHANGED <<t603, host, late, miss, seg>> /\ q \in M603!Keys
    BY <1>7 DEF M603!WritePte, M603!Geometry
  <2>2. Shape603'
    BY <1>1, <2>1 DEF Shape603
  <2>3. M603!NoTwins'
    BY <2>1 DEF Inv603, M603!NoTwins
  <2>4. \A r : r \notin stale' => r \notin stale /\ pte'[r] = pte[r]
    BY <1>1, <2>1
  <2>5. \A k \in M603!Kind, s \in Set603, w \in M603!Way : EntryOk(t603.e[k][s][w], s)'
    BY <2>1, <2>4 DEF Inv603, EntryOk
  <2>6. \A h \in host' : HostOk(h)'
    BY <1>1, <2>1, <2>4 DEF HostOk, M603!Key, M603!Vsid
  <2> QED
    BY <2>2, <2>3, <2>5, <2>6 DEF Inv603
<1>8. \A f \in Frames, rw \in BOOLEAN : [phys |-> f, rw |-> rw, c |-> FALSE] \in Pte603
  BY DEF Pte603
<1>9. CASE M603!Next
  BY <1>3, <1>4, <1>5, <1>6, <1>7, <1>8, <1>9, Handler603 DEF M603!Next
<1> QED
  BY <1>2, <1>9

\* An own translation that no change of segments made old is backed by a hit,
\* and a set has no second one.
LEMMA Promises603 ==
    ASSUME M603!Geometry, Inv603
    PROVE  M603!Tlb603OK
<1>1. M603!NoTwins
  BY DEF Inv603
<1>2. M603!TlbAgrees
  <2>1. ASSUME NEW k \in M603!Kind, NEW s \in 0..(Sets - 1), NEW w \in M603!Way
        PROVE  EntryOk(t603.e[k][s][w], s)
    BY DEF Inv603, Set603
  <2>2. \A h \in host : HostOk(h)
    BY DEF Inv603
  <2> QED
    BY <2>1, <2>2, ZenonT(60) DEF M603!TlbAgrees, EntryOk, HostOk, SaysSame
<1>3. M603!CachedIsLoaded
  <2> SUFFICES ASSUME NEW h \in host, h.own, ~late
               PROVE  /\ M603!Hits(h.kind, h.page) # {}
                      /\ \A v \in M603!Hits(h.kind, h.page) :
                            LET x == t603.e[h.kind][M603!SetOf(h.page)][v]
                            IN  x.tag = h.page => x.pte = h.pte
    BY DEF M603!CachedIsLoaded
  <2>1. HostOk(h) /\ h.kind \in M603!Kind /\ h.page \in PageNo /\ seg \in [M603!Segs -> Vsids]
    BY DEF Inv603, Shape603, Host603
  <2> DEFINE s == M603!SetOf(h.page)
             x(v) == t603.e[h.kind][s][v]
  <2>2. s \in Set603 /\ h.key = <<M603!Vsid(h.page), M603!Index(h.page)>>
    BY <2>1, PageHasKey DEF HostOk
  <2>3. PICK w \in M603!Way : Backs(x(w), h)
    BY <2>1 DEF HostOk
  <2>4. w \in M603!Hits(h.kind, h.page)
    <3>1. /\ x(w).valid /\ x(w).vsid = M603!Vsid(h.page) /\ x(w).tag = h.page
      BY <2>2, <2>3 DEF Backs
    <3> QED
      BY <3>1 DEF M603!Hits
  <2>5. ASSUME NEW v \in M603!Hits(h.kind, h.page) PROVE v = w
    <3>1. /\ x(v).valid /\ x(v).vsid = x(w).vsid
          /\ M603!Index(x(v).tag) = M603!Index(x(w).tag) /\ x(w).valid
      BY <2>2, <2>3, <2>5 DEF M603!Hits, Backs
    <3>2. v \in {0, 1} /\ w \in {0, 1}
      BY <2>3, <2>5 DEF M603!Hits, M603!Way
    <3>3. x(0).valid /\ x(1).valid => <<x(0).vsid, M603!Index(x(0).tag)>>
                                         # <<x(1).vsid, M603!Index(x(1).tag)>>
      BY <1>1, <2>1, <2>2 DEF M603!NoTwins, Set603
    <3> HIDE DEF x
    <3> QED
      BY <3>1, <3>2, <3>3
  <2> QED
    BY <2>3, <2>4, <2>5 DEF Backs
<1> QED
  BY <1>1, <1>2, <1>3 DEF M603!Tlb603OK

-----------------------------------------------------------------------------
\* What TypeOK says that the other invariants do not.
RestType == msr \in MsrValue /\ callbacks \subseteq TLBType /\ dirty \subseteq PteKey

\* The MSR takes values of the guest or is cleared, and only entries of the page
\* table are dirty.
LEMMA RestCorrect == Spec => []RestType
<1>1. Init => RestType
  BY PpcMmuAssumption DEF Init, RestType
<1>2. RestType /\ [Next]_vars => RestType'
  <2> SUFFICES ASSUME RestType, [Next]_vars PROVE RestType'
    OBVIOUS
  <2>1. callbacks' \subseteq TLBType
    BY NextSched DEF SchedStep, sched, Schedule, RestType
  <2>2. ASSUME UNCHANGED <<msr, dirty>> PROVE msr' \in MsrValue /\ dirty' \subseteq PteKey
    BY <2>2 DEF RestType
  <2>3. ASSUME NEW c, Done(c) PROVE UNCHANGED <<msr, dirty>>
    BY <2>3 DEF Done
  <2>4. ASSUME Exception PROVE msr' \in MsrValue /\ dirty' \subseteq PteKey
    BY <2>4, PpcMmuAssumption DEF Exception, RestType
  <2>5. CASE Access
    <3>1. ASSUME NEW t \in TLBType, NEW p \in Page, Read(t, p) PROVE UNCHANGED <<msr, dirty>>
      BY <2>3, <3>1 DEF Read
    <3>2. ASSUME NEW p \in Page, Store(p) PROVE UNCHANGED <<msr, dirty>>
      BY <2>3, <3>2 DEF Store
    <3> QED
      BY <2>1, <2>2, <2>4, <2>5, <3>1, <3>2 DEF Access, ReadFault, StoreFault, RestType
  <2>6. CASE Context
    <3>1. ASSUME NEW k \in PteKey, NEW e, WritePte(k, e)
          PROVE  msr' \in MsrValue /\ dirty' \subseteq PteKey
      BY <3>1 DEF WritePte, RestType
    <3>2. ASSUME NEW p \in Page, Tlbie(p)
          PROVE  msr' \in MsrValue /\ dirty' \subseteq PteKey
      BY <3>2 DEF Tlbie, RestType
    <3> QED
      BY <2>1, <2>2, <2>6, <3>1, <3>2 DEF Context, Mtsr, MtSdr1, MtBat, RestType
  <2>7. CASE MachineCheck \/ Restart \/ Isync \/ UNCHANGED vars
    BY <2>1, <2>7, PpcMmuAssumption DEF MachineCheck, Restart, Isync, vars, RestType
  <2>8. CASE \E m \in MsrValue : Mtmsr(m) \/ Rfi(m)
    BY <2>1, <2>8 DEF Mtmsr, Rfi, RestType
  <2> QED
    BY <2>1, <2>4, <2>5, <2>6, <2>7, <2>8 DEF Next, RestType
<1> QED
  BY <1>1, <1>2, PTL DEF Spec

\* The TLBs hold what the refill functions make of the tables, and on the 603,
\* for any geometry in which a set keeps a page of every segment, no set holds a
\* page twice (mmu_603_tlb_load()), TLBs and caches say what the page table says
\* until the guest changes it without tlbie, and what the caches hold of a page
\* is in the guest's TLB, whatever was loaded, evicted or invalidated before.
THEOREM TablesAgree ==
    ASSUME NoIoSegments
    PROVE  MCSpec => []TablesOK
<1>1. MCInit => Init /\ M603!Init
  BY DEF MCInit
<1>2. [MCNext]_mcVars => [Next]_vars
  BY DEF MCNext, mcVars
<1>3. [MCNext]_mcVars => [M603!Next]_(M603!vars)
  BY DEF MCNext, mcVars, vars603, M603!vars
<1>4. M603!Init => Inv603
  BY GeometryOK, Init603
<1>5. Inv603 /\ [M603!Next]_(M603!vars) => Inv603'
  BY GeometryOK, Step603
<1>6. SchedInv /\ CacheInv /\ StaleInv /\ RestType => TypeOK
  <2> SUFFICES ASSUME SchedInv, CacheInv, StaleInv, RestType PROVE TypeOK
    OBVIOUS
  <2>1. \A x \in Slot : tlb[x] \in Entry /\ tracked[x] \in Nat
    BY DEF CacheInv, Exact, Cache, StaleInv
  <2> QED
    BY <2>1 DEF SchedInv, StaleInv, WalkType, RestType, TypeOK
<1>7. TypeOK /\ Inv603 => TablesOK
  BY GeometryOK, Promises603 DEF TablesOK
<1>8. Spec => []TypeOK
  BY <1>6, SchedCorrect, CacheCorrect, StaleCorrect, RestCorrect, PTL
<1> QED
  BY <1>1, <1>2, <1>3, <1>4, <1>5, <1>7, <1>8, PTL DEF MCSpec, Spec
=============================================================================
