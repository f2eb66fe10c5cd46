------------------------------- MODULE MemMap -------------------------------
(* The physical address map of MemCtrlBase (devices/memctrl/memctrlbase.cpp) *)
(* as operators on the sequence address_map.  Memory regions are inserted by *)
(* start address, MMIO regions and mirrors are appended, and an address      *)
(* belongs to the first entry that contains it.  An entry's id is its        *)
(* pointer; host is the block of host memory it shows, from where, and the   *)
(* size of that block.                                                       *)
EXTENDS Integers, Sequences, SequencesExt, FiniteSetsExt

Entry(i, s, n, kind, dev, host) ==
    [id |-> i, s |-> s, e |-> s + n - 1, kind |-> kind, dev |-> dev,
     host |-> host]

NoHost == [block |-> 0, off |-> 0, size |-> 0]
Covers(en, a) == en.s <= a /\ a <= en.e
Overlap(en, s, e) == e >= en.s /\ s <= en.e

\* find_range(): the index of the first entry with the address, 0 for none.
FindRange(map, a) ==
    LET hits == {i \in DOMAIN map : Covers(map[i], a)}
    IN  IF hits = {} THEN 0 ELSE Min(hits)

IsRangeFree(map, s, n) ==
    n > 0 => \A i \in DOMAIN map :
                 /\ ~ (s = map[i].s /\ s + n - 1 = map[i].e)
                 /\ ~ (s >= map[i].s /\ s + n - 1 <= map[i].e)
                 /\ ~ Overlap(map[i], s, s + n - 1)

\* mutant: behind everything that is there
InsertPosLast(map, s) == Len(map) + 1

\* The place std::upper_bound() finds.  The entries need not be sorted, so it
\* is the place the binary search ends at.
InsertPos(map, s) ==
    LET search[first \in 0 .. Len(map), len \in 0 .. Len(map)] ==
            LET half == len \div 2
                mid == first + half
            IN  IF len = 0 THEN first
                ELSE IF s < map[mid + 1].s THEN search[first, half]
                ELSE search[mid + 1, len - half - 1]
    IN  search[0, Len(map)] + 1

\* add_mem_region(): RAM or ROM, in fresh host memory or in the caller's.
AddMem(map, i, s, n, kind, host) ==
    IF ~ IsRangeFree(map, s, n) THEN map
    ELSE InsertAt(map, InsertPos(map, s), Entry(i, s, n, {kind}, "none", host))

Fresh(i, n) == [block |-> i, off |-> 0, size |-> n]

AddMmio(map, i, s, n, dev) ==
    IF ~ IsRangeFree(map, s, n) THEN map
    ELSE Append(map, Entry(i, s, n, {"mmio"}, dev, NoHost))

MirrorFits(ref, off, n) == ref.s + off + n - 1 <= ref.e

\* add_mem_mirror_common(): n = 0 takes the size of the origin; no check that
\* the range of the mirror itself is free.
AddMirror(map, i, s, dest, off, n) ==
    LET r == FindRange(map, dest)
        size == IF n = 0 THEN map[r].e - map[r].s + 1 ELSE n
    IN  IF r = 0 THEN map
        ELSE IF ~ MirrorFits(map[r], off, size) THEN map
        ELSE Append(map, Entry(i, s, size, map[r].kind \cup {"mirror"}, "none",
                               [map[r].host EXCEPT !.off = @ + off]))

\* remove_mmio_region() drops every entry with exactly this range and device.
RemoveMmio(map, s, n, dev) ==
    SelectSeq(map, LAMBDA en : ~ (en.s = s /\ en.e = s + n - 1 /\ en.dev = dev))

RemoveRegion(map, i) == SelectSeq(map, LAMBDA en : en.id # i)

\* get_region_hostmem_ptr(): the kinds are sets of flags, so the comparison
\* with RT_MIRROR alone never holds and a mirror counts from its own start.
HostPtr(map, a) ==
    LET r == FindRange(map, a)
    IN  IF r = 0 THEN NoHost
        ELSE IF map[r].kind = {"mmio"} THEN NoHost
        ELSE [map[r].host EXCEPT !.off = @ + a - map[r].s]

\* What find_range() promises: among the entries that contain the address, it
\* is the one added first.
FindsOldest(map, addrs) ==
    \A a \in addrs : LET r == FindRange(map, a) IN
        r # 0 => \A j \in DOMAIN map : Covers(map[j], a) => map[r].id <= map[j].id

\* The host pointers handed out for the ends of every entry with host memory
\* lie inside a block.
HostInside(map) ==
    \A i \in DOMAIN map : \A a \in {map[i].s, map[i].e} :
        LET h == HostPtr(map, a) IN h.block # 0 => h.off < h.size
=============================================================================
