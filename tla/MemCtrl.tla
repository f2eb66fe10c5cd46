------------------------------- MODULE MemCtrl ------------------------------
(* The memory controllers that lay out RAM in the address map of MemMap:     *)
(* HMC (devices/memctrl/hmc.cpp) moves its second bank when its serial       *)
(* control register says so, the MPC106 (mpc106.cpp) maps the union of its   *)
(* enabled banks when MEMGO rises, PSX (psx.cpp) maps pages to banks,        *)
(* Platinum (platinum.cpp) places banks at base addresses and Aspen          *)
(* (aspen.cpp) adds the aliases the firmware sizes memory with.  ctl.kind    *)
(* says which one the machine has; "plain" is the address map by itself,     *)
(* under any calls.                                                          *)
EXTENDS MemMap

CONSTANTS Addr, MaxAdds, MaxGos, Pages, PageBanks, RegPages, Bases, BankSizes

VARIABLES map, ctl

vars == <<map, ctl>>

(* ------------------------------ any calls ------------------------------- *)
NewPlain == [kind |-> "plain", nid |-> 1]

PlainAdd(new) ==
    /\ ctl.kind = "plain" /\ ctl.nid <= MaxAdds
    /\ map' = new
    /\ ctl' = [ctl EXCEPT !.nid = @ + 1]

PlainStep ==
    \/ \E s \in Addr, n \in 1 .. 2, k \in {"ram", "rom"} :
           PlainAdd(AddMem(map, ctl.nid, s, n, k, Fresh(ctl.nid, n)))
    \/ \E s \in Addr, n \in 1 .. 2 : PlainAdd(AddMmio(map, ctl.nid, s, n, "dev"))
    \/ \E s, d \in Addr, off \in 0 .. 1, n \in 0 .. 2 :
           \* mirrors are made of memory
           /\ FindRange(map, d) # 0
           /\ "mmio" \notin map[FindRange(map, d)].kind
           /\ PlainAdd(AddMirror(map, ctl.nid, s, d, off, n))

PlainRemove ==
    /\ ctl.kind = "plain" /\ UNCHANGED ctl
    /\ \/ \E s \in Addr, n \in 1 .. 2 : map' = RemoveMmio(map, s, n, "dev")
       \/ \E i \in DOMAIN map : map' = RemoveRegion(map, map[i].id)

(* --------------------------------- HMC ---------------------------------- *)
\* Addresses in units of 64 KB.
MB(n) == 16 * n
CtrlBits == 35
RamCfgPos == 29
BankBStart == MB(128)
BankAAlias == MB(256)
HmcBankB == 90

\* What is in the map before the RAM: the registers of HMC, of AMIC and of the
\* machine ID, the ROM and its mirror at the reset vector.
PdmMap ==
    LET m1 == AddMmio(<<>>, 1, 20724, 1, "hmc")
        m2 == AddMmio(m1, 2, 20720, 4, "amic")
        m3 == AddMmio(m2, 3, 24575, 1, "id")
        m4 == AddMem(m3, 4, MB(1024), MB(4), "rom", Fresh(4, MB(4)))
    IN  AddMirror(m4, 5, MB(4092), MB(1024), 0, 0)

\* The aliases of a bank smaller than 8 MB below the given address.
Aliases(m, id, top, bank, size) ==
    FoldLeft(LAMBDA acc, k : AddMirror(acc, id + k, top - MB(8) + (k * size), bank, 0, 0),
             m, IF size < MB(8) THEN [k \in 1 .. (MB(8) \div size) - 1 |-> k]
                ELSE <<>>)

InstallA(m, a) ==
    IF a = 0 THEN m
    ELSE LET m1 == AddMem(m, 20, BankAAlias, a, "ram", Fresh(20, a))
             m2 == IF a > MB(120)
                   THEN AddMirror(m1, 21, MB(8), BankAAlias, MB(8), MB(120))
                   ELSE AddMirror(m1, 21, MB(8), BankAAlias, 0, a)
         IN  Aliases(m2, 22, BankBStart, BankAAlias, a)

InstallB(m, b) ==
    IF b = 0 THEN m
    ELSE Aliases(AddMem(m, HmcBankB, BankBStart, b, "ram", Fresh(HmcBankB, b)),
                 50, BankAAlias, BankBStart, b)

InstallRam(a, b) ==
    InstallB(InstallA(AddMem(PdmMap, 10, 0, MB(8), "ram", Fresh(10, MB(8))), a), b)

NewHmc(b) ==
    [kind |-> "hmc", pos |-> 0, reg |-> [i \in 0 .. 1 |-> 0], cfg |-> 0,
     bstart |-> BankBStart, bsize |-> b]

BankBAddr(cfg) ==
    CASE cfg = 0 -> BankBStart [] cfg = 1 -> MB(8) + MB(2)
      [] cfg = 2 -> MB(8) + MB(8) [] cfg = 3 -> MB(8) + MB(32)

\* remap_ram_regions() moves whatever find_range() finds at bank B's address.
Remapped(m, from, to) ==
    LET r == FindRange(m, from)
    IN  [m EXCEPT ![r].e = to + @ - m[r].s, ![r].s = to]

HmcRead ==
    /\ ctl.kind = "hmc" /\ UNCHANGED map
    /\ ctl' = [ctl EXCEPT !.pos = (@ + 1) % CtrlBits]

HmcWrite(bit) ==
    /\ ctl.kind = "hmc"
    /\ LET reg == [i \in 0 .. 1 |-> IF ctl.pos = RamCfgPos + i THEN bit
                                    ELSE ctl.reg[i]]
           full == ctl.pos + 1 >= CtrlBits
           cfg == IF full THEN reg[0] + (2 * reg[1]) ELSE ctl.cfg
           to == BankBAddr(cfg)
           moves == /\ cfg # ctl.cfg /\ ctl.bsize > 0 /\ ctl.bstart # to
                    /\ FindRange(map, ctl.bstart) # 0
       IN  /\ ctl' = [ctl EXCEPT !.reg = reg, !.cfg = cfg,
                                 !.pos = IF full THEN 0 ELSE @ + 1,
                                 !.bstart = IF moves THEN to ELSE @]
           /\ map' = IF moves THEN Remapped(map, ctl.bstart, to) ELSE map

HmcReset ==
    /\ ctl.kind = "hmc" /\ UNCHANGED map
    /\ ctl' = [ctl EXCEPT !.pos = 0]

(* -------------------------------- MPC106 -------------------------------- *)
\* regs is the sequence of enabled banks as the guest left them; goes counts
\* the rising edges of MEMGO.
NewGrackle(banks) ==
    [kind |-> "mpc106", regs |-> banks, first |-> <<>>, go |-> FALSE, goes |-> 0]

Squash(regions, b) ==
    IF regions # <<>> /\ b.s <= Last(regions).e + 1
    THEN Append(Front(regions),
                [Last(regions) EXCEPT !.e = IF b.e > @ THEN b.e ELSE @])
    ELSE Append(regions, b)

\* setup_ram(): the banks by start address, squashed into regions.
SetupRam(m, banks, id) ==
    LET sorted == SortSeq(banks, LAMBDA x, y : x.s < y.s)
        regions == FoldLeft(Squash, <<>>, sorted)
    IN  FoldLeft(LAMBDA acc, k :
                     AddMem(acc, id + k, regions[k].s, regions[k].e - regions[k].s + 1,
                            "ram", Fresh(id + k, regions[k].e - regions[k].s + 1)),
                 m, [k \in 1 .. Len(regions) |-> k])

GrackleWriteMccr1 ==
    /\ ctl.kind = "mpc106"
    /\ ctl.go \/ ctl.goes < MaxGos
    /\ map' = IF ctl.go THEN map ELSE SetupRam(map, ctl.regs, 10 * (ctl.goes + 1))
    /\ ctl' = [ctl EXCEPT !.go = ~ @,
                          !.first = IF ~ ctl.go /\ ctl.goes = 0 THEN ctl.regs ELSE @,
                          !.goes = IF ctl.go THEN @ ELSE @ + 1]

GrackleWriteBank(i, b) ==
    /\ ctl.kind = "mpc106" /\ i \in DOMAIN ctl.regs /\ ~ ctl.go /\ ctl.goes > 0
    /\ ctl' = [ctl EXCEPT !.regs[i] = b]
    /\ UNCHANGED map

(* ---------------------------- PSX and Platinum -------------------------- *)
\* One block of host memory, -1, is dealt out to the regions in order.
Dram(off, total) == [block |-> -1, off |-> off, size |-> total]
Total(size) == FoldFunction(LAMBDA x, y : x + y, 0, size)
NotRam(m) == SelectSeq(m, LAMBDA en : en.kind # {"ram"})

NewPsx(size) ==
    [kind |-> "psx", cfg |-> [p \in 1 .. Pages |-> 15], size |-> size]

PsxStart == [m |-> <<>>, open |-> -1, used |-> 0, rest |-> <<>>]

PsxWants(acc, bank) == bank \in DOMAIN acc.rest /\ acc.rest[bank] > 0

\* One page of the loop of map_phys_ram(): a region opens at the first page
\* with memory and closes at the first without.
PsxPage(acc, p, bank, total) ==
    LET wants == PsxWants(acc, bank)
        n == p - acc.open
        closed == [acc EXCEPT !.m = AddMem(@, p, acc.open, n, "ram",
                                           Dram(acc.used, total)),
                              !.used = @ + n, !.open = -1]
        next == IF acc.open = -1 /\ wants THEN [acc EXCEPT !.open = p]
                ELSE IF acc.open # -1 /\ ~ wants THEN closed ELSE acc
    IN  IF next.open # -1 THEN [next EXCEPT !.rest[bank] = @ - 1] ELSE next

\* The page behind the last one belongs to no bank and closes what is open.
PsxMapPhysRam(m, cfg, size) ==
    FoldLeft(LAMBDA acc, p : PsxPage(acc, p, IF p > Pages THEN 8 ELSE cfg[p], Total(size)),
             [PsxStart EXCEPT !.m = NotRam(m), !.rest = size],
             [p \in 1 .. Pages + 1 |-> p]).m

PsxWritePages(r, banks) ==
    /\ ctl.kind = "psx"
    /\ LET cfg == [p \in 1 .. Pages |->
                       IF (p - 1) \div RegPages = r THEN banks[((p - 1) % RegPages) + 1]
                       ELSE ctl.cfg[p]]
       IN  /\ ctl' = [ctl EXCEPT !.cfg = cfg]
           /\ map' = PsxMapPhysRam(map, cfg, ctl.size)

NewPlatinum(size) ==
    [kind |-> "platinum", base |-> [b \in DOMAIN size |-> 0], size |-> size]

\* The end of the region that starts at s: one pass over the banks in order.
RegionEnd(base, size, s) ==
    FoldLeft(LAMBDA e, b : IF size[b] > 0 /\ base[b] <= e /\ base[b] + size[b] > e
                           THEN base[b] + size[b] ELSE e,
             s, [b \in 1 .. Len(size) |-> b])

NextStarts(base, size, e) ==
    {base[b] : b \in {x \in DOMAIN size : size[x] > 0 /\ base[x] >= e}}

\* map_phys_ram() of Platinum: as many regions as banks at most.
PlatinumMapPhysRam(m, base, size) ==
    LET step(acc, k) ==
            LET starts == NextStarts(base, size, acc.e)
                s == Min(starts)
                e == RegionEnd(base, size, s)
            IN  IF starts = {} THEN acc
                ELSE [m |-> AddMem(acc.m, 10 + k, s, e - s, "ram",
                                   Dram(acc.off, Total(size))),
                      e |-> e, off |-> acc.off + e - s]
    IN  FoldLeft(step, [m |-> NotRam(m), e |-> 0, off |-> 0],
                 [k \in 1 .. Len(size) + 1 |-> k]).m

PlatinumWriteBase(b, a) ==
    /\ ctl.kind = "platinum"
    /\ ctl' = [ctl EXCEPT !.base[b] = a]
    /\ map' = PlatinumMapPhysRam(map, ctl'.base, ctl.size)

(* --------------------------------- Aspen -------------------------------- *)
\* Addresses in units of 256 bytes: a bank has a window of 16 MB.
AspenMB(n) == 4096 * n

\* Where the alias page of a bank lies, from the rows and columns its chips
\* decode: 9, 10 or 11 of each.
AliasOffset(size) ==
    CASE size = 1 -> 0 [] size = 4 -> 2 [] OTHER -> 6

AspenBank(m, i, size) ==
    LET at == AspenMB(16 * (i - 1))
        off == AliasOffset(size)
        m1 == AddMem(m, i, at, AspenMB(size), "ram", Fresh(i, AspenMB(size)))
        alias(x, id, where) == AddMirror(x, id, at + where, at + off, off, 16)
        m2 == alias(m1, 10 + i, AspenMB(12) + 16)
        m3 == IF size < 16 THEN alias(m2, 20 + i, AspenMB(12)) ELSE m2
    IN  IF size = 0 THEN m
        ELSE IF size < 8 THEN alias(m3, 30 + i, AspenMB(4)) ELSE m3

NewAspen(sizes) == [kind |-> "aspen", sizes |-> sizes, cfg |-> 0]

\* The guest's RAM configuration is kept and moves nothing.
AspenWrite(v) ==
    /\ ctl.kind = "aspen" /\ UNCHANGED map
    /\ ctl' = [ctl EXCEPT !.cfg = v]

AspenMap(sizes) ==
    FoldLeft(LAMBDA m, i : AspenBank(m, i, sizes[i]), <<>>, <<1, 2, 3, 4>>)

(* ------------------------------------------------------------------------ *)
Ranges == {r \in [s : Bases, e : Bases] : r.s <= r.e}
BoardSizes == {MB(n) : n \in {0, 2, 4, 8, 16, 32, 64, 128}}
HighMmio == AddMmio(<<>>, 1, 1000, 1, "regs")

Init ==
    \/ ctl = NewPlain /\ map = <<>>
    \/ \E a, b \in BoardSizes :
           /\ b # 0 => a = b
           /\ ctl = NewHmc(b) /\ map = InstallRam(a, b)
    \/ \E banks \in UNION {[1 .. n -> Ranges] : n \in 1 .. 3} :
           ctl = NewGrackle(banks) /\ map = HighMmio
    \/ \E size \in [PageBanks -> BankSizes] : ctl = NewPsx(size) /\ map = HighMmio
    \/ \E size \in [1 .. 3 -> BankSizes] : ctl = NewPlatinum(size) /\ map = HighMmio
    \/ \E sizes \in [1 .. 4 -> {0, 1, 4, 8, 16}] :
           ctl = NewAspen(sizes) /\ map = AspenMap(sizes)

Next ==
    \/ PlainStep \/ PlainRemove
    \/ HmcRead \/ HmcReset \/ \E bit \in 0 .. 1 : HmcWrite(bit)
    \/ GrackleWriteMccr1
    \/ \E b \in Ranges : GrackleWriteBank(1, b)
    \/ \E r \in 0 .. (Pages \div RegPages) - 1,
          banks \in [1 .. RegPages -> PageBanks \cup {15}] : PsxWritePages(r, banks)
    \/ \E b \in 1 .. 3, a \in Bases : PlatinumWriteBase(b, a)
    \/ \E v \in 0 .. 1 : AspenWrite(v)

Spec == Init /\ [][Next]_vars

Ram(en) == "ram" \in en.kind
RamAt == {a \in Bases \cup {Max(Bases) + x : x \in 1 .. 2} :
              LET r == FindRange(map, a) IN r # 0 /\ Ram(map[r])}

\* Overlapping entries can only come from mirrors, and the older one answers;
\* every entry stays inside the host memory it shows.
MapSound ==
    /\ HostInside(map)
    /\ ctl.kind \notin {"hmc", "platinum"} => FindsOldest(map, Addr)
    /\ \A i, j \in DOMAIN map :
           (i < j /\ "mirror" \notin map[i].kind \cup map[j].kind /\ ctl.kind # "hmc")
               => ~ Overlap(map[i], map[j].s, map[j].e)

\* What HMC moves when its configuration changes is always bank B, although
\* the map is searched by address while the first bank's mirror may lie there.
BankBFound ==
    (ctl.kind = "hmc" /\ ctl.bsize > 0)
        => /\ map[FindRange(map, ctl.bstart)].id = HmcBankB
           /\ ctl.bstart = BankBAddr(ctl.cfg)

\* MEMGO maps exactly the addresses of the enabled banks, however they overlap,
\* and writing the registers again takes no memory away.
BanksMapped ==
    (ctl.kind = "mpc106" /\ ctl.goes > 0)
        => LET of(banks) == UNION {banks[i].s .. banks[i].e : i \in DOMAIN banks}
           IN  IF ctl.goes = 1 THEN RamAt = of(ctl.first)
               ELSE of(ctl.first) \subseteq RamAt

\* The regions of one controller never show the same byte of memory twice and
\* never more than there is; a PSX page is mapped while its bank lasts, and
\* Platinum maps every bank that no other bank overlaps.
DramDealtOnce ==
    ctl.kind \in {"psx", "platinum"} =>
        /\ \A i, j \in DOMAIN map :
               (i < j /\ Ram(map[i]) /\ Ram(map[j]))
                   => \/ map[i].host.off + map[i].e - map[i].s < map[j].host.off
                      \/ map[j].host.off + map[j].e - map[j].s < map[i].host.off
        /\ ctl.kind = "psx" =>
               \A p \in 1 .. Pages :
                   (p \in RamAt) <=> /\ ctl.cfg[p] \in PageBanks
                                     /\ Cardinality({q \in 1 .. p : ctl.cfg[q] = ctl.cfg[p]})
                                            <= ctl.size[ctl.cfg[p]]
        /\ (ctl.kind = "platinum" /\ \E i \in DOMAIN map : Ram(map[i])) =>
               LET cells(b) == ctl.base[b] .. (ctl.base[b] + ctl.size[b] - 1)
               IN  /\ RamAt \subseteq UNION {cells(b) : b \in 1 .. 3}
                   /\ \A b \in 1 .. 3 :
                          (\A c \in 1 .. 3 \ {b} : cells(b) \cap cells(c) = {})
                              => cells(b) \subseteq RamAt
=============================================================================
