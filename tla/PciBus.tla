------------------------------- MODULE PciBus -------------------------------
(* The PCI buses (devices/common/pci): base address registers and expansion  *)
(* ROMs that move regions of the address map, configuration cycles and I/O   *)
(* cycles that find their device through bridges, and interrupt lines.       *)
(* part says which of them moves.        Addresses are pages; page 0 is RAM,  *)
(* as in every machine.  A register that is being sized reads as the mask.   *)
EXTENDS MemMap

CONSTANTS Pages, Buses

VARIABLES part, map, dev, bus, win, int

vars == <<part, map, dev, bus, win, int>>

(* ------------------- base address registers and ROMs -------------------- *)
\* How a device class reacts to a new base address: the Mac I/O chips give up
\* the old region and claim the new one even at 0, GrandCentral never gives
\* up a region, the video chips claim nothing at 0.
Classes == {"macio", "gc", "video"}

RamEntry == Entry(1, 0, 1, {"ram"}, <<0, "ram">>, Fresh(1, 1))

\* base is what the device thinks it decodes, 0 for nothing; taken says that
\* another region was in the way when it asked last.
NewDev(c) ==
    [class |-> c, bar |-> 0, base |-> 0, taken |-> FALSE,
     rombar |-> 0, romen |-> FALSE, rom |-> 0, romtaken |-> FALSE]

Mask == -1
RomName(d) == <<d, "rom">>
BarName(d) == <<d, "bar">>

\* pci_register_mmio_region() and pci_unregister_mmio_region() of the host.
Register(m, id, a, name) == AddMmio(m, id, a, 1, name)
Unregister(m, a, name) == RemoveMmio(m, a, 1, name)

\* The names in the map are pairs here, so ids are not needed to tell entries
\* apart.
Given(m, a) == IsRangeFree(m, a, 1)

\* mutant: the old region stays
MovedKeep(m, c, name, old, new) ==
    IF new = 0 /\ c = "video" THEN m ELSE Register(m, 2, new, name)

\* change_one_bar(), MacIoBase::notify_bar_change() and
\* GrandCentral::notify_bar_change().
Moved(m, c, name, old, new) ==
    LET gone == IF old # 0 /\ c # "gc" THEN Unregister(m, old, name) ELSE m
    IN  IF new = 0 /\ c = "video" THEN gone ELSE Register(gone, 2, new, name)

\* set_bar_value(): the register takes the value, and the device hears of it
\* unless the guest is sizing.
WriteBar(d, value) ==
    LET x == dev[d]
        after == IF x.base # 0 /\ x.class # "gc"
                 THEN Unregister(map, x.base, BarName(d)) ELSE map
    IN  /\ part = "bars" /\ UNCHANGED <<part, bus, win, int>>
        /\ IF value = Mask
           THEN dev' = [dev EXCEPT ![d].bar = -1] /\ UNCHANGED map
           ELSE IF value = x.base
           THEN dev' = [dev EXCEPT ![d].bar = value] /\ UNCHANGED map
           ELSE /\ map' = Moved(map, x.class, BarName(d), x.base, value)
                /\ dev' = [dev EXCEPT ![d].bar = value, ![d].base = value,
                                      ![d].taken = ~ Given(after, value)]

\* attach_exp_rom_image(): the size of the window in units of the smallest, a
\* power of two that holds the image.
MaxRom == 40
RomSize(n) ==
    LET grow[k \in 0 .. 7] == IF 2 ^ k >= n \/ k = 7 THEN 2 ^ k ELSE grow[k + 1]
    IN  grow[0]

\* map_exp_rom_mem() and unmap_exp_rom_mem().
RomMoved(m, d, old, new) ==
    LET gone == IF old # 0 THEN Unregister(m, old, RomName(d)) ELSE m
    IN  IF new = 0 THEN gone
        ELSE IF new = old THEN m
        ELSE Register(gone, 2, new, RomName(d))

\* pci_wr_exp_rom_bar(): sizing changes the register only.
WriteRomBar(d, value, enable) ==
    LET x == dev[d]
        new == IF enable THEN value ELSE 0
        after == IF x.rom # 0 THEN Unregister(map, x.rom, RomName(d)) ELSE map
    IN  /\ part = "bars" /\ x.class = "video" /\ UNCHANGED <<part, bus, win, int>>
        /\ IF value = Mask
           THEN dev' = [dev EXCEPT ![d].rombar = -1, ![d].romen = enable] /\ UNCHANGED map
           ELSE /\ map' = RomMoved(map, d, x.rom, new)
                /\ dev' = [dev EXCEPT ![d].rombar = value, ![d].romen = enable,
                                      ![d].rom = new,
                                      ![d].romtaken = IF new = x.rom THEN @
                                                      ELSE ~ Given(after, new)]

BarStep ==
    \E d \in DOMAIN dev, v \in Pages \cup {Mask} :
        \/ WriteBar(d, v)
        \/ \E en \in BOOLEAN : WriteRomBar(d, v, en)

(* ----------------------- configuration cycles --------------------------- *)
\* Bus 0 holds the bridges P and R and a device; Q is behind P.  Every bus has
\* one device at slot 1.
Bridge == {"P", "Q", "R"}
BridgesOn(h) == CASE h = "host" -> <<"P", "R">> [] h = "P" -> <<"Q">> [] OTHER -> <<>>
Slot(h) == [host |-> h, slot |-> 1]
None == [host |-> "none", slot |-> 0]

Forwards(b, n) == bus[b].sec <= n /\ bus[b].sub >= n

\* pci_find_device(): the first bridge whose range holds the bus number takes
\* the cycle, whether or not the device is there.  depth is that of the tree.
Finds(h0, n0) ==
    LET find[depth \in 0 .. 3, h \in Bridge \cup {"host"}] ==
            LET on == BridgesOn(h)
                hits == {i \in DOMAIN on : bus[on[i]].sec = n0 \/ Forwards(on[i], n0)}
            IN  IF depth = 0 \/ hits = {} THEN None
                ELSE LET b == on[Min(hits)] IN
                     IF bus[b].sec = n0 THEN Slot(b) ELSE find[depth - 1, b]
    IN  find[3, h0]

\* cfg_setup() of MPC106 and of Bandit: bus 0 is asked directly.
ConfigCycle(n) == IF n = 0 THEN Slot("host") ELSE Finds("host", n)

\* WHAT_BIT_SET of bandit.cpp: the top five bits of the constant 0x077CB531
\* shifted left by the bit's position index a table.
DeBruijnBits ==
    <<1,0,0,0, 1,1,0,0, 1,0,1,0, 1,1,0,1, 0,0,1,1, 1,1,1,0, 1,1,1,0, 0,0,0,0>>
DeBruijnPosition ==
    <<0, 1, 28, 2, 29, 14, 24, 3, 30, 22, 20, 15, 25, 17, 4, 8,
      31, 27, 13, 23, 21, 19, 16, 7, 26, 12, 18, 6, 11, 5, 10, 9>>
WhatBitSet(k) ==
    LET bit(i) == IF i < 0 THEN 0 ELSE DeBruijnBits[i + 1]
        top == bit(27 - k) + (2 * bit(28 - k)) + (4 * bit(29 - k))
                   + (8 * bit(30 - k)) + (16 * bit(31 - k))
    IN  DeBruijnPosition[top + 1]

\* cfg_setup() of BanditHost for a type 0 cycle: idsel is the set of address
\* lines that are up, and only a single one selects a device.
BanditSelects(idsel) ==
    IF Cardinality(idsel) = 1 THEN WhatBitSet(CHOOSE k \in idsel : TRUE) ELSE -1

\* PCIBridgeBase::pci_cfg_write() of the bus numbers; a guest that counts the
\* buses opens a bridge up to the last number and closes it later.
WriteBusNumbers(b, sec, sub) ==
    /\ part = "buses"
    /\ bus' = [bus EXCEPT ![b] = [sec |-> sec, sub |-> sub]]
    /\ UNCHANGED <<part, map, dev, win, int>>

(* ------------------------------ I/O cycles ------------------------------ *)
\* The windows of a bridge: from base up to and without limit, if I/O space is
\* enabled in its command register.  R is a CardBus bridge with two.
NewWindow == [on |-> FALSE, base |-> 0, limit |-> 1, base2 |-> 0, limit2 |-> 0]

WriteCommand(b, on) ==
    /\ part = "io" /\ win' = [win EXCEPT ![b].on = on]
    /\ UNCHANGED <<part, map, dev, bus, int>>

\* The written limit is the number of the last block.
WriteWindow(b, first, last) ==
    /\ part = "io" /\ b # "R"
    /\ win' = [win EXCEPT ![b].base = first, ![b].limit = last + 1]
    /\ UNCHANGED <<part, map, dev, bus, int>>

\* PCICardbusBridge::pci_cfg_write(): the registers of the second window lead
\* to the first.
CardWriteWindow(second, first, last) ==
    /\ part = "io" /\ second \in BOOLEAN
    /\ win' = [win EXCEPT !["R"].base = first, !["R"].limit = last + 1]
    /\ UNCHANGED <<part, map, dev, bus, int>>

\* pci_io_read() and pci_io_write() of the two kinds of bridges.
Outside(a, n, base, limit) == a < base \/ a + n >= limit

BridgePasses(w, a, n) == w.on /\ ~ Outside(a, n, w.base, w.limit)

CardPasses(w, a, n) ==
    /\ w.on
    /\ ~ (Outside(a, n, w.base, w.limit) /\ Outside(a, n, w.base2, w.limit2))

Passes(b, a, n) ==
    IF b = "R" THEN CardPasses(win[b], a, n) ELSE BridgePasses(win[b], a, n)

\* pci_io_read_loop(): the first device that takes the cycle; the device
\* behind a bridge takes what reaches it at its port.
Port(h) == CASE h = "P" -> 1 [] h = "Q" -> 2 [] OTHER -> 3

IoCycle(h0, a, n) ==
    LET io[depth \in 0 .. 3, h \in Bridge \cup {"host"}] ==
            LET on == BridgesOn(h)
                answers == [i \in DOMAIN on |->
                    IF Passes(on[i], a, n) /\ depth > 0
                    THEN io[depth - 1, on[i]] ELSE "none"]
                hits == {i \in DOMAIN on : answers[i] # "none"}
            IN  IF h # "host" /\ a <= Port(h) /\ Port(h) < a + n THEN h
                ELSE IF hits = {} THEN "none" ELSE answers[Min(hits)]
    IN  io[3, h0]

(* ------------------------------ interrupts ------------------------------ *)
\* A device finds its line at its first interrupt: that of its slot, or that
\* of the bridge it is behind (register_pci_int()).  ctrl is the level the
\* interrupt controller holds, muted that a change fell into a time when the
\* command register disabled interrupts.
IntDevs == {"a", "b", "c"}
LineOf(d) == IF d = "a" THEN "slotA" ELSE "slotP"

NewInt ==
    [level |-> [d \in IntDevs |-> FALSE], off |-> [d \in IntDevs |-> FALSE],
     muted |-> [d \in IntDevs |-> FALSE], line |-> [d \in IntDevs |-> "none"],
     ctrl |-> [l \in {"slotA", "slotP"} |-> FALSE], funs |-> {}, multi |-> FALSE]

PciInterrupt(d, up) ==
    /\ part = "ints"
    /\ int' = IF int.off[d]
              THEN [int EXCEPT !.level[d] = up, !.muted[d] = TRUE]
              ELSE [int EXCEPT !.level[d] = up, !.muted[d] = FALSE,
                               !.line[d] = LineOf(d), !.ctrl[LineOf(d)] = up]
    /\ UNCHANGED <<part, map, dev, bus, win>>

WriteIntDisable(d, off) ==
    /\ part = "ints" /\ int' = [int EXCEPT !.off[d] = off]
    /\ UNCHANGED <<part, map, dev, bus, win>>

(* ------------------------------- functions ------------------------------ *)
\* pci_register_device(): int.funs are the functions of one slot, int.multi the
\* flag in the header of function 0; a function that is there is replaced.
RegisterDevice(f) ==
    /\ part = "slots"
    /\ LET others == int.funs \ {f} IN
       int' = [int EXCEPT !.funs = others \cup {f},
                          !.multi = IF f = 0 THEN others # {}
                                    ELSE 0 \in others \/ @]
    /\ UNCHANGED <<part, map, dev, bus, win>>

(* ------------------------------- byte lanes ----------------------------- *)
\* Configuration data crosses from the big-endian processor: words of four
\* digits to a base, for which 2 is enough to tell lanes apart.
Digit == 2
Shl(v, k) == v * Digit ^ k
Shr(v, k) == v \div Digit ^ k
Low(v, k) == v % Digit ^ k
Swap16(v) == (Low(v, 1) * Digit) + Low(Shr(v, 1), 1)
Swap32(v) == Shl(Swap16(Low(v, 2)), 2) + Swap16(Shr(v, 2))
Rotl(v, k) == Low(Shl(v, k), 4) + Shr(v, 4 - k)

\* pci_conv_rd_data()
ConvRd(v, v2, n, o) ==
    CASE n = 1 -> Low(Shr(v, o), 1)
      [] n = 2 /\ o < 3 -> Swap16(Low(Shr(v, o), 2))
      [] n = 2 /\ o = 3 -> Shl(Shr(v, 3), 1) + Low(v2, 1)
      [] n = 4 -> Swap32(Low(Shr(Shl(v2, 4) + v, o), 4))

\* pci_conv_wr_data()
ConvWr(v1, v2, n, o) ==
    CASE n = 1 -> v1 - Shl(Low(Shr(v1, o), 1), o) + Shl(v2, o)
      [] n = 2 /\ o < 3 -> v1 - Shl(Low(Shr(v1, o), 2), o) + Shl(Swap16(v2), o)
      [] n = 2 /\ o = 3 -> Shl(Low(Shr(v1, 1), 2), 1) + Shl(Shr(v2, 1), 3) + Low(v2, 1)
      [] n = 4 -> Rotl(Swap32(v2), o)

(* ------------------------------------------------------------------------ *)
Init ==
    /\ part \in {"bars", "buses", "io", "ints", "slots"}
    /\ map = <<RamEntry>>
    /\ dev \in IF part = "bars" THEN {<<NewDev(c), NewDev("video")>> : c \in Classes}
               ELSE {<<NewDev("gc"), NewDev("video")>>}
    /\ bus = [b \in Bridge |-> [sec |-> 0, sub |-> 0]]
    /\ win = [b \in Bridge |-> NewWindow]
    /\ int = NewInt

Next ==
    \/ BarStep
    \/ \E b \in Bridge, s, t \in Buses : WriteBusNumbers(b, s, t)
    \/ \E b \in Bridge, on \in BOOLEAN : WriteCommand(b, on)
    \/ \E b \in Bridge, f, l \in 0 .. 3 : WriteWindow(b, f, l)
    \/ \E second \in BOOLEAN, f, l \in 0 .. 3 : CardWriteWindow(second, f, l)
    \/ \E f \in 0 .. 2 : RegisterDevice(f)
    \/ \E d \in IntDevs, up \in BOOLEAN : PciInterrupt(d, up) \/ WriteIntDisable(d, up)

Spec == Init /\ [][Next]_vars

Names == {map[i].dev : i \in DOMAIN map}
RegionsOf(name) == {i \in DOMAIN map : map[i].dev = name}

\* Whatever order the guest sizes, moves, swaps, enables and disables base
\* address registers in, a device has one region at its last address and none
\* after it gave the address up, unless another region was in the way when it
\* asked; the regions GrandCentral leaves behind are the only stale ones.
RegionsFollowBars ==
    part = "bars" => \A d \in DOMAIN dev :
        LET x == dev[d]
            bars == RegionsOf(BarName(d))
            roms == RegionsOf(RomName(d))
        IN  /\ x.class # "gc" => Cardinality(bars) <= 1
            /\ (x.base # 0 /\ ~ x.taken) => \E i \in bars : map[i].s = x.base
            /\ (x.taken \/ x.base = 0) /\ x.class # "gc" => bars = {}
            /\ x.bar >= 0 => x.bar = x.base
            /\ Cardinality(roms) <= 1
            /\ (x.rom # 0 /\ ~ x.romtaken) => \E i \in roms : map[i].s = x.rom
            /\ (x.rombar >= 0 /\ ~ x.romen) => roms = {}
            /\ \A n \in 1 .. MaxRom : RomSize(n) >= n /\ RomSize(n) < 2 * n

Nested(b, c) == bus[b].sec <= bus[c].sec /\ bus[c].sub <= bus[b].sub
Numbered ==
    /\ \A b \in Bridge : 0 < bus[b].sec /\ bus[b].sec <= bus[b].sub
    /\ Nested("P", "Q") /\ bus["Q"].sec > bus["P"].sec
    /\ bus["P"].sub < bus["R"].sec \/ bus["R"].sub < bus["P"].sec

\* Once the guest has numbered the buses, a configuration cycle reaches the
\* device on the bus it names, and a number behind no bridge reaches none; the
\* select lines name slots and function 0 says whether its slot has others.
RoutesByNumber ==
    /\ (part = "slots" /\ 0 \in int.funs) => (int.multi <=> int.funs # {0})
    /\ part = "slots" => \A k \in 0 .. 31 : BanditSelects({k}) = k
    /\ (part = "buses" /\ Numbered) =>
           /\ \A b \in Bridge : ConfigCycle(bus[b].sec) = Slot(b)
           /\ \A n \in Buses \ {0} :
                  ConfigCycle(n) # None => \E b \in Bridge : n = bus[b].sec

\* An I/O cycle only reaches a device whose bridges all have the whole access
\* in their windows, and reaches it if it ends short of the last port.
IoStaysInWindows ==
    part = "io" => \A a \in 0 .. 3, n \in {1, 2} :
        LET hit == IoCycle("host", a, n)
            in(b) == win[b].on /\ a >= win[b].base /\ a + n <= win[b].limit
            short(b) == in(b) /\ a + n < win[b].limit
            path(b) == IF b = "Q" THEN {"P", "Q"} ELSE {b}
        IN  /\ hit # "none" => \A b \in path(hit) : in(b)
            /\ \A d \in Bridge :
                   (/\ a = Port(d) /\ n = 1 /\ \A b \in path(d) : short(b)) => hit = d

\* The controller holds the level of the device that has the line to itself,
\* except for changes made while the device had interrupts disabled; a line
\* that is up belongs to a device that raised it.
LinesFollow ==
    part = "ints" =>
        /\ ~ int.muted["a"] => int.ctrl["slotA"] = int.level["a"]
        /\ (int.ctrl["slotP"] /\ ~ int.muted["b"] /\ ~ int.muted["c"])
               => int.level["b"] \/ int.level["c"]

\* What the guest writes to a lane of a configuration register it reads back,
\* for all sizes and offsets, and the other lanes keep their digits.
LanesAgree ==
    (part = "ints" /\ int = NewInt) => \A v1, w \in 0 .. Digit ^ 4 - 1, n \in {1, 2, 4}, o \in 0 .. 3 :
        LET v2 == Low(w, n)
            now == ConvWr(v1, v2, n, o)
        IN  /\ now \in 0 .. Digit ^ 4 - 1
            /\ ConvRd(now, now, n, o) = v2
            /\ \A k \in 0 .. 3 : k \notin {(o + j) % 4 : j \in 0 .. n - 1}
                   => Low(Shr(now, k), 1) = Low(Shr(v1, k), 1)
=============================================================================
