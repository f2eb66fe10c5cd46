------------------------------ MODULE IoDecode ------------------------------
(***************************************************************************)
(* Where the guest's accesses and the devices' interrupts go in the I/O    *)
(* controllers: the address decoders of read() and write() in              *)
(* grandcentral.cpp, maciotwo.cpp, amic.cpp and primetime.cpp, and the     *)
(* tables of register_dev_int() and register_dma_int().                    *)
(***************************************************************************)
EXTENDS Integers, FiniteSets, TLC

Chips == {"GrandCentral", "OHare", "Heathrow", "AMIC", "PrimeTime"}

\* Both directions of a decoder are sets of <<pages, unit>>; a page that no
\* entry names belongs to the chip's own registers or is not mapped.
Unit(table, page) ==
    IF \E e \in table : page \in e[1]
    THEN (CHOOSE e \in table : page \in e[1])[2]
    ELSE "own"

\* GrandCentral::read(), device space 0x10000 and DMA space 0x8000: page is
\* the sub-device (0 to 15), or 32 + the number of the DMA channel
GcIobus == {<<{10 + n}, <<"iobus", n>>>> : n \in 0..5}
GcRead ==
    {<<{0}, "curio">>, <<{1}, "mace">>, <<{2, 3}, "escc">>, <<{4}, "awacs">>,
     <<{5}, "swim3">>, <<{6, 7}, "viacuda">>, <<{8}, "mesh">>,
     <<{9}, "enetrom">>,
     <<{32}, "curio_dma">>, <<{33}, "floppy_dma">>, <<{34}, "enet_tx_dma">>,
     <<{35}, "enet_rx_dma">>, <<36..39, "none">>, <<{40}, "snd_out_dma">>,
     <<{41}, "snd_in_dma">>, <<{42}, "mesh_dma">>} \cup GcIobus

GcWrite ==
    {<<{0}, "curio">>, <<{1}, "mace">>, <<{2, 3}, "escc">>, <<{4}, "awacs">>,
     <<{5}, "swim3">>, <<{6, 7}, "viacuda">>, <<{8}, "mesh">>, <<{9}, "none">>,
     <<{32}, "curio_dma">>, <<{33}, "floppy_dma">>, <<{34}, "enet_tx_dma">>,
     <<{35}, "enet_rx_dma">>, <<36..39, "none">>, <<{40}, "snd_out_dma">>,
     <<{41}, "snd_in_dma">>, <<{42}, "mesh_dma">>} \cup GcIobus

\* MacIoTwo::read(): page is (offset >> 12) & 0x7F
MioRead ==
    {<<{0}, "ctrl">>, <<{8}, "dma">>, <<{16}, "mesh">>, <<{17}, "bmac">>,
     <<{18, 19}, "escc">>, <<{20}, "codec">>, <<{21}, "swim3">>,
     <<{22, 23}, "viacuda">>, <<{32}, "ide0">>, <<{33}, "ide1">>,
     <<96..127, "nvram">>}
MioWrite ==
    {<<{0}, "ctrl">>, <<{8}, "dma">>, <<{16}, "mesh">>, <<{17}, "bmac">>,
     <<{18, 19}, "escc">>, <<{20}, "codec">>, <<{21}, "swim3">>,
     <<{22, 23}, "viacuda">>, <<{32}, "ide0">>, <<{33}, "ide1">>,
     <<96..127, "nvram">>}

\* MacIoTwo::dma_read(), dma_write(): page is the channel, offset >> 8
MioDmaRead ==
    {<<{0}, "mesh">>, <<{1}, "floppy">>, <<{2}, "enet_xmit">>,
     <<{3}, "enet_rcv">>, <<{4}, "escc_a_tx">>, <<{5}, "escc_a_rx">>,
     <<{6}, "escc_b_tx">>, <<{7}, "escc_b_rx">>, <<{8}, "snd_out">>,
     <<{11}, "ide0">>, <<{12}, "ide1">>}
MioDmaWrite ==
    {<<{0}, "mesh">>, <<{1}, "floppy">>, <<{2}, "enet_xmit">>,
     <<{3}, "enet_rcv">>, <<{4}, "escc_a_tx">>, <<{5}, "escc_a_rx">>,
     <<{6}, "escc_b_tx">>, <<{7}, "escc_b_rx">>, <<{8}, "snd_out">>,
     <<{11}, "ide0">>, <<{12}, "ide1">>}

\* AMIC::read(), write(): page is offset >> 12; 50 is the DMA register page,
\* and a write to page 20 that names no sound register ends in the SWIM3
AmicRead ==
    {<<{0, 1}, "viacuda">>, <<{4}, "escc">>, <<{8, 9}, "enetprom">>,
     <<{10}, "mace">>, <<{16}, "scsi">>, <<{17}, "scsi2">>, <<{20}, "sound">>,
     <<{22, 23}, "swim3">>, <<{50}, "serial_dma">>}
AmicWrite ==
    {<<{0, 1}, "viacuda">>, <<{4}, "escc">>, <<{10}, "mace">>,
     <<{16}, "scsi">>, <<{17}, "scsi2">>, <<{20}, "sound">>,
     <<{22, 23}, "swim3">>, <<{50}, "serial_dma">>}

\* PrimeTimeTwo::read(), write(); what is not decoded is a register file
PtRead ==
    {<<{0, 1}, "viacuda">>, <<{2, 3}, "via2">>, <<{4, 6, 12, 13}, "escc">>,
     <<{16, 17}, "scsi">>, <<{20}, "asc">>, <<{22, 23}, "swim3">>,
     <<{26}, "ide0 and f108">>}
PtWrite ==
    {<<{0, 1}, "viacuda">>, <<{2, 3}, "via2">>, <<{4, 6, 12, 13}, "escc">>,
     <<{16, 17}, "scsi">>, <<{20}, "asc">>, <<{22, 23}, "swim3">>,
     <<{26}, "ide0 and f108">>}

Reads(chip) == CASE chip = "GrandCentral" -> GcRead
                 [] chip \in {"OHare", "Heathrow"} -> MioRead
                 [] chip = "AMIC" -> AmicRead
                 [] chip = "PrimeTime" -> PtRead
Writes(chip) == CASE chip = "GrandCentral" -> GcWrite
                  [] chip \in {"OHare", "Heathrow"} -> MioWrite
                  [] chip = "AMIC" -> AmicWrite
                  [] chip = "PrimeTime" -> PtWrite

\* Writes reach nothing there: address PROMs and stubbed channels.
ReadOnly == {"enetrom", "enetprom"}

-----------------------------------------------------------------------------
(* Interrupt sources.                                                      *)

\* GrandCentral::register_dev_int()
GcDev ==
    [SCSI_CURIO |-> 12, SCSI_MESH |-> 13, ETHERNET |-> 14, SCCA |-> 15,
     SCCB |-> 16, DAVBUS |-> 17, VIA_CUDA |-> 18, SWIM3 |-> 19, NMI |-> 20,
     EXT1 |-> 21, BANDIT1 |-> 22, PCI_A |-> 23, PCI_B |-> 24, PCI_C |-> 25,
     BANDIT2 |-> 26, PCI_D |-> 27, PCI_E |-> 28, PCI_F |-> 29,
     CONTROL |-> 26, SIXTY6 |-> 27, PLANB |-> 28, VCI |-> 29,
     PLATINUM |-> 30, PIPPIN_F |-> 29, PIPPIN_E |-> 30]

\* GrandCentral::register_dma_int()
GcDma ==
    [DMA_SCSI_CURIO |-> 0, DMA_SWIM3 |-> 1, DMA_ETHERNET_Tx |-> 2,
     DMA_ETHERNET_Rx |-> 3, DMA_SCCA_Tx |-> 4, DMA_SCCA_Rx |-> 5,
     DMA_SCCB_Tx |-> 6, DMA_SCCB_Rx |-> 7, DMA_DAVBUS_Tx |-> 8,
     DMA_DAVBUS_Rx |-> 9, DMA_SCSI_MESH |-> 10]

\* MacIoTwo::register_dev_int(); O'Hare has its slots elsewhere and no
\* Ethernet
MioDev(chip) ==
    LET ohare == chip = "OHare"
        slots == [PCI_E |-> IF ohare THEN 22 ELSE 24,
                  PCI_B |-> IF ohare THEN 25 ELSE 24,
                  PCI_C |-> IF ohare THEN 28 ELSE 25]
        common == [SCSI_MESH |-> 12, IDE0 |-> 13, IDE1 |-> 14, SCCA |-> 15,
                   SCCB |-> 16, DAVBUS |-> 17, VIA_CUDA |-> 18, SWIM3 |-> 19,
                   NMI |-> 20, BANDIT1 |-> 22, PCI_F |-> 24, PCI_A |-> 23,
                   VALKYRIE |-> 24, PERCH2 |-> 21, PCI_GPU |-> 22,
                   PERCH1 |-> 26, PCI_PERCH |-> 28, FIREWIRE |-> 21,
                   PCI_J12 |-> 22, PCI_J11 |-> 23, PCI_J10 |-> 24,
                   PCI_J9 |-> 25, ATA |-> 26, USB |-> 28]
    IN  slots @@ common @@ (IF ohare THEN << >> ELSE [ETHERNET |-> 42])

\* MacIoBase::register_dma_int()
MioBaseDma ==
    [DMA_SWIM3 |-> 1, DMA_SCCA_Tx |-> 4, DMA_SCCA_Rx |-> 5, DMA_SCCB_Tx |-> 6,
     DMA_SCCB_Rx |-> 7, DMA_DAVBUS_Tx |-> 8, DMA_DAVBUS_Rx |-> 9]

\* MacIoTwo::register_dma_int()
MioDma(chip) ==
    (IF chip = "OHare" THEN << >>
     ELSE [DMA_ETHERNET_Tx |-> 32, DMA_ETHERNET_Rx |-> 33])
        @@ [DMA_SCSI_MESH |-> 0, DMA_IDE0 |-> 2, DMA_IDE1 |-> 3] @@ MioBaseDma

\* AMIC::register_dev_int(): <<stage of the cascade, bit>>
AmicDev ==
    [VIA_CUDA |-> <<"cpu", 0>>, VIA2 |-> <<"cpu", 1>>, ESCC |-> <<"cpu", 2>>,
     ETHERNET |-> <<"cpu", 3>>, DMA_ALL |-> <<"cpu", 4>>, NMI |-> <<"cpu", 5>>,
     DMA_SCSI_CURIO |-> <<"via2", 0>>, SLOT_ALL |-> <<"via2", 1>>,
     SCSI_CURIO2 |-> <<"via2", 6>>, SCSI_CURIO |-> <<"via2", 3>>,
     DAVBUS |-> <<"via2", 4>>, SWIM3 |-> <<"via2", 5>>,
     SLOT_0 |-> <<"slot", 2>>, SLOT_1 |-> <<"slot", 3>>,
     SLOT_2 |-> <<"slot", 4>>, SLOT_PDS |-> <<"slot", 5>>,
     SLOT_VDS |-> <<"slot", 5>>, VBL |-> <<"slot", 6>>,
     DMA_DAVBUS_Tx |-> <<"dma1", 1>>]

\* PrimeTimeTwo::register_dev_int()
PtDev ==
    [VIA_CUDA |-> <<"cpu", 1>>, NMI |-> <<"cpu", 7>>, SCCA |-> <<"escc", 0>>,
     SCCB |-> <<"escc", 1>>, SCSI_CURIO |-> <<"via2", 3>>,
     DAVBUS |-> <<"via2", 4>>, SWIM3 |-> <<"via2", 5>>,
     SLOT_ALL |-> <<"via2", 1>>, SLOT_PDS |-> <<"slot", 5>>,
     IDE0 |-> <<"f108", 5>>, IDE1 |-> <<"f108", 4>>,
     VALKYRIE |-> <<"slot", 6>>]

-----------------------------------------------------------------------------
VARIABLE access     \* the access that the guest makes: chip and page

Init == access = [chip |-> "GrandCentral", page |-> 0]

Access(chip, page) == access' = [chip |-> chip, page |-> page]

Next == \E chip \in Chips, page \in 0..127 : Access(chip, page)

\* A guest that writes to a unit and reads at the same address talks to one
\* and the same unit, in every decoder; PROMs take no writes.
SameUnit ==
    LET r == Unit(Reads(access.chip), access.page)
        w == Unit(Writes(access.chip), access.page)
    IN  /\ r = w \/ r \in ReadOnly
        /\ access.chip \in {"OHare", "Heathrow"} =>
               Unit(MioDmaRead, access.page) = Unit(MioDmaWrite, access.page)

\* One bit, one meaning: no device shares the bit of a DMA channel, whose
\* level clear_dma_int() drops, no two channels share a bit, and but for the
\* Ethernet channels of Heathrow every channel lies in the bits 0 to 10 that
\* clear_dma_int() clears.  Sources of the cascaded controllers share a bit
\* only where one of the two exists: the direct slots of AMIC.
BitsApart ==
    LET chip == access.chip
        dev == IF chip = "GrandCentral" THEN GcDev ELSE MioDev(chip)
        dma == IF chip = "GrandCentral" THEN GcDma ELSE MioDma(chip)
        table == IF chip = "AMIC" THEN AmicDev ELSE PtDev
    IN  IF chip \in {"AMIC", "PrimeTime"}
        THEN \A s, t \in DOMAIN table :
                 table[s] = table[t] =>
                     s = t \/ {s, t} = {"SLOT_PDS", "SLOT_VDS"}
        ELSE /\ \A s \in DOMAIN dev, d \in DOMAIN dma : dev[s] # dma[d]
             /\ \A d, e \in DOMAIN dma : d # e => dma[d] # dma[e]
             /\ \A d \in DOMAIN dma :
                    \/ dma[d] \in 0..10
                    \/ d \in {"DMA_ETHERNET_Tx", "DMA_ETHERNET_Rx"}
             /\ \A s \in DOMAIN dev : dev[s] # 31 /\ dev[s] # 63
=============================================================================
