-------------------------- MODULE MCIoControllers ---------------------------
(* The I/O controllers side by side, one at a time: focus says which one    *)
(* moves, so that the state spaces add up instead of multiplying. The       *)
(* display controllers, which sit on the same buses, are among them.        *)
EXTENDS Integers, MacIo

CONSTANTS
    F108Src, F108Gated, PtSlotSrc, PtVia2Src,           \* PrimeTime's sources
    AmSlotSrc, AmVia2Src, CpuSrc, DmaSrc,               \* AMIC's sources
    BufSize, Counts, RxPages, FramePages, MaxFrames, SndLen,    \* and its DMA
    Modes                                               \* display modes

VARIABLES focus, pt, edge, amic, changed,
          ch, ifr, total, access, map, ctl, part, pmap, dev, bus, win, int,
          video, draw, vram, conv, port

ptvars == <<pt, edge>>
amicvars == <<amic, changed>>
dmavars == <<ch, ifr, total>>
memvars == <<map, ctl>>
pcivars == <<part, pmap, dev, bus, win, int>>
dispvars == <<video, draw, vram, conv, port>>
iovarsAll == <<macioVars, ptvars, amicvars, dmavars, access, memvars, pcivars>>

\* The drawing engine's modes: source, mono source, mix, trajectory, bit order
\* and alignment of host data, colour compare, the colour held in its register,
\* the bits the write mask lets through and the direction of the walk.
DrawMode(fg, bg, mono, mix, traj, lsb, align, cmp, reg, mask, xd, yd) ==
    [fg |-> fg, bg |-> bg, mono |-> mono, mix |-> mix, bmix |-> 7,
     traj |-> traj, lsb |-> lsb, align |-> align, cmp |-> cmp,
     colorReg |-> reg, mask |-> mask, xdir |-> xd, ydir |-> yd,
     xtile |-> xd, ytile |-> ~xd]
DrawModes ==
    UNION {{DrawMode(1, 0, 0, 7, 0, FALSE, FALSE, FALSE, FALSE, 0 .. 3, xd, yd),
            DrawMode(1, 0, 0, 5, 0, FALSE, FALSE, FALSE, FALSE, {0, 1}, xd, yd),
            DrawMode(1, 0, 0, 7, 0, FALSE, FALSE, TRUE, FALSE, 0 .. 3, xd, yd),
            DrawMode(1, 0, 0, 7, 0, FALSE, FALSE, FALSE, TRUE, 0 .. 3, xd, yd),
            DrawMode(1, 0, 1, 7, 0, yd, FALSE, FALSE, FALSE, 0 .. 3, xd, yd),
            DrawMode(1, 0, 2, 7, 0, yd, yd, FALSE, FALSE, 0 .. 3, xd, yd),
            DrawMode(0, 1, 2, 14, 0, yd, ~yd, FALSE, FALSE, 0 .. 3, xd, yd),
            DrawMode(2, 0, 0, 7, 0, FALSE, FALSE, FALSE, FALSE, 0 .. 3, xd, yd),
            DrawMode(3, 0, 0, 7, 0, FALSE, FALSE, FALSE, FALSE, 0 .. 3, xd, yd),
            DrawMode(3, 0, 0, 7, 1, FALSE, FALSE, FALSE, FALSE, 0 .. 3, xd, yd),
            DrawMode(3, 0, 0, 7, 3, FALSE, FALSE, FALSE, FALSE, 0 .. 3, xd, yd)
           } : xd, yd \in BOOLEAN}

PrimeTime == INSTANCE PrimeTime WITH SlotSrc <- PtSlotSrc, Via2Src <- PtVia2Src
Amic == INSTANCE Amic WITH SlotSrc <- AmSlotSrc, Via2Src <- AmVia2Src
Decode == INSTANCE IoDecode
MemCtrl == INSTANCE MemCtrl WITH Addr <- 0 .. 3, MaxAdds <- 3, MaxGos <- 2,
                             Pages <- 4, PageBanks <- {1, 2}, RegPages <- 2,
                             Bases <- 0 .. 3, BankSizes <- 0 .. 2
Pci == INSTANCE PciBus WITH map <- pmap, Pages <- 0 .. 2, Buses <- 0 .. 4
Video == INSTANCE VideoCtrl WITH v <- video
Engine == INSTANCE Mach64Draw WITH d <- draw, Modes <- DrawModes, MaxDraws <- 2
Vram == INSTANCE VideoMemory WITH m <- vram, q <- conv, Widths <- 1 .. 20,
            Samples <- {(i * 257 + 31 * (i % 7)) % 65536 : i \in 0 .. 255}
Ports == INSTANCE DisplayPorts WITH t <- port, Edid <- <<165, 15>>,
            Kinds <- {"ramdac", "plain", "rage", "rgb514"}

\* Sources keep to bits of their own, and buffers and rings have room.
ASSUME SourcesApart ==
    /\ Dma2 \cap (Dev \cup Dma) = {} /\ Dma \cap Bank2 = {}
    /\ PrimeTime!OwnLines /\ Amic!OwnLines /\ Amic!DmaSizes

MCInit ==
    /\ focus \in {"macio", "primetime", "amic", "amicdma", "decode", "memory",
                  "pci", "onboard", "mach64", "engine", "vram", "conv", "ports"}
    /\ Init /\ PrimeTime!Init /\ Amic!Init /\ Decode!Init
    /\ IF focus = "amicdma" THEN Amic!DmaInit
       ELSE Amic!DmaInit /\ ch.kind = "floppy"
    /\ IF focus = "memory" THEN MemCtrl!Init
       ELSE ctl = MemCtrl!NewPlain /\ map = <<>>
    /\ IF focus = "pci" THEN Pci!Init ELSE Pci!Init /\ part = "ints"
    /\ CASE focus = "onboard" -> Video!Init
         [] focus = "mach64" -> Video!MachInit
         [] OTHER -> video = 0
    /\ IF focus = "engine" THEN Engine!Init ELSE draw = 0
    /\ IF focus = "vram" THEN Vram!Init ELSE vram = 0
    /\ IF focus = "conv" THEN Vram!ConvInit ELSE conv = 0
    /\ IF focus = "ports" THEN Ports!Init ELSE port = 0

MCNext ==
    /\ UNCHANGED focus
    /\ \/ /\ focus = "macio" /\ Next
          /\ UNCHANGED <<ptvars, amicvars, dmavars, access, memvars, pcivars, dispvars>>
       \/ /\ focus = "primetime" /\ PrimeTime!Next
          /\ UNCHANGED <<macioVars, amicvars, dmavars, access, memvars, pcivars, dispvars>>
       \/ /\ focus = "amic" /\ Amic!Next
          /\ UNCHANGED <<macioVars, ptvars, dmavars, access, memvars, pcivars, dispvars>>
       \/ /\ focus = "amicdma" /\ Amic!DmaNext
          /\ UNCHANGED <<macioVars, ptvars, amicvars, access, memvars, pcivars, dispvars>>
       \/ /\ focus = "decode" /\ Decode!Next
          /\ UNCHANGED <<macioVars, ptvars, amicvars, dmavars, memvars, pcivars, dispvars>>
       \/ /\ focus = "memory" /\ MemCtrl!Next
          /\ UNCHANGED <<macioVars, ptvars, amicvars, dmavars, access, pcivars, dispvars>>
       \/ /\ focus = "pci" /\ Pci!Next
          /\ UNCHANGED <<macioVars, ptvars, amicvars, dmavars, access, memvars, dispvars>>
       \/ /\ focus = "onboard" /\ Video!Next
          /\ UNCHANGED <<iovarsAll, draw, vram, conv, port>>
       \/ /\ focus = "mach64" /\ Video!MachNext
          /\ UNCHANGED <<iovarsAll, draw, vram, conv, port>>
       \/ /\ focus = "engine" /\ Engine!Next
          /\ UNCHANGED <<iovarsAll, video, vram, conv, port>>
       \/ /\ focus = "vram" /\ Vram!Next
          /\ UNCHANGED <<iovarsAll, video, draw, conv, port>>
       \/ /\ focus = "conv" /\ Vram!ConvNext
          /\ UNCHANGED <<iovarsAll, video, draw, vram, port>>
       \/ /\ focus = "ports" /\ Ports!Next
          /\ UNCHANGED <<iovarsAll, video, draw, vram, conv>>

vars == <<focus, iovarsAll, dispvars>>

MCSpec == MCInit /\ [][MCNext]_vars

\* No request is lost: in the Mac I/O chips one stays pending until the guest
\* clears it and the levels are those of the lines; PrimeTime interrupts for
\* every level other than the acknowledged one. Every stage of the cascades of
\* PrimeTime and AMIC agrees with the one below, a slot line that rises shows
\* in ALL_SLOT, the processor's pin follows the lines in native mode and
\* signals their changes in the other.
RequestsKept ==
    /\ focus = "macio" => TypeOK /\ NoneLost /\ LevelsFollow
    /\ focus = "primetime" => /\ PrimeTime!TypeOK /\ PrimeTime!LevelReported
                              /\ PrimeTime!CascadeAgrees /\ PrimeTime!SlotEdgeKept
    /\ focus = "amic" => /\ Amic!TypeOK /\ Amic!CascadeAgrees
                         /\ Amic!NativePinFollows /\ Amic!ChangeSignalled

\* The DMA channels of AMIC: floppy and serial transfers move what was asked
\* for, no received frame overwrites one that was not read, every frame is
\* sent once, the flag registers show enabled flags and the sound interrupt
\* settles.
DmaExact ==
    focus = "amicdma" =>
        /\ Amic!DmaTypeOK /\ Amic!CountExact /\ Amic!FlagShown
        /\ Amic!RingSafe /\ Amic!SentOnce /\ Amic!SoundFlagSettles

\* The address map: only mirrors overlap, the older entry answers, entries stay
\* inside their host memory; HMC moves bank B and nothing else, MPC106 maps the
\* union of the enabled banks, PSX and Platinum deal every byte out once.
MemoryMapped ==
    focus = "memory" => /\ MemCtrl!MapSound /\ MemCtrl!BankBFound
                        /\ MemCtrl!BanksMapped /\ MemCtrl!DramDealtOnce

\* In the I/O chips a write and a read of one address reach one unit, and DMA
\* channels, devices and the sources of a cascade keep their bits apart. On
\* PCI regions follow the base address registers, configuration and I/O
\* cycles reach the device they name, the interrupt controller holds the
\* levels of the devices, and byte lanes read back what was written to them.
AccessesRouted ==
    /\ focus = "decode" => Decode!SameUnit /\ Decode!BitsApart
    /\ focus = "pci" => /\ Pci!RegionsFollowBars /\ Pci!RoutesByNumber
                        /\ Pci!IoStaysInWindows /\ Pci!LinesFollow
                        /\ Pci!LanesAgree

\* The display controllers: a vertical blank's line falls again and an enabled
\* interrupt is served, the registers the guest wrote last are what is shown,
\* a display that was turned off stays off and one that is on is refreshed by
\* one timer, whatever the order of register writes and timers.
DisplayServed ==
    /\ focus = "onboard" => /\ Video!LinesFall /\ Video!RegistersApplied
                            /\ Video!OffStaysOff /\ Video!Refreshed
    /\ focus = "mach64" => /\ Video!LineIsPending /\ Video!BlankingShown
                           /\ Video!Served

\* Pixels: the drawing engines store what a pixel by pixel definition stores,
\* however host data is cut up; apertures of every width and byte order read
\* and write the same bytes; conversions, cursors, palettes, identification
\* data and monitor sense codes come out as the formats define them.
PixelsExact ==
    /\ focus = "engine" => Engine!DrawnExact
    /\ focus = "vram" => /\ Vram!ApertureBytewise /\ Vram!ReadBack
                         /\ Vram!PixelShown
    /\ focus = "conv" => Vram!ColorsExact /\ Vram!RowsExact /\ Vram!CursorExact
    /\ focus = "ports" => /\ Ports!EntriesWhole /\ Ports!EdidRead
                          /\ Ports!SensesAgree
=============================================================================
