SPECIFICATION MCSpec
CONSTANTS
    Dev = {"pci"}
    Dma = {"snd"}
    Bank2 = {"eth", "ethtx"}
    Dma2 = {"ethtx"}
    F108Src = {"IDE0"}
    F108Gated = {"IR"}
    PtSlotSrc = {"video"}
    PtVia2Src = {"scsi"}
    AmSlotSrc = {"VBL", "pds"}
    AmVia2Src = {"scsi"}
    CpuSrc = {"via1"}
    DmaSrc = {"snd", "enet"}
    BufSize = 3
    Counts = {0, 1, 3}
    RxPages = 5
    FramePages = {1, 2}
    MaxFrames = 3
    SndLen = 2
    Modes = {0, 1}
INVARIANTS   MemoryMapped   PixelsExact
PROPERTY LineSpec
