------------------------------- MODULE Swim3 --------------------------------
(* The floppy controller (swim3.cpp) with its internal drive (superdrive.cpp)*)
(* and an MFM disk. The DMA channel is an environment: a sector's transfer   *)
(* succeeds or not. Rotation is abstracted: an access finds the disk at any  *)
(* sector. The drive stays in MFM mode; phase lines that do not strobe a     *)
(* command, the spindle motor, the Error register and the one-microsecond    *)
(* timer are left out.                                                       *)
(* The module ends with the image formats of the disks.                      *)
EXTENDS Integers, Sequences

CONSTANTS NumTracks, Heads, Spt, \* tracks, heads and sectors per track of the disk
          Steps, Counts,    \* values the guest stores in Step, Sectors_To_Xfer
          CntMod            \* 256 in the code: xfer_cnt is a byte

VARIABLES sw,   \* the controller's registers and active timers
          drv,  \* the drive
          fd    \* history of the access: sectors moved, count asked for, ...

vars == <<sw, drv, fd>>

Bits == {"go", "gostep"}    \* INT_ENA is one with the mask: both off or on
Flags == {"id", "event"}     \* ID_READ, and the other causes, not told apart
Period == CntMod * Spt                  \* what is counted is counted modulo this
MfmNum(s) == s + 1                      \* sectors of an MFM disk count from 1

-----------------------------------------------------------------------------
(* The drive.                                                                *)

\* reset_params(); the eject latch survives it
ResetParams == [disk |-> FALSE, dir |-> 1, track |-> 0, head |-> 0]

Clamp(t) == IF t < 0 THEN 0 ELSE IF t >= NumTracks THEN NumTracks - 1 ELSE t

\* command(): one step in the current direction
DoStep(d) == [d EXCEPT !.track = Clamp(@ + d.dir)]

\* the drive command strobed by a store to the Phase register
Command(d, c) ==
    CASE c = "in"    -> [d EXCEPT !.dir = 1]
      [] c = "out"   -> [d EXCEPT !.dir = -1]
      [] c = "step"  -> DoStep(d)
      [] c = "eject" -> ResetParams

\* mutant: the last sector of the track is taken for one short of it
NextSectorPast(s) == IF s >= Spt THEN 0 ELSE s + 1
NextSector(s) == IF s + 1 >= Spt THEN 0 ELSE s + 1

-----------------------------------------------------------------------------
(* The controller.                                                           *)

NoId == [t |-> 255, h |-> 0, s |-> 127]
NoAccess(refused) == [on |-> FALSE, moved |-> 0, total |-> 0, first |-> 0, both |-> FALSE,
                      refused |-> refused, strayed |-> FALSE, good |-> TRUE]

Init ==
    /\ sw = [mode |-> {}, flags |-> {}, mask |-> {}, irq |-> FALSE,
             steps |-> 0, cnt |-> 0, first |-> 1, target |-> 0, state |-> "idle",
             cur |-> NoId, timers |-> {}, at |-> 0, next |-> 0]
    /\ drv = ResetParams
    /\ fd = NoAccess(FALSE)

UpdateIrq(w) == [w EXCEPT !.irq = w.flags \cap w.mask # {}]
RaiseFlag(w, f) == UpdateIrq([w EXCEPT !.flags = @ \cup {f}])

StopStepping(w) == [w EXCEPT !.timers = @ \ {"step"}, !.steps = 0]
\* where the disk is and what was looked for is forgotten: the next access
\* sets it anew
StopDiskAccess(w) ==
    [w EXCEPT !.mode = @ \ {"go"}, !.state = "idle", !.timers = @ \ {"access"},
              !.at = 0, !.next = 0, !.target = 0, !.cur = NoId]

\* do_step(); the drive takes one step when Stepping
Stepping(w) == "gostep" \in w.mode /\ w.steps > 0
AfterStep(w) ==
    IF ~Stepping(w) THEN w
    ELSE IF w.steps > 1 THEN [w EXCEPT !.steps = @ - 1]
    ELSE RaiseFlag(IF "step" \in w.timers THEN StopStepping(w) ELSE [w EXCEPT !.steps = 0], "event")

Busy(w) == w.mode \cap {"go", "gostep"} # {} \/ w.timers \cap {"step", "access"} # {}
CanStep(w) == w.steps > 0 /\ ~Busy(w)
StartStepping(w) ==
    AfterStep([w EXCEPT !.mode = @ \cup {"gostep"},
                        !.timers = IF w.steps > 1 THEN @ \cup {"step"} ELSE @])

\* start_disk_access(); sync_to_disk() finds sector n next
StartDiskAccess(w, n) ==
    [w EXCEPT !.mode = @ \cup {"go"}, !.target = w.first, !.timers = @ \cup {"access"},
              !.state = "sync", !.next = n]

\* write of Status_Mode0: ones clear bits of the mode register
WriteMode0(v) ==
    /\ sw' = UpdateIrq(LET w == IF sw.mode \cap v \cap {"go", "gostep"} = {} THEN sw
                                ELSE IF "gostep" \in v THEN StopStepping(sw)
                                ELSE StopDiskAccess(sw)
                       IN [w EXCEPT !.mode = @ \ v])
    /\ LET refused == fd.refused /\ "go" \notin v
       IN fd' = IF "access" \notin sw'.timers THEN NoAccess(refused)
                ELSE [fd EXCEPT !.refused = refused, !.both = @ \/ "go" \in v]
    /\ UNCHANGED drv

\* write of Handshake_Mode1: ones set bits of the mode register, also where
\* the start was refused
WriteMode1(v) ==
    /\ LET new == (v \ sw.mode) \cap {"go", "gostep"} # {}
           step == new /\ "gostep" \in v /\ CanStep(sw)
           go == new /\ "gostep" \notin v /\ ~Busy(sw)
       IN \E n \in 0..(Spt - 1) :
            LET w == IF step THEN StartStepping(sw) ELSE IF go THEN StartDiskAccess(sw, n) ELSE sw
            IN /\ go \/ n = 0
               /\ sw' = UpdateIrq([w EXCEPT !.mode = @ \cup v])
               /\ drv' = IF step THEN DoStep(drv) ELSE drv
               /\ fd' = IF go THEN [NoAccess(FALSE) EXCEPT !.on = TRUE, !.total = sw.cnt,
                                                            !.first = sw.first]
                        ELSE [fd EXCEPT !.refused = @ \/ ("go" \in v \ sw.mode)]

WriteStep == \E n \in Steps : sw' = [sw EXCEPT !.steps = n] /\ UNCHANGED <<drv, fd>>
WriteFirst == \E s \in {MfmNum(n) : n \in 0..(Spt - 1)} :
                sw' = [sw EXCEPT !.first = s] /\ UNCHANGED <<drv, fd>>
WriteCount == \E n \in Counts : /\ sw' = [sw EXCEPT !.cnt = n]
                                /\ fd' = IF fd.on THEN [fd EXCEPT !.total = (fd.moved + n) % Period] ELSE fd
                                /\ UNCHANGED drv
WriteMask == \E m \in {{}, {"event"}} :
                sw' = UpdateIrq([sw EXCEPT !.mask = m]) /\ UNCHANGED <<drv, fd>>
\* a read clears the flags it returns
ReadFlags == sw' = UpdateIrq([sw EXCEPT !.flags = {}]) /\ UNCHANGED <<drv, fd>>

DriveCommand ==
    \E c \in {"in", "out", "step", "eject"} :
        /\ drv' = Command(drv, c)
        /\ fd' = [fd EXCEPT !.strayed = @ \/ (fd.on /\ c \in {"step", "eject"})]
        /\ UNCHANGED sw
\* a read of Handshake with address Select_Head_0 or _1 selects that head
SelectHead == \E h \in Heads : /\ drv' = [drv EXCEPT !.head = h]
                                /\ fd' = [fd EXCEPT !.strayed = @ \/ (fd.on /\ h # drv.head)]
                                /\ UNCHANGED sw

\* insert_image(): the user gives a disk image
InsertImage ==
    /\ ~drv.disk /\ drv' = [drv EXCEPT !.disk = TRUE]
    /\ sw' = RaiseFlag(sw, "event")
    /\ UNCHANGED fd

StepTimer == /\ "step" \in sw.timers
             /\ sw' = AfterStep(sw)
             /\ drv' = IF Stepping(sw) THEN DoStep(drv) ELSE drv
             /\ fd' = [fd EXCEPT !.strayed = @ \/ (fd.on /\ Stepping(sw))]
         
\* disk_access() at an address mark: current_sector_header()
AddrMark ==
    /\ "access" \in sw.timers /\ sw.state \in {"sync", "search"}
    /\ LET s == MfmNum(sw.next)
       IN sw' = [RaiseFlag([sw EXCEPT !.at = sw.next,
                                      !.cur = [t |-> drv.track, h |-> drv.head, s |-> s]], "id")
                 EXCEPT !.state = IF s = sw.target THEN "xfer" ELSE "search",
                        !.next = IF s = sw.target THEN @ ELSE NextSector(sw.next)]
    /\ fd' = [fd EXCEPT !.strayed = FALSE]
    /\ UNCHANGED drv

\* the block that get_sector_data_ptr() and write_sector_data() address
Here == [t |-> drv.track, h |-> drv.head, s |-> sw.cur.s]

\* disk_access() at a sector's data, in either direction: ok if the channel
\* moves the sector (a write also needs its escape sequences in the stream
\* and a disk that is not protected)
DataXfer ==
    /\ "access" \in sw.timers /\ sw.state = "xfer"
    /\ \E ok \in BOOLEAN :
        LET done == ok /\ drv.disk
            cnt == (sw.cnt - 1) % CntMod
            nxt == NextSector(sw.at)
        IN /\ sw' = IF ~done
                    THEN RaiseFlag(StopDiskAccess(sw), "event")
                    ELSE IF cnt = 0
                    THEN RaiseFlag([StopDiskAccess(sw) EXCEPT !.cnt = 0], "event")
                    ELSE [sw EXCEPT !.cnt = cnt, !.state = "search", !.next = nxt,
                                    !.target = MfmNum(nxt)]
           /\ fd' = LET good == fd.good /\ (done => (fd.strayed \/ Here = sw.cur))
                    IN IF "access" \notin sw'.timers
                       THEN [NoAccess(fd.refused) EXCEPT !.good = good]
                       ELSE [fd EXCEPT !.moved = (@ + 1) % Period, !.good = good]
    /\ UNCHANGED drv

Next == \/ \E v \in SUBSET Bits : WriteMode0(v) \/ WriteMode1(v)
        \/ WriteStep \/ WriteFirst \/ WriteCount \/ WriteMask \/ ReadFlags
        \/ DriveCommand \/ SelectHead \/ InsertImage
        \/ StepTimer \/ AddrMark \/ DataXfer

Spec == Init /\ [][Next]_vars

-----------------------------------------------------------------------------
\* The interrupt line is the masked flags, whatever order flags, mask and
\* enable bit change in (update_irq()).
IrqFollows == sw.irq = (sw.flags \cap sw.mask # {})

\* An access moves the sectors that follow one another on the track, starting
\* with first_sec, and counts down the number the guest asked for.
SectorsInOrder ==
    fd.on => /\ (fd.moved + sw.cnt) % CntMod = fd.total % CntMod
             /\ sw.target = IF fd.moved = 0 THEN fd.first
                            ELSE MfmNum((fd.first - 1 + fd.moved) % Spt)
             /\ sw.state = "xfer" => sw.cur.s = sw.target
\* What is moved is the sector that the last ID_READ announced, as long as
\* the guest did not move the head in between.
SectorAnnounced == fd.good

\* An access that was accepted runs while GO is set and the drive is not
\* stepped under it; neither timer runs without its bit, unless the guest
\* clears GO and GO_STEP in one store.
TimersFollowMode ==
    /\ ("go" \in sw.mode /\ ~fd.refused) => "access" \in sw.timers
    /\ "access" \in sw.timers => (("go" \in sw.mode \/ fd.both) /\ sw.state # "idle")
    /\ "step" \in sw.timers => "gostep" \in sw.mode
    /\ ~({"step", "access"} \subseteq sw.timers)

FloppyOK == IrqFollows /\ SectorsInOrder /\ SectorAnnounced /\ TimersFollowMode

-----------------------------------------------------------------------------
(* Where the sectors of a floppy lie in its image: the formats that          *)
(* floppyimg.cpp recognises and the tables of superdrive.cpp. A head moves   *)
(* over the disk in the order of the image.                                  *)

VARIABLE chs    \* a position on a disk of one of the formats

\* calc_phys_params(): recording method, sides, density, blocks of an image
\* whose format is taken from its size

Formats == {[gcr |-> TRUE, sides |-> 1, hd |-> FALSE, blocks |-> 800],
            [gcr |-> TRUE, sides |-> 2, hd |-> FALSE, blocks |-> 1600],
            [gcr |-> FALSE, sides |-> 2, hd |-> FALSE, blocks |-> 1440],
            [gcr |-> FALSE, sides |-> 2, hd |-> TRUE, blocks |-> 2880]}

\* switch_drive_mode(): the tables sectors_per_track and track2lblk
SectorsPerTrack(f, t) == IF f.gcr THEN 12 - t \div 16 ELSE IF f.hd THEN 18 ELSE 9
Track2Lblk(f, t) ==
    IF ~f.gcr THEN t * SectorsPerTrack(f, t) * 2
    ELSE LET g == t \div 16    \* the groups before this one, then the tracks
         IN f.sides * (16 * (12 * g - (g * (g - 1)) \div 2) + (t % 16) * (12 - g))

\* the block get_sector_data_ptr() points at
SectorBlock(c) ==
    Track2Lblk(c.f, c.t) + c.h * SectorsPerTrack(c.f, c.t) + c.s

ImgInit == \E f \in Formats : chs = [f |-> f, t |-> 0, h |-> 0, s |-> 0]

\* The next position, sector by sector, side by side, track by track.
Successor(c) ==
    IF c.s + 1 < SectorsPerTrack(c.f, c.t) THEN [c EXCEPT !.s = @ + 1]
    ELSE IF c.h + 1 < c.f.sides THEN [c EXCEPT !.s = 0, !.h = @ + 1]
    ELSE [c EXCEPT !.s = 0, !.h = 0, !.t = @ + 1]

ImgNext == chs' = IF Successor(chs).t = 80 THEN [chs EXCEPT !.t = 0, !.h = 0, !.s = 0]
               ELSE Successor(chs)

ImgSpec == ImgInit /\ [][ImgNext]_chs

\* The tables lay the sectors of every format one behind the other and end
\* with the last block of the image: no sector is outside or doubled.
GeometryExact ==
    SectorBlock(chs) + 1 = IF Successor(chs).t = 80 THEN chs.f.blocks
                           ELSE SectorBlock(Successor(chs))
=============================================================================
