----------------------------- MODULE VideoCtrl ------------------------------
(* What every display controller inherits: the refresh timer, the timer that *)
(* ends the vertical blanking it starts, the screen and the interrupt line.  *)
(* A controller is a record s; the pixels are abstracted to how the screen   *)
(* compares with the frame buffer.  Two fields are history: twice records    *)
(* that a running refresh timer was added again, orphan that the line was    *)
(* left up with nobody to lower it.                                          *)
(* The controllers follow: those on the logic boards, then ATI's.            *)
EXTENDS Integers

NewVideo(kind, dynamic) ==
    [kind |-> kind, dynamic |-> dynamic, refresh |-> FALSE, vblEnd |-> FALSE,
     blank |-> TRUE, crtc |-> FALSE, drawFb |-> TRUE, shown |-> "blank",
     cursorOn |-> FALSE, dirty |-> FALSE, line |-> FALSE,
     twice |-> FALSE, orphan |-> FALSE]

\* the controller's own fields beside the inherited ones
Derived(base, own) ==
    [f \in DOMAIN base \cup DOMAIN own |-> IF f \in DOMAIN own THEN own[f] ELSE base[f]]

AckInt(s, level) == [s EXCEPT !.line = level, !.orphan = FALSE]

BlankDisplay(s) == [s EXCEPT !.shown = "blank"]

\* Whatever the picture is made from changes: the frame buffer, the palette,
\* the cursor or where the frame is taken from.
Outdated(s) == [s EXCEPT !.shown = IF @ = "current" THEN "stale" ELSE @]

SetDrawFb(s) == [Outdated(s) EXCEPT !.drawFb = TRUE]

StartRefreshTask(s) ==
    [Outdated(s) EXCEPT !.refresh = TRUE, !.twice = @ \/ s.refresh]

\* mutant: the refresh timer is left running
StopRefreshTaskHalf(s) ==
    [s EXCEPT !.vblEnd = FALSE, !.orphan = @ \/ (s.vblEnd /\ s.line)]

StopRefreshTask(s) ==
    [s EXCEPT !.refresh = FALSE, !.vblEnd = FALSE,
              !.orphan = @ \/ (s.vblEnd /\ s.line)]

SetupHwCursor(s) == [s EXCEPT !.cursorOn = TRUE, !.dirty = FALSE]

\* The conversion callback of a dynamic controller clears drawFb.
UpdateScreen(s) ==
    IF s.blank THEN BlankDisplay(s)
    ELSE IF ~s.drawFb THEN s
    ELSE LET c == IF s.dirty THEN SetupHwCursor(s) ELSE s
         IN  [c EXCEPT !.shown = "current", !.drawFb = ~s.dynamic]

\* The handlers of the two timers: the first goes on when the controller's
\* vbl_cb has returned, the second ends by calling it.
RefreshTimeout(s) == UpdateScreen([s EXCEPT !.vblEnd = TRUE])
VblEndTimeout(s) == [s EXCEPT !.vblEnd = FALSE]

-----------------------------------------------------------------------------
\* The refresh timer is never added while it runs, although a dozen registers
\* start it again.
OneRefreshTimer(s) == ~s.twice

\* A line that is up is taken down by the end of the blanking, unless one of
\* the paths recorded in orphan has cut it off.
LineFalls(s) == s.line => s.vblEnd \/ s.orphan

\* Dirty tracking loses nothing: a picture that is out of date is due.
NothingUndrawn(s) == s.shown = "stale" => s.drawFb

-----------------------------------------------------------------------------
(* The display controllers that sit on the logic boards: Control, Platinum,  *)
(* Valkyrie, the PDM frame buffer, Taos and Sixty6.  Timing, depth and base   *)
(* registers are one value params out of a small set, "bad" being the ones   *)
(* that give an empty picture; applied is what the running display uses.     *)

VARIABLE v

Params == {"a", "b", "bad"}

-----------------------------------------------------------------------------
(* Control.  status and enable are the VBL bits of INT_STATUS and INT_ENABLE,*)
(* clr its VBL_IRQ_CLR bit.                                                  *)
NewControl ==
    Derived(NewVideo("control", TRUE),
        [status |-> FALSE, enable |-> FALSE, clr |-> FALSE, dis |-> FALSE,
         reset |-> FALSE, strobe |-> 0, enabled |-> FALSE, unblank |-> FALSE,
         params |-> "bad", applied |-> "none"])

ControlVblCb(s, level) ==
    LET t == [s EXCEPT !.status = level]
    IN  IF level = s.status THEN s
        ELSE IF s.enable THEN AckInt(t, level) ELSE t

\* enable_display of Control; the end of the other controllers' is the same.
ControlEnableDisplay(s) ==
    LET t == StopRefreshTask([s EXCEPT !.applied = s.params])
        on == s.params # "bad"
    IN  SetDrawFb([(IF on THEN StartRefreshTask(t) ELSE t)
                      EXCEPT !.blank = ~on, !.crtc = on])

ControlDisableDisplay(s) == [s EXCEPT !.crtc = FALSE]

ControlIntEnable(en, clr) ==
    LET t == IF v.clr /\ ~clr THEN ControlVblCb(v, FALSE) ELSE v
    IN  v' = [t EXCEPT !.enable = en, !.clr = clr,
                       !.orphan = @ \/ (t.line /\ ~en)]

\* A display is switched by two rising edges of RESET_TIMING under one value
\* of DISABLE_TIMING; counting stops at two, which is all that is compared.
Strobes(dis) == IF dis # v.dis THEN 0 ELSE v.strobe

ControlSwatchCtrl(dis, reset) ==
    LET edge == dis = v.dis /\ reset /\ ~v.reset
        n == IF edge /\ Strobes(dis) < 2 THEN Strobes(dis) + 1 ELSE Strobes(dis)
        t == [v EXCEPT !.dis = dis, !.reset = reset, !.strobe = n]
    IN  v' = IF ~edge \/ n < 2 THEN t
             ELSE IF dis THEN [ControlDisableDisplay(t) EXCEPT !.enabled = FALSE]
             ELSE [ControlEnableDisplay(t) EXCEPT !.enabled = TRUE]

\* PIPE_DELAY .. HSERR, GBASE, ROW_WORDS, GSC_DIVIDE and RaDACal's mode.
ControlTiming(p) ==
    LET t == [v EXCEPT !.params = p]
    IN  v' = IF v.enabled THEN ControlEnableDisplay(t) ELSE t

ControlMiscEnables(unblank) ==
    LET t == SetDrawFb([v EXCEPT !.unblank = unblank, !.blank = ~unblank])
    IN  v' = IF unblank = v.unblank THEN v
             ELSE IF unblank THEN t ELSE BlankDisplay(t)

\* VRAM, a palette entry, the cursor, the choice of buffer.
Draw == v' = SetDrawFb(v)

ControlNext ==
    /\ v.kind = "control"
    /\ \/ v.refresh /\ v' = RefreshTimeout(ControlVblCb(v, TRUE))
       \/ v.vblEnd /\ v' = ControlVblCb(VblEndTimeout(v), FALSE)
       \/ \E a, b \in BOOLEAN : ControlIntEnable(a, b) \/ ControlSwatchCtrl(a, b)
       \/ \E p \in Params : ControlTiming(p)
       \/ \E u \in BOOLEAN : ControlMiscEnables(u)
       \/ Draw

-----------------------------------------------------------------------------
(* Platinum: the blanking and the cursor interrupt share the line.           *)
NewPlatinum ==
    Derived(NewVideo("platinum", TRUE),
        [stat |-> {}, mask |-> {}, cursor |-> FALSE, vidEnable |-> FALSE,
         fbReset |-> 7, step |-> 0, params |-> "bad", applied |-> "none"])

Irqs == {"VBL", "CURSOR"}

UpdateIrq(s, level, irq) ==
    LET t == [s EXCEPT !.stat = IF level THEN @ \union {irq} ELSE @ \ {irq}]
    IN  IF level = (irq \in s.stat) THEN s
        ELSE IF irq \in s.mask THEN AckInt(t, level) ELSE t

PlatinumVblCb(s, level) == UpdateIrq(s, level, "VBL")

PlatinumEnableDisplay(s) ==
    LET t == StopRefreshTask([s EXCEPT !.applied = s.params])
    IN  IF s.params = "bad"
        THEN BlankDisplay([t EXCEPT !.blank = TRUE, !.crtc = FALSE])
        ELSE SetDrawFb([StartRefreshTask(t) EXCEPT !.blank = FALSE, !.crtc = TRUE])

PlatinumDisableDisplay(s) == BlankDisplay([s EXCEPT !.crtc = FALSE])

ChangeDisplay(s) == IF s.fbReset = 0 THEN PlatinumEnableDisplay(s) ELSE s

VidEnableSeq == <<3, 2, 0>>

\* The reset sequence 3, 2, 0 switches the display, and 7 and 0 by themselves.
FbReset(value) ==
    LET hit == value = VidEnableSeq[v.step + 1] /\ ~(value = 7 /\ v.crtc)
        done == hit /\ v.step = 2
        t == IF done
             THEN IF v.vidEnable THEN PlatinumEnableDisplay(v)
                                 ELSE PlatinumDisableDisplay(v)
             ELSE v
        u == [t EXCEPT !.step = IF hit /\ ~done THEN v.step + 1 ELSE 0,
                       !.fbReset = value]
    IN  v' = IF value = 7 THEN PlatinumDisableDisplay(u) ELSE ChangeDisplay(u)

\* FB_BASE_ADDR, ROW_WORDS, CLOCK_DIVISOR, SWATCH_* and DACula's mode.
PlatinumTiming(p) == v' = ChangeDisplay([v EXCEPT !.params = p])

SwatchIntMask(m) ==
    v' = [v EXCEPT !.mask = m, !.orphan = @ \/ (v.line /\ ~(v.stat \subseteq m))]

\* A write of CURSOR_LINE; enable_cursor_int starts the cyclic timer afresh.
CursorLine == v' = [v EXCEPT !.cursor = @ \/ "CURSOR" \in v.mask]
CursorTimeout == v.cursor /\ v' = UpdateIrq(v, TRUE, "CURSOR")
ClrCursorInt == v' = UpdateIrq(v, FALSE, "CURSOR")

FbConfig1(on) == v' = [v EXCEPT !.vidEnable = on]

PlatinumNext ==
    /\ v.kind = "platinum"
    /\ \/ v.refresh /\ v' = RefreshTimeout(PlatinumVblCb(v, TRUE))
       \/ v.vblEnd /\ v' = PlatinumVblCb(VblEndTimeout(v), FALSE)
       \/ \E value \in {0, 2, 3, 7} : FbReset(value)
       \/ \E p \in Params : PlatinumTiming(p)
       \/ \E m \in SUBSET Irqs : SwatchIntMask(m)
       \/ CursorLine \/ CursorTimeout \/ ClrCursorInt
       \/ \E on \in BOOLEAN : FbConfig1(on)
       \/ Draw

-----------------------------------------------------------------------------
(* Valkyrie.  The mode register holds the off bit and the mode; a mode or     *)
(* depth that changed is applied three milliseconds later.  late records     *)
(* that this delay ran, or began, with the display switched off.             *)
NewValkyrie ==
    Derived(NewVideo("valkyrie", FALSE),
        [latch |-> FALSE, enable |-> FALSE, off |-> TRUE, mode |-> "bad",
         depth |-> "a", timer |-> FALSE, late |-> FALSE, applied |-> <<>>])

ValkyrieVblCb(s, level) ==
    IF ~level THEN AckInt(s, FALSE)
    ELSE LET t == [s EXCEPT !.latch = TRUE]
         IN  IF s.enable THEN AckInt(t, TRUE) ELSE t

ScheduleModeSwitch(s) == [s EXCEPT !.timer = TRUE, !.late = s.off]

DisableVideoInternal(s) ==
    BlankDisplay([StopRefreshTask(s) EXCEPT !.blank = TRUE, !.crtc = FALSE])

CsrMode(off, mode) ==
    LET t == [v EXCEPT !.off = off, !.mode = mode]
    IN  v' = IF <<off, mode>> = <<v.off, v.mode>> THEN v
             ELSE IF ~off THEN ScheduleModeSwitch(t)
             ELSE IF v.off THEN t
             ELSE [DisableVideoInternal(t) EXCEPT !.late = v.timer]

CsrDepth(depth) ==
    v' = [(IF depth # v.depth THEN ScheduleModeSwitch(v) ELSE v)
             EXCEPT !.depth = depth]

ModeTimeout ==
    LET t == [v EXCEPT !.timer = FALSE]
    IN  /\ v.timer
        /\ v' = IF "bad" \in {v.mode, v.depth} THEN t
                ELSE [StartRefreshTask(StopRefreshTask(t))
                         EXCEPT !.blank = FALSE, !.crtc = TRUE,
                                !.applied = <<v.mode, v.depth>>]

CsrIntStat == v' = IF v.latch THEN AckInt([v EXCEPT !.latch = FALSE], FALSE) ELSE v
CsrIntEn(on) == v' = [v EXCEPT !.enable = on]

ValkyrieNext ==
    /\ v.kind = "valkyrie"
    /\ \/ v.refresh /\ v' = RefreshTimeout(ValkyrieVblCb(v, TRUE))
       \/ v.vblEnd /\ v' = ValkyrieVblCb(VblEndTimeout(v), FALSE)
       \/ \E off \in BOOLEAN, mode \in Params : CsrMode(off, mode)
       \/ \E depth \in Params : CsrDepth(depth)
       \/ \E on \in BOOLEAN : CsrIntEn(on)
       \/ CsrIntStat \/ ModeTimeout

-----------------------------------------------------------------------------
(* PDM: the frame buffer is in main memory, where HMC's VBASE bit says.      *)
(* Modes "narrow" can be 16 bits deep, modes "wide" cannot.                  *)
NewPdm ==
    Derived(NewVideo("pdm", FALSE),
        [blanking |-> TRUE, mode |-> "off", deep |-> FALSE, vbase |-> 0, loc |-> 0])

SetFbBase(s) == [s EXCEPT !.loc = s.vbase]

PdmVblCb(s, level) == AckInt(SetFbBase(s), level)

PdmDisable(s) == [DisableVideoInternal(s) EXCEPT !.blanking = TRUE]

PdmEnable(s) ==
    LET t == [SetFbBase(s) EXCEPT !.deep = @ /\ s.mode # "wide"]
    IN  [StartRefreshTask(StopRefreshTask(t)) EXCEPT !.crtc = TRUE]

SetVideoMode(blank, mode) ==
    LET b == IF blank = v.blanking THEN v
             ELSE IF blank THEN PdmDisable(v)
             ELSE [v EXCEPT !.blank = FALSE, !.blanking = FALSE]
        t == [b EXCEPT !.mode = mode]
    IN  v' = IF mode = "off" THEN PdmDisable(t) ELSE PdmEnable(t)

\* set_pixel_depth takes 16 bits in any mode: only a change of mode checks.
SetPixelDepth(deep) == v' = [Outdated(v) EXCEPT !.deep = deep]

PdmNext ==
    /\ v.kind = "pdm"
    /\ \/ v.refresh /\ v' = RefreshTimeout(PdmVblCb(v, TRUE))
       \/ v.vblEnd /\ v' = PdmVblCb(VblEndTimeout(v), FALSE)
       \/ \E blank \in BOOLEAN, mode \in {"off", "narrow", "wide"} :
             SetVideoMode(blank, mode)
       \/ \E deep \in BOOLEAN : SetPixelDepth(deep)
       \/ \E bit \in 0 .. 1 : v' = [v EXCEPT !.vbase = bit]

-----------------------------------------------------------------------------
(* Taos shows the blanking in a GPIO pin and has no interrupt; out is        *)
(* CRT_CTRL's ENABLE_VIDEO_OUT.                                              *)
NewTaos ==
    Derived(NewVideo("taos", FALSE), [vsync |-> FALSE, out |-> FALSE, color |-> 0])

TaosVblCb(s, level) == [s EXCEPT !.vsync = level]

TaosEnableDisplay(s) ==
    [StartRefreshTask(StopRefreshTask(s)) EXCEPT !.blank = FALSE, !.crtc = TRUE]

ColorMode(c) ==
    v' = IF c = v.color THEN v ELSE TaosEnableDisplay([v EXCEPT !.color = c])

CrtCtrl(out) ==
    v' = [(IF out = v.out THEN v
           ELSE IF out THEN TaosEnableDisplay(v) ELSE DisableVideoInternal(v))
              EXCEPT !.out = out]

TaosNext ==
    /\ v.kind = "taos"
    /\ \/ v.refresh /\ v' = RefreshTimeout(TaosVblCb(v, TRUE))
       \/ v.vblEnd /\ v' = TaosVblCb(VblEndTimeout(v), FALSE)
       \/ \E c \in 0 .. 1 : ColorMode(c)
       \/ \E out \in BOOLEAN : CrtCtrl(out)

-----------------------------------------------------------------------------
(* Sixty6 collects register writes and applies them when CONTROL_1 is        *)
(* written; the interrupt, once enabled, stays so.                           *)
NewSixty6 ==
    Derived(NewVideo("sixty6", FALSE),
        [enable |-> FALSE, changed |-> FALSE, format |-> 0, params |-> "bad",
         vbl |-> FALSE, applied |-> <<"bad", 0>>])

Sixty6VblCb(s, level) ==
    LET t == [s EXCEPT !.vbl = level]
    IN  IF s.enable /\ s.crtc THEN AckInt(t, level) ELSE t

Sixty6EnableDisplay(s) ==
    LET t == StopRefreshTask([s EXCEPT !.applied = <<s.params, s.format>>])
        on == s.params # "bad"
    IN  [(IF on THEN StartRefreshTask(t) ELSE t) EXCEPT !.blank = ~on, !.crtc = on]

\* REG_V1O_L .. PITCH_H: each stores one byte of a parameter.
Sixty6Param(p) == v' = [v EXCEPT !.params = p, !.changed = TRUE]

Control1(en, format) ==
    LET t == [v EXCEPT !.enable = @ \/ en, !.format = format, !.vbl = FALSE]
        apply == v.changed \/ format # v.applied[2]
    IN  v' = IF apply THEN [Sixty6EnableDisplay(t) EXCEPT !.changed = FALSE] ELSE t

Sixty6Next ==
    /\ v.kind = "sixty6"
    /\ \/ v.refresh /\ v' = RefreshTimeout(Sixty6VblCb(v, TRUE))
       \/ v.vblEnd /\ v' = Sixty6VblCb(VblEndTimeout(v), FALSE)
       \/ \E p \in Params : Sixty6Param(p)
       \/ \E en \in BOOLEAN, format \in 0 .. 1 : Control1(en, format)

-----------------------------------------------------------------------------
Init == v \in {NewControl, NewPlatinum, NewValkyrie, NewPdm, NewTaos, NewSixty6}

Next == \/ ControlNext \/ PlatinumNext \/ ValkyrieNext
        \/ PdmNext \/ TaosNext \/ Sixty6Next

vars == <<v>>

Spec == Init /\ [][Next]_vars

\* The interrupt line of each controller comes down again; Platinum's may
\* also be held by its cursor interrupt, Valkyrie's shows in its latch.
LinesFall ==
    /\ v.kind = "platinum" \/ LineFalls(v)
    /\ v.kind = "platinum" => LineFalls(v) \/ "CURSOR" \in v.stat
    /\ v.kind = "valkyrie" => (v.line => v.latch)

\* The picture is the one the registers ask for: no write of a mode, depth or
\* timing register is forgotten by the display that runs.
RegistersApplied ==
    /\ v.kind = "control" /\ v.enabled => v.applied = v.params
    /\ v.kind = "platinum" /\ v.fbReset = 0 => v.applied = v.params
    /\ v.kind = "valkyrie" =>
           (~v.off /\ v.crtc /\ ~v.timer /\ "bad" \notin {v.mode, v.depth} =>
              v.applied = <<v.mode, v.depth>>)
    /\ v.kind = "sixty6" /\ ~v.changed => v.applied = <<v.params, v.format>>

\* A display that is switched off stays off: Control and Platinum are switched
\* on by their sequences, Valkyrie only by the delay it failed to cancel.
OffStaysOff ==
    /\ v.crtc => v.refresh
    /\ v.kind = "control" /\ v.crtc => v.enabled
    /\ v.kind = "platinum" /\ v.crtc => v.fbReset # 7
    /\ v.kind = "valkyrie" /\ v.off /\ v.crtc => v.late
    /\ v.kind = "pdm" /\ v.crtc => v.mode # "off"

\* One refresh timer, and a dynamic controller draws every change.
Refreshed == OneRefreshTimer(v) /\ NothingUndrawn(v)

-----------------------------------------------------------------------------
(* The display side of the two ATI controllers, Rage and Mach64 GX, kinds    *)
(* "rage" and "gx": interrupt and general control registers, what makes a     *)
(* new mode take effect, and the hardware cursor.  place stands for the      *)
(* registers that say where the picture comes from and how large it is.      *)

CONSTANT Modes          \* values of place and of the pixel format

Ints == {"VBLANK", "VLINE"}

NewMach64(kind) ==
    Derived(NewVideo(kind, TRUE),
        [en |-> {}, int |-> {}, vblank |-> FALSE, enable |-> FALSE, dis |-> TRUE,
         place |-> 0, fmt |-> 0, applied |-> <<>>, curEnable |-> FALSE])

UpdateInterrupt(s) == [s EXCEPT !.line = s.en \intersect s.int # {}]

VblCb(s, level) ==
    UpdateInterrupt([s EXCEPT !.vblank = level,
                              !.int = IF level THEN Ints ELSE @])

\* A store with the bits ack of the interrupts set acknowledges those.
CrtcIntCntl(en, ack) == v' = UpdateInterrupt([v EXCEPT !.en = en, !.int = @ \ ack])

\* A byte store to another lane of the register is completed with the old
\* value, whose pending interrupt bits then read as acknowledgements.
CrtcIntCntlOtherLane == v' = UpdateInterrupt([v EXCEPT !.int = {}])

\* crtc_update: the display is restarted when anything it uses has changed.
Restarted(s) ==
    LET now == <<s.place, s.fmt>>
    IN  IF now = s.applied THEN s
        ELSE [StartRefreshTask(StopRefreshTask(SetDrawFb([s EXCEPT !.applied = now])))
                 EXCEPT !.crtc = TRUE]

CrtcUpdate(s) ==
    IF s.kind = "gx" /\ (~s.enable \/ s.dis) THEN s ELSE Restarted(s)

DisplayDis(s, dis) ==
    IF dis = s.dis THEN s
    ELSE IF dis THEN BlankDisplay([s EXCEPT !.blank = TRUE])
    ELSE [s EXCEPT !.blank = FALSE]

\* Rage updates the display first and stores the register last; its format is
\* a field of this register.
RageGenCntl(dis, enable, fmt) ==
    LET t == DisplayDis(v, dis)
        u == IF enable = v.enable /\ fmt = v.fmt THEN t
             ELSE IF enable /\ ~dis THEN CrtcUpdate(SetDrawFb(t)) ELSE SetDrawFb(t)
    IN  v' = [u EXCEPT !.dis = dis, !.enable = enable, !.fmt = fmt]

\* GX stores it first, and looks at the enable bit only.
GxGenCntl(dis, enable) ==
    LET t == [DisplayDis(v, dis) EXCEPT !.dis = dis, !.enable = enable]
    IN  v' = IF enable = v.enable THEN t ELSE CrtcUpdate(SetDrawFb(t))

\* PIX_FORMAT, or MISC_CLK_CNTL with the PLL enabled, of GX's RGB514.
Rgb514Format(fmt) == v' = CrtcUpdate([v EXCEPT !.fmt = fmt])

CrtcOffPitch(o) == v' = CrtcUpdate([v EXCEPT !.place = o])

\* CRTC_H_TOTAL_DISP, CRTC_V_TOTAL_DISP, the PLL registers: stored only.
CrtcTiming(t) == v' = [v EXCEPT !.place = t]

CurClr == v' = SetDrawFb([v EXCEPT !.dirty = TRUE])
\* CUR_OFFSET and the vertical part of CUR_HORZ_VERT_OFF.
CurOffset(changed) == v' = SetDrawFb([v EXCEPT !.dirty = @ \/ changed])
\* CUR_HORZ_VERT_POSN; also a palette entry, VRAM, and a pixel of the engine.
Drawn == v' = SetDrawFb(v)

GenTestCntl(on) ==
    v' = IF on = v.curEnable THEN v
         ELSE SetDrawFb([v EXCEPT !.curEnable = on, !.cursorOn = on])

MachInit == v \in {NewMach64("rage"), NewMach64("gx")}

MachNext ==
    \/ v.refresh /\ v' = RefreshTimeout(VblCb(v, TRUE))
    \/ v.vblEnd /\ v' = VblCb(VblEndTimeout(v), FALSE)
    \/ \E en, ack \in SUBSET Ints : CrtcIntCntl(en, ack)
    \/ CrtcIntCntlOtherLane
    \/ v.kind = "rage" /\ \E dis, enable \in BOOLEAN, f \in Modes :
                             RageGenCntl(dis, enable, f)
    \/ v.kind = "gx" /\ \/ \E dis, enable \in BOOLEAN : GxGenCntl(dis, enable)
                        \/ \E f \in Modes : Rgb514Format(f)
    \/ \E o \in Modes : CrtcOffPitch(o) \/ CrtcTiming(o)
    \/ \E changed \in BOOLEAN : CurOffset(changed)
    \/ CurClr \/ Drawn
    \/ v.kind = "rage" /\ \E on \in BOOLEAN : GenTestCntl(on)

-----------------------------------------------------------------------------
\* The line is up exactly while an enabled interrupt is not acknowledged.
LineIsPending == v.line <=> v.en \intersect v.int # {}

\* The blanking bit is only left set by a restart in the middle of a blanking.
BlankingShown == v.vblEnd => v.vblank

\* A running display is refreshed by one timer, shows every change, and shows
\* the cursor the guest has enabled.
Served == /\ OneRefreshTimer(v) /\ NothingUndrawn(v)
          /\ v.crtc => v.refresh
          /\ v.curEnable => v.cursorOn
          /\ v.blank = v.dis

-----------------------------------------------------------------------------
(* What is inductive of it, field by field.                                  *)

VideoFields == DOMAIN NewVideo("control", TRUE)

\* A controller that draws only what changed has a change drawn; one that draws
\* every time always does.
VideoInv(s) ==
    /\ VideoFields \subseteq DOMAIN s
    /\ OneRefreshTimer(s) /\ NothingUndrawn(s)
    /\ s.crtc => s.refresh
    /\ ~s.dynamic => s.drawFb

\* A line that nobody cut off is held by an interrupt that its owner lowers.
ControlInv ==
    /\ DOMAIN NewControl \subseteq DOMAIN v
    /\ {v.status, v.dis, v.reset, v.unblank} \subseteq BOOLEAN
    /\ v.line /\ ~v.orphan => v.status /\ v.enable /\ v.vblEnd
    /\ v.enabled => v.applied = v.params
    /\ v.crtc => v.enabled

PlatinumInv ==
    /\ DOMAIN NewPlatinum \subseteq DOMAIN v
    /\ v.line /\ ~v.orphan => \/ "VBL" \in v.stat \cap v.mask /\ v.vblEnd
                             \/ "CURSOR" \in v.stat \cap v.mask
    /\ v.fbReset = 0 => v.applied = v.params
    /\ v.crtc => v.fbReset # 7

ValkyrieInv ==
    /\ DOMAIN NewValkyrie \subseteq DOMAIN v
    /\ v.off \in BOOLEAN /\ ~v.dynamic
    /\ LineFalls(v) /\ (v.line => v.latch)
    /\ ~v.off /\ v.crtc /\ ~v.timer /\ "bad" \notin {v.mode, v.depth} =>
           v.applied = <<v.mode, v.depth>>
    /\ v.off /\ (v.crtc \/ v.timer) => v.late

PdmInv ==
    /\ DOMAIN NewPdm \subseteq DOMAIN v
    /\ v.blanking \in BOOLEAN /\ ~v.dynamic
    /\ LineFalls(v)
    /\ v.crtc => v.mode # "off"

TaosInv ==
    /\ DOMAIN NewTaos \subseteq DOMAIN v
    /\ v.out \in BOOLEAN /\ ~v.dynamic /\ ~v.line

Sixty6Inv ==
    /\ DOMAIN NewSixty6 \subseteq DOMAIN v
    /\ ~v.dynamic
    /\ v.line /\ ~v.orphan => v.enable /\ v.crtc /\ v.vblEnd
    /\ ~v.changed => v.applied = <<v.params, v.format>>

OnboardInv ==
    /\ VideoInv(v)
    /\ \/ v.kind = "control" /\ ControlInv
       \/ v.kind = "platinum" /\ PlatinumInv
       \/ v.kind = "valkyrie" /\ ValkyrieInv
       \/ v.kind = "pdm" /\ PdmInv
       \/ v.kind = "taos" /\ TaosInv
       \/ v.kind = "sixty6" /\ Sixty6Inv

Mach64Inv ==
    /\ VideoInv(v)
    /\ DOMAIN NewMach64("gx") \subseteq DOMAIN v
    /\ {v.dis, v.blank, v.enable, v.curEnable} \subseteq BOOLEAN
    /\ LineIsPending /\ BlankingShown
    /\ v.curEnable => v.cursorOn
    /\ v.blank = v.dis
=============================================================================
