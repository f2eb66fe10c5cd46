----------------------------- MODULE Mach64Draw -----------------------------
(* The drawing engines of the ATI controllers: Rage's fill, host and blit     *)
(* routines and GX's single loop, run side by side on the same registers.    *)
(* A pixel is the set of its one bits and takes one address; what the bytes  *)
(* of wider pixels are is left out.  ask remembers the rectangle that was     *)
(* asked for, the picture before it and the host data supplied since.        *)
EXTENDS Integers, Sequences, TLC

CONSTANTS Modes,        \* settings of the engine's mode registers
          MaxDraws      \* bound on the rectangles drawn

VARIABLE d

Bits == 0 .. 3
Pitch == 4
VramSize == 12
Frgd == {0, 3}
Bkgd == {1}
Pat == {0, 3, 6, 9, 10, 16, 17, 23}
HostByte(n) == IF n % 2 = 0 THEN {0, 1, 3, 7} ELSE {2, 3, 6}

Mix(m, src, dst) ==
    CASE m = 0 -> Bits \ dst [] m = 1 -> {} [] m = 2 -> Bits [] m = 3 -> dst
      [] m = 4 -> Bits \ src
      [] m = 5 -> (dst \ src) \union (src \ dst)
      [] m = 6 -> Bits \ ((dst \ src) \union (src \ dst))
      [] m = 7 -> src
      [] m = 8 -> Bits \ (dst \intersect src)
      [] m = 9 -> dst \union (Bits \ src)
      [] m = 10 -> (Bits \ dst) \union src
      [] m = 11 -> dst \union src
      [] m = 12 -> dst \intersect src
      [] m = 13 -> src \ dst
      [] m = 14 -> dst \ src
      [] m = 15 -> Bits \ (dst \union src)
      [] OTHER -> dst

-----------------------------------------------------------------------------
(* A chip: its registers r, its memory and the host transfer in progress.    *)
Mirror(c) == IF c.r.mode.xdir THEN 1 ELSE -1
Upward(c) == IF c.r.mode.ydir THEN 1 ELSE -1
Address(x, y) == y * Pitch + x
InVram(a) == a \in 0 .. VramSize - 1
Inside(r, x, y) == x \in r.left .. r.right /\ y \in r.top .. r.bottom

Lesser(a, b) == IF a < b THEN a ELSE b
Greater(a, b) == IF a > b THEN a ELSE b

\* mutant: the pixel on the far edge of the scissor is lost
ClipAxisShort(coord, inc, length, min, max) ==
    <<Greater(IF inc > 0 THEN min - coord ELSE coord - max, 0),
      Lesser(IF inc > 0 THEN max - coord ELSE coord - min, length - 1) - 1>>

\* The first and last of the steps along an axis that the scissor lets pass.
ClipAxis(coord, inc, length, min, max) ==
    <<Greater(IF inc > 0 THEN min - coord ELSE coord - max, 0),
      Lesser(IF inc > 0 THEN max - coord ELSE coord - min, length - 1)>>

Masked(c, old, new) ==
    (old \ c.r.mode.mask) \union (new \intersect c.r.mode.mask)

PatternBit(c, x, y) ==
    LET p == (y % 8) * 8 + (x % 8)
    IN  (IF c.r.mode.lsb THEN p ELSE p - 2 * (p % 8) + 7) \in Pat

Colour(source) == IF source = 0 THEN Bkgd ELSE Frgd

\* Where the source pixel of step <<col, row>> is: a strip as wide as the
\* rectangle, a pattern that repeats, or one entered in the middle.
Trajectory(c, col, row) ==
    LET m == c.r.mode.traj
        rotated == m = 3
        sy == IF m = 1 THEN c.r.sy + (row % c.r.sh1) * Upward(c)
              ELSE IF rotated /\ row >= c.r.sh1
              THEN c.r.sy2 + ((row - c.r.sh1) % c.r.sh2) * Upward(c)
              ELSE c.r.sy + row * Upward(c)
        sx == IF m = 1 THEN c.r.sx + (col % c.r.sw1) * Mirror(c)
              ELSE IF rotated /\ row > 0
              THEN c.r.sx2 + (col % c.r.sw2) * Mirror(c)
              ELSE IF rotated /\ col >= c.r.sw1
              THEN c.r.sx2 + ((col - c.r.sw1) % c.r.sw2) * Mirror(c)
              ELSE c.r.sx + col * Mirror(c)
    IN  Address(sx, sy)

FinishRect(c, w, h) ==
    [c EXCEPT !.r.x = IF c.r.mode.xtile THEN @ + w * Mirror(c) ELSE @,
              !.r.y = IF c.r.mode.ytile THEN @ + h * Upward(c) ELSE @]

\* The steps <<col, row>> of a rectangle in the order they are drawn.
Steps(c, w, h) ==
    LET cx == ClipAxis(c.r.x, Mirror(c), w, c.r.left, c.r.right)
        cy == ClipAxis(c.r.y, Upward(c), h, c.r.top, c.r.bottom)
        nx == cx[2] - cx[1] + 1
        ny == cy[2] - cy[1] + 1
    IN  IF nx <= 0 \/ ny <= 0 THEN <<>>
        ELSE [i \in 1 .. nx * ny |-> <<cx[1] + ((i - 1) % nx), cy[1] + ((i - 1) \div nx)>>]

\* The memory after Step has been applied to each of the steps in turn.
Each(mem, steps, Step(_, _)) ==
    LET m[n \in 0 .. Len(steps)] == IF n = 0 THEN mem ELSE Step(m[n - 1], steps[n])
    IN  m[Len(steps)]

-----------------------------------------------------------------------------
(* Rage.                                                                     *)
DrawPixel(c, mem, x, y, colour, mix) ==
    LET a == Address(x, y)
    IN  IF Inside(c.r, x, y) /\ InVram(a)
        THEN [mem EXCEPT ![a] = Masked(c, @, Mix(mix, colour, @))] ELSE mem

FillRect(c, w, h) ==
    LET Step(mem, s) ==
            LET x == c.r.x + s[1] * Mirror(c)
                y == c.r.y + s[2] * Upward(c)
                bit == c.r.mode.mono = 1 => PatternBit(c, x, y)
            IN  DrawPixel(c, mem, x, y,
                          Colour(IF bit THEN c.r.mode.fg ELSE c.r.mode.bg),
                          IF bit THEN c.r.mode.mix ELSE c.r.mode.bmix)
    IN  IF c.r.mode.cmp THEN c
        ELSE [c EXCEPT !.vram = Each(c.vram, Steps(c, w, h), Step)]

StartHostRect(c, w, h) ==
    IF c.r.mode.cmp THEN c
    ELSE [c EXCEPT !.w = w, !.h = h, !.col = 0, !.row = 0,
                   !.mono = c.r.mode.mono = 2, !.active = w > 0 /\ h > 0]

\* Copies whole pixels, without looking at the bounds of the memory.
BlitRect(c, w, h) ==
    LET Step(mem, s) ==
            [mem EXCEPT ![Address(c.r.x + s[1] * Mirror(c),
                                  c.r.y + s[2] * Upward(c))] =
                            mem[Trajectory(c, s[1], s[2])]]
    IN  IF c.r.mode.cmp \/ c.r.mode.mix # 7 \/ c.r.mode.mask # Bits THEN c
        ELSE [c EXCEPT !.vram = Each(c.vram, Steps(c, w, h), Step)]

RageDrawRect(c0, w, h) ==
    LET c == [c0 EXCEPT !.active = FALSE]
        m == c.r.mode
    IN  IF m.colorReg THEN FinishRect(c, w, h)
        ELSE IF m.fg <= 1 /\ (m.mono = 0 \/ (m.mono = 1 /\ m.bg <= 1))
        THEN FinishRect(FillRect(c, w, h), w, h)
        ELSE IF (m.fg = 2 /\ m.mono = 0) \/ (m.mono = 2 /\ m.fg <= 1 /\ m.bg <= 1)
        THEN StartHostRect(c, w, h)
        ELSE IF m.fg = 3 /\ m.mono = 0 THEN FinishRect(BlitRect(c, w, h), w, h)
        ELSE c

-----------------------------------------------------------------------------
(* GX.                                                                       *)
GxPixel(c, mem, s) ==
    LET x == c.r.x + s[1] * Mirror(c)
        y == c.r.y + s[2] * Upward(c)
        a == Address(x, y)
        bit == c.r.mode.mono = 1 => PatternBit(c, x, y)
        source == IF bit THEN c.r.mode.fg ELSE c.r.mode.bg
        from == Trajectory(c, s[1], s[2])
        colour == IF source = 3 THEN mem[from] ELSE Colour(source)
    IN  IF ~InVram(a) \/ (source = 3 /\ ~InVram(from)) THEN mem
        ELSE [mem EXCEPT ![a] =
                 Masked(c, @, Mix(IF bit THEN c.r.mode.mix ELSE c.r.mode.bmix, colour, @))]

GxDrawRect(c0, w, h) ==
    LET c == [c0 EXCEPT !.active = FALSE]
        m == c.r.mode
        Step(mem, s) == GxPixel(c, mem, s)
    IN  IF ~m.cmp /\ ((m.mono = 2 /\ m.fg <= 1 /\ m.bg <= 1) \/ (m.mono = 0 /\ m.fg = 2))
        THEN [c EXCEPT !.w = w, !.h = h, !.col = 0, !.row = 0,
                       !.mono = m.mono = 2, !.active = w > 0 /\ h > 0]
        ELSE IF m.mono > 1 \/ m.fg \notin {0, 1, 3} \/ m.cmp
                \/ (m.mono = 1 /\ m.bg \notin {0, 1, 3})
        THEN c
        ELSE FinishRect([c EXCEPT !.vram = Each(c.vram, Steps(c, w, h), Step)], w, h)

-----------------------------------------------------------------------------
(* Host data, the same on both chips.                                        *)
NextPixel(c) ==
    IF c.col + 1 < c.w THEN [c EXCEPT !.col = @ + 1]
    ELSE IF c.row + 1 < c.h THEN [c EXCEPT !.col = 0, !.row = @ + 1]
    ELSE FinishRect([c EXCEPT !.active = FALSE, !.col = 0, !.row = c.h], c.w, c.h)

HostPixel(c, colour, mix) ==
    NextPixel([c EXCEPT !.vram = DrawPixel(c, c.vram, c.r.x + c.col * Mirror(c),
                                           c.r.y + c.row * Upward(c), colour, mix)])

\* One byte: a pixel, or eight bits of a monochrome source, of which those
\* behind the end of a row are dropped when rows are aligned to bytes.
HostByteWritten(c0, data) ==
    LET m == c0.r.mode
        Bit(b) == (IF m.lsb THEN b ELSE 7 - b) \in data
        st[n \in 0 .. 8] ==
            IF n = 0 THEN <<c0, TRUE>>
            ELSE LET c == st[n - 1][1]
                     bit == Bit(n - 1)
                     new == HostPixel(c, Colour(IF bit THEN m.fg ELSE m.bg),
                                      IF bit THEN m.mix ELSE m.bmix)
                 IN  IF ~st[n - 1][2] \/ ~c.active THEN st[n - 1]
                     ELSE <<new, ~(c.col + 1 = c.w /\ m.align)>>
    IN  IF ~c0.active THEN c0
        ELSE IF c0.mono THEN st[8][1]
        ELSE HostPixel(c0, data \intersect Bits, m.mix)

\* A store of the bytes value[1], the least significant, to value[Len(value)].
WriteHostData(c0, value) ==
    LET n == Len(value)
        st[i \in 0 .. n] ==
            IF i = 0 THEN c0
            ELSE HostByteWritten(st[i - 1],
                                 value[IF Mirror(c0) > 0 THEN i ELSE n - i + 1])
    IN  st[n]

-----------------------------------------------------------------------------
\* Registers that are halves of another one.
Composite ==
    [DST_Y_X |-> <<"y", "x">>, DST_X_Y |-> <<"x", "y">>, SRC_Y_X |-> <<"sy", "sx">>,
     SRC_HEIGHT1_WIDTH1 |-> <<"sh1", "sw1">>, SRC_Y_X_START |-> <<"sy2", "sx2">>,
     SRC_HEIGHT2_WIDTH2 |-> <<"sh2", "sw2">>, SC_LEFT_RIGHT |-> <<"left", "right">>,
     SC_TOP_BOTTOM |-> <<"top", "bottom">>]

Stored(c, reg, low, high) ==
    [c EXCEPT !.r[Composite[reg][1]] = low, !.r[Composite[reg][2]] = high]

NewChip(mode) ==
    [r |-> [x |-> 0, y |-> 0, left |-> -1, right |-> 2, top |-> 0, bottom |-> 2,
            sx |-> 1, sy |-> 1, sh1 |-> 1, sw1 |-> 2, sy2 |-> 1, sx2 |-> 1,
            sh2 |-> 2, sw2 |-> 1, h |-> 1, mode |-> mode],
     vram |-> [a \in 0 .. VramSize - 1 |->
                  {b \in Bits : ((a + 1) \div 2^b) % 2 = 1}],
     active |-> FALSE, mono |-> FALSE, w |-> 0, h |-> 0, col |-> 0, row |-> 0]

Nothing == [on |-> FALSE]

Init ==
    \E m \in Modes : d = [rage |-> NewChip(m), gx |-> NewChip(m), ask |-> Nothing,
                          draws |-> 0]

\* The guest sets registers between rectangles.
WriteComposite(reg, low, high) ==
    /\ ~d.rage.active
    /\ ~d.ask.on
    /\ d' = [d EXCEPT !.rage = Stored(@, reg, low, high),
                      !.gx = Stored(@, reg, low, high)]

\* The source lies in memory: Rage does not look.
Proper(c, w, h) ==
    \A i \in DOMAIN Steps(c, w, h) :
        LET s == Steps(c, w, h)[i]
        IN  /\ InVram(Address(c.r.x + s[1] * Mirror(c), c.r.y + s[2] * Upward(c)))
            /\ InVram(Trajectory(c, s[1], s[2]))

\* DST_WIDTH keeps the height, DST_X_WIDTH sets the column, the other two set
\* the height; DST_WIDTH with FILL_DIS draws nothing.
BeginDrawing(init, w, h, x, fillDis) ==
    LET Regs(c) == IF init = "DST_X_WIDTH" THEN [c EXCEPT !.r.x = x]
                   ELSE IF init = "DST_WIDTH" THEN c ELSE [c EXCEPT !.r.h = h]
        ra == Regs(d.rage)
        gx == Regs(d.gx)
    IN  /\ d.draws < MaxDraws
        /\ ra.r.mode.fg = 3 => Proper(ra, w, ra.r.h)
        /\ d' = IF init = "DST_WIDTH" /\ fillDis THEN [d EXCEPT !.draws = @ + 1]
                ELSE [rage |-> RageDrawRect(ra, w, ra.r.h),
                      gx |-> GxDrawRect(gx, w, gx.r.h),
                      ask |-> [on |-> TRUE, w |-> w, h |-> ra.r.h, r |-> ra.r,
                               before |-> ra.vram, fed |-> 0],
                      draws |-> d.draws + 1]

\* The next n bytes of the host's stream, packed the way the direction needs.
HostData(n) ==
    LET k == d.ask.fed
        value == [i \in 1 .. n |->
                     HostByte(k + (IF d.rage.r.mode.xdir THEN i - 1 ELSE n - i))]
    IN  /\ d.rage.active
        /\ d' = [d EXCEPT !.rage = WriteHostData(@, value),
                          !.gx = WriteHostData(@, value), !.ask.fed = k + n]

\* The guest may draw nothing more.
Rest == ~d.rage.active /\ UNCHANGED d

Next ==
    \/ WriteComposite("DST_Y_X", 1, -1) \/ WriteComposite("DST_X_Y", 2, 1)
    \/ WriteComposite("SC_LEFT_RIGHT", 1, 2) \/ WriteComposite("SRC_Y_X", 0, 2)
    \/ BeginDrawing("DST_HEIGHT_WIDTH", 3, 2, 0, FALSE)
    \/ BeginDrawing("DST_WIDTH_HEIGHT", 2, 2, 0, FALSE)
    \/ \E dis \in BOOLEAN : BeginDrawing("DST_WIDTH", 9, 0, 0, dis)
    \/ BeginDrawing("DST_X_WIDTH", 2, 0, 1, FALSE)
    \/ \E n \in {1, 2, 4} : HostData(n)
    \/ Rest

-----------------------------------------------------------------------------
(* What was asked for, pixel by pixel.                                       *)
Cells == (0 .. d.ask.w - 1) \X (0 .. d.ask.h - 1)
At(s) == [x |-> d.ask.r.x + s[1] * Mirror(d.ask), y |-> d.ask.r.y + s[2] * Upward(d.ask)]
AtAddress(s) == Address(At(s).x, At(s).y)

\* The byte and bit of the host's stream that belong to a cell.
StreamBit(s) ==
    IF d.ask.r.mode.align THEN <<s[2] * ((d.ask.w + 7) \div 8) + (s[1] \div 8), s[1] % 8>>
    ELSE LET i == s[2] * d.ask.w + s[1] IN <<i \div 8, i % 8>>

Supplied(s) ==
    CASE d.ask.r.mode.mono = 2 -> StreamBit(s)[1] < d.ask.fed
      [] d.ask.r.mode.fg = 2 -> s[2] * d.ask.w + s[1] < d.ask.fed
      [] OTHER -> TRUE

\* The cells that may change the memory.
Hit == {s \in Cells : /\ Inside(d.ask.r, At(s).x, At(s).y)
                      /\ InVram(AtAddress(s)) /\ Supplied(s)}

IsOne(s) ==
    LET m == d.ask.r.mode
        b == StreamBit(s)
    IN  CASE m.mono = 0 -> TRUE
          [] m.mono = 1 -> PatternBit([r |-> d.ask.r], At(s).x, At(s).y)
          [] m.mono = 2 -> (IF m.lsb THEN b[2] ELSE 7 - b[2]) \in HostByte(b[1])

Wanted(s) ==
    LET m == d.ask.r.mode
    IN  IF m.fg = 2 THEN HostByte(s[2] * d.ask.w + s[1]) \intersect Bits
        ELSE IF m.fg = 3 THEN d.ask.before[Trajectory([r |-> d.ask.r], s[1], s[2])]
        ELSE Colour(IF IsOne(s) THEN m.fg ELSE m.bg)

\* A copy that never reads what it has already written.
Ahead == \A s, t \in Hit :
            AtAddress(s) = Trajectory([r |-> d.ask.r], t[1], t[2]) =>
               ~(s[2] < t[2] \/ (s[2] = t[2] /\ s[1] < t[1]))

Refused == d.ask.r.mode.cmp \/ d.ask.r.mode.colorReg

Picture(a) ==
    LET old == d.ask.before[a]
        at == {s \in Hit : AtAddress(s) = a}
        s == CHOOSE t \in at : TRUE
        m == d.ask.r.mode
    IN  IF Refused \/ at = {} THEN old
        ELSE (old \ m.mask)
             \union (Mix(IF IsOne(s) THEN m.mix ELSE m.bmix, Wanted(s), old)
                        \intersect m.mask)

\* Each engine has drawn exactly the cells of the rectangle inside the
\* scissor, with the colour the source gives them, however the host data was
\* divided into stores and whichever way an overlapping copy runs, provided it
\* runs away from what it overwrites; both chips agree on the picture, on the
\* transfer and on where the next rectangle starts.
DrawnExact ==
    /\ d.ask.on /\ (d.ask.r.mode.fg = 3 => Ahead) =>
           \A a \in 0 .. VramSize - 1 : d.rage.vram[a] = Picture(a)
    /\ d.ask.on /\ ~Refused =>
           /\ d.rage.vram = d.gx.vram
           /\ d.rage.active = d.gx.active
           /\ <<d.rage.r.x, d.rage.r.y>> = <<d.gx.r.x, d.gx.r.y>>
=============================================================================
