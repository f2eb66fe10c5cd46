---------------------------- MODULE VideoMemory -----------------------------
(* From a store into video memory to the pixel on the screen: the big- and   *)
(* little-endian apertures of Control and of Mach64 GX, and the conversions  *)
(* that make a frame of true colours.  A bank has BankSize bytes in place of *)
(* two megabytes.  A value on the bus is the sequence of its bytes, the most *)
(* significant first; a stored byte is known by its name, not its value.     *)
(* The module ends with conversions and cursors, value by value.             *)
EXTENDS Integers, Sequences, FiniteSets, TLC

VARIABLE m

BankSize == 16
Sizes == {1, 2, 4}
Offsets == 0 .. 4 * BankSize - 1

\* offset ^ k for k < 4
Flip(a, k) ==
    LET low == a % 4
    IN  a - low + ((low + k) % 2) + 2 * (((low \div 2) + (k \div 2)) % 2)
SwapOf(width) == (width \div 8) - 1

-----------------------------------------------------------------------------
(* Control's big-endian aperture.  banks is 1 for the standard bank, 2 for   *)
(* the optional one, 3 for both.                                             *)
BankRange(off) == (off \div BankSize) % 4

WideBase(off) ==
    CASE m.banks = 1 -> (off - (IF (off \div 8) % 2 = 1 THEN 8 ELSE 0)) % BankSize
      [] m.banks = 2 -> (off + (IF (off \div 8) % 2 = 0 THEN 8 ELSE 0)) % BankSize
      [] m.banks = 3 -> off % (2 * BankSize)

\* The address that is read; none where no bank answers.
ReadBase(off) ==
    IF m.wide THEN {WideBase(off)}
    ELSE CASE m.banks = 1 -> IF BankRange(off) = 3 THEN {} ELSE {off % BankSize}
           [] m.banks = 2 -> IF BankRange(off) = 3 THEN {off % BankSize} ELSE {}
           [] m.banks = 3 -> IF BankRange(off) = 3 THEN {off % (2 * BankSize)}
                             ELSE {off % BankSize}

\* The addresses that are written.  The mirrors of the optional bank alone can
\* be written and not read; with both banks a mirror names the second address
\* by off & (0x1FFFFF + 0x200000).
WriteBases(off) ==
    IF m.wide THEN {WideBase(off)}
    ELSE CASE m.banks = 1 -> IF BankRange(off) = 3 THEN {} ELSE {off % BankSize}
           [] m.banks = 2 -> IF BankRange(off) = 2 THEN {} ELSE {off % BankSize}
           [] m.banks = 3 -> CASE BankRange(off) \in {0, 1} ->
                                     {off % BankSize, off % (2 * BankSize)}
                               [] BankRange(off) = 2 -> {off % BankSize}
                               [] BankRange(off) = 3 -> {off % (2 * BankSize)}

Bytes(vram, base, size) == [i \in 1 .. size |-> vram[base + i - 1]]

ReadBe(vram, off, size) ==
    IF ReadBase(off) = {} THEN [i \in 1 .. size |-> 0]
    ELSE Bytes(vram, CHOOSE b \in ReadBase(off) : TRUE, size)

WriteBe(vram, off, value) ==
    [a \in DOMAIN vram |->
        IF \E b \in WriteBases(off) : a \in b .. b + Len(value) - 1
        THEN value[a - (CHOOSE b \in WriteBases(off) :
                            a \in b .. b + Len(value) - 1) + 1]
        ELSE vram[a]]

\* The little-endian aperture: where an aligned access goes, and the exchange
\* of the bytes of its value.
LeOffset(off, size) ==
    CASE m.width = 8 -> off
      [] m.width = 16 -> Flip(off, IF size = 1 THEN 1 ELSE 0)
      [] m.width = 32 -> Flip(off, 4 - size)

LeBytes(value) ==
    LET n == Len(value)
    IN  CASE m.width = 16 /\ n = 4 -> <<value[2], value[1], value[4], value[3]>>
          [] m.width = 8 \/ n = 1 -> value
          [] OTHER -> [i \in 1 .. n |-> value[n + 1 - i]]

Splits(off, size) == m.width # 8 /\ off % size # 0

\* An unaligned access is split into halves until the pieces are aligned.
ReadLe(vram, off, size) ==
    LET r[s \in Sizes, o \in Offsets] ==
            IF Splits(o, s) THEN r[s \div 2, o] \o r[s \div 2, o + (s \div 2)]
            ELSE LeBytes(ReadBe(vram, LeOffset(o, s), s))
    IN  r[size, off]

WriteLe(vram, off, value) ==
    LET Part(o, n) == SubSeq(value, o - off + 1, o - off + n)
        W(mem, o, n) == WriteBe(mem, LeOffset(o, n), LeBytes(Part(o, n)))
        W2(mem, o) == IF Splits(o, 2) THEN W(W(mem, o, 1), o + 1, 1) ELSE W(mem, o, 2)
    IN  CASE Len(value) = 1 -> W(vram, off, 1)
          [] Len(value) = 2 -> W2(vram, off)
          [] Len(value) = 4 -> IF Splits(off, 4) THEN W2(W2(vram, off), off + 2)
                               ELSE W(vram, off, 4)

-----------------------------------------------------------------------------
(* GX: the second aperture exchanges bytes by the width of the pixels.       *)
GxReadBe(vram, off, size) ==
    [i \in 1 .. size |-> vram[Flip(off + i - 1, SwapOf(m.width))]]
GxWriteBe(vram, off, value) ==
    [a \in DOMAIN vram |->
        LET o == Flip(a, SwapOf(m.width))
        IN  IF o \in off .. off + Len(value) - 1 THEN value[o - off + 1] ELSE vram[a]]

GxReadLe(vram, off, size) == Bytes(vram, off, size)
GxWriteLe(vram, off, value) ==
    [a \in DOMAIN vram |->
        IF a \in off .. off + Len(value) - 1 THEN value[a - off + 1] ELSE vram[a]]

-----------------------------------------------------------------------------
New(chip, banks, wide, width) ==
    [chip |-> chip, banks |-> banks, wide |-> wide, width |-> width,
     vram |-> [a \in 0 .. (IF banks = 3 THEN 2 ELSE 1) * BankSize - 1 |-> 100 + a],
     last |-> <<>>]

Init ==
    \E width \in {8, 16, 32} :
        \/ \E banks \in 1 .. 3, wide \in BOOLEAN : m = New("control", banks, wide, width)
        \/ m = New("gx", 3, FALSE, width)

\* Accesses stay inside one bank, and inside the eight bytes of one of the
\* two interleaved banks where an aperture does not split them.
Fits(le, off, size) ==
    /\ (off % BankSize) + size <= BankSize
    /\ m.chip = "gx" => off < 2 * BankSize
    /\ m.chip = "control" /\ (~le \/ m.width = 8) => (off % 8) + size <= 8

Read(le, off, size) ==
    IF m.chip = "gx"
    THEN IF le THEN GxReadLe(m.vram, off, size) ELSE GxReadBe(m.vram, off, size)
    ELSE IF le THEN ReadLe(m.vram, off, size) ELSE ReadBe(m.vram, off, size)

Write(le, off, value) ==
    IF m.chip = "gx"
    THEN IF le THEN GxWriteLe(m.vram, off, value) ELSE GxWriteBe(m.vram, off, value)
    ELSE IF le THEN WriteLe(m.vram, off, value) ELSE WriteBe(m.vram, off, value)

Store(le, off, size) ==
    /\ m.last = <<>>
    /\ Fits(le, off, size)
    /\ m' = [m EXCEPT !.vram = Write(le, off, [i \in 1 .. size |-> i]),
                      !.last = <<le, off, size>>]

Rest == UNCHANGED m

Next == Rest \/ \E le \in BOOLEAN, off \in Offsets, size \in Sizes : Store(le, off, size)

-----------------------------------------------------------------------------
\* Whether a bank answers at all: reads, and stores, of the bytes there.
Answers(off) == m.chip = "gx" \/ ReadBase(off) # {}

\* An access of the little-endian aperture moves, byte for byte, what the big-
\* endian one has at the exchanged address, whatever its size and alignment.
ApertureBytewise ==
    \A off \in Offsets, size \in Sizes : Fits(TRUE, off, size) =>
        Read(TRUE, off, size) =
           [i \in 1 .. size |->
              Read(FALSE, Flip(off + i - 1, SwapOf(m.width)), 1)[1]]

\* What is stored is read back, through the same aperture by any access.
ReadBack ==
    m.last # <<>> /\ Answers(m.last[2]) =>
        /\ Read(m.last[1], m.last[2], m.last[3]) = [i \in 1 .. m.last[3] |-> i]
        /\ \A i \in 1 .. m.last[3] : Read(m.last[1], m.last[2] + i - 1, 1) = <<i>>

\* The bytes of the pixel at address a as the conversion of the frame reads
\* them, the most significant first: Control's reads big-endian, GX's little.
Pixel(a) ==
    LET n == m.width \div 8
    IN  [i \in 1 .. n |-> m.vram[IF m.chip = "gx" THEN a + n - i ELSE a + i - 1]]

\* A pixel stored in the byte order of its aperture is the pixel shown.
PixelShown ==
    LET n == m.width \div 8
    IN  m.last # <<>> /\ m.last[3] = n /\ m.last[2] % n = 0 /\ Answers(m.last[2]) =>
            \E a \in DOMAIN m.vram :
                /\ a % n = 0
                /\ Pixel(a) = [i \in 1 .. n |-> IF m.last[1] THEN n + 1 - i ELSE i]

-----------------------------------------------------------------------------
(* Making a frame of true colours from video memory: the pixel formats, the  *)
(* walk over rows of packed pixels, and the hardware cursors.  Each check     *)
(* takes one input q and compares the code's arithmetic with what the format *)
(* means.                                                                    *)

CONSTANTS Samples,      \* pixel values that are tried
          Widths        \* widths of a frame in pixels

VARIABLE q

\* The bits low .. high of c << s, in place, and of c >> s.
KeepBits(c, low, high) == (c % 2^(high + 1)) - (c % 2^low)
Left(c, s, low, high) == KeepBits(c * 2^s, low, high)
Right(c, s, low, high) == KeepBits(c \div 2^s, low, high)

Rgb332(c) ==
    Left(c, 16, 21, 23) + Left(c, 13, 18, 20) + Left(c, 10, 16, 17)
    + Left(c, 11, 13, 15) + Left(c, 8, 10, 12) + Left(c, 5, 8, 9)
    + Left(c, 6, 6, 7) + Left(c, 4, 4, 5) + Left(c, 2, 2, 3) + (c % 4)

Rgb555(c) ==
    Left(c, 9, 19, 23) + Left(c, 4, 16, 18) + Left(c, 6, 11, 15)
    + Left(c, 1, 8, 10) + Left(c, 3, 3, 7) + Right(c, 2, 0, 2)

Rgb565(c) ==
    Left(c, 8, 19, 23) + Left(c, 3, 16, 18) + Left(c, 5, 10, 15)
    + Right(c, 1, 8, 9) + Left(c, 3, 3, 7) + Right(c, 2, 0, 2)

Rgb888(b) == b[1] * 2^16 + b[2] * 2^8 + b[3]

\* convert_frame_directcolor: three indices into the palette; the entry that
\* each component is taken from.
DirectColor(c, depth, shift) ==
    LET bits == IF depth = 16 THEN 5 ELSE 8
        Index(n) == ((c \div 2^(n * bits)) % 2^bits) * 2^shift
    IN  <<Index(2), Index(1), Index(0)>>

TaosColor(c) == <<(c \div 2^10) % 32, (c \div 2^5) % 32, c % 32>>

\* Ariel's sparse palettes: the index has ones below the pixel.
PdmIndex(c, bpp, field) ==
    CASE bpp = 1 -> IF (c \div 2^(7 - field)) % 2 = 1 THEN 255 ELSE 127
      [] bpp = 2 -> KeepBits(c * 2^(2 * field), 6, 7) + 63
      [] bpp = 4 -> KeepBits(c * 2^(4 * field), 4, 7) + 15

Index(c, bpp, field) ==
    CASE bpp = 1 -> (c \div 2^(7 - field)) % 2
      [] bpp = 2 -> (c \div 2^(6 - 2 * field)) % 4
      [] bpp = 4 -> IF field = 0 THEN c \div 16 ELSE c % 16
      [] bpp = 8 -> c

\* The k-th pixel a row of a packed frame converts: the byte and field it is
\* taken from and the place it goes to.  Depths 2 and 4 convert whole bytes.
PerByte(bpp) == 8 \div bpp
RowPixels(bpp, w) == IF bpp = 1 THEN w ELSE (w \div PerByte(bpp)) * PerByte(bpp)
RowBytes(bpp, w) == IF bpp = 1 THEN (w + 7) \div 8 ELSE w \div PerByte(bpp)

Converted(bpp, w, pitch, dstPitch, row, k) ==
    [byte |-> row * (RowBytes(bpp, w) + (pitch - RowBytes(bpp, w))) + (k \div PerByte(bpp)),
     field |-> k % PerByte(bpp),
     to |-> row * (RowPixels(bpp, w) + (dstPitch - w)) + k]

-----------------------------------------------------------------------------
(* Cursors.                                                                  *)
\* ATI: two bits a pixel, the first in the low bits of a little-endian word.
AtiCursorBits(row, x) == <<row * 16 + ((x \div 32) * 8) + ((x % 32) \div 4), 2 * (x % 4)>>

\* Ramdac: the rows from the first to the last one with a pixel in it.
MeasureHwCursor(filled, old) ==
    IF filled = {} THEN old
    ELSE LET first == CHOOSE r \in filled : \A s \in filled : r <= s
             last == CHOOSE r \in filled : \A s \in filled : s <= r
         IN  [y |-> first, height |-> last - first + 1]

\* A row is two words of sixteen four-bit pixels; the mask of a word keeps
\* the first so many of them.
MaskKeeps(word, k, n) ==
    IF word = 0 THEN n >= 16 \/ k >= 16 \/ k * 4 < 64 - (16 - n) * 4
    ELSE n > 16 /\ k * 4 < 64 - (32 - n) * 4

DrawsPixel(width, xpos, k) ==
    LET n == IF width - xpos > 32 THEN 32 ELSE width - xpos
        word == k \div 16
    IN  n > 0 /\ word < (n + 15) \div 16 /\ MaskKeeps(word, k % 16, n)

-----------------------------------------------------------------------------
Inputs ==
    ([kind : {"color"}, c : Samples])
    \union [kind : {"packed"}, bpp : {1, 2, 4, 8}, w : Widths, pad : 0 .. 1]
    \union [kind : {"cursor"}, width : 0 .. 40, xpos : 0 .. 40]
    \union [kind : {"rows"}, filled : SUBSET (0 .. 3)]

ConvInit == q \in Inputs
ConvNext == UNCHANGED q

\* Repeating the top bits of an n-bit component fills eight.
Widened(v, n) == CASE n = 3 -> v * 32 + v * 4 + (v \div 2)
                   [] n = 2 -> v * 85
                   [] n = 5 -> v * 8 + (v \div 4)
                   [] n = 6 -> v * 4 + (v \div 16)
Rgb(r, g, b) == r * 2^16 + g * 2^8 + b

\* Every format shows the components of the pixel: black and white stay black
\* and white, and no bit of one component reaches another.
ColorsExact ==
    q.kind = "color" =>
        LET c == q.c
            b == c % 256
        IN  /\ Rgb332(b) = Rgb(Widened(b \div 32, 3), Widened((b \div 4) % 8, 3),
                               Widened(b % 4, 2))
            /\ Rgb555(c) = Rgb(Widened((c \div 1024) % 32, 5),
                               Widened((c \div 32) % 32, 5), Widened(c % 32, 5))
            /\ Rgb565(c) = Rgb(Widened((c \div 2048) % 32, 5),
                               Widened((c \div 32) % 64, 6), Widened(c % 32, 5))
            /\ Rgb888(<<b, c \div 256, b>>) = Rgb(b, c \div 256, b)
            /\ DirectColor(c, 16, 0) = TaosColor(c)
            /\ \A i \in 1 .. 3 : DirectColor(c, 16, 3)[i] = 8 * TaosColor(c)[i]
            /\ DirectColor(c, 32, 0) = <<0, c \div 256, b>>
            /\ \A f \in 0 .. 7 : PdmIndex(b, 1, f) = 127 + 128 * Index(b, 1, f)
            /\ \A f \in 0 .. 3 : PdmIndex(b, 2, f) = 63 + 64 * Index(b, 2, f)
            /\ \A f \in 0 .. 1 : PdmIndex(b, 4, f) = 15 + 16 * Index(b, 4, f)

\* Pixel <<x, y>> of the screen is pixel <<x, y>> of the frame, for frames
\* whose rows are whole bytes.
RowsExact ==
    q.kind = "packed" /\ (q.bpp = 1 \/ q.w % PerByte(q.bpp) = 0) =>
        LET pitch == ((q.w + PerByte(q.bpp) - 1) \div PerByte(q.bpp)) + q.pad
            dst == q.w + q.pad
        IN  \A y \in 0 .. 2, x \in 0 .. q.w - 1 :
                Converted(q.bpp, q.w, pitch, dst, y, x) =
                   [byte |-> y * pitch + (x \div PerByte(q.bpp)),
                    field |-> x % PerByte(q.bpp), to |-> y * dst + x]

\* The cursor is drawn whole up to the right edge of the screen and never
\* beyond it; all its rows are drawn.
CursorExact ==
    /\ q.kind = "cursor" =>
           \A k \in 0 .. 31 : DrawsPixel(q.width, q.xpos, k) <=> q.xpos + k < q.width
    /\ q.kind = "rows" =>
           LET c == MeasureHwCursor(q.filled, [y |-> 0, height |-> 0])
           IN  /\ q.filled \subseteq c.y .. c.y + c.height - 1
               /\ q.filled # {} => {c.y, c.y + c.height - 1} \subseteq q.filled
    /\ q.kind = "cursor" =>
           AtiCursorBits(q.width, q.xpos) =
              <<(q.width * 64 + q.xpos) \div 4, 2 * (q.xpos % 4)>>
=============================================================================
