---------------------------- MODULE XenosFormats ----------------------------
(***************************************************************************)
(* Pixel formats of the EDRAM as render360-webgpu-backend.mjs computes     *)
(* them: the clear values made from guest words on the CPU, the dump       *)
(* shader that turns host pixels into guest words again, and where in the  *)
(* EDRAM it puts them.  A float is the integer of its 32 bits; only        *)
(* positive floats occur.                                                  *)
(***************************************************************************)
EXTENDS Integers, FiniteSets

CONSTANTS
    Words7e3,   \* bound: 10 bit floats that are tried
    Words20e4,  \* bound: 24 bit floats that are tried
    DumpRows    \* bound: pixel rows of a target that are dumped

ASSUME FormatAssumption ==
    /\ Words7e3 \subseteq 0 .. 2^10 - 1
    /\ Words20e4 \subseteq 0 .. 2^24 - 1
    /\ DumpRows \subseteq Nat

VARIABLE pixels  \* what is converted

Msaa == 0 .. 2   \* 1, 2 or 4 samples

Layouts == [msaa : Msaa, is64bpp : BOOLEAN, depth : {FALSE}]
           \cup [msaa : Msaa, is64bpp : {FALSE}, depth : {TRUE}]

FormatsInit == pixels = [kind |-> "none"]

-----------------------------------------------------------------------------
(* Floats of fewer bits.                                                   *)

Log2(m) == CHOOSE k \in 0 .. 23 : 2^k <= m /\ m < 2^(k + 1)

FaultyWidened(f, bits, bias) ==
    IF f = 0 THEN 0 ELSE (f \div 2^bits + bias) * 2^23 + (f % 2^bits) * 2^(23 - bits)

\* A float with a mantissa of so many bits to 32 bits, denormals normalised.
Widened(f, bits, bias) ==
    LET m == f % 2^bits
        e == f \div 2^bits
        lz == bits - Log2(m)
    IN  IF f = 0 THEN 0
        ELSE IF e # 0 THEN (e + bias) * 2^23 + m * 2^(23 - bits)
        ELSE (1 + bias - lz) * 2^23 + ((m * 2^lz) % 2^bits) * 2^(23 - bits)

\* float7e3To32 and float20e4To32.
Float7e3To32(f10) == Widened(f10, 7, 124)
Float20e4To32(f24) == Widened(f24, 20, 112)

\* Rounded to even, drop bits dropped.
Narrowed(u, drop) == (u + 2^(drop - 1) - 1 + ((u \div 2^drop) % 2)) \div 2^drop

Denormal(u, e) ==
    LET shift == IF e - (u \div 2^23) < 24 THEN e - (u \div 2^23) ELSE 24
    IN  (2^23 + (u % 2^23)) \div 2^shift

\* f32_to_7e3 of the dump shader.
F32To7e3(u) ==
    IF u = 0 THEN 0
    ELSE IF u >= 131 * 2^23 + 255 * 2^15 THEN 2^10 - 1
    ELSE Narrowed(IF u < 125 * 2^23 THEN Denormal(u, 125) ELSE u - 124 * 2^23, 16) % 2^10

\* f32_to_20e4 of the dump shader.
F32To20e4(u) ==
    IF u = 0 THEN 0
    ELSE IF u >= 128 * 2^23 - 8 THEN 2^24 - 1
    ELSE Narrowed(IF u < 113 * 2^23 THEN Denormal(u, 113) ELSE u - 112 * 2^23, 3) % 2^24

-----------------------------------------------------------------------------
(* The layout of a render target in EDRAM.                                 *)

SamplesX(l) == IF l.msaa >= 2 THEN 2 ELSE 1
SamplesY(l) == IF l.msaa >= 1 THEN 2 ELSE 1

\* Samples of a tile in a row, all samples counted: the width in samples.
TileWidth(l) == IF l.is64bpp THEN 40 ELSE 80

\* tileGeometry, in pixels.
TileGeometry(l) == [width |-> TileWidth(l) \div SamplesX(l), height |-> 16 \div SamplesY(l)]

\* edram_offset_dwords of a pixel's sample in a target of two tiles a row.
EdramOffset(l, x, y, sample) ==
    LET ints == IF l.is64bpp THEN 2 ELSE 1
        width == 80 \div ints
        sx == x * SamplesX(l) + ((sample \div 2) % 2)
        sy == y * SamplesY(l) + (sample % 2)
        tile == (sy \div 16) * 2 + sx \div width
        inx == sx % width
        swapped == IF ~l.depth THEN inx
                    ELSE IF inx >= width \div 2 THEN inx - width \div 2 ELSE inx + width \div 2
    IN  tile * 1280 + ((sy % 16) * width + swapped) * ints

\* The guest samples the dump writes for one host pixel.
DumpedSamples(l) == 0 .. SamplesX(l) * SamplesY(l) - 1

RowPixels(l) == 0 .. 2 * TileGeometry(l).width - 1

RowWords(l, y) ==
    {<<x, s, EdramOffset(l, x, y, s)>> : x \in RowPixels(l), s \in DumpedSamples(l)}

-----------------------------------------------------------------------------
(* What is converted.                                                      *)

\* A clear of a float colour or depth target, and the dump of it.
ClearColor == \E word \in Words7e3 : pixels' = [kind |-> "7e3", word |-> word]
ClearDepth == \E word \in Words20e4 : pixels' = [kind |-> "20e4", word |-> word]

\* The dump of a row of a target.
DumpRow == \E layout \in Layouts, y \in DumpRows : pixels' = [kind |-> "row", layout |-> layout, y |-> y]

FormatsSteps == pixels.kind = "none" /\ (ClearColor \/ ClearDepth \/ DumpRow)

-----------------------------------------------------------------------------
(* Properties                                                              *)

\* What a clear writes and a dump reads back is the guest's word: the CPU's
\* and the shader's conversions are inverse, for denormals too.
ClearedWordsDumpBack ==
    /\ pixels.kind = "7e3" => F32To7e3(Float7e3To32(pixels.word)) = pixels.word
    /\ pixels.kind = "20e4" => F32To20e4(Float20e4To32(pixels.word)) = pixels.word

\* The tiles a target is said to cover (tileGeometry) are those its dump fills:
\* two tiles of pixels give all dwords of a row of two tiles, each once.
DumpsFillTheirTiles ==
    pixels.kind = "row" =>
        LET l == pixels.layout
            words == {w[3] \div 1280 : w \in RowWords(l, pixels.y)}
            row == (pixels.y * SamplesY(l)) \div 16
        IN  /\ words = {2 * row, 2 * row + 1}
            /\ Cardinality({w[3] : w \in RowWords(l, pixels.y)}) = Cardinality(RowWords(l, pixels.y))

\* A clear and a dump together give the guest its own words, each once.
WordsComeBack == ClearedWordsDumpBack /\ DumpsFillTheirTiles
=============================================================================
