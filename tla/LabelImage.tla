----------------------------- MODULE LabelImage -----------------------------
(***************************************************************************)
(* The arithmetic of a label (printing.py): the size of its QR code, the   *)
(* text that fits on a line, the raster and the job around it.             *)
(***************************************************************************)
EXTENDS Integers, Sequences

Sets == INSTANCE FiniteSetsExt

Margin == 4

\* Mutant: the height of the label is left out of account.
QrSizeWide(width, height, asked) == Sets!Max({24, Sets!Min({asked, width - 2 * Margin})})

QrSize(width, height, asked) ==
    Sets!Max({24, Sets!Min({asked, width - 2 * Margin, height - 56})})

-----------------------------------------------------------------------------
\* A text is the sequence of its characters' widths; a space, 0, is one wide.
Space == 0
Dots  == <<1, 1, 1>>

CharWidth(c) == IF c = Space THEN 1 ELSE c

\* Of the first n characters, for each n.
Widths(text) ==
    LET W[n \in 0 .. Len(text)] == IF n = 0 THEN 0 ELSE W[n - 1] + CharWidth(text[n])
    IN  W

TextWidth(text) == Widths(text)[Len(text)]

\* text[:n].rstrip()
Stripped(text, n) ==
    LET inked == {i \in 1 .. n : text[i] # Space}
    IN  SubSeq(text, 1, IF inked = {} THEN 0 ELSE Sets!Max(inked))

Fits(text, n, available) == TextWidth(Stripped(text, n)) <= available

\* Mutant: the search takes the lower middle, and stops one short.
SearchLow(text, available) ==
    LET S[range \in (0 .. Len(text)) \X (0 .. Len(text))] ==
            LET low    == range[1]
                high   == range[2]
                middle == (low + high) \div 2
            IN  IF high - low < 2 THEN low
                ELSE IF Fits(text, middle, available) THEN S[<<middle, high>>]
                ELSE S[<<low, middle - 1>>]
    IN  S

\* The loop of _truncate_to_width: where it ends from <<low, high>>.
Search(text, available) ==
    LET S[range \in (0 .. Len(text)) \X (0 .. Len(text))] ==
            LET low    == range[1]
                high   == range[2]
                middle == (low + high + 1) \div 2
            IN  IF low >= high THEN low
                ELSE IF Fits(text, middle, available) THEN S[<<middle, high>>]
                ELSE S[<<low, middle - 1>>]
    IN  S

Truncated(text, width) ==
    LET available == width - TextWidth(Dots)
        kept      == Search(text, available)[<<0, Len(text)>>]
    IN  IF TextWidth(text) <= width THEN text
        ELSE IF available <= 0 \/ kept = 0 THEN <<>>
        ELSE Stripped(text, kept) \o Dots

-----------------------------------------------------------------------------
\* black: the pixels <<x, y>> darker than the threshold.
LineBytes(width) == width \div 8

\* 0x80 >> bit
Mask(bit) == <<128, 64, 32, 16, 8, 4, 2, 1>>[bit + 1]

RasterByte(image, column, y) ==
    LET Bit(b) == IF <<8 * column + b, y>> \in image.black THEN Mask(b) ELSE 0
    IN  Bit(0) + Bit(1) + Bit(2) + Bit(3) + Bit(4) + Bit(5) + Bit(6) + Bit(7)

\* pack_monochrome_raster.
Raster(image) ==
    [i \in 1 .. LineBytes(image.width) * image.height |->
        RasterByte(image, (i - 1) % LineBytes(image.width), (i - 1) \div LineBytes(image.width))]

\* Mutant: the height is sent as one byte.
SizeBytesShort(width, height) ==
    <<LineBytes(width) % 256, (LineBytes(width) \div 256) % 256, height % 256, 0>>

\* build_phomemo_m220_job: the size in front of the raster, low bytes first.
SizeBytes(width, height) ==
    <<LineBytes(width) % 256, (LineBytes(width) \div 256) % 256,
      height % 256, (height \div 256) % 256>>

Job(image) == SizeBytes(image.width, image.height) \o Raster(image)

-----------------------------------------------------------------------------
(* The printer's reading of it *)

PrinterLine(job)   == job[1] + 256 * job[2]
PrinterHeight(job) == job[3] + 256 * job[4]

Printed(job) ==
    {p \in (0 .. 8 * PrinterLine(job) - 1) \X (0 .. PrinterHeight(job) - 1) :
        LET byte == job[5 + p[2] * PrinterLine(job) + p[1] \div 8]
        IN  (byte \div Mask(p[1] % 8)) % 2 = 1}
=============================================================================
