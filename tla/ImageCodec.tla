------------------------------ MODULE ImageCodec ------------------------------
(***************************************************************************)
(* From a dump of the VM's screen to the PNG a caller gets (wvm-host       *)
(* image.rs): QEMU writes a binary PPM, it is decoded to RGBA pixels and   *)
(* encoded again as a PNG of stored blocks.  The guest's own encoder       *)
(* (wvm-guest capture.rs) is the same code over the pixels GDI returns.    *)
(*                                                                         *)
(* Bytes are numbers; a chunk of the PNG is a record, and its CRC is what  *)
(* it was computed over.                                                   *)
(***************************************************************************)
EXTENDS Naturals, Sequences, FiniteSets, SequencesExt

CONSTANT MaxBlock           \* the longest stored block, 65535 in the code

ASSUME MaxBlockAssumption == MaxBlock \in Nat \ {0} /\ MaxBlock <= 65535

-----------------------------------------------------------------------------
(* PPM                                                                     *)

Newline == 10
Space == 32
Hash == 35
CharP == 80
Digits == 48..57
Whitespace == {9, Newline, 12, 13, Space}

(* The first position from `at' on that is not in the set, or past the end.*)
FirstNotIn(bytes, at, set) ==
    Min({i \in at..Len(bytes) : bytes[i] \notin set} \cup {Len(bytes) + 1})

(* Whitespace, then comments to the end of their line, and so on: after    *)
(* one pass per byte nothing is left to skip.                              *)
SkipOnce(bytes, at) ==
    LET start == FirstNotIn(bytes, at, Whitespace)
    IN  IF start <= Len(bytes) /\ bytes[start] = Hash
        THEN Min({i \in start..Len(bytes) : bytes[i] = Newline} \cup {Len(bytes) + 1})
        ELSE start

SkipWhitespaceAndComments(bytes, at) ==
    LET position[n \in 0..Len(bytes)] ==
            IF n = 0 THEN at ELSE SkipOnce(bytes, position[n - 1])
    IN  position[Len(bytes)]

Decimal(digits) == FoldLeft(LAMBDA n, digit : n * 10 + (digit - 48), 0, digits)

(* One field of the header: where it ends, and the fields read so far.     *)
ReadField(bytes, s) ==
    LET start == SkipWhitespaceAndComments(bytes, s.at)
        end   == FirstNotIn(bytes, start, Digits)
    IN  IF ~s.ok \/ start = end THEN [s EXCEPT !.ok = FALSE]
        ELSE [ok |-> TRUE, at |-> end,
              fields |-> Append(s.fields, Decimal(SubSeq(bytes, start, end - 1)))]

(* The width, the height and the largest sample, after the two bytes P6.   *)
ReadHeader(bytes) ==
    LET width  == ReadField(bytes, [ok |-> TRUE, at |-> 3, fields |-> <<>>])
        height == ReadField(bytes, width)
    IN  ReadField(bytes, height)

NoImage == [ok |-> FALSE, width |-> 0, height |-> 0, rgba |-> <<>>]

ToRgba(rgb) ==
    [i \in 1..((Len(rgb) \div 3) * 4) |->
        IF i % 4 = 0 THEN 255 ELSE rgb[((i - 1) \div 4) * 3 + ((i - 1) % 4) + 1]]

(* Where the pixels start: exactly one byte after the header is skipped.   *)
PixelsSkippingAll(bytes, at) == FirstNotIn(bytes, at, Whitespace)

PixelsAt(bytes, at) == at + 1

DecodePpm(bytes) ==
    LET header == ReadHeader(bytes)
        width  == header.fields[1]
        height == header.fields[2]
        start  == PixelsAt(bytes, header.at)
        needed == width * height * 3
    IN  IF \/ Len(bytes) < 2 \/ SubSeq(bytes, 1, 2) # <<CharP, 54>>
           \/ ~header.ok
           \/ width = 0 \/ height = 0 \/ header.fields[3] # 255
           \/ header.at > Len(bytes)
           \/ Len(bytes) - start + 1 < needed
        THEN NoImage
        ELSE [ok |-> TRUE, width |-> width, height |-> height,
              rgba |-> ToRgba(SubSeq(bytes, start, start + needed - 1))]

-----------------------------------------------------------------------------
(* PNG                                                                     *)

(* Adler-32: the two sums, each below 65521.                               *)
Adler32(data) ==
    LET sums[i \in 0..Len(data)] ==
            IF i = 0 THEN [a |-> 1, b |-> 0]
            ELSE LET s == sums[i - 1]
                     a == (s.a + data[i]) % 65521
                 IN  [a |-> a, b |-> (s.b + a) % 65521]
    IN  sums[Len(data)]

Block(data, last) ==
    [last |-> last, len |-> Len(data), nlen |-> 65535 - Len(data), data |-> data]

(* The blocks of a zlib stream: an empty stream still has a last one.      *)
Blocks(data) ==
    IF data = <<>> THEN <<Block(<<>>, TRUE)>>
    ELSE [i \in 1..((Len(data) + MaxBlock - 1) \div MaxBlock) |->
            Block(SubSeq(data, (i - 1) * MaxBlock + 1, Min({i * MaxBlock, Len(data)})),
                  i * MaxBlock >= Len(data))]

ZlibStored(data) == [blocks |-> Blocks(data), adler |-> Adler32(data)]

WriteChunk(kind, data) == [kind |-> kind, data |-> data, crc |-> <<kind, data>>]

(* Every scanline starts with a filter byte, 0: None.                      *)
Scanlines(image) ==
    LET stride == image.width * 4
    IN  [i \in 1..((stride + 1) * image.height) |->
            LET row    == (i - 1) \div (stride + 1)
                column == (i - 1) % (stride + 1)
            IN  IF column = 0 THEN 0 ELSE image.rgba[row * stride + column]]

EncodePng(image) ==
    << WriteChunk("IHDR", [width |-> image.width, height |-> image.height,
                           depth |-> 8, colour |-> "rgba"]),
       WriteChunk("IDAT", ZlibStored(Scanlines(image))),
       WriteChunk("IEND", <<>>) >>

(* The guest's half: GDI returns blue first and leaves alpha 0.            *)
SwapRedAndBlue(bgra) ==
    [i \in DOMAIN bgra |->
        CASE i % 4 = 1 -> bgra[i + 2]
          [] i % 4 = 3 -> bgra[i - 2]
          [] i % 4 = 0 -> 255
          [] OTHER     -> bgra[i]]

CaptureGdi(width, height, bgra) ==
    EncodePng([width |-> width, height |-> height, rgba |-> SwapRedAndBlue(bgra)])

-----------------------------------------------------------------------------
(* The reference: what a viewer shows for a PNG, row by row, column by     *)
(* column.  A stream must end at its last block, and only there; a length  *)
(* must match its complement and both checksums what they cover.           *)

Total(terms) ==
    LET sum[i \in 0..Len(terms)] == IF i = 0 THEN 0 ELSE sum[i - 1] + terms[i]
    IN  sum[Len(terms)]

CheckSums(data) ==
    LET weighted == [i \in 1..Len(data) |-> (Len(data) - i + 1) * data[i]]
    IN  [a |-> (1 + Total(data)) % 65521, b |-> (Len(data) + Total(weighted)) % 65521]

Inflated(stream) ==
    FlattenSeq([i \in DOMAIN stream.blocks |-> stream.blocks[i].data])

SoundStream(stream) ==
    /\ stream.blocks # <<>>
    /\ \A i \in DOMAIN stream.blocks :
         /\ stream.blocks[i].last = (i = Len(stream.blocks))
         /\ stream.blocks[i].len = Len(stream.blocks[i].data)
         /\ stream.blocks[i].len + stream.blocks[i].nlen = 65535
    /\ stream.adler = CheckSums(Inflated(stream))

Shown(png) ==
    LET header == png[1].data
        lines  == Inflated(png[2].data)
        line   == header.width * 4 + 1
    IN  [row \in 1..header.height |->
            [column \in 1..header.width |->
                SubSeq(lines, (row - 1) * line + (column - 1) * 4 + 2,
                              (row - 1) * line + (column - 1) * 4 + 5)]]

SoundPng(png) ==
    /\ [i \in DOMAIN png |-> png[i].kind] = <<"IHDR", "IDAT", "IEND">>
    /\ \A i \in DOMAIN png : png[i].crc = <<png[i].kind, png[i].data>>
    /\ SoundStream(png[2].data)
    /\ Len(Inflated(png[2].data))
           = png[1].data.height * (png[1].data.width * 4 + 1)

=============================================================================
