------------------------------- MODULE WireCodec -------------------------------
(***************************************************************************)
(* What crosses the wire: length-prefixed frames (wvm-ipc framing.rs) and  *)
(* the base64 of chunks and screenshots (wvm-guest base64.rs, wvm-host     *)
(* push.rs, wvm-ipc lib.rs).                                               *)
(***************************************************************************)
EXTENDS Integers, Sequences, FiniteSets, SequencesExt

CONSTANT MAX_FRAME_LEN      \* the largest payload accepted

ASSUME MaxFrameAssumption == MAX_FRAME_LEN \in Nat

-----------------------------------------------------------------------------
(* Frames.  A payload is a sequence of bytes; its header is its length in  *)
(* four bytes, the most significant first.                                 *)

Byte == 0..255

FitsHeader(n) == n \div 16777216 \in Byte

BigEndian(n) == <<n \div 16777216, (n \div 65536) % 256, (n \div 256) % 256, n % 256>>

(* The value of a header whose first byte is below 128 (Bound: TLC's       *)
(* integers have 32 bits and a sign).                                      *)
FromBigEndian(header) ==
    ((header[1] * 256 + header[2]) * 256 + header[3]) * 256 + header[4]

(* What write_frame puts on the wire: nothing at all when it refuses.      *)
WriteFrame(payload) ==
    IF Len(payload) > MAX_FRAME_LEN THEN <<>>
    ELSE BigEndian(Len(payload)) \o payload

WriteFrameUnchecked(payload) == BigEndian(Len(payload)) \o payload

(* read_frame, called until it fails: `filled' is the part of the current  *)
(* header or payload that has been read.                                   *)
NewSession(stream) ==
    [stream |-> stream, filled |-> <<>>, length |-> -1,
     frames |-> <<>>, end |-> "open"]

Wanted(s) == (IF s.length = -1 THEN 4 ELSE s.length) - Len(s.filled)

EndOfStreamAnywhere(s) == [s EXCEPT !.end = "closed"]

EndOfStream(s) ==
    [s EXCEPT !.end = IF s.length = -1 /\ s.filled = <<>> THEN "closed"
                      ELSE "truncated"]

(* A complete payload is returned and the next call starts afresh.         *)
Deliver(s) ==
    IF s.length # -1 /\ Wanted(s) = 0
    THEN [s EXCEPT !.frames = Append(@, s.filled), !.filled = <<>>, !.length = -1]
    ELSE s

DeclareLength(s) ==
    IF s.length # -1 \/ Wanted(s) # 0 THEN s
    ELSE LET declared == FromBigEndian(s.filled)
         IN  IF declared > MAX_FRAME_LEN THEN [s EXCEPT !.end = "too_large"]
             ELSE [s EXCEPT !.length = declared, !.filled = <<>>]

ReadAtMost(s, n) ==
    LET got == Min({n, Wanted(s), Len(s.stream)})
    IN  [s EXCEPT !.filled = @ \o SubSeq(s.stream, 1, got),
                  !.stream = SubSeq(@, got + 1, Len(@))]

(* One read() of the socket: `arrival' bytes have arrived by now, or it was*)
(* interrupted (0) or failed (-1).  A read at the end of the stream returns *)
(* nothing.                                                                *)
Interrupted == 0
Failed == -1

ReadCall(s, arrival) ==
    IF s.end # "open" \/ arrival = Interrupted THEN s
    ELSE IF arrival = Failed THEN [s EXCEPT !.end = "io"]
    ELSE IF s.stream = <<>> THEN EndOfStream(s)
    ELSE Deliver(DeclareLength(ReadAtMost(s, arrival)))

ReadFrames(stream, arrivals) ==
    LET session[i \in 0..Len(arrivals)] ==
            IF i = 0 THEN NewSession(stream) ELSE ReadCall(session[i - 1], arrivals[i])
    IN  session[Len(arrivals)]

-----------------------------------------------------------------------------
(* Base64.  A character is the number it stands for in the alphabet.       *)

PAD == 64
BLANK == 65         \* a space, a tab or a line break
INVALID == 66       \* any other character

ByteOrZero(bytes, i) == IF i <= Len(bytes) THEN bytes[i] ELSE 0

(* One group of one to three bytes.                                        *)
Combined(bytes) == (bytes[1] * 256 + ByteOrZero(bytes, 2)) * 256 + ByteOrZero(bytes, 3)

EncodeGroup(bytes) ==
    LET combined == Combined(bytes)
    IN  << combined \div 2^18,
           (combined \div 2^12) % 64,
           IF Len(bytes) > 1 THEN (combined \div 2^6) % 64 ELSE PAD,
           IF Len(bytes) > 2 THEN combined % 64 ELSE PAD >>

(* chunks(n): the groups of n, the last one possibly shorter.              *)
Chunks(s, n) ==
    [i \in 1..((Len(s) + n - 1) \div n) |->
        SubSeq(s, (i - 1) * n + 1, Min({i * n, Len(s)}))]

(* What is written for each of the groups, one after another.              *)
Concatenated(parts) ==
    LET out[i \in 0..Len(parts)] == IF i = 0 THEN <<>> ELSE out[i - 1] \o parts[i]
    IN  out[Len(parts)]

ForEach(groups, Op(_)) == Concatenated([i \in DOMAIN groups |-> Op(groups[i])])

Encode(bytes) == ForEach(Chunks(bytes, 3), EncodeGroup)

(* The guest's decoder: a running buffer, of which fourteen bits matter.   *)
NewDecoder == [buffer |-> 0, bits |-> 0, out |-> <<>>, done |-> FALSE, ok |-> TRUE]

ShiftIn(buffer, c) == (buffer * 64 + c) % 2^14

ByteAbove(buffer, bits) == (buffer \div 2^bits) % 256

Emit(s, buffer, bits) ==
    [s EXCEPT !.buffer = buffer, !.bits = bits, !.out = Append(@, ByteAbove(buffer, bits))]

TakeDigit(s, c) ==
    LET buffer == ShiftIn(s.buffer, c)
        bits   == s.bits + 6
    IN  IF bits >= 8 THEN Emit(s, buffer, bits - 8)
        ELSE [s EXCEPT !.buffer = buffer, !.bits = bits]

DecodeCharacter(s, c) ==
    IF s.done \/ ~s.ok \/ c = BLANK THEN s
    ELSE IF c = PAD THEN [s EXCEPT !.done = TRUE]
    ELSE IF c = INVALID THEN [s EXCEPT !.ok = FALSE]
    ELSE TakeDigit(s, c)

GuestDecode(text) ==
    LET after[i \in 0..Len(text)] ==
            IF i = 0 THEN NewDecoder ELSE DecodeCharacter(after[i - 1], text[i])
        end == after[Len(text)]
    IN  [ok |-> end.ok, bytes |-> IF end.ok THEN end.out ELSE <<>>]

(* The host's decoder: whole groups, padding only where it may stand.      *)
PaddedAnywhere(group, last) == TRUE

PaddedRight(group, last) ==
    \A j \in DOMAIN group :
        group[j] = PAD => last /\ j > 2 /\ \A k \in j..Len(group) : group[k] = PAD

DigitOrZero(group, j) == IF group[j] = PAD THEN 0 ELSE group[j]

FromDigits(v1, v2, v3, v4) == ((v1 * 64 + v2) * 64 + v3) * 64 + v4

ThreeBytes(n) == <<n \div 2^16, (n \div 2^8) % 256, n % 256>>

DecodeGroup(group) ==
    LET n   == FromDigits(DigitOrZero(group, 1), DigitOrZero(group, 2),
                          DigitOrZero(group, 3), DigitOrZero(group, 4))
        pad == Cardinality({j \in 1..4 : group[j] = PAD})
    IN  SubSeq(ThreeBytes(n), 1, 3 - pad)

HostDecode(text) ==
    LET groups == Chunks(text, 4)
        ok     == /\ Len(text) % 4 = 0
                  /\ \A i \in DOMAIN groups : PaddedRight(groups[i], i = Len(groups))
                  /\ \A i \in DOMAIN text : text[i] \notin {BLANK, INVALID}
    IN  [ok |-> ok, bytes |-> IF ok THEN ForEach(groups, DecodeGroup) ELSE <<>>]

=============================================================================
