----------------------------- MODULE AsciiCodec -----------------------------
(***************************************************************************)
(* The character-level conversions of the MODBUS ASCII layer               *)
(* (AsciiApplicationLayer, unnamed/part_004) and the LRC (utils/lrc.ts).   *)
(* Characters are their char codes; an ADU is [unit, fc, data].            *)
(***************************************************************************)
EXTENDS Integers, Sequences, SequencesExt

COLON == 58
CR    == 13
LF    == 10

AduBytes(adu) == << adu.unit, adu.fc >> \o adu.data

\* lrc(data): (~sum + 1) & 0xff; ~ on the 32-bit sum is -sum - 1, and
\* & 0xff keeps the low byte of the two's-complement value.
\* Mutant: the sum negated without the + 1.
LrcNoIncrement(bs) == (-FoldLeft(LAMBDA a, x : a + x, 0, bs) - 1) % 256

Lrc(bs) == ((-FoldLeft(LAMBDA a, x : a + x, 0, bs) - 1) + 1) % 256

\* value.toString(16).toUpperCase(): one digit as its char code.
HexDigit(d) == IF d < 10 THEN 48 + d ELSE 55 + d

\* Mutant: the byte written without padStart(2, '0').
HexNoPad(b) ==
    IF b < 16 THEN << HexDigit(b) >> ELSE << HexDigit(b \div 16), HexDigit(b % 16) >>

\* value.toString(16).toUpperCase().padStart(2, '0')
Hex(b) == << HexDigit(b \div 16), HexDigit(b % 16) >>

\* encode: the ADU's bytes and their LRC as hex pairs between ':' and CR LF.
Encode(adu) ==
    LET bs == AduBytes(adu) \o << Lrc(AduBytes(adu)) >>
    IN  << COLON >> \o FlattenSeq([i \in DOMAIN bs |-> Hex(bs[i])]) \o << CR, LF >>

IsHexChar(c) == c \in (48..57) \cup (65..70) \cup (97..102)

HexVal(c) == CASE c \in 48..57 -> c - 48
               [] c \in 65..70 -> c - 55
               [] OTHER        -> c - 87

\* Number('0x' + num) stored by Buffer.from: NaN is stored as 0, and
\* Number trims trailing white space, so a digit followed by white space
\* is read as that digit.
ParseHex(c1, c2) ==
    CASE IsHexChar(c1) /\ IsHexChar(c2)          -> 16 * HexVal(c1) + HexVal(c2)
      [] IsHexChar(c1) /\ c2 \in {9, 10, 11, 12, 13, 32} -> HexVal(c1)
      [] OTHER                                   -> 0

Unpack(cs) == [i \in 1..(Len(cs) \div 2) |-> ParseHex(cs[2 * i - 1], cs[2 * i])]

NoAdu == [unit |-> 0, fc |-> 0, data |-> << >>]

\* Mutant: framing without the LRC comparison.
DecodeNoLrc(cs) ==
    IF Len(cs) < 6 THEN [err |-> "insufficient", adu |-> NoAdu]
    ELSE IF Len(cs) % 2 # 0 THEN [err |-> "invalidData", adu |-> NoAdu]
    ELSE LET b == Unpack(cs) IN
         [err |-> "none", adu |-> [unit |-> b[1], fc |-> b[2], data |-> SubSeq(b, 3, Len(b) - 1)]]

\* framing(_buffer) with an empty pre-check list: length, parity, the hex
\* pairs split as unit | fc | data | LRC, and the LRC comparison.
Decode(cs) ==
    IF Len(cs) < 6 THEN [err |-> "insufficient", adu |-> NoAdu]
    ELSE IF Len(cs) % 2 # 0 THEN [err |-> "invalidData", adu |-> NoAdu]
    ELSE LET b == Unpack(cs) IN
         IF b[Len(b)] = Lrc(SubSeq(b, 1, Len(b) - 1))
         THEN [err |-> "none",
               adu |-> [unit |-> b[1], fc |-> b[2], data |-> SubSeq(b, 3, Len(b) - 1)]]
         ELSE [err |-> "lrc", adu |-> NoAdu]
=============================================================================
