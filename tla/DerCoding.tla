------------------------------ MODULE DerCoding ------------------------------
(* BaseASN1: the TLV coding of numbers, strings and sequences, on sequences of *)
(* bytes.  Tags are one byte, lengths one to five, bytes are 0..255; numbers   *)
(* are below 2^31, the others are refused before they get here.                *)
EXTENDS Integers, SequencesExt

IntegerTag  == 2
StringTag   == 19   \* DD_DER_ID_STRING_PRINTABLE
SequenceTag == 48   \* DD_DER_CONSTRUCTED | DD_DER_ID_SEQUENCE

\* Variant: without the casts to a byte.
BigEndianUncut(n, k) == [i \in 1..k |-> n \div 256^(k - i)]

\* The k low bytes of n, highest first.
BigEndian(n, k) == [i \in 1..k |-> (n \div 256^(k - i)) % 256]

-----------------------------------------------------------------------------
(* Writing.                                                                   *)

\* Variant: 128 is taken for a length of one byte.
LengthOfSizePast(n) ==
    IF n <= 128 THEN 1
    ELSE IF n <= 255 THEN 2
    ELSE IF n < 65535 THEN 3
    ELSE IF n <= 16777215 THEN 4 ELSE 5

\* Bytes for the length n; 0xFFFF gets one more than it needs.
LengthOfSize(n) ==
    IF n <= 127 THEN 1
    ELSE IF n <= 255 THEN 2
    ELSE IF n < 65535 THEN 3
    ELSE IF n <= 16777215 THEN 4 ELSE 5

TagAndLength(tag, n) ==
    LET size == LengthOfSize(n)
    IN  IF size = 1 THEN <<tag, n>>
        ELSE <<tag, 128 + size - 1>> \o BigEndian(n, size - 1)

\* The bytes of v, without leading zeros, but with one if the top bit is set.
IntToChar(v) ==
    LET bytes == BigEndian(v, IF v <= 255 THEN 1
                              ELSE IF v <= 65535 THEN 2
                              ELSE IF v <= 16777215 THEN 3 ELSE 4)
    IN  IF bytes[1] >= 128 THEN <<0>> \o bytes ELSE bytes

WriteInteger(v)      == <<IntegerTag, Len(IntToChar(v))>> \o IntToChar(v)
WriteString(s)       == TagAndLength(StringTag, Len(s)) \o s
WriteSequence(nodes) ==
    LET data == FlattenSeq(nodes) IN TagAndLength(SequenceTag, Len(data)) \o data

-----------------------------------------------------------------------------
(* Reading.                                                                   *)

\* A leading zero, which the code skips, adds nothing.
CharToInt(bytes) ==
    LET value[i \in 0..Len(bytes)] == IF i = 0 THEN 0 ELSE value[i - 1] * 256 + bytes[i]
    IN  value[Len(bytes)]

LengthErr == [value |-> -1, size |-> 0]

\* The length whose first byte is b[p], and the number of its bytes.  (128, which
\* the code reads as one more byte, is never written.)
GetLengthInfo(b, p) ==
    LET more == b[p] - 128
    IN  IF b[p] < 128 THEN [value |-> b[p], size |-> 1]
        ELSE IF more > 4 THEN LengthErr
        ELSE [value |-> CharToInt(SubSeq(b, p + 1, p + more)), size |-> more + 1]

\* The bytes of the item that starts at b[p].
ItemLength(b, p) ==
    LET length == GetLengthInfo(b, p + 1) IN 1 + length.size + length.value

\* What an item holds.
Payload(item)    == SubSeq(item, 2 + GetLengthInfo(item, 2).size, Len(item))
ReadInteger(item) == CharToInt(Payload(item))

\* ReadSequence looks at the tag number and at the length of the whole ...
IsSequence(b) == b[1] % 32 = SequenceTag % 32 /\ Len(b) = ItemLength(b, 1)

\* ... and cuts the rest into items.  (An item without bytes, or one past the end,
\* ends the cut: the code calls it an error, and no coder makes it.)
ReadSequence(b) ==
    LET data == Payload(b)
        from[p \in 1..Len(data) + 1] ==
            LET next == p + ItemLength(data, p)
            IN  IF p > Len(data) THEN <<>>
                ELSE IF next \notin p + 1..Len(data) + 1 THEN <<>>
                ELSE <<SubSeq(data, p, next - 1)>> \o from[next]
    IN  from[1]
=============================================================================
