------------------------------- MODULE DerItems --------------------------------
(* BaseASN1's other items: bit strings, BMP strings, NULL and nested           *)
(* sequences, as DD_ANYBUF nodes.  A node is its bytes, its type and its       *)
(* unusedBits; a list of nodes is a sequence, and a NULL pointer an empty one. *)
EXTENDS DerCoding

BitStringTag == 3
NullTag      == 5
BmpTag       == 30

Node(bytes, type, unused) == [data |-> bytes, type |-> type, unused |-> unused]

\* GetTagInfo on a tag of one byte, the only ones that are written.
TagValue(b) == IF b[1] >= 128 THEN b[1] ELSE b[1] % 32

\* The length modulo eight goes where the code keeps the unused bits.
StringToAnyBuf(s) == Node(s, StringTag, Len(s) % 8)

-----------------------------------------------------------------------------
(* Writing.                                                                   *)

WriteBitString(node) ==
    Node(TagAndLength(BitStringTag, Len(node.data) + 1) \o <<node.unused>> \o node.data,
         BitStringTag, node.unused)

WriteBmpString(node) ==
    Node(TagAndLength(BmpTag, Len(node.data)) \o node.data, BmpTag, 0)

WritePrintableString(node) ==
    IF node.type = BmpTag THEN WriteBmpString(node)
    ELSE Node(WriteString(node.data), StringTag, 0)

WriteNull == Node(<<NullTag, 0>>, NullTag, 0)

SequenceNode(nodes) ==
    Node(WriteSequence([i \in DOMAIN nodes |-> nodes[i].data]), SequenceTag % 32, 0)

WriteNullSequence == SequenceNode(<<WriteNull>>)

EncodeUnsignedChar(s) == WriteBitString(StringToAnyBuf(s))
EncodeChar(s)         == WritePrintableString(StringToAnyBuf(s))

-----------------------------------------------------------------------------
(* Reading.                                                                   *)

LengthNotEqual == Node(<<>>, -1, 0)

\* ReadTagAndLength and the copy of ReadBitString, ReadCharString, ReadBmpString and
\* ReadPrintableString, none of which looks at the tag: the node's type tells a bit
\* string, the tag a number, whose leading zero is dropped.
ReadString(node) ==
    LET bytes == Payload(node.data)
        skip  == \/ node.type = BitStringTag
                 \/ /\ TagValue(node.data) = IntegerTag
                    /\ Len(bytes) > 1 /\ bytes[1] = 0 /\ bytes[2] >= 128
    IN  IF Len(node.data) # ItemLength(node.data, 1) THEN LengthNotEqual
        ELSE Node(IF skip THEN Tail(bytes) ELSE bytes, TagValue(node.data),
                  IF node.type = BitStringTag THEN node.unused ELSE 0)

ReadNull(node) == SubSeq(node.data, 1, 2) = <<NullTag, 0>>

\* Variant: ReadSequence leaves dataType at zero.
NodesOfUntyped(node) ==
    LET items == ReadSequence(node.data) IN [i \in DOMAIN items |-> Node(items[i], 0, 0)]

\* ReadSequence's list; what it reads has no unusedBits.
NodesOf(node) ==
    LET items == ReadSequence(node.data)
    IN  [i \in DOMAIN items |-> Node(items[i], TagValue(items[i]), 0)]

\* DecodeUnsignedChar and DecodeChar.
DecodeUnsignedChar(node) == ReadString(node).data
DecodeChar(node)         == ReadString(node).data

-----------------------------------------------------------------------------
(* What is coded is decoded: string s as a bit string, a printable or a BMP   *)
(* string, by itself and as an item of a sequence, next to a number and NULLs *)
(* and in a sequence inside a sequence; and what was decoded, coded again,    *)
(* gives the same bytes.                                                      *)
ComesBack(s) ==
    LET bits  == EncodeUnsignedChar(s)
        chars == EncodeChar(s)
        bmp   == WritePrintableString([StringToAnyBuf(s) EXCEPT !.type = BmpTag])
        inner == SequenceNode(<<bmp, WriteNull, bits>>)
        outer == SequenceNode(<<bits, WriteNullSequence, inner, chars,
                                Node(WriteInteger(Len(s)), IntegerTag, 0)>>)
        nodes == NodesOf(outer)
        deep  == NodesOf(nodes[3])
    IN  /\ DecodeUnsignedChar(bits) = s /\ DecodeChar(chars) = s /\ ReadString(bmp).data = s
        /\ Len(nodes) = 5 /\ Len(deep) = 3
        /\ DecodeUnsignedChar(nodes[1]) = s /\ DecodeChar(nodes[4]) = s
        /\ ReadString(deep[1]).data = s /\ DecodeUnsignedChar(deep[3]) = s
        /\ ReadNull(NodesOf(nodes[2])[1]) /\ ReadNull(deep[2])
        /\ ReadInteger(nodes[5].data) = Len(s)
        /\ SequenceNode(nodes) = outer
        /\ EncodeUnsignedChar(DecodeUnsignedChar(nodes[1])).data = bits.data
=============================================================================
