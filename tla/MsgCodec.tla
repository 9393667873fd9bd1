------------------------------- MODULE MsgCodec -------------------------------
(* RequestCodec and RespondCodec on SequenceASN1: how a message struct becomes *)
(* a list of nodes, the list one string of bytes, and back.  The structs are   *)
(* bytes at their offsets, for a string runs to its first zero byte whatever   *)
(* member it belongs to, and the nodes lie on a heap that freeSequence returns *)
(* them to without a reset of the pointers.  unsigned long has eight bytes.    *)
EXTENDS DerItems, FiniteSets

CONSTANTS Messages,  \* the structs handed to the codecs: [kind, mem]
          Texts,     \* byte strings for the other items of BaseASN1
          MaxCalls,  \* bound on the calls of msgEncode and msgDecode
          MaxHeap    \* nodes the heap has room for

Null == 0

\* The members of RequestMsg and RespondMsg, in the order they are coded.
Layout == [
    request |-> <<[type |-> "int", at |-> 0],  [type |-> "str", at |-> 4],
                  [type |-> "str", at |-> 16], [type |-> "str", at |-> 81],
                  [type |-> "str", at |-> 93]>>,
    respond |-> <<[type |-> "int", at |-> 0],  [type |-> "str", at |-> 4],
                  [type |-> "str", at |-> 16], [type |-> "str", at |-> 28],
                  [type |-> "int", at |-> 92]>>]

\* The struct and what follows it on the heap.
SizeOf == [request |-> 160, respond |-> 96]
Memory(kind) == [0..(SizeOf[kind] + 7) -> 0..255]
Zeroed(kind) == [o \in 0..(SizeOf[kind] + 7) |-> 0]

\* memcpy of bytes to mem + at.
Stored(mem, at, bytes) ==
    [o \in DOMAIN mem |-> IF o - at \in 0..(Len(bytes) - 1) THEN bytes[o - at + 1] ELSE mem[o]]

\* The string at mem + at: strlen bytes.
CString(mem, at) ==
    LET end == CHOOSE e \in DOMAIN mem :
                   /\ e >= at /\ mem[e] = 0
                   /\ \A o \in at..(e - 1) : mem[o] # 0
    IN  [i \in 1..(end - at) |-> mem[at + i - 1]]

Negative(mem, at) == mem[at + 3] >= 128
IntAt(mem, at) ==
    mem[at] + 256 * mem[at + 1] + 65536 * mem[at + 2] + 16777216 * mem[at + 3]

\* A number as an unsigned long, lowest byte first.
LongBytes(v) == [i \in 1..8 |-> IF i > 4 THEN 0 ELSE BigEndian(v, 4)[5 - i]]

\* Every string of a struct has an end, at the latest right behind the struct: the
\* programs fill the members with at most as many characters as they have, and a
\* random string of 64 runs on into the key number.
StringsEnd(m) ==
    \A i \in DOMAIN Layout[m.kind] :
        LET member == Layout[m.kind][i]
        IN  member.type = "str" => \E e \in member.at..SizeOf[m.kind] : m.mem[e] = 0

\* Lengths are below 2^31: no text is so long that the items around it have more.
MaxText == 50000000

\* A call allocates at most five nodes, and m_temp for a time: the heap has room for
\* all of them, as allocations that fail are not modelled.
ASSUME MsgCodecAssumption ==
    /\ \A m \in Messages :
           m.kind \in DOMAIN Layout /\ m.mem \in Memory(m.kind) /\ StringsEnd(m)
    /\ \A s \in Texts : s \in Seq(0..255) /\ Len(s) <= MaxText
    /\ MaxCalls \in Nat /\ MaxHeap \in Nat /\ MaxHeap > 5 * MaxCalls

-----------------------------------------------------------------------------
VARIABLES
    msg,      \* mRequestMsg or mRespondMsg of the codec object
    pc,       \* where it is in msgEncode or msgDecode
    field,    \* the member being coded, from 1
    heap,     \* the nodes; a freed one keeps its bytes
    live,     \* the nodes that are allocated
    mHeader, mNext, mTemp,  \* SequenceASN1's m_header, m_next and m_temp
    out,      \* the last complete outData
    of,       \* history: the message it was made from
    data,     \* inData of a msgDecode
    pMsg,     \* the struct a msgDecode fills
    op, ret,  \* history: the last call and what it returned
    failures, \* history: the calls that failed
    calls     \* history: all calls

objVars == <<heap, live, mHeader, mNext, mTemp>>
callVars == <<out, of, data, pMsg, op, ret, failures, calls>>
vars == <<msg, pc, field, objVars, callVars>>

Addresses == 1..MaxHeap
NoMessage == [kind |-> "none"]

TypeOK ==
    /\ msg \in Messages /\ of \in Messages \cup {NoMessage}
    /\ pc \in {"idle", "encode", "pack", "unpack", "decode", "free"}
    /\ field \in 1..6
    /\ live \subseteq Addresses
    /\ \A a \in live : heap[a].next \in Addresses \cup {Null}
    /\ {mHeader, mNext, mTemp} \subseteq Addresses \cup {Null}
    /\ pMsg \in Memory(msg.kind)
    /\ op \in {"none", "encode", "decode"} /\ ret \in {0, -1}

Init ==
    /\ msg \in Messages
    /\ pc = "idle" /\ field = 1
    /\ heap = [a \in Addresses |-> [data |-> <<>>, next |-> Null]] /\ live = {}
    /\ mHeader = Null /\ mNext = Null /\ mTemp = Null
    /\ out = <<>> /\ of = NoMessage /\ data = <<>> /\ pMsg = Zeroed(msg.kind)
    /\ op = "none" /\ ret = 0 /\ failures = 0 /\ calls = 0

-----------------------------------------------------------------------------
(* The heap and the list.                                                     *)

\* malloc hands out the lowest free nodes, those just freed among them.
Malloc(i) == CHOOSE a \in Addresses \ live :
                 Cardinality({b \in Addresses \ live : b < a}) = i - 1

\* The list that starts at a, followed through whatever the heap holds.
List(a) ==
    LET node[i \in 1..(MaxHeap + 1)] ==
            IF i = 1 THEN a
            ELSE IF node[i - 1] = Null THEN Null ELSE heap[node[i - 1]].next
        count == CHOOSE n \in 0..MaxHeap :
                     /\ n = MaxHeap \/ node[n + 1] = Null
                     /\ \A i \in 1..n : node[i] # Null
    IN  [i \in 1..count |-> node[i]]

Returns(r) ==
    /\ pc' = "idle" /\ ret' = r
    /\ failures' = IF r = 0 THEN failures ELSE failures + 1

\* The codec object is deleted and a new one constructed: the destructor frees
\* no list.
New ==
    /\ pc = "idle" /\ calls < MaxCalls
    /\ \E m \in Messages : msg' = m /\ pMsg' = Zeroed(m.kind)
    /\ mHeader' = Null /\ mNext' = Null /\ mTemp' = Null
    /\ op' = "none" /\ ret' = 0
    /\ UNCHANGED <<pc, field, heap, live, out, of, data, failures, calls>>

-----------------------------------------------------------------------------
(* msgEncode.                                                                 *)

EncodeCall ==
    /\ pc = "idle" /\ calls < MaxCalls
    /\ pc' = "encode" /\ field' = 1
    /\ op' = "encode" /\ calls' = calls + 1
    /\ UNCHANGED <<msg, objVars, out, of, data, pMsg, ret, failures>>

Member == Layout[msg.kind][field]

\* EncodeChar refuses an empty string, IntToChar a negative number.
Encodable ==
    IF Member.type = "int" THEN ~Negative(msg.mem, Member.at)
    ELSE CString(msg.mem, Member.at) # <<>>

Item ==
    IF Member.type = "int" THEN WriteInteger(IntAt(msg.mem, Member.at))
    ELSE WriteString(CString(msg.mem, Member.at))

\* writeHeadNode for the first member, writeNextNode for the others.
WriteNode ==
    /\ pc = "encode" /\ Encodable
    /\ LET a == Malloc(1)
           linked == IF field = 1 THEN heap ELSE [heap EXCEPT ![mNext].next = a]
       IN  /\ heap' = [linked EXCEPT ![a] = [data |-> Item, next |-> Null]]
           /\ live' = live \cup {a}
           /\ mHeader' = IF field = 1 THEN a ELSE mHeader
           /\ mNext' = a
    /\ field' = field + 1
    /\ pc' = IF field = Len(Layout[msg.kind]) THEN "pack" ELSE "encode"
    /\ UNCHANGED <<msg, mTemp, callVars>>

\* msgEncode returns -1; the list so far is neither freed nor forgotten.
WriteNodeFails ==
    /\ pc = "encode" /\ ~Encodable
    /\ Returns(-1)
    /\ field' = 1
    /\ UNCHANGED <<msg, objVars, out, of, data, pMsg, op, calls>>

\* packSequence: m_temp is allocated, copied to outData and freed.
Pack ==
    /\ pc = "pack"
    /\ LET list == List(mHeader)
       IN  out' = WriteSequence([i \in 1..Len(list) |-> heap[list[i]].data])
    /\ of' = msg
    /\ pc' = "free" /\ field' = 1
    /\ UNCHANGED <<msg, objVars, data, pMsg, op, ret, failures, calls>>

\* Variant: only the head of the list is freed.
FreeHead ==
    /\ pc = "free"
    /\ live' = live \ {mHeader}
    /\ Returns(0)
    /\ UNCHANGED <<msg, field, heap, mHeader, mNext, mTemp, out, of, data, pMsg, op, calls>>

\* freeSequence(NULL): the list of m_header, which keeps pointing to it.
Free ==
    /\ pc = "free"
    /\ live' = live \ ToSet(List(mHeader))
    /\ Returns(0)
    /\ UNCHANGED <<msg, field, heap, mHeader, mNext, mTemp, out, of, data, pMsg, op, calls>>

-----------------------------------------------------------------------------
(* msgDecode.                                                                 *)

\* inData is what a codec of the same kind has made, or not all of it.
DecodeCall ==
    /\ pc = "idle" /\ calls < MaxCalls
    /\ of # NoMessage /\ of.kind = msg.kind
    /\ data' \in {out, Front(out)}
    /\ pMsg' = Zeroed(msg.kind)
    /\ pc' = "unpack" /\ field' = 1
    /\ op' = "decode" /\ calls' = calls + 1
    /\ UNCHANGED <<msg, objVars, out, of, ret, failures>>

\* unpackSequence: m_temp holds inData while the list is made from it.
Unpack ==
    /\ pc = "unpack" /\ IsSequence(data)
    /\ LET items == ReadSequence(data)
           addr == [i \in 1..(Len(items) + 1) |-> IF i > Len(items) THEN Null ELSE Malloc(i + 1)]
           new == {addr[i] : i \in 1..Len(items)}
           nth(a) == CHOOSE i \in 1..Len(items) : addr[i] = a
       IN  /\ heap' = [a \in Addresses |->
                  IF a \in new THEN [data |-> items[nth(a)], next |-> addr[nth(a) + 1]]
                  ELSE heap[a]]
           /\ live' = live \cup new
           /\ mHeader' = addr[1]
    /\ mTemp' = Null
    /\ pc' = "decode"
    /\ UNCHANGED <<msg, field, mNext, callVars>>

\* msgDecode returns NULL; m_temp is not freed.
UnpackFails ==
    /\ pc = "unpack" /\ ~IsSequence(data)
    /\ mTemp' = Malloc(1) /\ live' = live \cup {Malloc(1)}
    /\ Returns(-1)
    /\ UNCHANGED <<msg, field, heap, mHeader, mNext, out, of, data, pMsg, op, calls>>

\* Variant: a node is freed as soon as it is read.
ReadNodeFrees ==
    /\ pc = "decode"
    /\ LET node == heap[IF field = 1 THEN mHeader ELSE mNext]
       IN  /\ pMsg' = Stored(pMsg, Member.at,
                             IF Member.type = "int" THEN LongBytes(ReadInteger(node.data))
                             ELSE Payload(node.data))
           /\ mNext' = node.next
    /\ live' = live \ {IF field = 1 THEN mHeader ELSE mNext}
    /\ IF field = Len(Layout[msg.kind])
       THEN pc' = "free" /\ field' = 1
       ELSE pc' = "decode" /\ field' = field + 1
    /\ UNCHANGED <<msg, heap, mHeader, mTemp, out, of, data, op, ret, failures, calls>>

\* readHeadNode for the first member, readNextNode for the others: a number is
\* stored as an unsigned long, a string without a terminator.
ReadNode ==
    /\ pc = "decode"
    /\ LET node == heap[IF field = 1 THEN mHeader ELSE mNext]
       IN  /\ pMsg' = Stored(pMsg, Member.at,
                             IF Member.type = "int" THEN LongBytes(ReadInteger(node.data))
                             ELSE Payload(node.data))
           /\ mNext' = node.next
    /\ IF field = Len(Layout[msg.kind])
       THEN pc' = "free" /\ field' = 1
       ELSE pc' = "decode" /\ field' = field + 1
    /\ UNCHANGED <<msg, heap, live, mHeader, mTemp, out, of, data, op, ret, failures, calls>>

Next ==
    \/ New \/ EncodeCall \/ WriteNode \/ WriteNodeFails \/ Pack \/ Free
    \/ DecodeCall \/ Unpack \/ UnpackFails \/ ReadNode

Spec == Init /\ [][Next]_vars
-----------------------------------------------------------------------------
(* Properties.                                                                *)

\* What a program reads from a struct.
Value(mem, m) == IF m.type = "int" THEN <<IntAt(mem, m.at)>> ELSE CString(mem, m.at)

\* A message decoded is the message encoded, member by member, though a random
\* string of 64 characters runs on into the key number behind it and numbers are
\* stored as eight bytes over the member behind them; whatever lengths the items
\* and the whole have, and whatever the object was used for before.  What is cut
\* short is refused.
RoundTrip ==
    pc = "idle" /\ op = "decode" =>
        IF data # out THEN ret = -1
        ELSE /\ ret = 0
             /\ \A i \in DOMAIN Layout[msg.kind] :
                    LET m == Layout[msg.kind][i] IN Value(pMsg, m) = Value(of.mem, m)

\* msgEncode and msgDecode follow no pointer to a freed node and free none twice,
\* though m_header and m_next point to freed nodes between the calls.
PointersLive ==
    /\ pc = "encode" /\ field > 1 => mNext \in live
    /\ pc = "decode" => (IF field = 1 THEN mHeader ELSE mNext) \in live
    /\ pc \in {"pack", "free"} => mHeader # Null /\ ToSet(List(mHeader)) \subseteq live

\* Calls that succeed leave no node behind; only failed ones do.
OnlyFailuresLeak == pc = "idle" /\ failures = 0 => live = {}

\* The items of the coder beneath come back too, whatever their lengths: a sequence's nodes
\* are made anew from the bytes and know a string's kind by its tag only.  (This does not
\* depend on the state; it is looked at before the first call.)
ItemsRoundTrip == calls = 0 => \A s \in Texts : ComesBack(s)
=============================================================================
