--------------------------- MODULE TcpSocketProofs ---------------------------
(* Proofs about TcpSocket: the types, the framing of the stream, and that      *)
(* recvMsg delivers what sendMsg was given.  The inductive invariant says      *)
(* where every byte of an undelivered message is: with the receiver, on the    *)
(* wire, or in a tail that is still to be written or is lost for good.         *)
EXTENDS TcpSocket, SequenceLemmas

SenderInv == sPc = "writing" <=> rest # <<>>

ReceiverInv ==
    /\ rPc \in {"idle", "select", "failed"} => got = <<>> /\ want = 0
    /\ rPc = "header" => want = 4
    /\ rPc = "payload" => want \in Lengths

ResetInv == reset => wire = <<>>

\* What was read, what is on the wire and what is missing make up the stream of
\* the messages not delivered; the sender still has what is missing, unless it
\* is gone or the connection is reset.
StreamInv ==
    /\ Len(rcvd) <= Len(sent)
    /\ \E tail \in Seq(Bytes) :
          /\ Taken \o (wire \o tail) = Stream(sent, Len(rcvd))
          /\ Sending /\ ~reset => tail = rest

IInv == TypeOK /\ SenderInv /\ ReceiverInv /\ ResetInv /\ StreamInv

-----------------------------------------------------------------------------
(* Frames.                                                                    *)

LEMMA Assoc == \A s, t, u \in Seq(Bytes) : (s \o t) \o u = s \o (t \o u)
  BY ConcatAssociative

\* Division by 256, by its remainder, and division in two steps.
LEMMA DivMod ==
    \A n \in Nat : /\ n \div 256 \in Nat /\ n % 256 \in Bytes
                  /\ (n \div 256) * 256 + (n % 256) = n
                  /\ n \div 65536 = (n \div 256) \div 256
  BY DEF Bytes

\* ntohl undoes htonl.
LEMMA HeaderType ==
    ASSUME NEW n \in Lengths
    PROVE  Header(n) \in Seq(Bytes) /\ Len(Header(n)) = 4 /\ Length(Header(n)) = n
<1>1. n \in Nat /\ (n + 4) \div 65536 < 32768
  BY DEF Lengths
<1>2. n \div 65536 \in Nat /\ n \div 65536 < 32768
  <2>1. n \div 65536 <= (n + 4) \div 65536
    BY <1>1
  <2>2. QED
    BY <1>1, <2>1
<1>3. (n \div 65536) \div 256 \in Bytes
  BY <1>2 DEF Bytes
<1>4. /\ (n \div 65536) % 256 \in Bytes /\ (n \div 256) % 256 \in Bytes /\ n % 256 \in Bytes
  BY <1>1, <1>2, DivMod
<1>5. Header(n) \in Seq(Bytes) /\ Len(Header(n)) = 4
  BY <1>3, <1>4 DEF Header
<1>6. ((n \div 65536) \div 256) * 256 + ((n \div 65536) % 256) = n \div 65536
  BY <1>2, DivMod
<1>7. (n \div 65536) * 256 + ((n \div 256) % 256) = n \div 256
  BY <1>1, DivMod
<1>8. Length(Header(n)) = n
  <2> DEFINE h == Header(n)
  <2>1. /\ h[1] = (n \div 65536) \div 256 /\ h[2] = (n \div 65536) % 256
        /\ h[3] = (n \div 256) % 256 /\ h[4] = n % 256
    BY DEF Header
  <2> HIDE DEF h
  <2>2. h[1] * 256 + h[2] = n \div 65536
    BY <1>6, <2>1
  <2>3. (h[1] * 256 + h[2]) * 256 + h[3] = n \div 256
    BY <1>7, <2>1, <2>2
  <2>4. ((h[1] * 256 + h[2]) * 256 + h[3]) * 256 + h[4] = n
    BY <1>1, <2>1, <2>3, DivMod
  <2>5. QED
    BY <2>4 DEF Length, h
<1>9. QED
  BY <1>5, <1>8

LEMMA MessageType ==
    ASSUME NEW m \in Msgs
    PROVE  m \in Seq(Bytes) /\ Len(m) \in Lengths /\ m # <<>>
<1>1. m \in Seq(Bytes) /\ Len(m) \in Lengths
  BY TcpSocketAssumption DEF TcpSocketAssumption
<1>2. 0 \notin Lengths /\ Len(<<>>) = 0
  BY DEF Lengths
<1>3. QED
  BY <1>1, <1>2

LEMMA FrameType ==
    ASSUME NEW m \in Msgs
    PROVE  Frame(m) \in Seq(Bytes) /\ Frame(m) # <<>>
<1>1. Header(Len(m)) \in Seq(Bytes) /\ Len(Header(Len(m))) = 4 /\ m \in Seq(Bytes)
  BY HeaderType, MessageType
<1>2. Len(Frame(m)) = Len(Header(Len(m))) + Len(m) /\ Frame(m) \in Seq(Bytes)
  <2> DEFINE h == Header(Len(m))
  <2> HIDE DEF h
  <2>1. Len(h \o m) = Len(h) + Len(m) /\ h \o m \in Seq(Bytes)
    BY <1>1, ConcatProperties DEF h
  <2>2. QED
    BY <2>1 DEF Frame, h
<1>3. Len(m) \in Nat
  BY <1>1, LenProperties
<1>4. Len(Frame(m)) # 0
  BY <1>1, <1>2, <1>3
<1>5. QED
  BY <1>2, <1>4, EmptySeq

-----------------------------------------------------------------------------
(* Stream.                                                                    *)

\* The frames of the messages of s after the k-th.
Frames(s, k) == [i \in 1..(Len(s) - k) |-> Frame(s[k + i])]

LEMMA FramesType ==
    ASSUME NEW s \in Seq(Msgs), NEW k \in 0..Len(s)
    PROVE  Frames(s, k) \in Seq(Seq(Bytes)) /\ Len(Frames(s, k)) = Len(s) - k
<1>1. Len(s) \in Nat /\ Len(s) - k \in Nat
  OBVIOUS
<1>2. ASSUME NEW i \in 1..(Len(s) - k) PROVE Frame(s[k + i]) \in Seq(Bytes)
  <2>1. k + i \in 1..Len(s)
    BY <1>1
  <2>2. s[k + i] \in Msgs
    BY <2>1, ElementOfSeq
  <2>3. QED
    BY <2>2, FrameType
<1>3. Frames(s, k) \in [1..(Len(s) - k) -> Seq(Bytes)]
  BY <1>2 DEF Frames
<1> HIDE DEF Frames
<1>4. QED
  BY <1>1, <1>3, FunctionIsSeq

LEMMA StreamType ==
    ASSUME NEW s \in Seq(Msgs), NEW k \in 0..Len(s)
    PROVE  Stream(s, k) \in Seq(Bytes)
  BY FramesType, FlattenType DEF Stream, Frames

LEMMA StreamNone ==
    ASSUME NEW s \in Seq(Msgs)
    PROVE  Stream(s, Len(s)) = <<>>
<1>1. Len(s) \in 0..Len(s)
  OBVIOUS
<1>2. Frames(s, Len(s)) = <<>>
  BY <1>1, FramesType
<1>3. QED
  BY <1>2, FlattenEmpty DEF Stream, Frames

\* A message sent adds its frame at the end of the stream.
LEMMA StreamSend ==
    ASSUME NEW s \in Seq(Msgs), NEW k \in 0..Len(s), NEW m \in Msgs
    PROVE  Stream(Append(s, m), k) = Stream(s, k) \o Frame(m)
<1> DEFINE t == Append(s, m)
<1>1. /\ t \in Seq(Msgs) /\ Len(t) = Len(s) + 1 /\ Len(s) \in Nat
      /\ \A i \in 1..Len(s) : t[i] = s[i]
      /\ t[Len(s) + 1] = m
  BY AppendProperties
<1> HIDE DEF t
<1>2. k \in 0..Len(t) /\ Frame(m) \in Seq(Bytes)
  BY <1>1, FrameType
<1> DEFINE f == Frames(s, k)
           g == Append(f, Frame(m))
<1>3. f \in Seq(Seq(Bytes)) /\ Len(f) = Len(s) - k /\ Len(f) \in Nat
  BY FramesType
<1>4. Frames(t, k) \in Seq(Seq(Bytes)) /\ Len(Frames(t, k)) = Len(s) + 1 - k
  BY <1>1, <1>2, FramesType
<1>5. /\ g \in Seq(Seq(Bytes)) /\ Len(g) = Len(f) + 1
      /\ \A i \in 1..Len(f) : g[i] = f[i]
      /\ g[Len(f) + 1] = Frame(m)
  <2> HIDE DEF f
  <2> QED
    BY <1>2, <1>3, AppendProperties
<1>6. ASSUME NEW i \in 1..Len(g) PROVE Frames(t, k)[i] = g[i]
  <2>1. i \in 1..(Len(t) - k)
    BY <1>1, <1>3, <1>5
  <2>2. Frames(t, k)[i] = Frame(t[k + i])
    BY <2>1 DEF Frames
  <2>3. CASE i = Len(f) + 1
    <3>1. k + i = Len(s) + 1
      BY <2>3, <1>1, <1>3
    <3>2. QED
      BY <3>1, <2>2, <2>3, <1>1, <1>5
  <2>4. CASE i # Len(f) + 1
    <3>1. i \in 1..(Len(s) - k) /\ i \in 1..Len(f) /\ k + i \in 1..Len(s)
      BY <2>4, <1>1, <1>3, <1>5
    <3>2. f[i] = Frame(s[k + i])
      BY <3>1 DEF Frames
    <3>3. QED
      BY <3>1, <3>2, <2>2, <1>1, <1>5
  <2>5. QED
    BY <2>3, <2>4
<1>7. Frames(t, k) = g
  <2> HIDE DEF g, f
  <2>1. Len(Frames(t, k)) = Len(g)
    BY <1>1, <1>3, <1>4, <1>5
  <2>2. QED
    BY <2>1, <1>4, <1>5, <1>6, SeqEqual
<1>8. FlattenSeq(g) = FlattenSeq(f) \o Frame(m)
  <2> HIDE DEF f
  <2> QED
    BY <1>2, <1>3, FlattenAppend
<1>9. QED
  BY <1>7, <1>8 DEF Stream, Frames, t

\* The stream begins with the frame of the first message not delivered.
LEMMA StreamHead ==
    ASSUME NEW s \in Seq(Msgs), NEW k \in 0..Len(s), k < Len(s)
    PROVE  /\ s[k + 1] \in Msgs
           /\ Stream(s, k) = Frame(s[k + 1]) \o Stream(s, k + 1)
<1>1. /\ Len(s) \in Nat /\ k + 1 \in 1..Len(s) /\ k + 1 \in 0..Len(s)
      /\ Len(s) - k = Len(s) - (k + 1) + 1
  OBVIOUS
<1>2. s[k + 1] \in Msgs
  BY <1>1, ElementOfSeq
<1> DEFINE t == Frame(s[k + 1])
           f == Frames(s, k + 1)
           g == <<t>> \o f
<1>3. t \in Seq(Bytes) /\ <<t>> \in Seq(Seq(Bytes)) /\ Len(<<t>>) = 1 /\ <<t>>[1] = t
  <2>1. t \in Seq(Bytes)
    BY <1>2, FrameType
  <2> HIDE DEF t
  <2>2. QED
    BY <2>1
<1>4. f \in Seq(Seq(Bytes)) /\ Len(f) = Len(s) - (k + 1) /\ Len(f) \in Nat
  <2>1. f \in Seq(Seq(Bytes)) /\ Len(f) = Len(s) - (k + 1)
    BY <1>1, FramesType
  <2> HIDE DEF f
  <2>2. QED
    BY <2>1, <1>1
<1>5. Frames(s, k) \in Seq(Seq(Bytes)) /\ Len(Frames(s, k)) = Len(s) - k
  BY FramesType
<1>6. /\ g \in Seq(Seq(Bytes)) /\ Len(g) = 1 + Len(f)
      /\ \A i \in 1..(1 + Len(f)) : g[i] = IF i <= 1 THEN <<t>>[i] ELSE f[i - 1]
  <2> DEFINE h == <<t>>
  <2>1. h \in Seq(Seq(Bytes)) /\ Len(h) = 1
    BY <1>3
  <2> HIDE DEF h, f
  <2>2. /\ h \o f \in Seq(Seq(Bytes)) /\ Len(h \o f) = Len(h) + Len(f)
        /\ \A i \in 1..(Len(h) + Len(f)) :
              (h \o f)[i] = IF i <= Len(h) THEN h[i] ELSE f[i - Len(h)]
    BY <1>4, <2>1, ConcatProperties
  <2>3. QED
    BY <2>1, <2>2 DEF h
<1>7. ASSUME NEW i \in 1..Len(g) PROVE Frames(s, k)[i] = g[i]
  <2>1. i \in 1..(Len(s) - k) /\ i \in 1..(1 + Len(f))
    BY <1>1, <1>4, <1>6
  <2>2. Frames(s, k)[i] = Frame(s[k + i])
    BY <2>1 DEF Frames
  <2>3. CASE i = 1
    <3>1. g[i] = t
      BY <2>1, <2>3, <1>3, <1>6
    <3>2. QED
      BY <3>1, <2>2, <2>3
  <2>4. CASE i # 1
    <3>1. /\ ~(i <= 1) /\ i - 1 \in 1..(Len(s) - (k + 1)) /\ (k + 1) + (i - 1) = k + i
      BY <2>1, <2>4, <1>1
    <3>2. f[i - 1] = Frame(s[(k + 1) + (i - 1)])
      BY <3>1 DEF Frames
    <3>3. g[i] = f[i - 1]
      BY <3>1, <2>1, <1>6
    <3>4. QED
      BY <3>1, <3>2, <3>3, <2>2
  <2>5. QED
    BY <2>3, <2>4
<1>8. Frames(s, k) = g
  <2> HIDE DEF g, f
  <2>1. Len(Frames(s, k)) = Len(g)
    BY <1>1, <1>4, <1>5, <1>6
  <2>2. QED
    BY <2>1, <1>5, <1>6, <1>7, SeqEqual
<1>9. FlattenSeq(g) = t \o FlattenSeq(f)
  <2> HIDE DEF t, f
  <2> QED
    BY <1>3, <1>4, FlattenCons
<1>10. QED
  BY <1>2, <1>8, <1>9 DEF Stream, Frames

-----------------------------------------------------------------------------
(* The inductive invariant.                                                   *)

LEMMA TakenType ==
    ASSUME TypeOK, ReceiverInv
    PROVE  Taken \in Seq(Bytes)
<1>1. <<>> \in Seq(Bytes) /\ got \in Seq(Bytes)
  BY DEF TypeOK
<1>2. ASSUME rPc = "payload" PROVE Header(want) \o got \in Seq(Bytes)
  <2>1. Header(want) \in Seq(Bytes)
    BY <1>2, HeaderType DEF ReceiverInv
  <2>2. QED
    BY <1>1, <2>1, ConcatProperties
<1>3. QED
  BY <1>1, <1>2 DEF Taken

\* The counts of messages, and the stream of those not delivered.
LEMMA Counts ==
    ASSUME TypeOK, StreamInv
    PROVE  /\ Len(sent) \in Nat /\ Len(rcvd) \in 0..Len(sent)
           /\ Stream(sent, Len(rcvd)) \in Seq(Bytes)
<1>1. Len(sent) \in Nat /\ Len(rcvd) \in Nat /\ Len(rcvd) <= Len(sent) /\ sent \in Seq(Msgs)
  BY LenProperties DEF TypeOK, StreamInv
<1>2. Len(rcvd) \in 0..Len(sent)
  BY <1>1
<1>3. QED
  BY <1>1, <1>2, StreamType

\* A step that moves no byte of the stream keeps StreamInv.
LEMMA StreamKept ==
    ASSUME StreamInv, Taken' = Taken, UNCHANGED <<wire, sent, rcvd>>,
           Sending' /\ ~reset' => Sending /\ ~reset /\ rest' = rest
    PROVE  StreamInv'
<1>1. Stream(sent, Len(rcvd))' = Stream(sent, Len(rcvd))
  BY DEF Stream, Frame, Header
<1>2. PICK tail \in Seq(Bytes) : /\ Taken \o (wire \o tail) = Stream(sent, Len(rcvd))
                                 /\ Sending /\ ~reset => tail = rest
  BY DEF StreamInv
<1>3. Taken' \o (wire' \o tail) = Stream(sent, Len(rcvd))'
  BY <1>1, <1>2
<1>4. Sending' /\ ~reset' => tail = rest'
  BY <1>2
<1>5. Len(rcvd') <= Len(sent')
  BY DEF StreamInv
<1>6. QED
  BY <1>3, <1>4, <1>5 DEF StreamInv

LEMMA InitInv == Init => IInv
<1> SUFFICES ASSUME Init PROVE IInv
  OBVIOUS
<1>1. TypeOK
  <2>1. <<>> \in Seq(Bytes) /\ Len(<<>>) = 0 /\ <<>> \in Seq(Msgs) /\ <<>> \in Seq(Seq(Bytes))
    BY EmptySeq
  <2>2. 0 <= Buffer /\ 0 <= MaxSent /\ 0 \in Nat /\ 0 <= 0
    BY TcpSocketAssumption DEF TcpSocketAssumption
  <2>3. QED
    BY <2>1, <2>2 DEF Init, TypeOK
<1>2. SenderInv /\ ReceiverInv /\ ResetInv
  BY DEF Init, SenderInv, ReceiverInv, ResetInv
<1>3. StreamInv
  <2>1. Stream(sent, Len(rcvd)) = <<>>
    <3>1. sent \in Seq(Msgs) /\ rcvd = sent
      BY <1>1 DEF Init, TypeOK
    <3>2. QED
      BY <3>1, StreamNone
  <2>2. <<>> \in Seq(Bytes) /\ <<>> \o (<<>> \o <<>>) = <<>> /\ Len(<<>>) <= Len(<<>>)
    OBVIOUS
  <2>3. Taken = <<>> /\ wire = <<>> /\ rest = <<>> /\ Len(rcvd) <= Len(sent)
    BY <2>2 DEF Init, Taken
  <2>4. QED
    BY <2>1, <2>2, <2>3 DEF StreamInv
<1>4. QED
  BY <1>1, <1>2, <1>3 DEF IInv

LEMMA SendInv == IInv /\ Send => IInv'
<1> SUFFICES ASSUME IInv, Send PROVE IInv'
  OBVIOUS
<1>1. TypeOK /\ SenderInv /\ ReceiverInv /\ ResetInv /\ StreamInv
  BY DEF IInv
<1>2. PICK m \in Msgs : rest' = Frame(m) /\ sent' = Append(sent, m)
  BY DEF Send
<1>3. Frame(m) \in Seq(Bytes) /\ Frame(m) # <<>>
  BY FrameType
<1>4. sent' \in Seq(Msgs) /\ Len(sent') = Len(sent) + 1 /\ Len(sent) \in Nat
  BY <1>1, <1>2, AppendProperties, LenProperties DEF TypeOK
<1>5. /\ sPc = "idle" /\ sPc' = "writing" /\ Len(sent) < MaxSent
      /\ UNCHANGED <<wire, reset, rPc, got, want, rcvd>>
  BY DEF Send
<1>6. TypeOK'
  <2>1. Len(sent') <= MaxSent
    BY <1>4, <1>5, TcpSocketAssumption DEF TcpSocketAssumption
  <2>2. rest' \in Seq(Bytes)
    BY <1>2, <1>3
  <2>3. QED
    BY <1>1, <1>4, <1>5, <2>1, <2>2 DEF TypeOK
<1>7. SenderInv' /\ ReceiverInv' /\ ResetInv'
  BY <1>1, <1>2, <1>3, <1>5 DEF SenderInv, ReceiverInv, ResetInv
<1>8. StreamInv'
  <2>1. PICK tail \in Seq(Bytes) : /\ Taken \o (wire \o tail) = Stream(sent, Len(rcvd))
                                   /\ Sending /\ ~reset => tail = rest
    BY <1>1 DEF StreamInv
  <2> DEFINE next == tail \o Frame(m)
  <2>2. next \in Seq(Bytes)
    BY <1>3, ConcatProperties
  <2>3. Stream(sent', Len(rcvd)) = Stream(sent, Len(rcvd)) \o Frame(m)
    BY <1>1, <1>2, Counts, StreamSend DEF TypeOK
  <2>4. Taken \in Seq(Bytes) /\ wire \in Seq(Bytes) /\ wire \o tail \in Seq(Bytes)
    BY <1>1, TakenType, ConcatProperties DEF TypeOK
  <2>5. Taken \o (wire \o next) = (Taken \o (wire \o tail)) \o Frame(m)
    <3>1. (Taken \o (wire \o tail)) \o Frame(m) = Taken \o ((wire \o tail) \o Frame(m))
      BY <1>3, <2>4, Assoc, SMTT(30)
    <3>2. (wire \o tail) \o Frame(m) = wire \o (tail \o Frame(m))
      BY <1>3, <2>4, Assoc
    <3>3. QED
      BY <3>1, <3>2
  <2>6. Taken' = Taken /\ wire' = wire /\ rcvd' = rcvd
    BY <1>5 DEF Taken, Header
  <2>7. Taken' \o (wire' \o next) = Stream(sent', Len(rcvd'))
    BY <2>1, <2>3, <2>5, <2>6
  <2>8. Sending' /\ ~reset' => next = rest'
    <3>1. ASSUME ~reset' PROVE next = rest'
      <4>1. tail = <<>>
        BY <1>1, <1>5, <2>1, <3>1 DEF Sending, SenderInv
      <4>2. <<>> \o Frame(m) = Frame(m)
        BY <1>3, ConcatEmptySeq
      <4>3. QED
        BY <1>2, <4>1, <4>2
    <3>2. QED
      BY <3>1
  <2>9. Len(rcvd') <= Len(sent')
    BY <1>1, <1>4, <2>6, Counts
  <2> HIDE DEF next
  <2>10. QED
    BY <2>2, <2>7, <2>8, <2>9 DEF StreamInv
<1>9. QED
  BY <1>6, <1>7, <1>8 DEF IInv

LEMMA WriteInv == IInv /\ Write => IInv'
<1> SUFFICES ASSUME IInv, Write PROVE IInv'
  OBVIOUS
<1>1. TypeOK /\ SenderInv /\ ReceiverInv /\ ResetInv /\ StreamInv
  BY DEF IInv
<1>2. PICK n \in 1..Len(rest) : /\ Len(wire) + n <= Buffer
                                /\ wire' = wire \o SubSeq(rest, 1, n)
                                /\ rest' = SubSeq(rest, n + 1, Len(rest))
  BY DEF Write
<1> DEFINE front == SubSeq(rest, 1, n)
<1>3. /\ front \in Seq(Bytes) /\ Len(front) = n
      /\ rest' \in Seq(Bytes)
      /\ front \o rest' = rest
  BY <1>1, <1>2, Cut DEF TypeOK
<1> HIDE DEF front
<1>4. /\ wire' = wire \o front
      /\ wire \in Seq(Bytes) /\ wire' \in Seq(Bytes) /\ Len(wire') = Len(wire) + n
  <2>1. wire' = wire \o front
    BY <1>2 DEF front
  <2>2. QED
    BY <1>1, <1>3, <2>1, ConcatProperties DEF TypeOK
<1>5. /\ sPc = "writing" /\ ~reset
      /\ sPc' = IF rest' = <<>> THEN "idle" ELSE "writing"
      /\ UNCHANGED <<reset, rPc, got, want, sent, rcvd>>
  BY DEF Write
<1>6. TypeOK'
  <2>1. Len(wire') <= Buffer
    BY <1>2, <1>4
  <2>2. sPc' \in {"idle", "writing", "closed", "dead"}
    BY <1>5
  <2>3. QED
    BY <1>1, <1>3, <1>4, <1>5, <2>1, <2>2 DEF TypeOK
<1>7. SenderInv' /\ ReceiverInv' /\ ResetInv'
  BY <1>1, <1>5 DEF SenderInv, ReceiverInv, ResetInv
<1>8. StreamInv'
  <2>1. Taken \o (wire \o rest) = Stream(sent, Len(rcvd)) /\ Len(rcvd) <= Len(sent)
    BY <1>1, <1>5 DEF StreamInv, Sending
  <2>2. wire \o rest = wire' \o rest'
    BY <1>1, <1>3, <1>4, Assoc, ZenonT(60) DEF TypeOK
  <2>3. Taken' = Taken /\ sent' = sent /\ rcvd' = rcvd
    BY <1>5 DEF Taken, Header
  <2>4. Taken' \o (wire' \o rest') = Stream(sent', Len(rcvd'))
    BY <2>1, <2>2, <2>3
  <2>5. QED
    BY <1>3, <2>1, <2>3, <2>4 DEF StreamInv
<1>9. QED
  BY <1>6, <1>7, <1>8 DEF IInv

\* Steps that end writen or the sender: nothing more of this message is written, and
\* where the sender goes on the connection is reset.
LEMMA SenderEndsInv == IInv /\ (WriteFails \/ SenderGone) => IInv'
<1> SUFFICES ASSUME IInv, WriteFails \/ SenderGone PROVE IInv'
  OBVIOUS
<1>1. TypeOK /\ SenderInv /\ ReceiverInv /\ ResetInv /\ StreamInv
  BY DEF IInv
<1>2. /\ sPc' \in {"idle", "closed", "dead"} /\ rest' = <<>>
      /\ sPc' = "idle" => reset
      /\ UNCHANGED <<wire, reset, rPc, got, want, sent, rcvd>>
  BY DEF WriteFails, SenderGone
<1>3. TypeOK'
  BY <1>1, <1>2, EmptySeq DEF TypeOK
<1>4. SenderInv' /\ ReceiverInv' /\ ResetInv'
  BY <1>1, <1>2 DEF SenderInv, ReceiverInv, ResetInv
<1>5. StreamInv'
  <2>1. Taken' = Taken /\ (Sending' => reset')
    BY <1>2 DEF Taken, Header, Sending
  <2>2. QED
    BY <1>1, <1>2, <2>1, StreamKept
<1>6. QED
  BY <1>3, <1>4, <1>5 DEF IInv

\* A reset loses what is on the wire; it joins what is missing.
LEMMA ResetStepInv == IInv /\ Reset => IInv'
<1> SUFFICES ASSUME IInv, Reset PROVE IInv'
  OBVIOUS
<1>1. TypeOK /\ SenderInv /\ ReceiverInv /\ ResetInv /\ StreamInv
  BY DEF IInv
<1>2. reset' = TRUE /\ wire' = <<>> /\ UNCHANGED <<sPc, rest, rPc, got, want, sent, rcvd>>
  BY DEF Reset
<1>3. TypeOK'
  <2>1. wire' \in Seq(Bytes) /\ Len(wire') <= Buffer
    BY <1>2, TcpSocketAssumption, EmptySeq DEF TcpSocketAssumption
  <2>2. QED
    BY <1>1, <1>2, <2>1 DEF TypeOK
<1>4. SenderInv' /\ ReceiverInv' /\ ResetInv'
  BY <1>1, <1>2 DEF SenderInv, ReceiverInv, ResetInv
<1>5. StreamInv'
  <2>1. PICK tail \in Seq(Bytes) : Taken \o (wire \o tail) = Stream(sent, Len(rcvd))
    BY <1>1 DEF StreamInv
  <2> DEFINE lost == wire \o tail
  <2>2. lost \in Seq(Bytes)
    BY <1>1, ConcatProperties DEF TypeOK
  <2>3. Taken \o lost = Stream(sent, Len(rcvd))
    BY <2>1
  <2> HIDE DEF lost
  <2>4. <<>> \o lost = lost
    BY <2>2, ConcatEmptySeq
  <2>5. Taken' = Taken /\ sent' = sent /\ rcvd' = rcvd
    BY <1>2 DEF Taken, Header
  <2>6. Taken' \o (wire' \o lost) = Stream(sent', Len(rcvd'))
    BY <1>2, <2>3, <2>4, <2>5
  <2>7. Len(rcvd') <= Len(sent')
    BY <1>1, <2>5 DEF StreamInv
  <2>8. QED
    BY <1>2, <2>2, <2>6, <2>7 DEF StreamInv
<1>6. QED
  BY <1>3, <1>4, <1>5 DEF IInv

\* The steps of recvMsg outside readn.
LEMMA RecvInv == IInv /\ (Recv \/ Readable \/ RecvTimeout) => IInv'
<1> SUFFICES ASSUME IInv, Recv \/ Readable \/ RecvTimeout PROVE IInv'
  OBVIOUS
<1>1. TypeOK /\ SenderInv /\ ReceiverInv /\ ResetInv /\ StreamInv
  BY DEF IInv
<1>2. /\ rPc \in {"idle", "select"} /\ rPc' \in {"idle", "select", "header"}
      /\ got' = <<>> /\ want' = (IF rPc' = "header" THEN 4 ELSE 0)
      /\ UNCHANGED <<sPc, rest, wire, reset, sent, rcvd>>
  BY <1>1 DEF Recv, Readable, RecvTimeout, ReceiverInv
<1>3. TypeOK'
  <2>1. got' \in Seq(Bytes) /\ want' \in Nat /\ Len(got') <= want'
    BY <1>2, EmptySeq
  <2>2. rPc' \in {"idle", "select", "header", "payload", "failed"}
    BY <1>2
  <2>3. QED
    BY <1>1, <1>2, <2>1, <2>2 DEF TypeOK
<1>4. SenderInv' /\ ReceiverInv' /\ ResetInv'
  BY <1>1, <1>2 DEF SenderInv, ReceiverInv, ResetInv
<1>5. StreamInv'
  <2>1. Taken' = <<>> /\ Taken = <<>>
    BY <1>2 DEF Taken
  <2>2. Sending' = Sending
    BY <1>2 DEF Sending
  <2>3. QED
    BY <1>1, <1>2, <2>1, <2>2, StreamKept
<1>6. QED
  BY <1>3, <1>4, <1>5 DEF IInv

LEMMA ReadInv == IInv /\ Read => IInv'
<1> SUFFICES ASSUME IInv, Read PROVE IInv'
  OBVIOUS
<1>1. TypeOK /\ SenderInv /\ ReceiverInv /\ ResetInv /\ StreamInv
  BY DEF IInv
<1>2. PICK n \in 1..(want - Len(got)) : /\ n <= Len(wire)
                                        /\ got' = got \o SubSeq(wire, 1, n)
                                        /\ wire' = SubSeq(wire, n + 1, Len(wire))
  BY DEF Read
<1> DEFINE front == SubSeq(wire, 1, n)
<1>3. got \in Seq(Bytes) /\ wire \in Seq(Bytes) /\ want \in Nat
  BY <1>1 DEF TypeOK
<1>4. n \in 1..Len(wire) /\ Len(got) \in Nat /\ Len(wire) \in Nat
  BY <1>2, <1>3, LenProperties
<1>5. /\ front \in Seq(Bytes) /\ Len(front) = n
      /\ wire' \in Seq(Bytes) /\ Len(wire') = Len(wire) - n
      /\ front \o wire' = wire
  BY <1>2, <1>3, <1>4, Cut
<1> HIDE DEF front
<1>6. got' \in Seq(Bytes) /\ Len(got') = Len(got) + n
  BY <1>2, <1>3, <1>5, ConcatProperties DEF front
<1>7. /\ rPc \in {"header", "payload"} /\ ~reset
      /\ UNCHANGED <<sPc, rest, reset, rPc, want, sent, rcvd>>
  BY DEF Read
<1>8. TypeOK'
  <2>1. Len(got') <= want
    BY <1>2, <1>3, <1>4, <1>6
  <2>2. Len(wire') <= Buffer
    BY <1>1, <1>4, <1>5, TcpSocketAssumption DEF TypeOK, TcpSocketAssumption
  <2>3. QED
    BY <1>1, <1>5, <1>6, <1>7, <2>1, <2>2 DEF TypeOK
<1>9. SenderInv' /\ ReceiverInv' /\ ResetInv'
  BY <1>1, <1>7 DEF SenderInv, ReceiverInv, ResetInv
<1>10. StreamInv'
  <2>1. PICK tail \in Seq(Bytes) : /\ Taken \o (wire \o tail) = Stream(sent, Len(rcvd))
                                   /\ Sending /\ ~reset => tail = rest
    BY <1>1 DEF StreamInv
  <2>2. Taken' = Taken \o front
    <3>1. CASE rPc = "header"
      BY <1>2, <1>7, <3>1 DEF Taken, front
    <3>2. CASE rPc = "payload"
      <4>1. Header(want) \in Seq(Bytes)
        BY <1>1, <3>2, HeaderType DEF ReceiverInv
      <4>2. Header(want) \o (got \o front) = (Header(want) \o got) \o front
        BY <1>3, <1>5, <4>1, Assoc, ZenonT(60)
      <4>3. Taken = Header(want) \o got /\ Taken' = Header(want) \o got'
        BY <1>7, <3>2 DEF Taken, Header
      <4>4. QED
        BY <1>2, <4>2, <4>3 DEF front
    <3>3. QED
      BY <1>7, <3>1, <3>2
  <2>3. (Taken \o front) \o (wire' \o tail) = Taken \o (wire \o tail)
    <3>1. wire' \o tail \in Seq(Bytes) /\ Taken \in Seq(Bytes)
      BY <1>1, <1>5, TakenType, ConcatProperties
    <3>2. (Taken \o front) \o (wire' \o tail) = Taken \o (front \o (wire' \o tail))
      BY <1>5, <3>1, Assoc, ZenonT(60)
    <3>3. front \o (wire' \o tail) = (front \o wire') \o tail
      BY <1>5, Assoc
    <3>4. QED
      BY <1>5, <3>2, <3>3
  <2>4. sent' = sent /\ rcvd' = rcvd /\ Sending' = Sending /\ reset' = reset /\ rest' = rest
    BY <1>7 DEF Sending
  <2>5. Taken' \o (wire' \o tail) = Stream(sent', Len(rcvd'))
    BY <2>1, <2>2, <2>3, <2>4
  <2>6. Len(rcvd') <= Len(sent')
    BY <1>1, <2>4 DEF StreamInv
  <2>7. QED
    BY <2>1, <2>4, <2>5, <2>6 DEF StreamInv
<1>11. QED
  BY <1>8, <1>9, <1>10 DEF IInv


\* Four bytes at the head of the stream are the length of the first message,
\* and what follows them begins with that message.
LEMMA FirstMessage ==
    ASSUME NEW s \in Seq(Msgs), NEW k \in 0..Len(s),
           NEW h \in Seq(Bytes), NEW b \in Seq(Bytes),
           Len(h) = 4, h \o b = Stream(s, k)
    PROVE  /\ k < Len(s) /\ s[k + 1] \in Msgs
           /\ h = Header(Len(s[k + 1]))
           /\ b = s[k + 1] \o Stream(s, k + 1)
           /\ Stream(s, k + 1) \in Seq(Bytes)
<1>1. k < Len(s)
  <2>1. SUFFICES ASSUME k = Len(s) PROVE FALSE
    OBVIOUS
  <2>2. h \o b = <<>>
    BY <2>1, StreamNone
  <2>3. h = <<>>
    BY <2>2, ConcatEqualIffEmpty
  <2>4. QED
    BY <2>3, EmptySeq
<1>2. s[k + 1] \in Msgs /\ Stream(s, k) = Frame(s[k + 1]) \o Stream(s, k + 1)
  BY <1>1, StreamHead
<1>3. Stream(s, k + 1) \in Seq(Bytes)
  <2>1. k + 1 \in 0..Len(s)
    BY <1>1
  <2>2. QED
    BY <2>1, StreamType
<1>4. PICK m \in Msgs : m = s[k + 1]
  BY <1>2
<1>5. PICK more \in Seq(Bytes) : more = Stream(s, k + 1)
  BY <1>3
<1>6. m \in Seq(Bytes) /\ Header(Len(m)) \in Seq(Bytes) /\ Len(Header(Len(m))) = 4
  BY MessageType, HeaderType
<1>7. h \o b = Header(Len(m)) \o (m \o more)
  <2>1. h \o b = (Header(Len(m)) \o m) \o more
    BY <1>2, <1>4, <1>5 DEF Frame
  <2>2. QED
    BY <1>6, <2>1, Assoc
<1>8. m \o more \in Seq(Bytes)
  BY <1>6, ConcatProperties
<1>9. h = Header(Len(m)) /\ b = m \o more
  BY <1>6, <1>7, <1>8, SameCut
<1>10. QED
  BY <1>1, <1>2, <1>3, <1>4, <1>5, <1>9

\* The count of the second readn is the length of the first message.
LEMMA HeaderReadInv == IInv /\ HeaderRead => IInv'
<1> SUFFICES ASSUME IInv, HeaderRead PROVE IInv'
  OBVIOUS
<1>1. TypeOK /\ SenderInv /\ ReceiverInv /\ ResetInv /\ StreamInv
  BY DEF IInv
<1>2. /\ rPc = "header" /\ Len(got) = want
      /\ rPc' = "payload" /\ got' = <<>> /\ want' = Length(got)
      /\ UNCHANGED <<sPc, rest, wire, reset, sent, rcvd>>
  BY DEF HeaderRead
<1>3. got \in Seq(Bytes) /\ wire \in Seq(Bytes) /\ sent \in Seq(Msgs) /\ Len(got) = 4
  BY <1>1, <1>2 DEF TypeOK, ReceiverInv
<1>4. PICK m \in Msgs : got = Header(Len(m))
  <2>1. PICK tail \in Seq(Bytes) : Taken \o (wire \o tail) = Stream(sent, Len(rcvd))
    BY <1>1 DEF StreamInv
  <2>2. wire \o tail \in Seq(Bytes)
    BY <1>3, ConcatProperties
  <2>3. got \o (wire \o tail) = Stream(sent, Len(rcvd))
    BY <1>2, <2>1 DEF Taken
  <2>4. Len(rcvd) \in 0..Len(sent)
    BY <1>1, Counts
  <2>5. /\ sent[Len(rcvd) + 1] \in Msgs
        /\ got = Header(Len(sent[Len(rcvd) + 1]))
    BY <1>3, <2>2, <2>3, <2>4, FirstMessage
  <2>6. QED
    BY <2>5
<1>5. want' = Len(m) /\ Len(m) \in Lengths /\ Header(Len(m)) \in Seq(Bytes)
  BY <1>2, <1>4, MessageType, HeaderType
<1>6. want' \in Nat /\ 0 <= want'
  BY <1>5 DEF Lengths
<1>7. TypeOK'
  <2>1. got' \in Seq(Bytes) /\ Len(got') <= want'
    BY <1>2, <1>6, EmptySeq
  <2>2. rPc' \in {"idle", "select", "header", "payload", "failed"}
    BY <1>2
  <2>3. QED
    BY <1>1, <1>2, <1>6, <2>1, <2>2 DEF TypeOK
<1>8. SenderInv' /\ ReceiverInv' /\ ResetInv'
  BY <1>1, <1>2, <1>5 DEF SenderInv, ReceiverInv, ResetInv
<1>9. StreamInv'
  <2>1. Taken = got /\ Taken' = Header(Len(m)) \o <<>>
    BY <1>2, <1>5 DEF Taken, Header
  <2>2. Taken' = Taken
    BY <1>4, <1>5, <2>1, ConcatEmptySeq
  <2>3. Sending' = Sending
    BY <1>2 DEF Sending
  <2>4. QED
    BY <1>1, <1>2, <2>2, <2>3, StreamKept
<1>10. QED
  BY <1>7, <1>8, <1>9 DEF IInv

\* What recvMsg delivers is the first message not delivered.
LEMMA PayloadIsMessage ==
    ASSUME IInv, PayloadRead
    PROVE  /\ Len(rcvd) < Len(sent) /\ got = sent[Len(rcvd) + 1]
           /\ \A tail \in Seq(Bytes) :
                 Taken \o (wire \o tail) = Stream(sent, Len(rcvd)) =>
                     wire \o tail = Stream(sent, Len(rcvd) + 1)
<1>1. TypeOK /\ SenderInv /\ ReceiverInv /\ ResetInv /\ StreamInv
  BY DEF IInv
<1>2. rPc = "payload" /\ Len(got) = want
  BY DEF PayloadRead
<1>3. got \in Seq(Bytes) /\ wire \in Seq(Bytes) /\ sent \in Seq(Msgs)
  BY <1>1 DEF TypeOK
<1>4. want \in Lengths
  BY <1>1, <1>2 DEF ReceiverInv
<1>5. /\ Header(want) \in Seq(Bytes) /\ Len(Header(want)) = 4
      /\ Length(Header(want)) = want
  BY <1>4, HeaderType
<1>6. ASSUME NEW tail \in Seq(Bytes), Taken \o (wire \o tail) = Stream(sent, Len(rcvd))
      PROVE  /\ Len(rcvd) < Len(sent) /\ got = sent[Len(rcvd) + 1]
             /\ wire \o tail = Stream(sent, Len(rcvd) + 1)
  <2>1. wire \o tail \in Seq(Bytes) /\ got \o (wire \o tail) \in Seq(Bytes)
    BY <1>3, ConcatProperties
  <2>2. Header(want) \o (got \o (wire \o tail)) = Stream(sent, Len(rcvd))
    <3>1. Taken = Header(want) \o got
      BY <1>2 DEF Taken
    <3>2. QED
      BY <1>3, <1>5, <1>6, <2>1, <3>1, Assoc
  <2>3. Len(rcvd) \in 0..Len(sent)
    BY <1>1, Counts
  <2>4. /\ Len(rcvd) < Len(sent) /\ sent[Len(rcvd) + 1] \in Msgs
        /\ Header(want) = Header(Len(sent[Len(rcvd) + 1]))
        /\ got \o (wire \o tail) = sent[Len(rcvd) + 1] \o Stream(sent, Len(rcvd) + 1)
        /\ Stream(sent, Len(rcvd) + 1) \in Seq(Bytes)
    BY <1>3, <1>5, <2>1, <2>2, <2>3, FirstMessage
  <2>5. PICK m \in Msgs : m = sent[Len(rcvd) + 1]
    BY <2>4
  <2>6. PICK more \in Seq(Bytes) : more = Stream(sent, Len(rcvd) + 1)
    BY <2>4
  <2>7. m \in Seq(Bytes) /\ Length(Header(Len(m))) = Len(m)
    BY MessageType, HeaderType
  <2>8. Len(got) = Len(m)
    BY <1>2, <1>5, <2>4, <2>5, <2>7
  <2>9. got \o (wire \o tail) = m \o more
    BY <2>4, <2>5, <2>6
  <2>10. got = m /\ wire \o tail = more
    BY <1>3, <2>1, <2>7, <2>8, <2>9, SameCut
  <2>11. QED
    BY <2>4, <2>5, <2>6, <2>10
<1>7. \E tail \in Seq(Bytes) : Taken \o (wire \o tail) = Stream(sent, Len(rcvd))
  BY <1>1 DEF StreamInv
<1>8. QED
  BY <1>6, <1>7

LEMMA PayloadReadInv == IInv /\ PayloadRead => IInv'
<1> SUFFICES ASSUME IInv, PayloadRead PROVE IInv'
  OBVIOUS
<1>1. TypeOK /\ SenderInv /\ ReceiverInv /\ ResetInv /\ StreamInv
  BY DEF IInv
<1>2. /\ rcvd' = Append(rcvd, got)
      /\ rPc' = "idle" /\ got' = <<>> /\ want' = 0
      /\ UNCHANGED <<sPc, rest, wire, reset, sent>>
  BY DEF PayloadRead
<1>3. rcvd' \in Seq(Seq(Bytes)) /\ Len(rcvd') = Len(rcvd) + 1
  BY <1>1, <1>2, AppendProperties DEF TypeOK
<1>4. TypeOK'
  <2>1. got' \in Seq(Bytes) /\ want' \in Nat /\ Len(got') <= want'
    BY <1>2, EmptySeq
  <2>2. rPc' \in {"idle", "select", "header", "payload", "failed"}
    BY <1>2
  <2>3. QED
    BY <1>1, <1>2, <1>3, <2>1, <2>2 DEF TypeOK
<1>5. SenderInv' /\ ReceiverInv' /\ ResetInv'
  BY <1>1, <1>2 DEF SenderInv, ReceiverInv, ResetInv
<1>6. StreamInv'
  <2>1. PICK tail \in Seq(Bytes) : /\ Taken \o (wire \o tail) = Stream(sent, Len(rcvd))
                                   /\ Sending /\ ~reset => tail = rest
    BY <1>1 DEF StreamInv
  <2>2. Len(rcvd) < Len(sent) /\ wire \o tail = Stream(sent, Len(rcvd) + 1)
    BY <2>1, PayloadIsMessage
  <2>3. wire \o tail \in Seq(Bytes)
    BY <1>1, ConcatProperties DEF TypeOK
  <2>4. <<>> \o (wire \o tail) = wire \o tail
    BY <2>3, ConcatEmptySeq
  <2>5. Taken' = <<>>
    BY <1>2 DEF Taken
  <2>6. Taken' \o (wire' \o tail) = Stream(sent', Len(rcvd'))
    BY <1>2, <1>3, <2>2, <2>4, <2>5
  <2>7. Len(rcvd') <= Len(sent')
    BY <1>1, <1>2, <1>3, <2>2, Counts
  <2>8. Sending' /\ ~reset' => tail = rest'
    BY <1>2, <2>1 DEF Sending
  <2>9. QED
    BY <2>6, <2>7, <2>8 DEF StreamInv
<1>7. QED
  BY <1>4, <1>5, <1>6 DEF IInv

\* What readn had read is lost, and nothing is on the wire.
LEMMA ReadFailsInv == IInv /\ ReadFails => IInv'
<1> SUFFICES ASSUME IInv, ReadFails PROVE IInv'
  OBVIOUS
<1>1. TypeOK /\ SenderInv /\ ReceiverInv /\ ResetInv /\ StreamInv
  BY DEF IInv
<1>2. /\ AtEnd \/ reset
      /\ rPc' = "failed" /\ got' = <<>> /\ want' = 0
      /\ UNCHANGED <<sPc, rest, wire, reset, sent, rcvd>>
  BY DEF ReadFails
<1>3. TypeOK'
  <2>1. got' \in Seq(Bytes) /\ want' \in Nat /\ Len(got') <= want'
    BY <1>2, EmptySeq
  <2>2. rPc' \in {"idle", "select", "header", "payload", "failed"}
    BY <1>2
  <2>3. QED
    BY <1>1, <1>2, <2>1, <2>2 DEF TypeOK
<1>4. SenderInv' /\ ReceiverInv' /\ ResetInv'
  BY <1>1, <1>2 DEF SenderInv, ReceiverInv, ResetInv
<1>5. StreamInv'
  <2>1. PICK tail \in Seq(Bytes) : Taken \o (wire \o tail) = Stream(sent, Len(rcvd))
    BY <1>1 DEF StreamInv
  <2> DEFINE lost == Taken \o (wire \o tail)
  <2>2. lost \in Seq(Bytes)
    <3>1. wire \o tail \in Seq(Bytes) /\ Taken \in Seq(Bytes)
      BY <1>1, TakenType, ConcatProperties DEF TypeOK
    <3>2. QED
      BY <3>1, ConcatProperties
  <2>3. lost = Stream(sent, Len(rcvd))
    BY <2>1
  <2> HIDE DEF lost
  <2>4. <<>> \o (<<>> \o lost) = lost
    BY <2>2, ConcatEmptySeq
  <2>5. Taken' = <<>> /\ wire' = <<>> /\ sent' = sent /\ rcvd' = rcvd
    BY <1>1, <1>2 DEF Taken, AtEnd, ResetInv
  <2>6. Taken' \o (wire' \o lost) = Stream(sent', Len(rcvd'))
    BY <2>3, <2>4, <2>5
  <2>7. Len(rcvd') <= Len(sent')
    BY <1>1, <2>5 DEF StreamInv
  <2>8. ~(Sending' /\ ~reset')
    BY <1>2 DEF AtEnd, Sending
  <2>9. QED
    BY <2>2, <2>6, <2>7, <2>8 DEF StreamInv
<1>6. QED
  BY <1>3, <1>4, <1>5 DEF IInv

LEMMA StutterInv == IInv /\ UNCHANGED vars => IInv'
<1> SUFFICES ASSUME IInv, UNCHANGED vars PROVE IInv'
  OBVIOUS
<1>1. TypeOK /\ SenderInv /\ ReceiverInv /\ ResetInv /\ StreamInv
  BY DEF IInv
<1>2. UNCHANGED <<sPc, rest, wire, reset, rPc, got, want, sent, rcvd>>
  BY DEF vars
<1>3. TypeOK'
  BY <1>1, <1>2 DEF TypeOK
<1>4. SenderInv' /\ ReceiverInv' /\ ResetInv'
  BY <1>1, <1>2 DEF SenderInv, ReceiverInv, ResetInv
<1>5. StreamInv'
  <2>1. Taken' = Taken /\ Sending' = Sending
    BY <1>2 DEF Taken, Header, Sending
  <2>2. QED
    BY <1>1, <1>2, <2>1, StreamKept
<1>6. QED
  BY <1>3, <1>4, <1>5 DEF IInv

-----------------------------------------------------------------------------
(* The theorems.                                                              *)

\* Where every byte of an undelivered message is, however write and read cut the
\* stream and wherever it ends.
LEMMA Inductive == Spec => []IInv
<1>1. IInv /\ [Next]_vars => IInv'
  <2> SUFFICES ASSUME IInv, [Next]_vars PROVE IInv'
    OBVIOUS
  <2>1. CASE Send
    BY <2>1, SendInv
  <2>2. CASE Write
    BY <2>2, WriteInv
  <2>3. CASE WriteFails \/ SenderGone
    BY <2>3, SenderEndsInv
  <2>4. CASE Reset
    BY <2>4, ResetStepInv
  <2>5. CASE Recv \/ Readable \/ RecvTimeout
    BY <2>5, RecvInv
  <2>6. CASE Read
    BY <2>6, ReadInv
  <2>7. CASE HeaderRead
    BY <2>7, HeaderReadInv
  <2>8. CASE PayloadRead
    BY <2>8, PayloadReadInv
  <2>9. CASE ReadFails
    BY <2>9, ReadFailsInv
  <2>10. CASE UNCHANGED vars
    BY <2>10, StutterInv
  <2>11. QED
    BY <2>1, <2>2, <2>3, <2>4, <2>5, <2>6, <2>7, <2>8, <2>9, <2>10
       DEF Next, Sender, Receiver
<1>2. QED
  BY <1>1, InitInv, PTL DEF Spec

\* The buffers hold bytes, the kernel's no more than it keeps, and no readn reads
\* past its count, which a header gives: src/ClassSocket/TcpSocket.cpp, readn.
THEOREM TypesKept == Spec => []TypeOK
<1>1. IInv => TypeOK
  BY DEF IInv
<1>2. QED
  BY <1>1, Inductive, PTL

\* As long as the sender sends and the connection stands, what was read, what is
\* on the wire and what writen has still to write are exactly the frames of the
\* messages recvMsg has not delivered: sendMsg, writen, readn and recvMsg neither
\* lose, repeat nor move a byte, for messages of any bytes and buffers of any size.
THEOREM StreamAligned == Spec => []Aligned
<1>1. IInv => Aligned
  <2> SUFFICES ASSUME IInv, Sending, ~reset
               PROVE  Taken \o wire \o rest = Stream(sent, Len(rcvd))
    BY DEF Aligned
  <2>1. Taken \o (wire \o rest) = Stream(sent, Len(rcvd))
    BY DEF IInv, StreamInv
  <2>2. Taken \in Seq(Bytes) /\ wire \in Seq(Bytes) /\ rest \in Seq(Bytes)
    BY TakenType DEF IInv, TypeOK
  <2>3. QED
    BY <2>1, <2>2, Assoc
<1>2. QED
  BY <1>1, Inductive, PTL

\* recvMsg delivers the messages handed to sendMsg, whole, in order and at most
\* once, whatever the kernel's buffers, the cuts of the stream, the timeouts, the
\* end of the sender or a reset: TcpSocket implements MsgChannel.
THEOREM ChannelImplemented == Spec => ImplementsChannel
<1>1. Init => Channel!Init
  BY DEF Init, Channel!Init
<1>2. IInv /\ [Next]_vars => [Channel!Next]_<<sent, rcvd>>
  <2> SUFFICES ASSUME IInv, [Next]_vars PROVE [Channel!Next]_<<sent, rcvd>>
    OBVIOUS
  <2>1. CASE Send
    BY <2>1 DEF Send, Channel!Next, Channel!Send
  <2>2. CASE PayloadRead
    <3>1. Len(rcvd) < Len(sent) /\ got = sent[Len(rcvd) + 1]
      BY <2>2, PayloadIsMessage
    <3>2. rcvd' = Append(rcvd, got) /\ sent' = sent
      BY <2>2 DEF PayloadRead
    <3>3. QED
      BY <3>1, <3>2 DEF Channel!Next, Channel!Deliver
  <2>3. CASE Write \/ WriteFails \/ SenderGone \/ Reset \/ UNCHANGED vars
    BY <2>3 DEF Write, WriteFails, SenderGone, Reset, vars
  <2>4. CASE Recv \/ Readable \/ RecvTimeout \/ Read \/ HeaderRead \/ ReadFails
    BY <2>4 DEF Recv, Readable, RecvTimeout, Read, HeaderRead, ReadFails
  <2>5. QED
    BY <2>1, <2>2, <2>3, <2>4 DEF Next, Sender, Receiver
<1>3. QED
  BY <1>1, <1>2, Inductive, PTL DEF Spec, ImplementsChannel, Channel!Spec
=============================================================================
