---------------------------- MODULE MsgCodecProofs ----------------------------
(* Theorems about MsgCodec, and about the coding of DerCoding beneath it: what *)
(* is written is read back, for any numbers, lengths, items and messages.      *)
EXTENDS MsgCodec, SequenceLemmas

Bytes == 0..255

\* Lengths and numbers are below 2^31.
Small == {n \in Nat : n \div 65536 < 32768}

LEMMA SmallIsNat == Small \subseteq Nat
  BY SMT DEF Small

LEMMA BytesAreNumbers == Seq(Bytes) \subseteq Seq(Nat)
<1>1. SUFFICES ASSUME NEW b \in Seq(Bytes)
               PROVE  b \in Seq(Nat)
  OBVIOUS
<1>2. b \in [1..Len(b) -> Bytes] /\ Len(b) \in Nat
  OBVIOUS
<1>3. b \in [1..Len(b) -> Nat]
  <2>1. \A x \in Bytes : x \in Nat
    BY DEF Bytes
  <2> QED
    BY <1>2, <2>1
<1> QED
  BY <1>2, <1>3, FunctionIsSeq

LEMMA Joined ==
    ASSUME NEW S, NEW a \in Seq(S), NEW b \in Seq(S)
    PROVE  /\ a \o b \in Seq(S) /\ Len(a \o b) = Len(a) + Len(b)
           /\ Len(a) \in Nat /\ Len(b) \in Nat
           /\ \A i \in 1..Len(a) : (a \o b)[i] = a[i]
           /\ \A i \in 1..Len(b) : (a \o b)[Len(a) + i] = b[i]
  OBVIOUS

-----------------------------------------------------------------------------
(* Numbers.                                                                   *)

LEMMA LengthOfSizeType == \A n \in Nat : LengthOfSize(n) \in 1..5
  BY SMT DEF LengthOfSize

\* The value of a string of bytes is the last of the running values.
LEMMA RunningValues ==
    ASSUME NEW bytes \in Seq(Nat)
    PROVE  \E f \in [0..Len(bytes) -> Nat] :
               \A i \in 0..Len(bytes) :
                   f[i] = IF i = 0 THEN 0 ELSE f[i - 1] * 256 + bytes[i]
<1> DEFINE Runs(n, f) == \A i \in 0..n : f[i] = IF i = 0 THEN 0 ELSE f[i - 1] * 256 + bytes[i]
           Some(n) == n <= Len(bytes) => \E f \in [0..n -> Nat] : Runs(n, f)
           T == {n \in Nat : Some(n)}
<1>1. 0 \in T
  <2>1. [i \in 0..0 |-> 0] \in [0..0 -> Nat] /\ Runs(0, [i \in 0..0 |-> 0])
    OBVIOUS
  <2> QED
    BY <2>1
<1>2. ASSUME NEW n \in Nat, Some(n)
      PROVE  Some(n + 1)
  <2>1. SUFFICES ASSUME n + 1 <= Len(bytes)
                 PROVE  \E g \in [0..(n + 1) -> Nat] : Runs(n + 1, g)
    OBVIOUS
  <2>2. PICK f \in [0..n -> Nat] : Runs(n, f)
    BY <1>2, <2>1
  <2> DEFINE g == [i \in 0..(n + 1) |-> IF i = n + 1 THEN f[n] * 256 + bytes[n + 1] ELSE f[i]]
  <2>3. bytes[n + 1] \in Nat /\ f[n] \in Nat
    BY <2>1
  <2>4. g \in [0..(n + 1) -> Nat]
    BY <2>3
  <2>5. Runs(n + 1, g)
    <3>1. SUFFICES ASSUME NEW i \in 0..(n + 1)
                   PROVE  g[i] = IF i = 0 THEN 0 ELSE g[i - 1] * 256 + bytes[i]
      OBVIOUS
    <3>2. CASE i = n + 1
      BY <3>2
    <3>3. CASE i \in 0..n
      <4>1. g[i] = f[i] /\ (i # 0 => g[i - 1] = f[i - 1])
        BY <3>3
      <4> QED
        BY <4>1, <3>3, <2>2
    <3> QED
      BY <3>2, <3>3
  <2> QED
    BY <2>4, <2>5
<1> HIDE DEF Some
<1>3. \A n \in Nat : n \in T => n + 1 \in T
  BY <1>2
<1> HIDE DEF T
<1>4. Nat \subseteq T
  BY <1>1, <1>3, Induction
<1>5. Len(bytes) \in T
  BY <1>4
<1> QED
  BY <1>5 DEF Some, T

LEMMA CharToIntIs ==
    ASSUME NEW bytes \in Seq(Nat)
    PROVE  \E f \in [0..Len(bytes) -> Nat] :
               /\ \A i \in 0..Len(bytes) :
                      f[i] = IF i = 0 THEN 0 ELSE f[i - 1] * 256 + bytes[i]
               /\ CharToInt(bytes) = f[Len(bytes)]
<1> DEFINE Runs(f) == f = [i \in 0..Len(bytes) |-> IF i = 0 THEN 0 ELSE f[i - 1] * 256 + bytes[i]]
           value == CHOOSE f : Runs(f)
<1>1. PICK f \in [0..Len(bytes) -> Nat] :
          \A i \in 0..Len(bytes) : f[i] = IF i = 0 THEN 0 ELSE f[i - 1] * 256 + bytes[i]
  BY RunningValues
<1>2. Runs(f)
  BY <1>1
<1>3. Runs(value)
  BY <1>2, ZenonT(60)
<1> HIDE DEF value
<1>4. value[0] = 0 /\ \A i \in 1..Len(bytes) : value[i] = value[i - 1] * 256 + bytes[i]
  <2>1. \A i \in 0..Len(bytes) :
            value[i] = IF i = 0 THEN 0 ELSE value[i - 1] * 256 + bytes[i]
    BY <1>3
  <2>2. 0 \in 0..Len(bytes) /\ \A i \in 1..Len(bytes) : i \in 0..Len(bytes) /\ i # 0
    OBVIOUS
  <2> HIDE DEF Runs
  <2> QED
    BY <2>1, <2>2
<1> DEFINE T == {n \in Nat : n <= Len(bytes) => value[n] = f[n]}
<1>5. 0 \in T
  BY <1>1, <1>4
<1>6. \A n \in Nat : n \in T => n + 1 \in T
  <2>1. SUFFICES ASSUME NEW n \in Nat, value[n] = f[n], n + 1 <= Len(bytes)
                 PROVE  value[n + 1] = f[n + 1]
    OBVIOUS
  <2>2. value[n + 1] = value[n] * 256 + bytes[n + 1]
    BY <1>4, <2>1
  <2>3. f[n + 1] = f[n] * 256 + bytes[n + 1]
    <3>1. n + 1 \in 0..Len(bytes) /\ n + 1 # 0 /\ n + 1 - 1 = n
      BY <2>1
    <3> QED
      BY <1>1, <3>1
  <2> QED
    BY <2>1, <2>2, <2>3
<1> HIDE DEF T
<1>7. Nat \subseteq T
  BY <1>5, <1>6, Induction
<1>8. \A n \in 0..Len(bytes) : value[n] = f[n]
  BY <1>7 DEF T
<1>9. Len(bytes) \in 0..Len(bytes)
  OBVIOUS
<1>10. CharToInt(bytes) = value[Len(bytes)]
  BY DEF CharToInt, value
<1> QED
  BY <1>1, <1>8, <1>9, <1>10, ZenonT(60)

\* A string of bytes has a value, a leading zero adds nothing to it, and strings of
\* up to four bytes have the values one expects.
LEMMA CharToIntType ==
    ASSUME NEW bytes \in Seq(Nat)
    PROVE  CharToInt(bytes) \in Nat
  BY CharToIntIs

LEMMA CharToIntValue ==
    ASSUME NEW b \in Seq(Nat)
    PROVE  /\ Len(b) = 1 => CharToInt(b) = b[1]
           /\ Len(b) = 2 => CharToInt(b) = b[1] * 256 + b[2]
           /\ Len(b) = 3 => CharToInt(b) = (b[1] * 256 + b[2]) * 256 + b[3]
           /\ Len(b) = 4 => CharToInt(b) = ((b[1] * 256 + b[2]) * 256 + b[3]) * 256 + b[4]
           /\ Len(b) = 5 => CharToInt(b) =
                  (((b[1] * 256 + b[2]) * 256 + b[3]) * 256 + b[4]) * 256 + b[5]
<1>1. PICK f \in [0..Len(b) -> Nat] :
          /\ \A i \in 0..Len(b) : f[i] = IF i = 0 THEN 0 ELSE f[i - 1] * 256 + b[i]
          /\ CharToInt(b) = f[Len(b)]
  BY CharToIntIs
<1>2. f[0] = 0 /\ \A i \in 1..Len(b) : f[i] = f[i - 1] * 256 + b[i]
  BY <1>1
<1>3. /\ Len(b) >= 1 => f[1] = b[1] /\ b[1] \in Nat
      /\ Len(b) >= 2 => f[2] = f[1] * 256 + b[2]
      /\ Len(b) >= 3 => f[3] = f[2] * 256 + b[3]
      /\ Len(b) >= 4 => f[4] = f[3] * 256 + b[4]
      /\ Len(b) >= 5 => f[5] = f[4] * 256 + b[5]
  <2>1. \A i \in 1..Len(b) : b[i] \in Nat
    OBVIOUS
  <2> QED
    BY <1>2, <2>1
<1>4. Len(b) = 1 => CharToInt(b) = b[1]
  BY <1>1, <1>3
<1>5. Len(b) = 2 => CharToInt(b) = b[1] * 256 + b[2]
  BY <1>1, <1>3
<1>6. Len(b) = 3 => CharToInt(b) = (b[1] * 256 + b[2]) * 256 + b[3]
  BY <1>1, <1>3
<1>7. Len(b) = 4 => CharToInt(b) = ((b[1] * 256 + b[2]) * 256 + b[3]) * 256 + b[4]
  BY <1>1, <1>3
<1>8. Len(b) = 5 => CharToInt(b) =
          (((b[1] * 256 + b[2]) * 256 + b[3]) * 256 + b[4]) * 256 + b[5]
  BY <1>1, <1>3
<1> QED
  BY <1>4, <1>5, <1>6, <1>7, <1>8, Zenon

\* The four low bytes of a number, the lowest first.
Byte0(n) == n % 256
Byte1(n) == (n \div 256) % 256
Byte2(n) == (n \div 65536) % 256
Byte3(n) == (n \div 16777216) % 256

LEMMA ByteType ==
    ASSUME NEW n \in Nat
    PROVE  Byte0(n) \in Bytes /\ Byte1(n) \in Bytes /\ Byte2(n) \in Bytes /\ Byte3(n) \in Bytes
<1>1. Byte0(n) \in Bytes /\ Byte1(n) \in Bytes
  BY SMT DEF Bytes, Byte0, Byte1
<1>2. Byte2(n) \in Bytes
  BY SMT DEF Bytes, Byte2
<1>3. Byte3(n) \in Bytes
  BY SMT DEF Bytes, Byte3
<1> QED
  BY <1>1, <1>2, <1>3

\* The numbers that fit in so many bytes.
OneByte == {n \in Nat : n \div 256 = 0}
TwoBytes == {n \in Nat : n \div 65536 = 0}
ThreeBytes == {n \in Nat : n \div 16777216 = 0}

\* A number is the sum of its bytes.
LEMMA ByteSum ==
    ASSUME NEW n \in Nat
    PROVE  /\ n \in OneByte => n = Byte0(n)
           /\ n \in TwoBytes => n = Byte1(n) * 256 + Byte0(n)
           /\ n \in ThreeBytes => n = (Byte2(n) * 256 + Byte1(n)) * 256 + Byte0(n)
           /\ n \in Small =>
                  n = ((Byte3(n) * 256 + Byte2(n)) * 256 + Byte1(n)) * 256 + Byte0(n)
<1>1. n \in OneByte => n = Byte0(n)
  BY SMT DEF OneByte, Byte0
<1>2. n \in TwoBytes => n = Byte1(n) * 256 + Byte0(n)
  BY SMT DEF TwoBytes, Byte0, Byte1
<1>3. n \in ThreeBytes => n = (Byte2(n) * 256 + Byte1(n)) * 256 + Byte0(n)
  BY SMT DEF ThreeBytes, Byte0, Byte1, Byte2
<1>4. n \in Small => n = ((Byte3(n) * 256 + Byte2(n)) * 256 + Byte1(n)) * 256 + Byte0(n)
  BY SMT DEF Byte0, Byte1, Byte2, Byte3, Small
<1> QED
  BY <1>1, <1>2, <1>3, <1>4, Zenon

LEMMA BigEndianIs ==
    ASSUME NEW n \in Nat
    PROVE  /\ BigEndian(n, 1) = <<Byte0(n)>>
           /\ BigEndian(n, 2) = <<Byte1(n), Byte0(n)>>
           /\ BigEndian(n, 3) = <<Byte2(n), Byte1(n), Byte0(n)>>
           /\ BigEndian(n, 4) = <<Byte3(n), Byte2(n), Byte1(n), Byte0(n)>>
<1>1. BigEndian(n, 1) = <<Byte0(n)>>
  BY SMT DEF BigEndian, Byte0
<1>2. BigEndian(n, 2) = <<Byte1(n), Byte0(n)>>
  BY SMT DEF BigEndian, Byte0, Byte1
<1>3. BigEndian(n, 3) = <<Byte2(n), Byte1(n), Byte0(n)>>
  BY SMT DEF BigEndian, Byte0, Byte1, Byte2
<1>4. BigEndian(n, 4) = <<Byte3(n), Byte2(n), Byte1(n), Byte0(n)>>
  BY SMT DEF BigEndian, Byte0, Byte1, Byte2, Byte3
<1> QED
  BY <1>1, <1>2, <1>3, <1>4, Zenon

LEMMA BigEndianType ==
    ASSUME NEW n \in Nat, NEW k \in 1..4
    PROVE  BigEndian(n, k) \in Seq(Bytes) /\ Len(BigEndian(n, k)) = k
<1> DEFINE a == Byte0(n)
           b == Byte1(n)
           c == Byte2(n)
           d == Byte3(n)
<1>1. a \in Bytes /\ b \in Bytes /\ c \in Bytes /\ d \in Bytes
  BY ByteType
<1>2. /\ BigEndian(n, 1) = <<a>> /\ BigEndian(n, 2) = <<b, a>>
      /\ BigEndian(n, 3) = <<c, b, a>> /\ BigEndian(n, 4) = <<d, c, b, a>>
  BY BigEndianIs, Zenon
<1> HIDE DEF a, b, c, d
<1>3. /\ <<a>> \in Seq(Bytes) /\ Len(<<a>>) = 1
      /\ <<b, a>> \in Seq(Bytes) /\ Len(<<b, a>>) = 2
      /\ <<c, b, a>> \in Seq(Bytes) /\ Len(<<c, b, a>>) = 3
      /\ <<d, c, b, a>> \in Seq(Bytes) /\ Len(<<d, c, b, a>>) = 4
  BY <1>1
<1>4. k = 1 \/ k = 2 \/ k = 3 \/ k = 4
  OBVIOUS
<1> QED
  BY <1>2, <1>3, <1>4, Zenon

\* Strings of up to four bytes, and their value.
LEMMA FewBytes ==
    ASSUME NEW a \in Nat, NEW b \in Nat, NEW c \in Nat, NEW d \in Nat
    PROVE  /\ CharToInt(<<a>>) = a
           /\ CharToInt(<<b, a>>) = b * 256 + a
           /\ CharToInt(<<c, b, a>>) = (c * 256 + b) * 256 + a
           /\ CharToInt(<<d, c, b, a>>) = ((d * 256 + c) * 256 + b) * 256 + a
<1> DEFINE one == <<a>>
           two == <<b, a>>
           three == <<c, b, a>>
           four == <<d, c, b, a>>
<1>1. one \in Seq(Nat) /\ Len(one) = 1 /\ one[1] = a
  OBVIOUS
<1>2. two \in Seq(Nat) /\ Len(two) = 2 /\ two[1] = b /\ two[2] = a
  OBVIOUS
<1>3. three \in Seq(Nat) /\ Len(three) = 3 /\ three[1] = c /\ three[2] = b /\ three[3] = a
  OBVIOUS
<1>4. four \in Seq(Nat) /\ Len(four) = 4 /\ four[1] = d /\ four[2] = c /\ four[3] = b
          /\ four[4] = a
  OBVIOUS
<1> HIDE DEF one, two, three, four
<1>5. CharToInt(one) = a
  BY <1>1, CharToIntValue
<1>6. CharToInt(two) = b * 256 + a
  BY <1>2, CharToIntValue
<1>7. CharToInt(three) = (c * 256 + b) * 256 + a
  BY <1>3, CharToIntValue
<1>8. CharToInt(four) = ((d * 256 + c) * 256 + b) * 256 + a
  <2>1. CharToInt(four) = ((four[1] * 256 + four[2]) * 256 + four[3]) * 256 + four[4]
    BY <1>4, CharToIntValue, ZenonT(60)
  <2> QED
    BY <2>1, <1>4, Zenon
<1> QED
  BY <1>5, <1>6, <1>7, <1>8, Zenon DEF one, two, three, four

\* Enough low bytes have the value of the number.
LEMMA BigEndianRead ==
    ASSUME NEW n \in Nat
    PROVE  /\ n \in OneByte => CharToInt(BigEndian(n, 1)) = n
           /\ n \in TwoBytes => CharToInt(BigEndian(n, 2)) = n
           /\ n \in ThreeBytes => CharToInt(BigEndian(n, 3)) = n
           /\ n \in Small => CharToInt(BigEndian(n, 4)) = n
<1> DEFINE a == Byte0(n)
           b == Byte1(n)
           c == Byte2(n)
           d == Byte3(n)
<1>1. a \in Nat /\ b \in Nat /\ c \in Nat /\ d \in Nat
  <2>1. a \in Bytes /\ b \in Bytes /\ c \in Bytes /\ d \in Bytes
    BY ByteType, Zenon
  <2>2. \A x \in Bytes : x \in Nat
    BY SMT DEF Bytes
  <2> QED
    BY <2>1, <2>2, Zenon
<1>2. /\ BigEndian(n, 1) = <<a>> /\ BigEndian(n, 2) = <<b, a>>
      /\ BigEndian(n, 3) = <<c, b, a>> /\ BigEndian(n, 4) = <<d, c, b, a>>
  BY BigEndianIs, SMT
<1>3. /\ n \in OneByte => n = a
      /\ n \in TwoBytes => n = b * 256 + a
      /\ n \in ThreeBytes => n = (c * 256 + b) * 256 + a
      /\ n \in Small => n = ((d * 256 + c) * 256 + b) * 256 + a
  BY ByteSum, ZenonT(60)
<1> HIDE DEF a, b, c, d
<1>4. /\ CharToInt(<<a>>) = a
      /\ CharToInt(<<b, a>>) = b * 256 + a
      /\ CharToInt(<<c, b, a>>) = (c * 256 + b) * 256 + a
      /\ CharToInt(<<d, c, b, a>>) = ((d * 256 + c) * 256 + b) * 256 + a
  BY <1>1, FewBytes
<1>5. n \in OneByte => CharToInt(BigEndian(n, 1)) = n
  BY <1>2, <1>3, <1>4, Zenon
<1>6. n \in TwoBytes => CharToInt(BigEndian(n, 2)) = n
  BY <1>2, <1>3, <1>4, Zenon
<1>7. n \in ThreeBytes => CharToInt(BigEndian(n, 3)) = n
  BY <1>2, <1>3, <1>4, Zenon
<1>8. n \in Small => CharToInt(BigEndian(n, 4)) = n
  BY <1>2, <1>3, <1>4, Zenon
<1> QED
  BY <1>5, <1>6, <1>7, <1>8, Zenon

-----------------------------------------------------------------------------
(* Tags and lengths.                                                          *)

\* A length has as many bytes as LengthOfSize says, or fits in one of them.
LEMMA SizeFits ==
    ASSUME NEW n \in Nat
    PROVE  /\ LengthOfSize(n) = 1 => n <= 127
           /\ LengthOfSize(n) = 2 => n \in OneByte
           /\ LengthOfSize(n) = 3 => n \in TwoBytes
           /\ LengthOfSize(n) = 4 => n \in ThreeBytes
<1>1. LengthOfSize(n) = 1 => n <= 127
  BY SMT DEF LengthOfSize
<1>2. LengthOfSize(n) = 2 => n \in OneByte
  BY SMT DEF LengthOfSize, OneByte
<1>3. LengthOfSize(n) = 3 => n \in TwoBytes
  BY SMT DEF LengthOfSize, TwoBytes
<1>4. LengthOfSize(n) = 4 => n \in ThreeBytes
  BY SMT DEF LengthOfSize, ThreeBytes
<1> QED
  BY <1>1, <1>2, <1>3, <1>4, Zenon

\* The bytes of a length that does not fit in seven bits have its value.
LEMMA LengthBytes ==
    ASSUME NEW n \in Small, LengthOfSize(n) # 1
    PROVE  /\ LengthOfSize(n) - 1 \in 1..4
           /\ CharToInt(BigEndian(n, LengthOfSize(n) - 1)) = n
<1>1. n \in Nat
  BY SmallIsNat
<1>2. LengthOfSize(n) \in 1..5
  BY <1>1, LengthOfSizeType, Zenon
<1>3. \/ LengthOfSize(n) = 2 /\ LengthOfSize(n) - 1 = 1
      \/ LengthOfSize(n) = 3 /\ LengthOfSize(n) - 1 = 2
      \/ LengthOfSize(n) = 4 /\ LengthOfSize(n) - 1 = 3
      \/ LengthOfSize(n) = 5 /\ LengthOfSize(n) - 1 = 4
  BY <1>2
<1>4. CharToInt(BigEndian(n, LengthOfSize(n) - 1)) = n
  BY <1>1, <1>3, SizeFits, BigEndianRead, Zenon
<1> QED
  BY <1>2, <1>4

\* The tag and the length of an item, byte by byte.
LEMMA HeadIs ==
    ASSUME NEW tag \in Bytes, NEW n \in Small
    PROVE  LET size == LengthOfSize(n)
               head == TagAndLength(tag, n)
           IN  /\ size \in 1..5 /\ head \in Seq(Bytes) /\ Len(head) = size + 1
               /\ head[1] = tag
               /\ size = 1 => head[2] = n /\ n <= 127
               /\ size # 1 => /\ head[2] = 127 + size
                              /\ \A i \in 1..(size - 1) : head[i + 2] = BigEndian(n, size - 1)[i]
<1> DEFINE size == LengthOfSize(n)
           bytes == BigEndian(n, size - 1)
<1>1. n \in Nat /\ size \in 1..5
  BY LengthOfSizeType, SmallIsNat
<1>2. CASE size = 1
  <2>1. n <= 127
    BY <1>1, <1>2, SizeFits
  <2>2. TagAndLength(tag, n) = <<tag, n>>
    BY <1>2 DEF TagAndLength
  <2> HIDE DEF size
  <2>3. n \in Bytes
    BY <1>1, <2>1 DEF Bytes
  <2> QED
    BY <1>1, <1>2, <2>1, <2>2, <2>3 DEF size
<1>3. CASE size # 1
  <2>1. TagAndLength(tag, n) = <<tag, 128 + size - 1>> \o bytes
    BY <1>3 DEF TagAndLength
  <2>2. bytes \in Seq(Bytes) /\ Len(bytes) = size - 1
    <3>1. size - 1 \in 1..4
      BY <1>1, <1>3
    <3> QED
      BY <1>1, <3>1, BigEndianType
  <2> HIDE DEF size, bytes
  <2>3. 128 + size - 1 \in Bytes /\ 128 + size - 1 = 127 + size
    BY <1>1 DEF Bytes
  <2> DEFINE two == <<tag, 128 + size - 1>>
  <2>4. two \in Seq(Bytes) /\ Len(two) = 2 /\ two[1] = tag /\ two[2] = 127 + size
    BY <2>3
  <2> HIDE DEF two
  <2>5. /\ two \o bytes \in Seq(Bytes) /\ Len(two \o bytes) = size + 1
        /\ (two \o bytes)[1] = tag /\ (two \o bytes)[2] = 127 + size
        /\ \A i \in 1..(size - 1) : (two \o bytes)[i + 2] = bytes[i]
    <3>1. /\ two \o bytes \in Seq(Bytes) /\ Len(two \o bytes) = Len(two) + Len(bytes)
          /\ \A i \in 1..Len(two) : (two \o bytes)[i] = two[i]
          /\ \A i \in 1..Len(bytes) : (two \o bytes)[Len(two) + i] = bytes[i]
      <4>1. two \in Seq(Bytes)
        BY <2>4
      <4>2. bytes \in Seq(Bytes)
        BY <2>2
      <4>3. two \o bytes \in Seq(Bytes)
        BY <4>1, <4>2
      <4> QED
        BY <4>1, <4>2, Joined
    <3>2. (two \o bytes)[1] = two[1] /\ (two \o bytes)[2] = two[2]
      BY <2>4, <3>1
    <3>3. ASSUME NEW i \in 1..(size - 1)
          PROVE  (two \o bytes)[i + 2] = bytes[i]
      BY <1>1, <2>2, <2>4, <3>1
    <3> QED
      BY <1>1, <2>2, <2>4, <3>1, <3>2, <3>3
  <2> QED
    BY <1>1, <1>3, <2>1, <2>5 DEF size, bytes, two
<1> QED
  BY <1>2, <1>3

\* Where the tag and the length of an item were written, they are read.
Headed(b, p, tag, n) ==
    /\ p + LengthOfSize(n) <= Len(b)
    /\ \A i \in 1..(LengthOfSize(n) + 1) : b[p + i - 1] = TagAndLength(tag, n)[i]

LEMMA LengthRead ==
    ASSUME NEW b \in Seq(Bytes), NEW p \in Nat \ {0}, NEW tag \in Bytes, NEW n \in Small,
           Headed(b, p, tag, n)
    PROVE  /\ b[p] = tag
           /\ GetLengthInfo(b, p + 1) = [value |-> n, size |-> LengthOfSize(n)]
<1> DEFINE size == LengthOfSize(n)
           head == TagAndLength(tag, n)
           bytes == BigEndian(n, size - 1)
<1>1. /\ size \in 1..5 /\ head \in Seq(Bytes) /\ Len(head) = size + 1
      /\ head[1] = tag
      /\ size = 1 => head[2] = n /\ n <= 127
      /\ size # 1 => head[2] = 127 + size /\ \A i \in 1..(size - 1) : head[i + 2] = bytes[i]
  BY HeadIs
<1>2. /\ p + size <= Len(b)
      /\ \A i \in 1..(size + 1) : b[p + i - 1] = head[i]
  BY DEF Headed
<1>3. n \in Nat
  BY SmallIsNat
<1>4. size # 1 => bytes \in Seq(Bytes) /\ Len(bytes) = size - 1 /\ CharToInt(bytes) = n
  BY <1>1, <1>3, LengthBytes, BigEndianType
<1> HIDE DEF size, head, bytes
<1>5. b[p] = tag /\ b[p + 1] = head[2]
  <2>1. 1 \in 1..(size + 1) /\ 2 \in 1..(size + 1) /\ p + 1 - 1 = p /\ p + 2 - 1 = p + 1
    BY <1>1
  <2> QED
    BY <1>1, <1>2, <2>1
<1>6. CASE size = 1
  BY <1>1, <1>3, <1>5, <1>6 DEF GetLengthInfo, size
<1>7. CASE size # 1
  <2>1. b[p + 1] = 127 + size /\ b[p + 1] - 128 = size - 1 /\ size - 1 \in 1..4
    BY <1>1, <1>5, <1>7
  <2>2. SubSeq(b, p + 1 + 1, p + 1 + (size - 1)) = bytes
    <3> DEFINE part == SubSeq(b, p + 1 + 1, p + 1 + (size - 1))
    <3>1. part \in Seq(Bytes) /\ Len(part) = size - 1
          /\ \A i \in 1..(size - 1) : part[i] = b[p + 1 + i]
      BY <1>1, <1>2, <2>1
    <3>2. \A i \in 1..(size - 1) : b[p + 1 + i] = bytes[i]
      <4>1. SUFFICES ASSUME NEW i \in 1..(size - 1)
                     PROVE  b[p + 1 + i] = bytes[i]
        OBVIOUS
      <4>2. i + 2 \in 1..(size + 1) /\ p + (i + 2) - 1 = p + 1 + i
        BY <1>1
      <4> QED
        BY <1>1, <1>2, <1>7, <4>2
    <3> HIDE DEF part
    <3>3. \A i \in 1..(size - 1) : part[i] = bytes[i]
      BY <3>1, <3>2
    <3> QED
      BY <1>1, <1>4, <1>7, <3>1, <3>3, SeqEqual, ZenonT(60) DEF part
  <2>3. GetLengthInfo(b, p + 1) =
            [value |-> CharToInt(SubSeq(b, p + 1 + 1, p + 1 + (size - 1))), size |-> size - 1 + 1]
    BY <1>1, <2>1 DEF GetLengthInfo
  <2>4. size - 1 + 1 = size
    BY <1>1
  <2> QED
    BY <1>4, <1>5, <1>7, <2>2, <2>3, <2>4 DEF size
<1> QED
  BY <1>5, <1>6, <1>7 DEF size

\* What the writers make: a tag, a length and as many bytes.
Bodies == {body \in Seq(Bytes) : Len(body) \in Small}
Tlv(tag, body) == TagAndLength(tag, Len(body)) \o body
Items == {Tlv(tag, body) : tag \in Bytes, body \in Bodies}

LEMMA ItemType ==
    ASSUME NEW tag \in Bytes, NEW body \in Bodies
    PROVE  /\ body \in Seq(Bytes) /\ Len(body) \in Nat /\ LengthOfSize(Len(body)) \in 1..5
           /\ Tlv(tag, body) \in Seq(Bytes)
           /\ Len(Tlv(tag, body)) = 1 + LengthOfSize(Len(body)) + Len(body)
           /\ Tlv(tag, body)[1] = tag
           /\ \A i \in 1..(LengthOfSize(Len(body)) + 1) :
                  Tlv(tag, body)[i] = TagAndLength(tag, Len(body))[i]
           /\ \A i \in 1..Len(body) :
                  Tlv(tag, body)[LengthOfSize(Len(body)) + 1 + i] = body[i]
<1> DEFINE n == Len(body)
           head == TagAndLength(tag, n)
<1>1. body \in Seq(Bytes) /\ n \in Small /\ n \in Nat
  BY SmallIsNat DEF Bodies
<1>2. /\ LengthOfSize(n) \in 1..5 /\ head \in Seq(Bytes) /\ Len(head) = LengthOfSize(n) + 1
      /\ head[1] = tag
  BY <1>1, HeadIs
<1> HIDE DEF head
<1>3. /\ head \o body \in Seq(Bytes) /\ Len(head \o body) = Len(head) + Len(body)
      /\ \A i \in 1..Len(head) : (head \o body)[i] = head[i]
      /\ \A i \in 1..Len(body) : (head \o body)[Len(head) + i] = body[i]
  <2>1. head \in Seq(Bytes)
    BY <1>2
  <2>2. body \in Seq(Bytes)
    BY <1>1
  <2> QED
    BY <2>1, <2>2, Joined
<1>4. Tlv(tag, body) = head \o body
  BY DEF Tlv, head
<1>5. 1 \in 1..Len(head)
  BY <1>2
<1> QED
  BY <1>1, <1>2, <1>3, <1>4, <1>5 DEF head

\* An item is read where it was written.
Written(b, p, item) ==
    /\ p + Len(item) - 1 <= Len(b)
    /\ \A i \in 1..Len(item) : b[p + i - 1] = item[i]

LEMMA ItemRead ==
    ASSUME NEW b \in Seq(Bytes), NEW p \in Nat \ {0}, NEW tag \in Bytes, NEW body \in Bodies,
           Written(b, p, Tlv(tag, body))
    PROVE  /\ b[p] = tag
           /\ GetLengthInfo(b, p + 1) =
                  [value |-> Len(body), size |-> LengthOfSize(Len(body))]
           /\ ItemLength(b, p) = Len(Tlv(tag, body))
<1> DEFINE n == Len(body)
           size == LengthOfSize(n)
           item == Tlv(tag, body)
<1>1. /\ n \in Nat /\ size \in 1..5 /\ Len(item) = 1 + size + n
      /\ \A i \in 1..(size + 1) : item[i] = TagAndLength(tag, n)[i]
  BY ItemType
<1>2. p + Len(item) - 1 <= Len(b) /\ \A i \in 1..Len(item) : b[p + i - 1] = item[i]
  BY DEF Written
<1>3. n \in Small
  BY DEF Bodies
<1>4. Headed(b, p, tag, n)
  <2> HIDE DEF n, size, item
  <2>1. p + size <= Len(b) /\ \A i \in 1..(size + 1) : i \in 1..Len(item)
    BY <1>1, <1>2, SMTT(30)
  <2>2. \A i \in 1..(size + 1) : b[p + i - 1] = TagAndLength(tag, n)[i]
    BY <1>1, <1>2, <2>1
  <2> QED
    BY <2>1, <2>2 DEF Headed, size
<1>5. b[p] = tag /\ GetLengthInfo(b, p + 1) = [value |-> n, size |-> size]
  BY <1>3, <1>4, LengthRead
<1>6. ItemLength(b, p) = 1 + size + n
  BY <1>5 DEF ItemLength
<1> QED
  BY <1>1, <1>5, <1>6

LEMMA PayloadIs ==
    ASSUME NEW tag \in Bytes, NEW body \in Bodies
    PROVE  /\ Payload(Tlv(tag, body)) = body
           /\ ItemLength(Tlv(tag, body), 1) = Len(Tlv(tag, body))
<1> DEFINE n == Len(body)
           size == LengthOfSize(n)
           item == Tlv(tag, body)
<1>1. /\ body \in Seq(Bytes) /\ n \in Nat /\ size \in 1..5
      /\ item \in Seq(Bytes) /\ Len(item) = 1 + size + n
      /\ \A i \in 1..n : item[size + 1 + i] = body[i]
  BY ItemType
<1>2. Written(item, 1, item)
  BY <1>1 DEF Written
<1>3. /\ GetLengthInfo(item, 2) = [value |-> n, size |-> size]
      /\ ItemLength(item, 1) = Len(item)
  <2>1. 1 \in Nat \ {0} /\ item \in Seq(Bytes)
    BY <1>1
  <2>2. /\ GetLengthInfo(item, 1 + 1) = [value |-> n, size |-> size]
        /\ ItemLength(item, 1) = Len(item)
    BY <1>2, <2>1, ItemRead, Zenon
  <2> QED
    BY <2>2
<1> HIDE DEF n, size, item
<1>4. Payload(item) = SubSeq(item, 2 + size, Len(item))
  <2>1. GetLengthInfo(item, 2).size = size
    BY <1>3
  <2> QED
    BY <2>1, Zenon DEF Payload
<1> DEFINE part == SubSeq(item, 2 + size, Len(item))
<1>5. part \in Seq(Bytes) /\ Len(part) = n /\ \A i \in 1..n : part[i] = item[size + 1 + i]
  BY <1>1
<1>6. Len(body) = n
  BY DEF n
<1> HIDE DEF part
<1>7. \A i \in 1..n : part[i] = body[i]
  BY <1>1, <1>5
<1>8. part = body
  BY <1>1, <1>5, <1>6, <1>7, SeqEqual
<1> QED
  BY <1>3, <1>4, <1>8 DEF item, part

\* A leading zero, which keeps a number from looking negative, adds nothing to it.
LEMMA LeadingZero ==
    ASSUME NEW b \in Seq(Nat), Len(b) \in 1..4
    PROVE  CharToInt(<<0>> \o b) = CharToInt(b)
<1> DEFINE z == <<0>> \o b
<1>1. z \in Seq(Nat) /\ Len(z) = Len(b) + 1 /\ z[1] = 0 /\ \A i \in 1..Len(b) : z[i + 1] = b[i]
  OBVIOUS
<1> HIDE DEF z
<1>2. \A i \in 1..Len(b) : b[i] \in Nat
  OBVIOUS
<1>3. CASE Len(b) = 1
  <2>1. CharToInt(b) = b[1]
    BY <1>3, CharToIntValue, Zenon
  <2>2. Len(z) = 2 /\ z[2] = b[1] /\ b[1] \in Nat
    BY <1>1, <1>2, <1>3
  <2>3. CharToInt(z) = z[1] * 256 + z[2]
    BY <1>1, <2>2, CharToIntValue, Zenon
  <2> QED
    BY <1>1, <2>1, <2>2, <2>3 DEF z
<1>4. CASE Len(b) = 2
  <2>1. CharToInt(b) = b[1] * 256 + b[2]
    BY <1>4, CharToIntValue, Zenon
  <2>2. Len(z) = 3 /\ z[2] = b[1] /\ z[3] = b[2] /\ b[1] \in Nat /\ b[2] \in Nat
    BY <1>1, <1>2, <1>4
  <2>3. CharToInt(z) = (z[1] * 256 + z[2]) * 256 + z[3]
    BY <1>1, <2>2, CharToIntValue, ZenonT(60)
  <2> QED
    BY <1>1, <2>1, <2>2, <2>3 DEF z
<1>5. CASE Len(b) = 3
  <2>1. CharToInt(b) = (b[1] * 256 + b[2]) * 256 + b[3]
    BY <1>5, CharToIntValue, ZenonT(60)
  <2>2. /\ Len(z) = 4 /\ z[2] = b[1] /\ z[3] = b[2] /\ z[4] = b[3]
        /\ b[1] \in Nat /\ b[2] \in Nat /\ b[3] \in Nat
    BY <1>1, <1>2, <1>5
  <2>3. CharToInt(z) = ((z[1] * 256 + z[2]) * 256 + z[3]) * 256 + z[4]
    BY <1>1, <2>2, CharToIntValue, ZenonT(60)
  <2> QED
    BY <1>1, <2>1, <2>2, <2>3 DEF z
<1>6. CASE Len(b) = 4
  <2>1. CharToInt(b) = ((b[1] * 256 + b[2]) * 256 + b[3]) * 256 + b[4]
    BY <1>6, CharToIntValue, ZenonT(60)
  <2>2. /\ Len(z) = 5 /\ z[2] = b[1] /\ z[3] = b[2] /\ z[4] = b[3] /\ z[5] = b[4]
        /\ b[1] \in Nat /\ b[2] \in Nat /\ b[3] \in Nat /\ b[4] \in Nat
    BY <1>1, <1>2, <1>6
  <2>3. CharToInt(z) = (((z[1] * 256 + z[2]) * 256 + z[3]) * 256 + z[4]) * 256 + z[5]
    BY <1>1, <2>2, CharToIntValue, ZenonT(60)
  <2> QED
    BY <1>1, <2>1, <2>2, <2>3 DEF z
<1> QED
  BY <1>3, <1>4, <1>5, <1>6

\* The bytes IntToChar takes of a number.
NumberSize(v) ==
    IF v <= 255 THEN 1 ELSE IF v <= 65535 THEN 2 ELSE IF v <= 16777215 THEN 3 ELSE 4

LEMMA NumberSizeFits ==
    ASSUME NEW v \in Nat
    PROVE  \/ NumberSize(v) = 1 /\ v \in OneByte
           \/ NumberSize(v) = 2 /\ v \in TwoBytes
           \/ NumberSize(v) = 3 /\ v \in ThreeBytes
           \/ NumberSize(v) = 4
<1>1. NumberSize(v) \in 1..4
  BY SMT DEF NumberSize
<1>2. NumberSize(v) = 1 => v \in OneByte
  BY SMT DEF NumberSize, OneByte
<1>3. NumberSize(v) = 2 => v \in TwoBytes
  BY SMT DEF NumberSize, TwoBytes
<1>4. NumberSize(v) = 3 => v \in ThreeBytes
  BY SMT DEF NumberSize, ThreeBytes
<1>5. NumberSize(v) = 1 \/ NumberSize(v) = 2 \/ NumberSize(v) = 3 \/ NumberSize(v) = 4
  BY <1>1
<1> QED
  BY <1>2, <1>3, <1>4, <1>5, Zenon

\* A number is read as it was written.
LEMMA IntToCharIs ==
    ASSUME NEW v \in Small
    PROVE  /\ IntToChar(v) \in Seq(Bytes) /\ Len(IntToChar(v)) \in 1..5
           /\ CharToInt(IntToChar(v)) = v
<1> DEFINE k == NumberSize(v)
           bytes == BigEndian(v, k)
<1>1. v \in Nat
  BY SmallIsNat
<1>2. IntToChar(v) = IF bytes[1] >= 128 THEN <<0>> \o bytes ELSE bytes
  BY SMT DEF IntToChar, NumberSize
<1>3. CharToInt(bytes) = v
  BY <1>1, NumberSizeFits, BigEndianRead, Zenon
<1>4. k \in 1..4
  BY <1>1, NumberSizeFits
<1>5. bytes \in Seq(Bytes) /\ Len(bytes) = k
  BY <1>1, <1>4, BigEndianType
<1> HIDE DEF k, bytes
<1>6. bytes \in Seq(Nat) /\ Len(bytes) \in 1..4
  BY <1>4, <1>5, BytesAreNumbers
<1>7. CharToInt(<<0>> \o bytes) = v
  BY <1>3, <1>6, LeadingZero
<1>8. <<0>> \in Seq(Bytes) /\ Len(<<0>>) = 1
  BY DEF Bytes
<1>9. <<0>> \o bytes \in Seq(Bytes) /\ Len(<<0>> \o bytes) = k + 1
  BY <1>5, <1>8, Joined
<1>10. CASE bytes[1] >= 128
  BY <1>2, <1>4, <1>7, <1>9, <1>10
<1>11. CASE ~(bytes[1] >= 128)
  BY <1>2, <1>3, <1>4, <1>5, <1>11
<1> QED
  BY <1>10, <1>11

\* Numbers and strings are items, and are read as they were written.
LEMMA IntegerItem ==
    ASSUME NEW v \in Small
    PROVE  /\ WriteInteger(v) = Tlv(IntegerTag, IntToChar(v))
           /\ IntegerTag \in Bytes /\ IntToChar(v) \in Bodies
           /\ ReadInteger(WriteInteger(v)) = v
<1> DEFINE body == IntToChar(v)
<1>1. body \in Seq(Bytes) /\ Len(body) \in 1..5 /\ CharToInt(body) = v
  BY IntToCharIs
<1> HIDE DEF body
<1>2. LengthOfSize(Len(body)) = 1
  <2>1. \A n \in 1..5 : LengthOfSize(n) = 1
    BY SMT DEF LengthOfSize
  <2> QED
    BY <1>1, <2>1
<1>3. Len(body) \in Small
  <2>1. \A n \in 1..5 : n \in Small
    BY SMT DEF Small
  <2> QED
    BY <1>1, <2>1
<1>4. body \in Bodies /\ IntegerTag \in Bytes
  BY <1>1, <1>3 DEF Bodies, IntegerTag, Bytes
<1>5. WriteInteger(v) = Tlv(IntegerTag, body)
  BY <1>2, Zenon DEF WriteInteger, Tlv, TagAndLength, body
<1>6. ReadInteger(Tlv(IntegerTag, body)) = v
  BY <1>1, <1>4, PayloadIs, Zenon DEF ReadInteger
<1> QED
  BY <1>4, <1>5, <1>6 DEF body

LEMMA StringItem ==
    ASSUME NEW s \in Bodies
    PROVE  /\ WriteString(s) = Tlv(StringTag, s) /\ StringTag \in Bytes
           /\ Payload(WriteString(s)) = s
<1>1. WriteString(s) = Tlv(StringTag, s)
  BY Zenon DEF WriteString, Tlv
<1>2. StringTag \in Bytes
  BY DEF StringTag, Bytes
<1> QED
  BY <1>1, <1>2, PayloadIs, Zenon

-----------------------------------------------------------------------------
(* Sequences.                                                                 *)

\* An item between other bytes.
LEMMA Between ==
    ASSUME NEW x \in Seq(Bytes), NEW item \in Seq(Bytes), NEW rest \in Seq(Bytes)
    PROVE  LET b == (x \o item) \o rest
               p == Len(x) + 1
           IN  /\ b \in Seq(Bytes) /\ p \in Nat \ {0} /\ Written(b, p, item)
               /\ SubSeq(b, p, p + Len(item) - 1) = item
               /\ b = x \o (item \o rest)
<1> DEFINE b == (x \o item) \o rest
           p == Len(x) + 1
<1>1. /\ x \o item \in Seq(Bytes) /\ Len(x \o item) = Len(x) + Len(item)
      /\ Len(x) \in Nat /\ Len(item) \in Nat
      /\ \A i \in 1..Len(item) : (x \o item)[Len(x) + i] = item[i]
  BY Joined
<1>2. /\ b \in Seq(Bytes) /\ Len(b) = Len(x \o item) + Len(rest) /\ Len(rest) \in Nat
      /\ \A i \in 1..Len(x \o item) : b[i] = (x \o item)[i]
  BY <1>1, Joined
<1> HIDE DEF b
<1>3. p + Len(item) - 1 <= Len(b)
  BY <1>1, <1>2
<1>4. ASSUME NEW i \in 1..Len(item)
      PROVE  b[p + i - 1] = item[i]
  <2>1. p + i - 1 = Len(x) + i /\ Len(x) + i \in 1..Len(x \o item)
    BY <1>1
  <2> QED
    BY <1>1, <1>2, <2>1
<1> DEFINE part == SubSeq(b, p, p + Len(item) - 1)
<1>5. part \in Seq(Bytes) /\ Len(part) = Len(item) /\ \A i \in 1..Len(item) : part[i] = b[p + i - 1]
  BY <1>1, <1>2, <1>3
<1> HIDE DEF part
<1>6. part = item
  <2>1. \A i \in 1..Len(item) : part[i] = item[i]
    BY <1>4, <1>5
  <2> QED
    BY <1>5, <2>1, SeqEqual
<1>7. b = x \o (item \o rest)
  BY ConcatAssociative DEF b
<1> QED
  BY <1>1, <1>2, <1>3, <1>4, <1>6, <1>7 DEF Written, part, b

\* The cut of ReadSequence at p, when the rest is cut as f says.
CutAt(f, whole, p) ==
    LET next == p + ItemLength(whole, p)
    IN  IF p > Len(whole) THEN <<>>
        ELSE IF next \notin p + 1..Len(whole) + 1 THEN <<>>
        ELSE <<SubSeq(whole, p, next - 1)>> \o f[next]

Cuts(f, whole, first) == \A p \in first..(Len(whole) + 1) : f[p] = CutAt(f, whole, p)

LEMMA CutExists ==
    ASSUME NEW whole \in Seq(Bytes)
    PROVE  \E f \in [1..(Len(whole) + 1) -> Seq(Seq(Bytes))] : Cuts(f, whole, 1)
<1> DEFINE last == Len(whole) + 1
           Some(n) == n <= Len(whole) =>
                          \E f \in [(last - n)..last -> Seq(Seq(Bytes))] : Cuts(f, whole, last - n)
           T == {n \in Nat : Some(n)}
<1>0. Len(whole) \in Nat
  OBVIOUS
<1>1. Some(0)
  <2> DEFINE f == [p \in last..last |-> <<>>]
  <2>1. f \in [last..last -> Seq(Seq(Bytes))]
    OBVIOUS
  <2>2. Cuts(f, whole, last)
    BY <1>0 DEF Cuts, CutAt
  <2>3. last - 0 = last
    BY <1>0
  <2> QED
    BY <2>1, <2>2, <2>3
<1>2. ASSUME NEW n \in Nat, Some(n)
      PROVE  Some(n + 1)
  <2> DEFINE lo == last - (n + 1)
  <2>1. SUFFICES ASSUME n + 1 <= Len(whole)
                 PROVE  \E g \in [lo..last -> Seq(Seq(Bytes))] : Cuts(g, whole, lo)
    OBVIOUS
  <2>2. last - n = lo + 1 /\ lo \in 1..Len(whole)
    BY <1>0, <2>1
  <2>3. PICK f \in [(lo + 1)..last -> Seq(Seq(Bytes))] : Cuts(f, whole, lo + 1)
    <3>1. n <= Len(whole)
      BY <1>0, <2>1
    <3> QED
      BY <1>2, <2>2, <3>1
  <2> HIDE DEF lo
  <2> DEFINE g == [p \in lo..last |-> IF p = lo THEN CutAt(f, whole, lo) ELSE f[p]]
  <2>4. CutAt(f, whole, lo) \in Seq(Seq(Bytes))
    <3> DEFINE next == lo + ItemLength(whole, lo)
               part == SubSeq(whole, lo, next - 1)
    <3>1. CASE next \in lo + 1..Len(whole) + 1
      <4> HIDE DEF next
      <4>1. part \in Seq(Bytes)
        BY <1>0, <2>2, <3>1
      <4>2. f[next] \in Seq(Seq(Bytes))
        BY <1>0, <2>2, <3>1
      <4> HIDE DEF part
      <4>3. <<part>> \in Seq(Seq(Bytes))
        BY <4>1
      <4>4. <<part>> \o f[next] \in Seq(Seq(Bytes))
        BY <4>2, <4>3
      <4>5. CutAt(f, whole, lo) = <<part>> \o f[next]
        BY <2>2, <3>1 DEF CutAt, part, next
      <4> QED
        BY <4>4, <4>5
    <3>2. CASE next \notin lo + 1..Len(whole) + 1
      <4>1. CutAt(f, whole, lo) = <<>>
        BY <3>2 DEF CutAt
      <4> QED
        BY <4>1
    <3> QED
      BY <3>1, <3>2, Zenon
  <2>5. g \in [lo..last -> Seq(Seq(Bytes))]
    BY <1>0, <2>2, <2>4
  <2>6. \A p \in (lo + 1)..last : g[p] = f[p]
    BY <1>0, <2>2
  <2>7. ASSUME NEW p \in lo..last
        PROVE  CutAt(g, whole, p) = CutAt(f, whole, p)
    <3> DEFINE next == p + ItemLength(whole, p)
    <3> HIDE DEF g
    <3>1. CASE next \in p + 1..Len(whole) + 1
      <4>1. next \in (lo + 1)..last
        BY <1>0, <2>2, <3>1
      <4>2. g[next] = f[next]
        BY <2>6, <4>1
      <4> QED
        BY <4>2, Zenon DEF CutAt
    <3>2. CASE next \notin p + 1..Len(whole) + 1
      BY <3>2, Zenon DEF CutAt
    <3> QED
      BY <3>1, <3>2
  <2>8. Cuts(g, whole, lo)
    <3>1. SUFFICES ASSUME NEW p \in lo..last
                   PROVE  g[p] = CutAt(f, whole, p)
      BY <2>7 DEF Cuts
    <3>2. CASE p = lo
      BY <3>2
    <3>3. CASE p # lo
      <4>1. p \in (lo + 1)..last
        BY <1>0, <2>2, <3>3
      <4>2. f[p] = CutAt(f, whole, p)
        BY <2>3, <4>1 DEF Cuts
      <4> QED
        BY <2>6, <4>1, <4>2
    <3> QED
      BY <3>2, <3>3
  <2> QED
    BY <2>5, <2>8
<1> HIDE DEF Some
<1>3. 0 \in T /\ \A n \in Nat : n \in T => n + 1 \in T
  BY <1>1, <1>2
<1> HIDE DEF T
<1>4. Nat \subseteq T
  BY <1>3, Induction
<1>5. Some(Len(whole))
  BY <1>0, <1>4 DEF T
<1>6. last - Len(whole) = 1
  BY <1>0
<1> QED
  BY <1>0, <1>5, <1>6 DEF Some

LEMMA CutIs ==
    ASSUME NEW whole \in Seq(Bytes), NEW g, g = [p \in 1..Len(whole) + 1 |-> CutAt(g, whole, p)]
    PROVE  Cuts(g, whole, 1)
  BY DEF Cuts

\* The first cut of what begins with an item is the item.
LEMMA CutStep ==
    ASSUME NEW f, NEW whole \in Seq(Bytes), NEW p \in Nat \ {0},
           NEW item \in Items, Written(whole, p, item)
    PROVE  /\ CutAt(f, whole, p) = <<SubSeq(whole, p, p + Len(item) - 1)>> \o f[p + Len(item)]
           /\ Len(item) \in Nat /\ Len(item) > 1
<1>1. PICK tag \in Bytes, body \in Bodies : item = Tlv(tag, body)
  BY DEF Items
<1>2. Len(item) \in Nat /\ Len(item) > 1
  <2>1. /\ Len(body) \in Nat /\ LengthOfSize(Len(body)) \in 1..5
        /\ Len(Tlv(tag, body)) = 1 + LengthOfSize(Len(body)) + Len(body)
    BY ItemType
  <2> QED
    BY <1>1, <2>1
<1>3. ItemLength(whole, p) = Len(item)
  BY <1>1, ItemRead
<1> DEFINE next == p + Len(item)
<1>4. /\ Len(whole) \in Nat /\ next \in p + 1..Len(whole) + 1 /\ ~(p > Len(whole))
  BY <1>2 DEF Written
<1>5. CutAt(f, whole, p) = <<SubSeq(whole, p, next - 1)>> \o f[next]
  <2> HIDE DEF next
  <2>1. p + ItemLength(whole, p) = next
    BY <1>3 DEF next
  <2> QED
    BY <1>4, <2>1, Zenon DEF CutAt
<1> QED
  BY <1>2, <1>5

LEMMA ItemsAreBytes == Items \subseteq Seq(Bytes) /\ Seq(Items) \subseteq Seq(Seq(Bytes))
<1>1. Items \subseteq Seq(Bytes)
  BY ItemType DEF Items
<1>2. ASSUME NEW s \in Seq(Items)
      PROVE  s \in Seq(Seq(Bytes))
  <2>1. s \in [1..Len(s) -> Items] /\ Len(s) \in Nat
    OBVIOUS
  <2>2. s \in [1..Len(s) -> Seq(Bytes)]
    BY <1>1, <2>1
  <2> QED
    BY <2>1, <2>2, FunctionIsSeq
<1> QED
  BY <1>1, <1>2

\* A concatenation of items is cut into the items.
LEMMA ItemsCut ==
    ASSUME NEW nodes \in Seq(Items), NEW f, Cuts(f, FlattenSeq(nodes), 1)
    PROVE  f[1] = nodes
<1> DEFINE whole == FlattenSeq(nodes)
           before(m) == FlattenSeq(SubSeq(nodes, 1, m))
           CutFrom(m) == /\ \E rest \in Seq(Bytes) : whole = before(m) \o rest
                         /\ f[Len(before(m)) + 1] = SubSeq(nodes, m + 1, Len(nodes))
           Some(k) == k <= Len(nodes) => CutFrom(Len(nodes) - k)
           T == {k \in Nat : Some(k)}
<1>1. nodes \in Seq(Seq(Bytes)) /\ Len(nodes) \in Nat
  BY ItemsAreBytes
<1>2. whole \in Seq(Bytes) /\ Len(whole) \in Nat
  BY <1>1, FlattenType
<1>3. CutFrom(Len(nodes))
  <2>1. before(Len(nodes)) = whole
    BY <1>1, SubSeqFull
  <2>2. whole = whole \o <<>> /\ <<>> \in Seq(Bytes)
    BY <1>2, ConcatEmptySeq
  <2>3. SubSeq(nodes, Len(nodes) + 1, Len(nodes)) = <<>>
    BY <1>1, SubSeqEmpty
  <2> HIDE DEF whole
  <2>4. f[Len(whole) + 1] = CutAt(f, whole, Len(whole) + 1)
    <3>1. Len(whole) + 1 \in 1..(Len(whole) + 1)
      BY <1>2
    <3> QED
      BY <3>1, Zenon DEF Cuts, whole
  <2>5. CutAt(f, whole, Len(whole) + 1) = <<>>
    <3>1. Len(whole) + 1 > Len(whole)
      BY <1>2
    <3> QED
      BY <3>1, Zenon DEF CutAt
  <2> QED
    BY <2>1, <2>2, <2>3, <2>4, <2>5
<1>4. ASSUME NEW m \in 1..Len(nodes), CutFrom(m)
      PROVE  CutFrom(m - 1)
  <2> DEFINE x == before(m - 1)
             item == nodes[m]
             p == Len(x) + 1
  <2>1. m \in Nat /\ m - 1 \in Nat /\ m - 1 <= Len(nodes) /\ item \in Items /\ item \in Seq(Bytes)
    BY <1>1, ItemsAreBytes
  <2>2. SubSeq(nodes, 1, m - 1) \in Seq(Seq(Bytes))
    <3>1. \A i \in 1..(m - 1) : nodes[i] \in Seq(Bytes)
      BY <1>1, <2>1
    <3> QED
      BY <2>1, <3>1, SubSeqProperties
  <2>3. x \in Seq(Bytes) /\ Len(x) \in Nat
    <3>1. FlattenSeq(SubSeq(nodes, 1, m - 1)) \in Seq(Bytes)
      BY <2>2, FlattenType
    <3> QED
      BY <3>1
  <2>4. before(m) = x \o item
    <3>1. SubSeq(nodes, 1, m) = SubSeq(nodes, 1, m - 1) \o <<item>>
      <4>1. 1 \in 1..Len(nodes) /\ m \in 1..Len(nodes)
        BY <1>1, <2>1
      <4> QED
        BY <1>1, <4>1, SubSeqRecursiveSecond
    <3>2. SubSeq(nodes, 1, m) = Append(SubSeq(nodes, 1, m - 1), item)
      BY <2>1, <2>2, <3>1, AppendIsConcat
    <3> QED
      BY <2>1, <2>2, <3>2, FlattenAppend
  <2>5. PICK rest \in Seq(Bytes) : whole = before(m) \o rest
    BY <1>4
  <2> DEFINE after == SubSeq(nodes, m + 1, Len(nodes))
  <2>6. f[Len(before(m)) + 1] = after
    BY <1>4
  <2> HIDE DEF x, item, whole, before, after
  <2>7. whole = (x \o item) \o rest
    BY <2>4, <2>5
  <2>8. /\ p \in Nat \ {0} /\ Written(whole, p, item)
        /\ SubSeq(whole, p, p + Len(item) - 1) = item
        /\ whole = x \o (item \o rest)
    BY <2>1, <2>3, <2>7, Between, ZenonT(60)
  <2>9. Len(before(m)) + 1 = p + Len(item)
    BY <2>1, <2>3, <2>4, Joined
  <2>10. /\ CutAt(f, whole, p) = <<item>> \o after
         /\ Len(item) \in Nat /\ Len(item) > 1
    <3>1. f[p + Len(item)] = after
      BY <2>6, <2>9
    <3> HIDE DEF p
    <3>2. /\ whole \in Seq(Bytes) /\ p \in Nat \ {0} /\ item \in Items
          /\ Written(whole, p, item)
      BY <1>2, <2>1, <2>8
    <3>3. /\ CutAt(f, whole, p) =
                 <<SubSeq(whole, p, p + Len(item) - 1)>> \o f[p + Len(item)]
          /\ Len(item) \in Nat /\ Len(item) > 1
      BY <3>2, CutStep, Zenon
    <3> QED
      BY <2>8, <3>1, <3>3
  <2>11. f[p] = CutAt(f, whole, p)
    <3>1. p \in 1..(Len(whole) + 1)
      BY <1>2, <2>3, <2>8, <2>10 DEF Written
    <3> HIDE DEF p
    <3> QED
      BY <3>1, Zenon DEF Cuts, whole
  <2>12. <<item>> \o after = SubSeq(nodes, m - 1 + 1, Len(nodes))
    <3>1. SubSeq(nodes, m, Len(nodes)) = <<nodes[m]>> \o SubSeq(nodes, m + 1, Len(nodes))
      <4>1. m \in 1..Len(nodes) /\ Len(nodes) \in m..Len(nodes)
        BY <1>1, <2>1
      <4> QED
        BY <1>1, <4>1, SubSeqRecursiveFirst
    <3>2. m - 1 + 1 = m
      BY <2>1
    <3> QED
      BY <3>1, <3>2 DEF item, after
  <2>13. item \o rest \in Seq(Bytes)
    BY <2>1, Joined
  <2> QED
    BY <2>8, <2>10, <2>11, <2>12, <2>13 DEF x
<1>5. Some(0)
  <2>1. Len(nodes) - 0 = Len(nodes)
    BY <1>1
  <2> HIDE DEF CutFrom
  <2> QED
    BY <1>3, <2>1
<1>6. ASSUME NEW k \in Nat, Some(k)
      PROVE  Some(k + 1)
  <2>1. SUFFICES ASSUME k + 1 <= Len(nodes)
                 PROVE  CutFrom(Len(nodes) - (k + 1))
    OBVIOUS
  <2>2. Len(nodes) - k \in 1..Len(nodes) /\ Len(nodes) - (k + 1) = Len(nodes) - k - 1
    BY <1>1, <2>1
  <2> HIDE DEF CutFrom
  <2>3. CutFrom(Len(nodes) - k)
    BY <1>1, <1>6, <2>1
  <2> QED
    BY <1>4, <2>2, <2>3
<1> HIDE DEF Some
<1>7. 0 \in T /\ \A k \in Nat : k \in T => k + 1 \in T
  BY <1>5, <1>6
<1> HIDE DEF T
<1>8. Nat \subseteq T
  BY <1>7, Induction
<1>9. Some(Len(nodes))
  BY <1>1, <1>8 DEF T
<1>10. CutFrom(0)
  <2> HIDE DEF CutFrom
  <2>1. Len(nodes) - Len(nodes) = 0
    BY <1>1
  <2> QED
    BY <1>1, <1>9, <2>1 DEF Some
<1>11. before(0) = <<>> /\ Len(<<>>) + 1 = 1
  <2>1. SubSeq(nodes, 1, 0) = <<>>
    BY <1>1, SubSeqEmpty
  <2>2. Len(<<>>) + 1 = 1
    OBVIOUS
  <2> QED
    BY <2>1, <2>2, FlattenEmpty, Zenon
<1>12. SubSeq(nodes, 0 + 1, Len(nodes)) = nodes
  BY <1>1, SubSeqFull
<1> QED
  BY <1>10, <1>11, <1>12

LEMMA ReadSequenceIs ==
    ASSUME NEW b, Payload(b) \in Seq(Bytes)
    PROVE  \E f : Cuts(f, Payload(b), 1) /\ ReadSequence(b) = f[1]
<1> DEFINE whole == Payload(b)
           Is(g) == g = [p \in 1..Len(whole) + 1 |-> CutAt(g, whole, p)]
           from == CHOOSE g : Is(g)
<1>1. PICK f \in [1..(Len(whole) + 1) -> Seq(Seq(Bytes))] : Cuts(f, whole, 1)
  BY CutExists
<1>2. Is(f)
  BY <1>1 DEF Cuts
<1>3. Is(from)
  BY <1>2
<1>4. ReadSequence(b) = from[1]
  BY Zenon DEF ReadSequence, CutAt
<1> HIDE DEF from, whole
<1>5. Cuts(from, whole, 1)
  BY <1>1, <1>3, CutIs DEF whole
<1> QED
  BY <1>4, <1>5 DEF whole

\* A list of items that is packed is read as the same list, and what is short of
\* its last byte is refused.
LEMMA SequenceItem ==
    ASSUME NEW nodes \in Seq(Items), FlattenSeq(nodes) \in Bodies
    PROVE  /\ WriteSequence(nodes) = Tlv(SequenceTag, FlattenSeq(nodes))
           /\ SequenceTag \in Bytes
           /\ Payload(WriteSequence(nodes)) = FlattenSeq(nodes)
           /\ IsSequence(WriteSequence(nodes))
           /\ ReadSequence(WriteSequence(nodes)) = nodes
<1> DEFINE whole == FlattenSeq(nodes)
           b == Tlv(SequenceTag, whole)
<1>1. WriteSequence(nodes) = b
  BY Zenon DEF WriteSequence, Tlv
<1>2. SequenceTag \in Bytes /\ whole \in Bodies /\ whole \in Seq(Bytes)
  BY DEF SequenceTag, Bytes, Bodies
<1>3. Payload(b) = whole /\ ItemLength(b, 1) = Len(b) /\ b[1] = SequenceTag
  BY <1>2, PayloadIs, ItemType
<1>4. IsSequence(b)
  BY <1>3, Zenon DEF IsSequence
<1>5. ReadSequence(b) = nodes
  <2>1. PICK f : Cuts(f, whole, 1) /\ ReadSequence(b) = f[1]
    BY <1>2, <1>3, ReadSequenceIs
  <2> QED
    BY <2>1, ItemsCut
<1> QED
  BY <1>1, <1>2, <1>3, <1>4, <1>5

LEMMA CutShort ==
    ASSUME NEW tag \in Bytes, NEW body \in Bodies, body # <<>>
    PROVE  ~IsSequence(Front(Tlv(tag, body)))
<1> DEFINE n == Len(body)
           size == LengthOfSize(n)
           item == Tlv(tag, body)
           b == Front(item)
<1>1. /\ body \in Seq(Bytes) /\ n \in Nat /\ size \in 1..5 /\ item \in Seq(Bytes)
      /\ Len(item) = 1 + size + n
      /\ \A i \in 1..(size + 1) : item[i] = TagAndLength(tag, n)[i]
  BY ItemType
<1>2. n > 0 /\ n \in Small
  BY <1>1 DEF Bodies
<1> HIDE DEF n, size, item
<1>3. /\ b \in Seq(Bytes) /\ Len(b) = Len(item) - 1
      /\ \A i \in 1..Len(b) : b[i] = item[i]
  BY <1>1, <1>2 DEF Front
<1> HIDE DEF b
<1>4. Headed(b, 1, tag, n)
  <2>1. 1 + size <= Len(b)
    BY <1>1, <1>2, <1>3
  <2>2. \A i \in 1..(size + 1) : b[1 + i - 1] = TagAndLength(tag, n)[i]
    BY <1>1, <1>2, <1>3
  <2> QED
    BY <2>1, <2>2, Zenon DEF Headed, size
<1>5. GetLengthInfo(b, 1 + 1) = [value |-> n, size |-> size]
  <2>1. 1 \in Nat \ {0} /\ b \in Seq(Bytes) /\ n \in Small
    BY <1>2, <1>3
  <2>2. GetLengthInfo(b, 1 + 1) = [value |-> n, size |-> LengthOfSize(n)]
    BY <1>4, <2>1, LengthRead, Zenon
  <2> QED
    BY <2>2, Zenon DEF size
<1>6. ItemLength(b, 1) = 1 + size + n
  BY <1>5 DEF ItemLength
<1>7. Len(b) # ItemLength(b, 1)
  BY <1>1, <1>3, <1>6
<1> QED
  BY <1>7 DEF IsSequence, b, item

-----------------------------------------------------------------------------
(* The invariant.  A list of nodes holds the members coded so far, or all of   *)
(* them; the bytes read so far are those of the message, and the others zero   *)
(* or the message's too; and every call adds at most five nodes.               *)

Coded(m, i) ==
    LET member == Layout[m.kind][i]
    IN  IF member.type = "int" THEN WriteInteger(IntAt(m.mem, member.at))
        ELSE WriteString(CString(m.mem, member.at))

MayCode(m, i) ==
    LET member == Layout[m.kind][i]
    IN  IF member.type = "int" THEN ~Negative(m.mem, member.at)
        ELSE CString(m.mem, member.at) # <<>>

AllCoded(m) == [i \in 1..5 |-> Coded(m, i)]

\* The nodes c are a list on their own.
IsChain(c) ==
    /\ c \in Seq(Addresses)
    /\ \A i, j \in 1..Len(c) : c[i] = c[j] => i = j
    /\ \A i \in 1..Len(c) : heap[c[i]].next = IF i = Len(c) THEN Null ELSE c[i + 1]

\* The list of m_header is c: it holds the first n members of m, and unless a call
\* failed there is nothing else on the heap.
Holds(c, m, n) ==
    /\ IsChain(c) /\ Len(c) = n
    /\ n > 0 => mHeader = c[1]
    /\ \A i \in 1..n : heap[c[i]].data = Coded(m, i)
    /\ {c[i] : i \in 1..n} \subseteq live
    /\ failures = 0 => live = {c[i] : i \in 1..n}

ListInv ==
    /\ pc \in {"idle", "unpack"} /\ failures = 0 => live = {}
    /\ pc \in {"encode", "pack"} =>
           \E c \in Seq(Addresses) : /\ Holds(c, msg, field - 1)
                                     /\ field > 1 => mNext = c[field - 1]
    /\ pc = "decode" => \E c \in Seq(Addresses) : /\ Holds(c, of, 5)
                                                  /\ field > 1 => mNext = c[field]
    /\ pc = "free" => \E c \in Seq(Addresses) : Holds(c, of, 5)

StageInv ==
    /\ pc \in {"encode", "decode"} => field \in 1..5
    /\ pc = "pack" => field = 6
    /\ pc \in {"unpack", "free"} => field = 1
    /\ pc \in {"encode", "pack"} =>
           op = "encode" /\ \A i \in 1..(field - 1) : MayCode(msg, i)
    /\ pc \in {"unpack", "decode"} => op = "decode"
    /\ pc = "free" => op \in {"encode", "decode"} /\ of # NoMessage

OutInv ==
    of # NoMessage => /\ of \in Messages /\ \A i \in 1..5 : MayCode(of, i)
                      /\ out = WriteSequence(AllCoded(of))

\* pMsg is what n members of the message have made of zeros.
Covered(i) ==
    LET member == Layout[of.kind][i]
    IN  IF member.type = "int" THEN member.at..(member.at + 3)
        ELSE member.at..(member.at + Len(CString(of.mem, member.at)) - 1)

Filled(n) ==
    /\ \A o \in DOMAIN pMsg : pMsg[o] \in {0, of.mem[o]}
    /\ \A i \in 1..n : \A o \in Covered(i) : pMsg[o] = of.mem[o]

ReadInv ==
    /\ op = "decode" => of # NoMessage /\ of.kind = msg.kind /\ data \in {out, Front(out)}
    /\ pc = "unpack" => pMsg = Zeroed(msg.kind)
    /\ pc = "decode" => data = out /\ Filled(field - 1)
    /\ pc = "free" /\ op = "decode" => data = out /\ Filled(5)
    /\ pc = "idle" /\ op = "decode" => IF data = out THEN ret = 0 /\ Filled(5) ELSE ret = -1

RoomInv ==
    /\ failures \in Nat /\ calls \in 0..MaxCalls
    /\ pc # "idle" => calls > 0
    /\ pc = "encode" => Cardinality(live) <= 5 * (calls - 1) + field - 1
    /\ pc = "unpack" => Cardinality(live) <= 5 * (calls - 1)
    /\ Cardinality(live) <= 5 * calls

HeapInv ==
    /\ heap \in [Addresses -> [data : Seq(Bytes), next : Addresses \cup {Null}]]
    /\ out \in Seq(Bytes) /\ data \in Seq(Bytes)

IInv == TypeOK /\ HeapInv /\ StageInv /\ ListInv /\ OutInv /\ ReadInv /\ RoomInv

-----------------------------------------------------------------------------
(* Structs.                                                                   *)

LEMMA LayoutIs ==
    ASSUME NEW kind \in DOMAIN Layout
    PROVE  /\ Len(Layout[kind]) = 5 /\ DOMAIN Layout[kind] = 1..5 /\ SizeOf[kind] \in 96..160
           /\ \A i \in 1..5 :
                  LET member == Layout[kind][i]
                  IN  /\ member.type \in {"int", "str"}
                      /\ member.at \in 0..(SizeOf[kind] - 4)
                      /\ member.type = "int" => i = 1 \/ member.at = SizeOf[kind] - 4
<1>1. kind = "request" \/ kind = "respond"
  BY DEF Layout
<1>2. CASE kind = "request"
  BY <1>2 DEF Layout, SizeOf
<1>3. CASE kind = "respond"
  BY <1>3 DEF Layout, SizeOf
<1> QED
  BY <1>1, <1>2, <1>3

LEMMA MessageIs ==
    ASSUME NEW m \in Messages
    PROVE  /\ m.kind \in DOMAIN Layout /\ m.mem \in Memory(m.kind) /\ StringsEnd(m)
           /\ m # NoMessage
<1>1. m.kind \in DOMAIN Layout /\ m.mem \in Memory(m.kind) /\ StringsEnd(m)
  BY MsgCodecAssumption
<1>2. m # NoMessage
  <2>1. NoMessage.kind = "none" /\ "none" \notin DOMAIN Layout
    BY DEF NoMessage, Layout
  <2> QED
    BY <1>1, <2>1
<1> QED
  BY <1>1, <1>2

\* A string has the bytes up to the first zero.
LEMMA CStringIs ==
    ASSUME NEW mem, NEW at \in Nat, NEW e \in DOMAIN mem, DOMAIN mem \subseteq Nat,
           e >= at, mem[e] = 0, \A o \in at..(e - 1) : mem[o] # 0
    PROVE  CString(mem, at) = [i \in 1..(e - at) |-> mem[at + i - 1]]
<1> DEFINE Ends(x) == x >= at /\ mem[x] = 0 /\ \A o \in at..(x - 1) : mem[o] # 0
           end == CHOOSE x \in DOMAIN mem : Ends(x)
<1>1. e \in DOMAIN mem /\ Ends(e)
  OBVIOUS
<1>2. end \in DOMAIN mem /\ Ends(end)
  BY <1>1
<1>3. CString(mem, at) = [i \in 1..(end - at) |-> mem[at + i - 1]]
  BY Zenon DEF CString
<1> HIDE DEF end
<1>4. end = e
  <2>1. end \in Nat /\ e \in Nat
    BY <1>2
  <2>2. ~(end < e)
    <3>1. SUFFICES ASSUME end < e PROVE FALSE
      OBVIOUS
    <3>2. end \in at..(e - 1)
      BY <1>2, <2>1, <3>1
    <3> QED
      BY <1>2, <3>2
  <2>3. ~(e < end)
    <3>1. SUFFICES ASSUME e < end PROVE FALSE
      OBVIOUS
    <3>2. e \in at..(end - 1)
      BY <2>1, <3>1
    <3> QED
      BY <1>2, <3>2
  <2> QED
    BY <2>1, <2>2, <2>3
<1> QED
  BY <1>3, <1>4

LEMMA MemoryIs ==
    ASSUME NEW kind \in DOMAIN Layout, NEW mem \in Memory(kind)
    PROVE  /\ DOMAIN mem = 0..(SizeOf[kind] + 7) /\ \A o \in DOMAIN mem : mem[o] \in Bytes
           /\ SizeOf[kind] \in Nat
<1>1. SizeOf[kind] \in Nat
  BY LayoutIs
<1>2. mem \in [0..(SizeOf[kind] + 7) -> Bytes]
  BY Zenon DEF Memory, Bytes
<1> QED
  BY <1>1, <1>2

\* The strings of a message end within its struct.
LEMMA StringEnd ==
    ASSUME NEW m \in Messages, NEW i \in 1..5, Layout[m.kind][i].type = "str"
    PROVE  LET at == Layout[m.kind][i].at
           IN  \E e \in at..SizeOf[m.kind] :
                  /\ m.mem[e] = 0 /\ \A o \in at..(e - 1) : m.mem[o] # 0
                  /\ CString(m.mem, at) = [j \in 1..(e - at) |-> m.mem[at + j - 1]]
                  /\ CString(m.mem, at) \in Seq(Bytes) /\ Len(CString(m.mem, at)) = e - at
                  /\ e - at \in 0..160 /\ at \in Nat /\ e \in DOMAIN m.mem
<1> DEFINE at == Layout[m.kind][i].at
           size == SizeOf[m.kind]
           T == {e \in at..size : m.mem[e] = 0}
<1>1. m.kind \in DOMAIN Layout /\ m.mem \in Memory(m.kind) /\ StringsEnd(m)
  BY MessageIs
<1>2. /\ at \in 0..(size - 4) /\ size \in 96..160 /\ i \in DOMAIN Layout[m.kind]
      /\ DOMAIN m.mem = 0..(size + 7) /\ \A o \in DOMAIN m.mem : m.mem[o] \in Bytes
  BY <1>1, LayoutIs, MemoryIs
<1>3. T # {}
  <2>1. \E e \in at..size : m.mem[e] = 0
    BY <1>1, <1>2 DEF StringsEnd
  <2> QED
    BY <2>1
<1> HIDE DEF at, size
<1>4. PICK e \in T : \A x \in T : e <= x
  <2>1. T \subseteq Nat
    BY <1>2
  <2> HIDE DEF T
  <2> QED
    BY <1>3, <2>1, LeastNumber
<1>5. e \in at..size /\ m.mem[e] = 0 /\ e \in Nat /\ at \in Nat
  BY <1>2, <1>4
<1>6. \A o \in at..(e - 1) : m.mem[o] # 0
  BY <1>2, <1>4, <1>5
<1> DEFINE s == [j \in 1..(e - at) |-> m.mem[at + j - 1]]
<1>7. CString(m.mem, at) = s
  <2>1. e \in DOMAIN m.mem /\ DOMAIN m.mem \subseteq Nat /\ e >= at
    BY <1>2, <1>5
  <2> QED
    BY <1>5, <1>6, <2>1, CStringIs
<1>8. e - at \in 0..160
  BY <1>2, <1>5
<1>9. s \in Seq(Bytes) /\ Len(s) = e - at
  <2>1. \A j \in 1..(e - at) : m.mem[at + j - 1] \in Bytes
    BY <1>2, <1>5
  <2>2. s \in [1..(e - at) -> Bytes]
    BY <2>1
  <2> DEFINE k == e - at
  <2>3. k \in Nat /\ s \in [1..k -> Bytes]
    BY <1>8, <2>2
  <2> HIDE DEF s, k
  <2>4. s \in Seq(Bytes) /\ Len(s) = k
    BY <2>3, FunctionIsSeq
  <2> QED
    BY <2>4 DEF k
<1>10. e \in DOMAIN m.mem
  BY <1>2, <1>5
<1> QED
  BY <1>5, <1>6, <1>7, <1>8, <1>9, <1>10 DEF at, size

\* The bytes of a number are those it was read from, and zeros.
LEMMA LongBytesIs ==
    ASSUME NEW v \in Nat
    PROVE  /\ LongBytes(v) \in Seq(Bytes) /\ Len(LongBytes(v)) = 8
           /\ LongBytes(v)[1] = Byte0(v) /\ LongBytes(v)[2] = Byte1(v)
           /\ LongBytes(v)[3] = Byte2(v) /\ LongBytes(v)[4] = Byte3(v)
           /\ \A j \in 5..8 : LongBytes(v)[j] = 0
<1> DEFINE a == Byte0(v)
           b == Byte1(v)
           c == Byte2(v)
           d == Byte3(v)
           bytes == BigEndian(v, 4)
           long == [j \in 1..8 |-> IF j > 4 THEN 0 ELSE bytes[5 - j]]
<1>1. a \in Bytes /\ b \in Bytes /\ c \in Bytes /\ d \in Bytes /\ 0 \in Bytes
  <2>1. 0 \in Bytes
    BY DEF Bytes
  <2> QED
    BY <2>1, ByteType, Zenon
<1>2. bytes = <<d, c, b, a>>
  BY BigEndianIs, Zenon
<1>3. LongBytes(v) = long
  BY Zenon DEF LongBytes
<1> HIDE DEF a, b, c, d, bytes
<1>4. /\ long[1] = a /\ long[2] = b /\ long[3] = c /\ long[4] = d
      /\ \A j \in 5..8 : long[j] = 0
  BY <1>2
<1>5. long \in [1..8 -> Bytes]
  <2>1. \A j \in 1..8 : j = 1 \/ j = 2 \/ j = 3 \/ j = 4 \/ j \in 5..8
    OBVIOUS
  <2>2. \A j \in 1..8 : long[j] \in Bytes
    BY <1>1, <1>4, <2>1
  <2> QED
    BY <2>2
<1> HIDE DEF long
<1>6. long \in Seq(Bytes) /\ Len(long) = 8
  BY <1>5, FunctionIsSeq
<1> QED
  BY <1>3, <1>4, <1>6, Zenon DEF a, b, c, d

LEMMA NumberBytes ==
    ASSUME NEW a \in Bytes, NEW b \in Bytes, NEW c \in Bytes, NEW d \in Bytes, ~(d >= 128),
           NEW v, v = a + 256 * b + 65536 * c + 16777216 * d
    PROVE  /\ v \in Small
           /\ Byte0(v) = a /\ Byte1(v) = b /\ Byte2(v) = c /\ Byte3(v) = d
<1>1. v \in Small
  BY SMT DEF Small, Bytes
<1>2. /\ v \in Nat /\ v \div 256 = b + 256 * c + 65536 * d
      /\ v \div 65536 = c + 256 * d /\ v \div 16777216 = d
  BY SMT DEF Bytes
<1>3. Byte0(v) = a
  BY SMT DEF Bytes, Byte0
<1>4. Byte1(v) = b
  <2>1. (b + 256 * c + 65536 * d) % 256 = b
    BY SMT DEF Bytes
  <2> QED
    BY <1>2, <2>1, SMT DEF Byte1
<1>5. Byte2(v) = c
  <2>1. (c + 256 * d) % 256 = c
    BY SMT DEF Bytes
  <2> QED
    BY <1>2, <2>1, SMT DEF Byte2
<1>6. Byte3(v) = d
  <2>1. d % 256 = d
    BY SMT DEF Bytes
  <2> QED
    BY <1>2, <2>1, SMT DEF Byte3
<1> QED
  BY <1>1, <1>3, <1>4, <1>5, <1>6, SMT

\* A number that is coded, and the bytes that are stored for it.
LEMMA NumberIs ==
    ASSUME NEW m \in Messages, NEW i \in 1..5, Layout[m.kind][i].type = "int", MayCode(m, i)
    PROVE  LET at == Layout[m.kind][i].at
               v == IntAt(m.mem, at)
           IN  /\ v \in Small /\ at \in Nat
               /\ LongBytes(v) \in Seq(Bytes) /\ Len(LongBytes(v)) = 8
               /\ \A j \in 1..4 : LongBytes(v)[j] = m.mem[at + j - 1]
               /\ \A j \in 5..8 : LongBytes(v)[j] = 0
<1> DEFINE at == Layout[m.kind][i].at
           v == IntAt(m.mem, at)
<1>1. m.kind \in DOMAIN Layout /\ m.mem \in Memory(m.kind)
  BY MessageIs
<1>2. at \in 0..(SizeOf[m.kind] - 4) /\ SizeOf[m.kind] \in 96..160
  BY <1>1, LayoutIs
<1>3. DOMAIN m.mem = 0..(SizeOf[m.kind] + 7) /\ \A o \in DOMAIN m.mem : m.mem[o] \in Bytes
  BY <1>1, MemoryIs
<1>4. ~Negative(m.mem, at)
  BY DEF MayCode
<1> DEFINE size == SizeOf[m.kind]
<1> HIDE DEF at, size
<1>5. /\ at \in DOMAIN m.mem /\ at + 1 \in DOMAIN m.mem /\ at + 2 \in DOMAIN m.mem
      /\ at + 3 \in DOMAIN m.mem /\ at \in Nat
  <2>1. at \in 0..(size - 4) /\ size \in 96..160 /\ DOMAIN m.mem = 0..(size + 7)
    BY <1>2, <1>3 DEF size
  <2> QED
    BY <2>1
<1> DEFINE a == m.mem[at]
           b == m.mem[at + 1]
           c == m.mem[at + 2]
           d == m.mem[at + 3]
<1>6. a \in Bytes /\ b \in Bytes /\ c \in Bytes /\ d \in Bytes
  BY <1>3, <1>5
<1>7. ~(d >= 128)
  BY <1>4, Zenon DEF Negative
<1>8. v = a + 256 * b + 65536 * c + 16777216 * d
  BY SMT DEF IntAt
<1>9. at + 1 - 1 = at /\ at + 2 - 1 = at + 1 /\ at + 3 - 1 = at + 2 /\ at + 4 - 1 = at + 3
  BY <1>5
<1> HIDE DEF a, b, c, d, v
<1>10. v \in Small /\ Byte0(v) = a /\ Byte1(v) = b /\ Byte2(v) = c /\ Byte3(v) = d
  BY <1>6, <1>7, <1>8, NumberBytes, SMT
<1>11. v \in Nat
  BY <1>10, SmallIsNat
<1>12. /\ LongBytes(v) \in Seq(Bytes) /\ Len(LongBytes(v)) = 8
       /\ LongBytes(v)[1] = a /\ LongBytes(v)[2] = b
       /\ LongBytes(v)[3] = c /\ LongBytes(v)[4] = d
       /\ \A j \in 5..8 : LongBytes(v)[j] = 0
  BY <1>10, <1>11, LongBytesIs, Zenon
<1>13. ASSUME NEW j \in 1..4
       PROVE  LongBytes(v)[j] = m.mem[at + j - 1]
  <2>1. j = 1 \/ j = 2 \/ j = 3 \/ j = 4
    OBVIOUS
  <2> QED
    BY <1>9, <1>12, <2>1, Zenon DEF a, b, c, d
<1> QED
  BY <1>5, <1>10, <1>12, <1>13, Zenon DEF at, v

\* What a member that may be coded becomes, and that it is read as it was.
LEMMA CodedIs ==
    ASSUME NEW m \in Messages, NEW i \in 1..5, MayCode(m, i)
    PROVE  LET member == Layout[m.kind][i]
           IN  /\ Coded(m, i) \in Items /\ Len(Coded(m, i)) \in 2..200
               /\ member.type = "int" => ReadInteger(Coded(m, i)) = IntAt(m.mem, member.at)
               /\ member.type = "str" => Payload(Coded(m, i)) = CString(m.mem, member.at)
<1> DEFINE member == Layout[m.kind][i]
<1>1. member.type = "int" \/ member.type = "str"
  BY MessageIs, LayoutIs
<1>2. ASSUME NEW tag \in Bytes, NEW body \in Bodies, Len(body) \in 0..160
      PROVE  Tlv(tag, body) \in Items /\ Len(Tlv(tag, body)) \in 2..200
  <2>1. /\ Len(body) \in Nat /\ LengthOfSize(Len(body)) \in 1..5
        /\ Len(Tlv(tag, body)) = 1 + LengthOfSize(Len(body)) + Len(body)
    BY ItemType
  <2>2. Tlv(tag, body) \in Items
    BY DEF Items
  <2> DEFINE t == Tlv(tag, body)
             n == Len(body)
             k == LengthOfSize(n)
  <2> HIDE DEF t, n, k
  <2>3. n \in Nat /\ k \in 1..5 /\ Len(t) = 1 + k + n /\ n \in 0..160
    BY <1>2, <2>1, Zenon DEF t, n, k
  <2>4. Len(t) \in 2..200
    BY <2>3
  <2> QED
    BY <2>2, <2>4 DEF t
<1>3. CASE member.type = "int"
  <2> DEFINE v == IntAt(m.mem, member.at)
  <2>1. v \in Small
    BY <1>3, NumberIs
  <2>2. Coded(m, i) = WriteInteger(v)
    BY <1>3 DEF Coded
  <2> HIDE DEF v
  <2>3. /\ WriteInteger(v) = Tlv(IntegerTag, IntToChar(v))
        /\ IntegerTag \in Bytes /\ IntToChar(v) \in Bodies
        /\ ReadInteger(WriteInteger(v)) = v
    BY <2>1, IntegerItem
  <2>4. Len(IntToChar(v)) \in 0..160
    <3>1. Len(IntToChar(v)) \in 1..5
      BY <2>1, IntToCharIs, Zenon
    <3>2. \A n \in 1..5 : n \in 0..160
      OBVIOUS
    <3> QED
      BY <3>1, <3>2, Zenon
  <2>5. Tlv(IntegerTag, IntToChar(v)) \in Items /\ Len(Tlv(IntegerTag, IntToChar(v))) \in 2..200
    BY <1>2, <2>3, <2>4, SMTT(30)
  <2> QED
    BY <1>3, <2>2, <2>3, <2>5, Zenon DEF v
<1>4. CASE member.type = "str"
  <2> DEFINE s == CString(m.mem, member.at)
  <2>1. s \in Seq(Bytes) /\ Len(s) \in 0..160
    <3>1. PICK e \in member.at..SizeOf[m.kind] :
              s \in Seq(Bytes) /\ Len(s) = e - member.at /\ e - member.at \in 0..160
      BY <1>4, StringEnd, Zenon
    <3> QED
      BY <3>1
  <2>2. Coded(m, i) = WriteString(s)
    BY <1>4 DEF Coded
  <2> HIDE DEF s
  <2>3. s \in Bodies
    <3>1. \A n \in 0..160 : n \in Small
      BY SMT DEF Small
    <3> QED
      BY <2>1, <3>1 DEF Bodies
  <2>4. WriteString(s) = Tlv(StringTag, s) /\ StringTag \in Bytes /\ Payload(WriteString(s)) = s
    BY <2>3, StringItem
  <2>6. Tlv(StringTag, s) \in Items /\ Len(Tlv(StringTag, s)) \in 2..200
    BY <1>2, <2>1, <2>3, <2>4, ZenonT(60)
  <2> QED
    BY <1>4, <2>2, <2>4, <2>6, Zenon DEF s
<1> QED
  BY <1>1, <1>3, <1>4

\* A few short items together are not too long for a length.
LEMMA FewItems ==
    ASSUME NEW nodes \in Seq(Items), Len(nodes) \in 1..5, NEW limit \in Nat,
           \A i \in 1..Len(nodes) : Len(nodes[i]) \in 2..limit
    PROVE  FlattenSeq(nodes) \in Seq(Bytes) /\ Len(FlattenSeq(nodes)) \in 2..(5 * limit)
<1> DEFINE k == Len(nodes)
<1>1. nodes \in Seq(Seq(Bytes)) /\ nodes # <<>>
  <2>1. nodes \in Seq(Seq(Bytes))
    BY ItemsAreBytes
  <2>2. nodes # <<>>
    <3>1. Len(<<>>) = 0 /\ 0 \notin 1..5
      OBVIOUS
    <3> QED
      BY <3>1, Zenon
  <2> QED
    BY <2>1, <2>2
<1>2. PICK f \in [1..k -> Seq(Bytes)] : FlattensTo(f, k, nodes) /\ FlattenSeq(nodes) = f[k]
  BY <1>1, FlattenSeqIs, Zenon
<1>3. \A i \in 1..k : f[i] = IF i = 1 THEN nodes[i] ELSE f[i - 1] \o nodes[i]
  <2>1. f = [i \in 1..k |-> IF i = 1 THEN nodes[i] ELSE f[i - 1] \o nodes[i]]
    BY <1>2, Zenon DEF FlattensTo
  <2> HIDE DEF k
  <2> QED
    BY <2>1
<1>4. /\ k \in 1..5
      /\ \A i \in 1..k : nodes[i] \in Seq(Bytes) /\ f[i] \in Seq(Bytes)
      /\ \A i \in 1..k : Len(nodes[i]) \in 2..limit
  <2>1. \A i \in 1..k : nodes[i] \in Seq(Bytes)
    <3>1. nodes \in [1..k -> Seq(Bytes)]
      BY <1>1
    <3> HIDE DEF k
    <3> QED
      BY <3>1, Zenon
  <2>2. \A i \in 1..k : f[i] \in Seq(Bytes)
    BY <1>2, Zenon
  <2> QED
    BY <2>1, <2>2
<1> HIDE DEF k
<1> DEFINE Short(i, most) == i <= k => Len(f[i]) \in 2..most
<1>5. Short(1, limit)
  <2>1. 1 \in 1..k
    BY <1>4
  <2>2. f[1] = nodes[1]
    BY <1>3, <2>1
  <2> QED
    BY <1>4, <2>1, <2>2, Zenon
<1>6. ASSUME NEW i \in 1..4, NEW most \in Nat, Short(i, most)
      PROVE  Short(i + 1, most + limit)
  <2> DEFINE j == i + 1
  <2>1. SUFFICES ASSUME j <= k PROVE Len(f[j]) \in 2..(most + limit)
    OBVIOUS
  <2>2. i \in 1..k /\ j \in 1..k /\ j # 1 /\ j - 1 = i
    BY <1>4, <2>1
  <2>3. f[j] = f[i] \o nodes[j]
    BY <1>3, <2>2
  <2> HIDE DEF j
  <2>4. Len(f[i] \o nodes[j]) = Len(f[i]) + Len(nodes[j])
    BY <1>4, <2>2, Joined, ZenonT(60)
  <2>5. Len(nodes[j]) \in 2..limit /\ Len(f[i]) \in 2..most
    BY <1>4, <1>6, <2>2
  <2> DEFINE x == Len(f[i])
             y == Len(nodes[j])
             z == Len(f[j])
  <2>6. z = x + y /\ x \in 2..most /\ y \in 2..limit
    BY <2>3, <2>4, <2>5, Zenon
  <2> HIDE DEF x, y, z
  <2>7. z \in 2..(most + limit)
    BY <2>6
  <2> QED
    BY <2>7, Zenon DEF z
<1>7. Len(f[k]) \in 2..(5 * limit)
  <2> HIDE DEF Short
  <2>1. Short(2, limit + limit)
    BY <1>5, <1>6
  <2>2. Short(3, limit + limit + limit)
    BY <1>6, <2>1
  <2>3. Short(4, limit + limit + limit + limit)
    BY <1>6, <2>2
  <2>4. Short(5, limit + limit + limit + limit + limit)
    BY <1>6, <2>3
  <2>5. k = 1 \/ k = 2 \/ k = 3 \/ k = 4 \/ k = 5
    BY <1>4
  <2> DEFINE z == Len(f[k])
  <2>6. \/ z \in 2..limit \/ z \in 2..(limit + limit) \/ z \in 2..(limit + limit + limit)
        \/ z \in 2..(limit + limit + limit + limit)
        \/ z \in 2..(limit + limit + limit + limit + limit)
    BY <1>5, <2>1, <2>2, <2>3, <2>4, <2>5 DEF Short
  <2> HIDE DEF z
  <2>7. z \in 2..(5 * limit)
    BY <2>6
  <2> QED
    BY <2>7 DEF z
<1> QED
  BY <1>2, <1>4, <1>7

\* A message that is packed, whole, is read as the nodes it was packed from.
LEMMA PackedIs ==
    ASSUME NEW m \in Messages, \A i \in 1..5 : MayCode(m, i)
    PROVE  LET whole == WriteSequence(AllCoded(m))
           IN  /\ AllCoded(m) \in Seq(Items) /\ Len(AllCoded(m)) = 5
               /\ IsSequence(whole) /\ ReadSequence(whole) = AllCoded(m)
               /\ ~IsSequence(Front(whole))
               /\ whole \in Seq(Bytes) /\ Front(whole) \in Seq(Bytes)
<1> DEFINE nodes == AllCoded(m)
           whole == WriteSequence(nodes)
           body == FlattenSeq(nodes)
<1>1. nodes \in Seq(Items) /\ Len(nodes) = 5 /\ \A i \in 1..5 : nodes[i] = Coded(m, i)
  <2>1. nodes = [i \in 1..5 |-> Coded(m, i)]
    BY DEF AllCoded
  <2>2. \A i \in 1..5 : Coded(m, i) \in Items
    BY CodedIs
  <2>3. nodes \in [1..5 -> Items] /\ \A i \in 1..5 : nodes[i] = Coded(m, i)
    BY <2>1, <2>2
  <2> HIDE DEF nodes
  <2> QED
    BY <2>3, FunctionIsSeq
<1>2. \A i \in 1..Len(nodes) : Len(nodes[i]) \in 2..200
  <2>1. \A i \in 1..5 : Len(Coded(m, i)) \in 2..200
    BY CodedIs
  <2> HIDE DEF nodes
  <2>2. \A i \in 1..5 : Len(nodes[i]) \in 2..200
    BY <1>1, <2>1, ZenonT(60)
  <2> QED
    BY <1>1, <2>2
<1> HIDE DEF nodes
<1>3. body \in Bodies /\ body # <<>>
  <2>1. Len(nodes) \in 1..5 /\ 200 \in Nat
    BY <1>1
  <2>2. body \in Seq(Bytes) /\ Len(body) \in 2..(5 * 200)
    BY <1>1, <1>2, <2>1, FewItems, ZenonT(60)
  <2> HIDE DEF body
  <2>3. Len(<<>>) = 0 /\ \A n \in 2..(5 * 200) : n \in Small /\ n # 0
    BY SMT DEF Small
  <2>4. Len(body) \in Small /\ body # <<>>
    BY <2>2, <2>3, Zenon
  <2> QED
    BY <2>2, <2>4 DEF Bodies
<1>4. whole = Tlv(SequenceTag, body) /\ SequenceTag \in Bytes
      /\ IsSequence(whole) /\ ReadSequence(whole) = nodes
  BY <1>1, <1>3, SequenceItem
<1>5. ~IsSequence(Front(whole))
  BY <1>3, <1>4, CutShort
<1>6. whole \in Seq(Bytes) /\ Len(whole) > 0
  <2>1. /\ Len(body) \in Nat /\ LengthOfSize(Len(body)) \in 1..5
        /\ Tlv(SequenceTag, body) \in Seq(Bytes)
        /\ Len(Tlv(SequenceTag, body)) = 1 + LengthOfSize(Len(body)) + Len(body)
    BY <1>3, <1>4, ItemType
  <2> DEFINE n == Len(body)
             k == LengthOfSize(n)
  <2> HIDE DEF n, k
  <2>2. n \in Nat /\ k \in 1..5 /\ Len(whole) = 1 + k + n
    BY <1>4, <2>1, Zenon DEF n, k
  <2>3. Len(whole) > 0
    BY <2>2
  <2> QED
    BY <1>4, <2>1, <2>3
<1>7. Front(whole) \in Seq(Bytes)
  <2> HIDE DEF whole
  <2> QED
    BY <1>6 DEF Front
<1> QED
  BY <1>1, <1>4, <1>5, <1>6, <1>7 DEF nodes

-----------------------------------------------------------------------------
(* The heap.                                                                  *)

\* A set of numbers has an i-th one.
LEMMA NthExists ==
    ASSUME NEW S \in SUBSET Nat, IsFiniteSet(S), NEW i \in 1..Cardinality(S)
    PROVE  \E a \in S : Cardinality({b \in S : b < a}) = i - 1
<1> DEFINE below(a) == {b \in S : b < a}
           Nth(k) == k + 1 <= Cardinality(S) => \E a \in S : Cardinality(below(a)) = k
           T == {k \in Nat : Nth(k)}
<1>1. Cardinality(S) \in Nat
  BY FS_CardinalityType
<1>2. Nth(0)
  <2>1. SUFFICES ASSUME 1 <= Cardinality(S)
                 PROVE  \E a \in S : Cardinality(below(a)) = 0
    OBVIOUS
  <2>2. S # {}
    BY <2>1, FS_EmptySet
  <2>3. PICK a \in S : \A b \in S : a <= b
    BY <2>2, LeastNumber
  <2>4. below(a) = {}
    <3>1. \A b \in S : a \in Nat /\ b \in Nat /\ ~(b < a)
      BY <2>3
    <3> QED
      BY <3>1
  <2> QED
    BY <2>4, FS_EmptySet
<1>3. ASSUME NEW k \in Nat, Nth(k)
      PROVE  Nth(k + 1)
  <2>1. SUFFICES ASSUME k + 1 + 1 <= Cardinality(S)
                 PROVE  \E a \in S : Cardinality(below(a)) = k + 1
    OBVIOUS
  <2>2. PICK a \in S : Cardinality(below(a)) = k
    <3>1. k + 1 <= Cardinality(S)
      BY <1>1, <2>1
    <3> QED
      BY <1>3, <3>1
  <2> DEFINE upTo == below(a) \cup {a}
             U == S \ upTo
  <2>3. IsFiniteSet(below(a)) /\ below(a) \subseteq S /\ a \notin below(a)
    BY FS_Subset
  <2>4. IsFiniteSet(upTo) /\ Cardinality(upTo) = k + 1 /\ upTo \subseteq S
    BY <2>2, <2>3, FS_AddElement
  <2>5. U # {}
    <3>1. U = {} => S = upTo
      BY <2>4
    <3> HIDE DEF upTo
    <3> QED
      BY <1>1, <2>1, <2>4, <3>1
  <2>6. U \in SUBSET Nat
    OBVIOUS
  <2>7. PICK c \in U : \A b \in U : c <= b
    <3> HIDE DEF U
    <3> QED
      BY <2>5, <2>6, LeastNumber
  <2>8. c \in S /\ c \in Nat /\ a < c
    BY <2>7
  <2>9. below(c) = upTo
    <3>1. ASSUME NEW b \in S
          PROVE  b < c <=> b < a \/ b = a
      <4>1. a \in Nat /\ b \in Nat
        OBVIOUS
      <4>2. CASE b < a \/ b = a
        BY <2>8, <4>1, <4>2
      <4>3. CASE ~(b < a \/ b = a)
        <5>1. b \in U
          BY <4>3
        <5>2. c <= b
          BY <2>7, <5>1
        <5> QED
          BY <2>8, <4>1, <4>3, <5>2
      <4> QED
        BY <4>2, <4>3
    <3> QED
      BY <3>1
  <2> QED
    BY <2>4, <2>8, <2>9
<1> HIDE DEF Nth
<1>4. 0 \in T /\ \A k \in Nat : k \in T => k + 1 \in T
  BY <1>2, <1>3
<1> HIDE DEF T
<1>5. Nat \subseteq T
  BY <1>4, Induction
<1>6. i - 1 \in Nat /\ i - 1 + 1 <= Cardinality(S)
  BY <1>1
<1>7. Nth(i - 1)
  BY <1>5, <1>6 DEF T
<1> QED
  BY <1>6, <1>7 DEF Nth

LEMMA Room ==
    ASSUME live \in SUBSET Addresses
    PROVE  /\ IsFiniteSet(live) /\ Cardinality(live) \in Nat
           /\ IsFiniteSet(Addresses \ live) /\ Addresses \ live \in SUBSET Nat
           /\ Cardinality(Addresses \ live) = MaxHeap - Cardinality(live)
<1>1. MaxHeap \in Nat
  BY MsgCodecAssumption
<1>2. IsFiniteSet(Addresses) /\ Cardinality(Addresses) = MaxHeap
  BY <1>1, FS_Interval DEF Addresses
<1>3. IsFiniteSet(live)
  BY <1>2, FS_Subset
<1>4. live = Addresses \cap live
  OBVIOUS
<1>5. /\ IsFiniteSet(Addresses \ live)
      /\ Cardinality(Addresses \ live) = Cardinality(Addresses) - Cardinality(Addresses \cap live)
  BY <1>2, FS_Difference
<1>6. Addresses \ live \in SUBSET Nat
  BY <1>1 DEF Addresses
<1> QED
  BY <1>2, <1>3, <1>4, <1>5, <1>6, FS_CardinalityType

\* malloc hands out free nodes, and different ones.
LEMMA MallocIs ==
    ASSUME live \in SUBSET Addresses, NEW k \in 1..6, Cardinality(live) + k <= MaxHeap
    PROVE  /\ \A i \in 1..k : Malloc(i) \in Addresses \ live
           /\ \A i, j \in 1..k : Malloc(i) = Malloc(j) => i = j
<1> DEFINE S == Addresses \ live
           Nth(i, a) == Cardinality({b \in S : b < a}) = i - 1
<1>1. IsFiniteSet(S) /\ S \in SUBSET Nat /\ MaxHeap \in Nat /\ Cardinality(live) \in Nat
      /\ Cardinality(S) = MaxHeap - Cardinality(live)
  BY Room, MsgCodecAssumption
<1>2. ASSUME NEW i \in 1..k
      PROVE  Malloc(i) \in S /\ Nth(i, Malloc(i))
  <2>1. i \in 1..Cardinality(S)
    BY <1>1
  <2>2. \E a \in S : Nth(i, a)
    <3> HIDE DEF S
    <3> QED
      BY <1>1, <2>1, NthExists
  <2>3. Malloc(i) = CHOOSE a \in S : Nth(i, a)
    BY Zenon DEF Malloc
  <2> HIDE DEF Nth, S
  <2> QED
    BY <2>2, <2>3
<1>3. ASSUME NEW i \in 1..k, NEW j \in 1..k, Malloc(i) = Malloc(j)
      PROVE  i = j
  <2>1. i - 1 = j - 1
    BY <1>2, <1>3
  <2> QED
    BY <2>1
<1> QED
  BY <1>2, <1>3

\* The list that starts at the head of a chain is the chain.
LEMMA ListIs ==
    ASSUME NEW c, IsChain(c), Len(c) \in 1..MaxHeap
    PROVE  List(c[1]) = c
<1> DEFINE n == Len(c)
           Next1(f, i) == IF i = 1 THEN c[1]
                          ELSE IF f[i - 1] = Null THEN Null ELSE heap[f[i - 1]].next
           Is(f) == f = [i \in 1..(MaxHeap + 1) |-> Next1(f, i)]
           node == CHOOSE f : Is(f)
           w == [i \in 1..(MaxHeap + 1) |-> IF i <= n THEN c[i] ELSE Null]
           Stops(k) == /\ k = MaxHeap \/ node[k + 1] = Null
                       /\ \A i \in 1..k : node[i] # Null
           count == CHOOSE k \in 0..MaxHeap : Stops(k)
<1>0. /\ MaxHeap \in Nat /\ n \in 1..MaxHeap /\ n \in Nat
      /\ c \in Seq(Addresses)
      /\ \A i \in 1..n : c[i] \in Addresses /\ c[i] # Null
      /\ \A i \in 1..n : heap[c[i]].next = IF i = n THEN Null ELSE c[i + 1]
  <2>1. c \in Seq(Addresses)
    BY DEF IsChain
  <2>2. \A i \in 1..n : c[i] \in Addresses
    BY <2>1
  <2>3. \A a \in Addresses : a # Null
    BY MsgCodecAssumption DEF Addresses, Null
  <2> QED
    BY <2>1, <2>2, <2>3, MsgCodecAssumption DEF IsChain
<1> HIDE DEF n
<1>1. \A i \in 1..(MaxHeap + 1) : w[i] = Next1(w, i)
  <2>1. SUFFICES ASSUME NEW i \in 1..(MaxHeap + 1)
                 PROVE  w[i] = Next1(w, i)
    OBVIOUS
  <2>2. CASE i = 1
    BY <1>0, <2>2
  <2>3. CASE i # 1 /\ i - 1 <= n
    <3>1. w[i - 1] = c[i - 1] /\ i - 1 \in 1..n
      BY <1>0, <2>3
    <3>2. Next1(w, i) = heap[c[i - 1]].next
      BY <1>0, <2>3, <3>1
    <3>3. heap[c[i - 1]].next = IF i - 1 = n THEN Null ELSE c[i]
      <4>1. i - 1 + 1 = i
        OBVIOUS
      <4> QED
        BY <1>0, <3>1, <4>1
    <3>4. w[i] = IF i <= n THEN c[i] ELSE Null
      OBVIOUS
    <3>5. i <= n <=> i - 1 # n
      BY <1>0, <2>3
    <3> QED
      BY <3>2, <3>3, <3>4, <3>5
  <2>4. CASE i # 1 /\ ~(i - 1 <= n)
    BY <1>0, <2>4
  <2> QED
    BY <2>2, <2>3, <2>4
<1> HIDE DEF w
<1>2. Is(w)
  BY <1>1 DEF w
<1>3. Is(node)
  BY <1>2
<1>4. \A i \in 1..(MaxHeap + 1) : node[i] = Next1(node, i)
  BY <1>3
<1> HIDE DEF node
<1>5. \A i \in 1..(MaxHeap + 1) : node[i] = w[i]
  <2> DEFINE T == {k \in Nat : k + 1 <= MaxHeap + 1 => node[k + 1] = w[k + 1]}
  <2>1. 0 \in T
    <3>1. 1 \in 1..(MaxHeap + 1)
      BY <1>0
    <3> QED
      BY <1>1, <1>4, <3>1
  <2>2. ASSUME NEW k \in Nat, k \in T
        PROVE  k + 1 \in T
    <3>1. SUFFICES ASSUME k + 1 + 1 <= MaxHeap + 1
                   PROVE  node[k + 1 + 1] = w[k + 1 + 1]
      OBVIOUS
    <3> DEFINE i == k + 1 + 1
    <3>2. i \in 1..(MaxHeap + 1) /\ i # 1 /\ i - 1 = k + 1
      BY <1>0, <3>1
    <3>3. node[k + 1] = w[k + 1]
      BY <1>0, <2>2, <3>1
    <3> HIDE DEF i
    <3>4. node[i] = Next1(node, i) /\ w[i] = Next1(w, i)
      BY <1>1, <1>4, <3>2
    <3> QED
      BY <3>2, <3>3, <3>4 DEF i
  <2> HIDE DEF T
  <2>3. Nat \subseteq T
    BY <2>1, <2>2, Induction
  <2>4. ASSUME NEW i \in 1..(MaxHeap + 1)
        PROVE  node[i] = w[i]
    <3>1. i - 1 \in T /\ i - 1 \in Nat /\ i - 1 + 1 = i
      BY <1>0, <2>3
    <3> QED
      BY <3>1 DEF T
  <2> QED
    BY <2>4
<1>6. Stops(n) /\ n \in 0..MaxHeap
  <2>1. \A i \in 1..n : node[i] # Null
    BY <1>0, <1>5 DEF w
  <2>2. n = MaxHeap \/ node[n + 1] = Null
    BY <1>0, <1>5 DEF w
  <2> QED
    BY <1>0, <2>1, <2>2
<1>7. count \in 0..MaxHeap /\ Stops(count)
  <2> HIDE DEF Stops
  <2> QED
    BY <1>6
<1>8. List(c[1]) = [i \in 1..count |-> node[i]]
  BY Zenon DEF List, node
<1> HIDE DEF count
<1>9. count = n
  <2>1. ~(count < n)
    <3>1. SUFFICES ASSUME count < n PROVE FALSE
      OBVIOUS
    <3>2. count # MaxHeap /\ count + 1 \in 1..n
      BY <1>0, <1>7, <3>1
    <3> QED
      BY <1>6, <1>7, <3>2
  <2>2. ~(n < count)
    <3>1. SUFFICES ASSUME n < count PROVE FALSE
      OBVIOUS
    <3>2. n # MaxHeap /\ n + 1 \in 1..count
      BY <1>0, <1>7, <3>1
    <3> QED
      BY <1>6, <1>7, <3>2
  <2> QED
    BY <1>0, <1>7, <2>1, <2>2
<1>10. \A i \in 1..n : node[i] = c[i]
  BY <1>0, <1>5 DEF w
<1>11. c = [i \in 1..n |-> c[i]]
  BY <1>0 DEF n
<1> QED
  BY <1>8, <1>9, <1>10, <1>11

-----------------------------------------------------------------------------
(* The steps that leave the heap alone.                                       *)

LEMMA ZeroedIs ==
    ASSUME NEW m \in Messages
    PROVE  /\ Zeroed(m.kind) \in Memory(m.kind)
           /\ \A o \in DOMAIN Zeroed(m.kind) : Zeroed(m.kind)[o] = 0
  BY DEF Zeroed, Memory

LEMMA InitIInv == Init => IInv
<1>1. SUFFICES ASSUME Init PROVE IInv
  OBVIOUS
<1>2. TypeOK
  <2>1. field \in 1..6 /\ pMsg \in Memory(msg.kind)
    BY <1>1, ZeroedIs DEF Init
  <2> QED
    BY <1>1, <2>1 DEF Init, TypeOK, Null
<1>3. HeapInv
  <2>1. heap = [a \in Addresses |-> [data |-> <<>>, next |-> Null]] /\ out = <<>> /\ data = <<>>
    BY <1>1 DEF Init
  <2>2. <<>> \in Seq(Bytes)
    OBVIOUS
  <2> QED
    BY <2>1, <2>2 DEF HeapInv
<1>4. StageInv /\ ListInv /\ OutInv /\ ReadInv
  BY <1>1 DEF Init, StageInv, ListInv, OutInv, ReadInv
<1>5. RoomInv
  BY <1>1, FS_EmptySet, MsgCodecAssumption DEF Init, RoomInv
<1> QED
  BY <1>2, <1>3, <1>4, <1>5 DEF IInv

LEMMA StutterStep == IInv /\ UNCHANGED vars => IInv'
<1>1. SUFFICES ASSUME IInv, UNCHANGED vars PROVE IInv'
  OBVIOUS
<1>2. TypeOK' /\ HeapInv' /\ StageInv' /\ OutInv' /\ RoomInv'
  BY <1>1 DEF IInv, vars, objVars, callVars, TypeOK, HeapInv, StageInv, OutInv, RoomInv
<1>3. ListInv'
  BY <1>1 DEF IInv, vars, objVars, callVars, ListInv, Holds, IsChain
<1>4. ReadInv'
  BY <1>1 DEF IInv, vars, objVars, callVars, ReadInv, Filled, Covered
<1> QED
  BY <1>2, <1>3, <1>4 DEF IInv

LEMMA NewStep == IInv /\ New => IInv'
<1>1. SUFFICES ASSUME IInv, New PROVE IInv'
  OBVIOUS
<1>2. TypeOK'
  <2>1. pMsg' \in Memory(msg'.kind) /\ msg' \in Messages
    BY <1>1, ZeroedIs DEF New
  <2> QED
    BY <1>1, <2>1 DEF IInv, New, TypeOK
<1>3. HeapInv' /\ StageInv' /\ RoomInv'
  BY <1>1 DEF IInv, New, HeapInv, StageInv, RoomInv
<1>4. OutInv'
  BY <1>1 DEF IInv, New, OutInv
<1>5. ListInv'
  BY <1>1 DEF IInv, New, ListInv
<1>6. ReadInv'
  BY <1>1 DEF IInv, New, ReadInv
<1> QED
  BY <1>2, <1>3, <1>4, <1>5, <1>6 DEF IInv

LEMMA EncodeCallStep == IInv /\ EncodeCall => IInv'
<1>1. SUFFICES ASSUME IInv, EncodeCall PROVE IInv'
  OBVIOUS
<1>2. TypeOK' /\ HeapInv'
  BY <1>1 DEF IInv, EncodeCall, objVars, TypeOK, HeapInv
<1>3. StageInv'
  BY <1>1 DEF IInv, EncodeCall, StageInv
<1>4. OutInv'
  BY <1>1 DEF IInv, EncodeCall, objVars, OutInv
<1>5. ListInv'
  <2>1. pc = "idle" /\ pc' = "encode" /\ field' = 1 /\ live' = live /\ failures' = failures
    BY <1>1 DEF EncodeCall, objVars
  <2>2. Holds(<<>>, msg, field - 1)'
    <3>1. Len(<<>>) = 0 /\ <<>> \in Seq(Addresses) /\ field' - 1 = 0 /\ 1..0 = {}
      BY <2>1
    <3>2. failures' = 0 => live' = {}
      BY <1>1, <2>1 DEF IInv, ListInv
    <3>3. IsChain(<<>>)'
      BY <3>1 DEF IsChain
    <3> QED
      BY <3>1, <3>2, <3>3 DEF Holds
  <2>3. <<>> \in Seq(Addresses) /\ ~(field' > 1)
    BY <2>1
  <2> QED
    BY <2>1, <2>2, <2>3 DEF ListInv
<1>6. ReadInv'
  BY <1>1 DEF IInv, EncodeCall, ReadInv
<1>7. RoomInv'
  <2>1. calls \in Nat /\ MaxCalls \in Nat /\ Cardinality(live) \in Nat
    BY <1>1, Room, MsgCodecAssumption DEF IInv, RoomInv, TypeOK
  <2> QED
    BY <1>1, <2>1 DEF IInv, EncodeCall, objVars, RoomInv
<1> QED
  BY <1>2, <1>3, <1>4, <1>5, <1>6, <1>7 DEF IInv

LEMMA WriteNodeFailsStep == IInv /\ WriteNodeFails => IInv'
<1>1. SUFFICES ASSUME IInv, WriteNodeFails PROVE IInv'
  OBVIOUS
<1>2. failures' = failures + 1 /\ failures \in Nat /\ pc' = "idle" /\ ret' = -1
  BY <1>1 DEF IInv, WriteNodeFails, Returns, RoomInv
<1>3. TypeOK' /\ HeapInv'
  BY <1>1, <1>2 DEF IInv, WriteNodeFails, objVars, TypeOK, HeapInv
<1>4. StageInv'
  BY <1>1, <1>2 DEF IInv, WriteNodeFails, StageInv
<1>5. OutInv'
  BY <1>1, <1>2 DEF IInv, WriteNodeFails, objVars, OutInv
<1>6. ListInv'
  BY <1>2 DEF ListInv
<1>7. ReadInv'
  BY <1>1, <1>2 DEF IInv, WriteNodeFails, ReadInv, StageInv
<1>8. RoomInv'
  BY <1>1, <1>2 DEF IInv, WriteNodeFails, objVars, RoomInv
<1> QED
  BY <1>3, <1>4, <1>5, <1>6, <1>7, <1>8 DEF IInv

LEMMA DecodeCallStep == IInv /\ DecodeCall => IInv'
<1>1. SUFFICES ASSUME IInv, DecodeCall PROVE IInv'
  OBVIOUS
<1>2. of # NoMessage /\ of \in Messages /\ out = WriteSequence(AllCoded(of))
      /\ \A i \in 1..5 : MayCode(of, i)
  BY <1>1 DEF IInv, DecodeCall, OutInv
<1>3. out \in Seq(Bytes) /\ Front(out) \in Seq(Bytes)
  BY <1>2, PackedIs
<1>4. TypeOK'
  <2>1. pMsg' \in Memory(msg'.kind)
    BY <1>1, ZeroedIs DEF DecodeCall, IInv, TypeOK
  <2> QED
    BY <1>1, <2>1 DEF IInv, DecodeCall, objVars, TypeOK
<1>5. HeapInv'
  BY <1>1, <1>3 DEF IInv, DecodeCall, objVars, HeapInv
<1>6. StageInv'
  BY <1>1 DEF IInv, DecodeCall, StageInv
<1>7. OutInv'
  BY <1>1 DEF IInv, DecodeCall, objVars, OutInv
<1>8. ListInv'
  BY <1>1 DEF IInv, DecodeCall, objVars, ListInv
<1>9. ReadInv'
  BY <1>1 DEF IInv, DecodeCall, objVars, ReadInv
<1>10. RoomInv'
  <2>1. calls \in Nat /\ MaxCalls \in Nat /\ Cardinality(live) \in Nat
    BY <1>1, Room, MsgCodecAssumption DEF IInv, RoomInv, TypeOK
  <2> QED
    BY <1>1, <2>1 DEF IInv, DecodeCall, objVars, RoomInv
<1> QED
  BY <1>4, <1>5, <1>6, <1>7, <1>8, <1>9, <1>10 DEF IInv

-----------------------------------------------------------------------------
(* The other steps of msgEncode.                                              *)

\* The list that is held is the list of m_header.
LEMMA HeldIs ==
    ASSUME RoomInv, NEW c, NEW m, Holds(c, m, 5), pc # "idle"
    PROVE  List(mHeader) = c /\ Len(c) = 5 /\ ToSet(c) = {c[i] : i \in 1..5}
<1>1. IsChain(c) /\ Len(c) = 5 /\ mHeader = c[1]
  BY DEF Holds
<1>2. 5 \in 1..MaxHeap
  BY MsgCodecAssumption DEF RoomInv
<1>3. List(mHeader) = c
  BY <1>1, <1>2, ListIs
<1>4. ToSet(c) = {c[i] : i \in 1..5}
  <2>1. DOMAIN c = 1..5
    BY <1>1 DEF IsChain
  <2> QED
    BY <2>1 DEF ToSet
<1> QED
  BY <1>1, <1>3, <1>4

\* What is packed is the message: the five nodes of the list.
LEMMA PackStep == IInv /\ Pack => IInv'
<1>1. SUFFICES ASSUME IInv, Pack PROVE IInv'
  OBVIOUS
<1>2. /\ pc = "pack" /\ field = 6 /\ pc' = "free" /\ field' = 1 /\ op = "encode"
      /\ \A i \in 1..5 : MayCode(msg, i)
  <2>1. pc = "pack" /\ field = 6 /\ \A i \in 1..(field - 1) : MayCode(msg, i)
    BY <1>1 DEF IInv, Pack, StageInv
  <2>2. field - 1 = 5
    BY <2>1
  <2> QED
    BY <1>1, <2>1, <2>2 DEF IInv, Pack, StageInv
<1>3. /\ msg' = msg /\ heap' = heap /\ live' = live /\ mHeader' = mHeader /\ mNext' = mNext
      /\ mTemp' = mTemp /\ data' = data /\ pMsg' = pMsg /\ op' = op /\ ret' = ret
      /\ failures' = failures /\ calls' = calls /\ of' = msg
  BY <1>1 DEF Pack, objVars
<1>4. msg \in Messages /\ msg # NoMessage
  BY <1>1, MessageIs DEF IInv, TypeOK
<1>5. PICK c \in Seq(Addresses) : Holds(c, msg, 5)
  <2>1. \E c \in Seq(Addresses) : Holds(c, msg, field - 1)
    BY <1>1, <1>2 DEF IInv, ListInv
  <2>2. field - 1 = 5
    BY <1>2
  <2> QED
    BY <2>1, <2>2
<1>6. List(mHeader) = c /\ Len(c) = 5
  BY <1>1, <1>2, <1>5, HeldIs DEF IInv
<1>7. out' = WriteSequence(AllCoded(msg))
  <2>1. out' = WriteSequence([i \in 1..Len(c) |-> heap[c[i]].data])
    BY <1>1, <1>6 DEF Pack
  <2>2. \A i \in 1..5 : heap[c[i]].data = Coded(msg, i)
    BY <1>5 DEF Holds
  <2>3. [i \in 1..Len(c) |-> heap[c[i]].data] = AllCoded(msg)
    BY <1>6, <2>2 DEF AllCoded
  <2> QED
    BY <2>1, <2>3
<1>8. TypeOK'
  BY <1>1, <1>2, <1>3, <1>4 DEF IInv, TypeOK
<1>9. HeapInv'
  <2>1. out' \in Seq(Bytes)
    BY <1>2, <1>4, <1>7, PackedIs
  <2> QED
    BY <1>1, <1>3, <2>1 DEF IInv, HeapInv
<1>10. StageInv'
  BY <1>2, <1>3, <1>4 DEF StageInv
<1>11. OutInv'
  BY <1>2, <1>3, <1>4, <1>7 DEF OutInv
<1>12. ListInv'
  <2>1. Holds(c, of, 5)'
    BY <1>3, <1>5 DEF Holds, IsChain
  <2> QED
    BY <1>2, <2>1 DEF ListInv
<1>13. ReadInv'
  BY <1>2, <1>3 DEF ReadInv
<1>14. RoomInv'
  BY <1>1, <1>2, <1>3 DEF IInv, RoomInv
<1> QED
  BY <1>8, <1>9, <1>10, <1>11, <1>12, <1>13, <1>14 DEF IInv

LEMMA UnpackFailsStep == IInv /\ UnpackFails => IInv'
<1>1. SUFFICES ASSUME IInv, UnpackFails PROVE IInv'
  OBVIOUS
<1>2. /\ pc = "unpack" /\ field = 1 /\ pc' = "idle" /\ op = "decode" /\ op' = op /\ ret' = -1
      /\ failures' = failures + 1 /\ failures \in Nat
  BY <1>1 DEF IInv, UnpackFails, StageInv, Returns, RoomInv
<1>3. /\ msg' = msg /\ heap' = heap /\ mHeader' = mHeader /\ mNext' = mNext /\ field' = field
      /\ data' = data /\ pMsg' = pMsg /\ out' = out /\ of' = of /\ calls' = calls
      /\ mTemp' = Malloc(1) /\ live' = live \cup {Malloc(1)} /\ ~IsSequence(data)
  BY <1>1 DEF UnpackFails
<1>4. /\ of # NoMessage /\ of.kind = msg.kind /\ data \in {out, Front(out)} /\ of \in Messages
      /\ out = WriteSequence(AllCoded(of)) /\ \A i \in 1..5 : MayCode(of, i)
  BY <1>1, <1>2 DEF IInv, ReadInv, OutInv
<1>5. data # out
  BY <1>3, <1>4, PackedIs
<1>6. /\ calls \in 1..MaxCalls /\ Cardinality(live) <= 5 * (calls - 1)
      /\ Cardinality(live) \in Nat /\ IsFiniteSet(live) /\ live \in SUBSET Addresses
      /\ MaxCalls \in Nat /\ MaxHeap \in Nat /\ MaxHeap > 5 * MaxCalls
  BY <1>1, <1>2, Room, MsgCodecAssumption DEF IInv, RoomInv, TypeOK
<1>7. Malloc(1) \in Addresses \ live
  <2>1. Cardinality(live) + 1 <= MaxHeap
    BY <1>6
  <2> QED
    BY <1>6, <2>1, MallocIs
<1>8. TypeOK'
  <2>1. \A a \in live' : heap'[a].next \in Addresses \cup {Null}
    BY <1>1, <1>3, <1>6, <1>7 DEF IInv, HeapInv
  <2> QED
    BY <1>1, <1>2, <1>3, <1>7, <2>1 DEF IInv, TypeOK
<1>9. HeapInv'
  BY <1>1, <1>3 DEF IInv, HeapInv
<1>10. StageInv'
  BY <1>2 DEF StageInv
<1>11. OutInv'
  BY <1>3, <1>4 DEF OutInv
<1>12. ListInv'
  BY <1>2 DEF ListInv
<1>13. ReadInv'
  BY <1>2, <1>3, <1>4, <1>5 DEF ReadInv
<1>14. RoomInv'
  <2>1. Cardinality(live') = Cardinality(live) + 1
    BY <1>3, <1>6, <1>7, FS_AddElement
  <2> QED
    BY <1>2, <1>3, <1>6, <2>1 DEF RoomInv
<1> QED
  BY <1>8, <1>9, <1>10, <1>11, <1>12, <1>13, <1>14 DEF IInv

LEMMA FreeStep == IInv /\ Free => IInv'
<1>1. SUFFICES ASSUME IInv, Free PROVE IInv'
  OBVIOUS
<1>2. /\ pc = "free" /\ field = 1 /\ pc' = "idle" /\ op \in {"encode", "decode"}
      /\ of # NoMessage /\ ret' = 0 /\ failures' = failures
  BY <1>1 DEF IInv, Free, StageInv, Returns
<1>3. /\ msg' = msg /\ field' = field /\ heap' = heap /\ mHeader' = mHeader /\ mNext' = mNext
      /\ mTemp' = mTemp /\ data' = data /\ pMsg' = pMsg /\ out' = out /\ of' = of
      /\ calls' = calls /\ op' = op /\ live' = live \ ToSet(List(mHeader))
  BY <1>1 DEF Free
<1>4. PICK c \in Seq(Addresses) : Holds(c, of, 5)
  BY <1>1, <1>2 DEF IInv, ListInv
<1>5. live' = live \ {c[i] : i \in 1..5}
  BY <1>1, <1>2, <1>3, <1>4, HeldIs DEF IInv
<1>6. /\ Cardinality(live) <= 5 * calls /\ Cardinality(live) \in Nat /\ IsFiniteSet(live)
      /\ calls \in Nat
  BY <1>1, Room, MsgCodecAssumption DEF IInv, RoomInv, TypeOK
<1>7. TypeOK'
  BY <1>1, <1>2, <1>3 DEF IInv, TypeOK
<1>8. HeapInv'
  BY <1>1, <1>3 DEF IInv, HeapInv
<1>9. StageInv'
  BY <1>2 DEF StageInv
<1>10. OutInv'
  BY <1>1, <1>3 DEF IInv, OutInv
<1>11. ListInv'
  BY <1>2, <1>4, <1>5 DEF ListInv, Holds
<1>12. ReadInv'
  <2>1. ASSUME op = "decode"
        PROVE  Filled(5)'
    BY <1>1, <1>2, <1>3, <2>1 DEF IInv, ReadInv, Filled, Covered
  <2> QED
    BY <1>1, <1>2, <1>3, <2>1 DEF IInv, ReadInv
<1>13. RoomInv'
  <2>1. Cardinality(live') <= Cardinality(live) /\ Cardinality(live') \in Nat
    <3>1. live' \subseteq live
      BY <1>5
    <3> QED
      BY <1>6, <3>1, FS_Subset, FS_CardinalityType
  <2>2. Cardinality(live') <= 5 * calls
    BY <1>6, <2>1
  <2> QED
    BY <1>1, <1>2, <1>3, <2>2 DEF IInv, RoomInv
<1> QED
  BY <1>7, <1>8, <1>9, <1>10, <1>11, <1>12, <1>13 DEF IInv

\* The members c are joined by the node a.
LEMMA ChainGrows ==
    ASSUME NEW c \in Seq(Addresses), IsChain(c), NEW a \in Addresses, NEW d,
           \A i \in 1..Len(c) : c[i] # a,
           heap \in [Addresses -> [data : Seq(Bytes), next : Addresses \cup {Null}]],
           heap' = [(IF Len(c) = 0 THEN heap ELSE [heap EXCEPT ![c[Len(c)]].next = a])
                    EXCEPT ![a] = [data |-> d, next |-> Null]]
    PROVE  /\ Append(c, a) \in Seq(Addresses) /\ Len(Append(c, a)) = Len(c) + 1
           /\ IsChain(Append(c, a))'
           /\ \A i \in 1..Len(c) : heap'[c[i]].data = heap[c[i]].data
           /\ heap'[a].data = d
<1> DEFINE n == Len(c)
           cc == Append(c, a)
           linked == IF n = 0 THEN heap ELSE [heap EXCEPT ![c[n]].next = a]
<1>1. /\ n \in Nat /\ cc \in Seq(Addresses) /\ Len(cc) = n + 1
      /\ \A i \in 1..n : cc[i] = c[i] /\ c[i] \in Addresses
      /\ cc[n + 1] = a
  OBVIOUS
<1>2. /\ \A i, j \in 1..n : c[i] = c[j] => i = j
      /\ \A i \in 1..n : heap[c[i]].next = IF i = n THEN Null ELSE c[i + 1]
  BY DEF IsChain
<1>3. DOMAIN heap = Addresses /\ DOMAIN linked = Addresses
  OBVIOUS
<1>4. \A i \in 1..n : /\ linked[c[i]].data = heap[c[i]].data
                      /\ linked[c[i]].next = IF i = n THEN a ELSE heap[c[i]].next
  <2>1. CASE n = 0
    BY <2>1
  <2>2. CASE n # 0
    <3>1. \A i \in 1..n : i # n => c[i] # c[n]
      <4>1. n \in 1..n
        BY <1>1, <2>2
      <4> HIDE DEF n
      <4> QED
        BY <1>2, <4>1
    <3>2. linked = [heap EXCEPT ![c[n]].next = a] /\ c[n] \in Addresses
      BY <1>1, <2>2
    <3>3. \A i \in 1..n : heap[c[i]] \in [data : Seq(Bytes), next : Addresses \cup {Null}]
      BY <1>1
    <3>4. /\ linked[c[n]].data = heap[c[n]].data /\ linked[c[n]].next = a
          /\ \A x \in Addresses : x # c[n] => linked[x] = heap[x]
      BY <1>1, <1>3, <2>2, <3>2, <3>3
    <3> HIDE DEF linked
    <3>5. SUFFICES ASSUME NEW i \in 1..n
                   PROVE  /\ linked[c[i]].data = heap[c[i]].data
                          /\ linked[c[i]].next = IF i = n THEN a ELSE heap[c[i]].next
      OBVIOUS
    <3> HIDE DEF n
    <3>6. CASE i = n
      BY <3>4, <3>6
    <3>7. CASE i # n
      BY <1>1, <3>1, <3>4, <3>7
    <3> QED
      BY <3>6, <3>7
  <2> QED
    BY <2>1, <2>2
<1>5. heap' = [linked EXCEPT ![a] = [data |-> d, next |-> Null]]
  OBVIOUS
<1> HIDE DEF linked, n, cc
<1>6. /\ \A i \in 1..n : heap'[c[i]] = linked[c[i]]
      /\ heap'[a] = [data |-> d, next |-> Null]
  BY <1>1, <1>3, <1>5 DEF n
<1>7. \A i \in 1..(n + 1) : i \in 1..n \/ i = n + 1
  BY <1>1
<1>8. \A i, j \in 1..(n + 1) : cc[i] = cc[j] => i = j
  BY <1>1, <1>2, <1>7 DEF n
<1>9. \A i \in 1..(n + 1) : heap'[cc[i]].next = IF i = n + 1 THEN Null ELSE cc[i + 1]
  <2>1. SUFFICES ASSUME NEW i \in 1..(n + 1)
                 PROVE  heap'[cc[i]].next = IF i = n + 1 THEN Null ELSE cc[i + 1]
    OBVIOUS
  <2>2. CASE i = n + 1
    BY <1>1, <1>6, <2>2
  <2>3. CASE i = n /\ i \in 1..n
    <3>1. heap'[cc[i]].next = a
      BY <1>1, <1>4, <1>6, <2>3 DEF n
    <3>2. i # n + 1 /\ cc[i + 1] = a
      BY <1>1, <2>3
    <3> QED
      BY <3>1, <3>2
  <2>4. CASE i # n /\ i \in 1..n
    <3>1. i + 1 \in 1..n /\ i # n + 1
      BY <1>1, <2>4
    <3>2. cc[i] = c[i] /\ cc[i + 1] = c[i + 1] /\ heap'[c[i]] = linked[c[i]]
      BY <1>1, <1>6, <2>4, <3>1
    <3>3. linked[c[i]].next = heap[c[i]].next /\ heap[c[i]].next = c[i + 1]
      BY <1>2, <1>4, <2>4 DEF n
    <3> QED
      BY <3>1, <3>2, <3>3
  <2> QED
    BY <1>7, <2>2, <2>3, <2>4
<1>10. IsChain(cc)'
  BY <1>1, <1>8, <1>9 DEF IsChain
<1> QED
  BY <1>1, <1>4, <1>6, <1>10 DEF n, cc

LEMMA WriteNodeStep == IInv /\ WriteNode => IInv'
<1>1. SUFFICES ASSUME IInv, WriteNode PROVE IInv'
  OBVIOUS
<1> DEFINE d == Coded(msg, field)
<1>2. /\ pc = "encode" /\ field \in 1..5 /\ op = "encode" /\ msg \in Messages
      /\ \A i \in 1..(field - 1) : MayCode(msg, i)
  BY <1>1 DEF IInv, WriteNode, StageInv, TypeOK
<1>3. Len(Layout[msg.kind]) = 5
  BY <1>2, MessageIs, LayoutIs
<1>4. MayCode(msg, field) /\ Item = d
  BY <1>1 DEF WriteNode, Encodable, Item, Member, MayCode, Coded
<1>5. d \in Seq(Bytes)
  BY <1>2, <1>4, CodedIs, ItemsAreBytes
<1>6. /\ calls \in 1..MaxCalls /\ Cardinality(live) <= 5 * (calls - 1) + field - 1
      /\ Cardinality(live) \in Nat /\ IsFiniteSet(live) /\ live \in SUBSET Addresses
      /\ MaxCalls \in Nat /\ MaxHeap \in Nat /\ MaxHeap > 5 * MaxCalls
  BY <1>1, <1>2, Room, MsgCodecAssumption DEF IInv, RoomInv, TypeOK
<1>7. PICK a \in Addresses \ live : a = Malloc(1)
  <2>1. Cardinality(live) + 1 <= MaxHeap
    BY <1>2, <1>6
  <2> QED
    BY <1>6, <2>1, MallocIs
<1>8. /\ heap' = [(IF field = 1 THEN heap ELSE [heap EXCEPT ![mNext].next = a])
                  EXCEPT ![a] = [data |-> d, next |-> Null]]
      /\ live' = live \cup {a} /\ mNext' = a
      /\ mHeader' = IF field = 1 THEN a ELSE mHeader
      /\ field' = field + 1
      /\ pc' = IF field = 5 THEN "pack" ELSE "encode"
  BY <1>1, <1>3, <1>4, <1>7, Zenon DEF WriteNode
<1> HIDE DEF d
<1>9. /\ msg' = msg /\ mTemp' = mTemp /\ out' = out /\ of' = of /\ data' = data /\ pMsg' = pMsg
      /\ op' = op /\ ret' = ret /\ failures' = failures /\ calls' = calls
  BY <1>1 DEF WriteNode, callVars
<1>10. PICK c \in Seq(Addresses) : Holds(c, msg, field - 1) /\ (field > 1 => mNext = c[field - 1])
  BY <1>1, <1>2 DEF IInv, ListInv
<1>11. /\ Len(c) = field - 1 /\ IsChain(c) /\ (field > 1 => mHeader = c[1])
       /\ \A i \in 1..(field - 1) : heap[c[i]].data = Coded(msg, i) /\ c[i] \in live
       /\ failures = 0 => live = {c[i] : i \in 1..(field - 1)}
  BY <1>2, <1>10 DEF Holds
<1>12. heap \in [Addresses -> [data : Seq(Bytes), next : Addresses \cup {Null}]]
  BY <1>1 DEF IInv, HeapInv
<1>13. PICK cc \in Seq(Addresses) :
       /\ cc = Append(c, a)
       /\ Len(cc) = Len(c) + 1 /\ IsChain(cc)'
       /\ \A i \in 1..Len(c) : heap'[c[i]].data = heap[c[i]].data
       /\ heap'[a].data = d
  <2>1. \A i \in 1..Len(c) : c[i] # a
    BY <1>7, <1>11
  <2>2. heap' = [(IF Len(c) = 0 THEN heap ELSE [heap EXCEPT ![c[Len(c)]].next = a])
                 EXCEPT ![a] = [data |-> d, next |-> Null]]
    <3>1. CASE field = 1
      BY <1>8, <1>11, <3>1
    <3>2. CASE field # 1
      <4>1. Len(c) # 0 /\ mNext = c[Len(c)]
        BY <1>2, <1>10, <1>11, <3>2
      <4> QED
        BY <1>8, <3>2, <4>1
    <3> QED
      BY <3>1, <3>2
  <2> QED
    BY <1>7, <1>11, <1>12, <2>1, <2>2, ChainGrows, Zenon
<1>14. /\ \A i \in 1..(field - 1) : cc[i] = c[i]
       /\ cc[field] = a /\ Len(cc) = field /\ field - 1 \in Nat
       /\ \A i \in 1..field : i \in 1..(field - 1) \/ i = field
       /\ \A i \in 1..(field - 1) : i \in 1..field
       /\ field \in 1..field
  BY <1>2, <1>11, <1>13
<1>15. Holds(cc, msg, field - 1)'
  <2>1. \A i \in 1..field : heap'[cc[i]].data = Coded(msg, i)
    BY <1>11, <1>13, <1>14, Zenon DEF d
  <2>2. {cc[i] : i \in 1..field} = {c[i] : i \in 1..(field - 1)} \cup {a}
    BY <1>14, Zenon
  <2>3. {c[i] : i \in 1..(field - 1)} \subseteq live
    BY <1>11
  <2>4. mHeader' = cc[1]
    <3>1. field # 1 => 1 \in 1..(field - 1) /\ field > 1
      BY <1>2
    <3> QED
      BY <1>8, <1>11, <1>14, <3>1, Zenon
  <2>5. failures' = 0 => live' = {cc[i] : i \in 1..field}
    BY <1>8, <1>9, <1>11, <2>2
  <2>6. {cc[i] : i \in 1..field} \subseteq live'
    BY <1>8, <2>2, <2>3
  <2>7. field' - 1 = field
    BY <1>2, <1>8
  <2>8. IsChain(cc)' /\ Len(cc) = field
    BY <1>13, <1>14
  <2> QED
    BY <1>9, <2>1, <2>4, <2>5, <2>6, <2>7, <2>8, Zenon DEF Holds
<1>16. heap' \in [Addresses -> [data : Seq(Bytes), next : Addresses \cup {Null}]]
  <2> DEFINE T == [data : Seq(Bytes), next : Addresses \cup {Null}]
             linked == IF field = 1 THEN heap ELSE [heap EXCEPT ![mNext].next = a]
  <2>1. linked \in [Addresses -> T]
    BY <1>7, <1>12
  <2>2. [data |-> d, next |-> Null] \in T
    BY <1>5 DEF d
  <2>3. heap' = [linked EXCEPT ![a] = [data |-> d, next |-> Null]]
    BY <1>8
  <2> HIDE DEF T, linked
  <2>4. heap' \in [Addresses -> T]
    BY <2>1, <2>2, <2>3
  <2> QED
    BY <2>4 DEF T
<1>17. TypeOK'
  <2>1. \A x \in live' : heap'[x].next \in Addresses \cup {Null}
    <3>1. heap' \in [Addresses -> [data : Seq(Bytes), next : Addresses \cup {Null}]]
      BY <1>16
    <3> QED
      BY <1>6, <1>7, <1>8, <3>1
  <2>2. /\ field' \in 1..6 /\ pc' \in {"encode", "pack"} /\ live' \subseteq Addresses
        /\ mNext' \in Addresses /\ mHeader' \in Addresses \cup {Null}
    BY <1>1, <1>2, <1>6, <1>7, <1>8 DEF IInv, TypeOK
  <2> QED
    BY <1>1, <1>9, <2>1, <2>2 DEF IInv, TypeOK
<1>18. HeapInv'
  BY <1>1, <1>9, <1>16 DEF IInv, HeapInv
<1>19. StageInv'
  <2>1. field' - 1 = field /\ field' \in 2..6 /\ (field # 5 => field' \in 1..5)
        /\ (field = 5 => field' = 6)
    BY <1>2, <1>8
  <2>2. \A i \in 1..(field' - 1) : MayCode(msg', i)
    BY <1>2, <1>4, <1>9, <1>14, <2>1
  <2> QED
    BY <1>2, <1>8, <1>9, <2>1, <2>2 DEF StageInv
<1>20. ListInv'
  <2>1. field' - 1 = field
    BY <1>2, <1>8
  <2>2. pc' \in {"encode", "pack"}
    BY <1>8
  <2>3. mNext' = cc[field' - 1]
    BY <1>8, <1>14, <2>1
  <2> QED
    BY <1>15, <2>2, <2>3 DEF ListInv
<1>21. OutInv'
  BY <1>1, <1>9 DEF IInv, OutInv
<1>22. ReadInv'
  BY <1>2, <1>8, <1>9 DEF ReadInv
<1>23. RoomInv'
  <2>1. Cardinality(live') = Cardinality(live) + 1
    BY <1>6, <1>7, <1>8, FS_AddElement
  <2>2. Cardinality(live') <= 5 * calls /\ Cardinality(live') <= 5 * (calls - 1) + field' - 1
    BY <1>2, <1>6, <1>8, <2>1, SMTT(30)
  <2> QED
    BY <1>1, <1>2, <1>6, <1>8, <1>9, <2>2 DEF IInv, RoomInv
<1> QED
  BY <1>17, <1>18, <1>19, <1>20, <1>21, <1>22, <1>23 DEF IInv

-----------------------------------------------------------------------------
(* The other steps of msgDecode.                                              *)

\* Five nodes more are at most five nodes more.
LEMMA FiveMore ==
    ASSUME NEW S, IsFiniteSet(S), NEW c
    PROVE  LET more == S \cup {c[i] : i \in 1..5}
           IN  /\ IsFiniteSet(more) /\ Cardinality(more) \in Nat
               /\ Cardinality(more) <= Cardinality(S) + 5
<1>1. ASSUME NEW T, IsFiniteSet(T), NEW x
      PROVE  /\ IsFiniteSet(T \cup {x}) /\ Cardinality(T \cup {x}) \in Nat
             /\ Cardinality(T) \in Nat /\ Cardinality(T \cup {x}) <= Cardinality(T) + 1
  <2>1. IsFiniteSet(T \cup {x}) /\ Cardinality(T) \in Nat
        /\ Cardinality(T \cup {x}) = IF x \in T THEN Cardinality(T) ELSE Cardinality(T) + 1
    BY <1>1, FS_AddElement, FS_CardinalityType
  <2> QED
    BY <2>1
<1> DEFINE S1 == S \cup {c[1]}
           S2 == S1 \cup {c[2]}
           S3 == S2 \cup {c[3]}
           S4 == S3 \cup {c[4]}
           S5 == S4 \cup {c[5]}
<1>2. S \cup {c[i] : i \in 1..5} = S5
  <2>1. 1..5 = {1, 2, 3, 4, 5}
    OBVIOUS
  <2> QED
    BY <2>1, Zenon
<1>3. IsFiniteSet(S1) /\ Cardinality(S1) <= Cardinality(S) + 1 /\ Cardinality(S1) \in Nat
      /\ Cardinality(S) \in Nat
  BY <1>1
<1> HIDE DEF S1
<1>4. IsFiniteSet(S2) /\ Cardinality(S2) <= Cardinality(S1) + 1 /\ Cardinality(S2) \in Nat
  BY <1>1, <1>3
<1> HIDE DEF S2
<1>5. IsFiniteSet(S3) /\ Cardinality(S3) <= Cardinality(S2) + 1 /\ Cardinality(S3) \in Nat
  BY <1>1, <1>4
<1> HIDE DEF S3
<1>6. IsFiniteSet(S4) /\ Cardinality(S4) <= Cardinality(S3) + 1 /\ Cardinality(S4) \in Nat
  BY <1>1, <1>5
<1> HIDE DEF S4
<1>7. IsFiniteSet(S5) /\ Cardinality(S5) <= Cardinality(S4) + 1 /\ Cardinality(S5) \in Nat
  BY <1>1, <1>6
<1> HIDE DEF S5
<1>8. Cardinality(S5) <= Cardinality(S) + 5
  BY <1>3, <1>4, <1>5, <1>6, <1>7
<1> QED
  BY <1>2, <1>7, <1>8

LEMMA UnpackStep == IInv /\ Unpack => IInv'
<1>1. SUFFICES ASSUME IInv, Unpack PROVE IInv'
  OBVIOUS
<1>2. /\ pc = "unpack" /\ field = 1 /\ pc' = "decode" /\ op = "decode" /\ mTemp' = Null
  BY <1>1 DEF IInv, Unpack, StageInv
<1>3. /\ msg' = msg /\ field' = field /\ mNext' = mNext /\ data' = data /\ pMsg' = pMsg
      /\ out' = out /\ of' = of /\ calls' = calls /\ op' = op /\ ret' = ret
      /\ failures' = failures /\ IsSequence(data)
  BY <1>1 DEF Unpack, callVars
<1>4. /\ of # NoMessage /\ of.kind = msg.kind /\ data \in {out, Front(out)} /\ of \in Messages
      /\ out = WriteSequence(AllCoded(of)) /\ \A i \in 1..5 : MayCode(of, i)
      /\ pMsg = Zeroed(msg.kind)
  BY <1>1, <1>2 DEF IInv, ReadInv, OutInv
<1>5. data = out /\ ReadSequence(data) = AllCoded(of) /\ Len(AllCoded(of)) = 5
  BY <1>3, <1>4, PackedIs
<1>6. /\ calls \in 1..MaxCalls /\ Cardinality(live) <= 5 * (calls - 1)
      /\ Cardinality(live) \in Nat /\ IsFiniteSet(live) /\ live \in SUBSET Addresses
      /\ MaxCalls \in Nat /\ MaxHeap \in Nat /\ MaxHeap > 5 * MaxCalls
  BY <1>1, <1>2, Room, MsgCodecAssumption DEF IInv, RoomInv, TypeOK
<1>7. /\ \A i \in 1..6 : Malloc(i) \in Addresses \ live
      /\ \A i, j \in 1..6 : Malloc(i) = Malloc(j) => i = j
  <2>1. Cardinality(live) + 6 <= MaxHeap /\ 6 \in 1..6
    BY <1>6
  <2> QED
    BY <1>6, <2>1, MallocIs
<1>8. PICK c \in Seq(Addresses) :
          /\ Len(c) = 5 /\ \A i \in 1..5 : c[i] = Malloc(i + 1)
  <2> DEFINE c == [i \in 1..5 |-> Malloc(i + 1)]
  <2>1. /\ c \in [1..5 -> Addresses] /\ \A i \in 1..5 : c[i] = Malloc(i + 1)
        /\ 5 \in Nat
    BY <1>7
  <2> HIDE DEF c
  <2>2. c \in Seq(Addresses) /\ Len(c) = 5
    BY <2>1, FunctionIsSeq, Zenon
  <2> QED
    BY <2>1, <2>2
<1>9. /\ \A i \in 1..5 : c[i] \in Addresses \ live
      /\ \A i, j \in 1..5 : c[i] = c[j] => i = j
  <2>1. \A i \in 1..5 : i + 1 \in 1..6
    OBVIOUS
  <2>2. \A i, j \in 1..5 : i + 1 = j + 1 => i = j
    OBVIOUS
  <2> QED
    BY <1>7, <1>8, <2>1, <2>2
<1> DEFINE items == ReadSequence(data)
           addr == [i \in 1..(Len(items) + 1) |-> IF i > Len(items) THEN Null ELSE Malloc(i + 1)]
           new == {addr[i] : i \in 1..Len(items)}
           nth(a) == CHOOSE i \in 1..Len(items) : addr[i] = a
<1>10. /\ heap' = [a \in Addresses |->
                   IF a \in new THEN [data |-> items[nth(a)], next |-> addr[nth(a) + 1]]
                   ELSE heap[a]]
       /\ live' = live \cup new
       /\ mHeader' = addr[1]
  BY <1>1, Zenon DEF Unpack
<1>11. /\ Len(items) = 5 /\ \A i \in 1..5 : items[i] = Coded(of, i)
       /\ \A i \in 1..5 : addr[i] = c[i]
       /\ addr[6] = Null
  <2>1. Len(items) = 5 /\ \A i \in 1..5 : items[i] = Coded(of, i)
    BY <1>5 DEF AllCoded
  <2> HIDE DEF items
  <2> QED
    BY <1>8, <2>1
<1> HIDE DEF items, addr
<1>12. new = {c[i] : i \in 1..5}
  BY <1>11
<1>13. \A i \in 1..5 : nth(c[i]) = i
  <2>1. SUFFICES ASSUME NEW i \in 1..5 PROVE nth(c[i]) = i
    OBVIOUS
  <2>2. i \in 1..Len(items) /\ addr[i] = c[i]
    BY <1>11
  <2>3. nth(c[i]) \in 1..Len(items) /\ addr[nth(c[i])] = c[i]
    BY <2>2
  <2> HIDE DEF nth
  <2> QED
    BY <1>9, <1>11, <2>3
<1> HIDE DEF new, nth
<1>14. /\ \A i \in 1..5 : /\ heap'[c[i]].data = Coded(of, i)
                          /\ heap'[c[i]].next = IF i = 5 THEN Null ELSE c[i + 1]
       /\ \A a \in Addresses \ new : heap'[a] = heap[a]
       /\ DOMAIN heap' = Addresses
       /\ heap' = [a \in Addresses |-> heap'[a]]
  <2>1. SUFFICES ASSUME NEW i \in 1..5
                 PROVE  /\ heap'[c[i]].data = Coded(of, i)
                        /\ heap'[c[i]].next = IF i = 5 THEN Null ELSE c[i + 1]
    BY <1>10
  <2>2. c[i] \in new /\ c[i] \in Addresses
    BY <1>9, <1>12
  <2>3. heap'[c[i]] = [data |-> items[i], next |-> addr[i + 1]]
    BY <1>10, <1>13, <2>2
  <2>4. addr[i + 1] = IF i = 5 THEN Null ELSE c[i + 1]
    <3>1. i # 5 => i + 1 \in 1..5
      OBVIOUS
    <3> QED
      BY <1>11, <3>1
  <2> QED
    BY <1>11, <2>3, <2>4
<1>15. heap' \in [Addresses -> [data : Seq(Bytes), next : Addresses \cup {Null}]]
  <2> DEFINE T == [data : Seq(Bytes), next : Addresses \cup {Null}]
  <2>1. ASSUME NEW a \in Addresses
        PROVE  heap'[a] \in T
    <3>1. CASE a \in new
      <4>1. PICK i \in 1..5 : a = c[i]
        BY <1>12, <3>1
      <4>2. heap'[a] = [data |-> items[i], next |-> addr[i + 1]]
        BY <1>10, <1>13, <3>1, <4>1
      <4>3. items[i] \in Seq(Bytes)
        BY <1>4, <1>11, CodedIs, ItemsAreBytes, ZenonT(60)
      <4>4. addr[i + 1] \in Addresses \cup {Null}
        <5>1. i + 1 \in 1..5 \/ i + 1 = 6
          OBVIOUS
        <5> QED
          BY <1>9, <1>11, <5>1
      <4> QED
        BY <4>2, <4>3, <4>4
    <3>2. CASE a \notin new
      BY <1>1, <1>14, <3>2 DEF IInv, HeapInv
    <3> QED
      BY <3>1, <3>2
  <2> QED
    BY <1>14, <2>1
<1>16. Holds(c, of, 5)'
  <2>1. IsChain(c)'
    BY <1>8, <1>9, <1>14 DEF IsChain
  <2>2. mHeader' = c[1]
    BY <1>10, <1>11
  <2>3. failures' = 0 => live' = {c[i] : i \in 1..5}
    BY <1>1, <1>2, <1>3, <1>10, <1>12 DEF IInv, ListInv
  <2> QED
    BY <1>3, <1>8, <1>10, <1>12, <1>14, <2>1, <2>2, <2>3 DEF Holds
<1>17. TypeOK'
  <2>1. live' \subseteq Addresses /\ mHeader' \in Addresses
    BY <1>6, <1>9, <1>10, <1>11, <1>12
  <2>2. \A a \in live' : heap'[a].next \in Addresses \cup {Null}
    BY <1>15, <2>1
  <2> QED
    BY <1>1, <1>2, <1>3, <2>1, <2>2 DEF IInv, TypeOK
<1>18. HeapInv'
  BY <1>1, <1>3, <1>15 DEF IInv, HeapInv
<1>19. StageInv'
  BY <1>2, <1>3 DEF StageInv
<1>20. ListInv'
  BY <1>2, <1>3, <1>16 DEF ListInv
<1>21. OutInv'
  BY <1>1, <1>3 DEF IInv, OutInv
<1>22. ReadInv'
  <2>1. Filled(field - 1)'
    <3>1. field' - 1 = 0 /\ 1..0 = {}
      BY <1>2, <1>3
    <3>2. \A o \in DOMAIN pMsg : pMsg[o] = 0
      BY <1>4, ZeroedIs, <1>1 DEF IInv, TypeOK
    <3> QED
      BY <1>3, <3>1, <3>2 DEF Filled
  <2> QED
    BY <1>2, <1>3, <1>4, <1>5, <2>1 DEF ReadInv
<1>23. RoomInv'
  <2>1. Cardinality(live') \in Nat /\ Cardinality(live') <= Cardinality(live) + 5
    BY <1>6, <1>10, <1>12, FiveMore
  <2>2. Cardinality(live') <= 5 * calls
    BY <1>6, <2>1
  <2> QED
    BY <1>1, <1>2, <1>3, <1>6, <2>2 DEF IInv, RoomInv
<1> QED
  BY <1>17, <1>18, <1>19, <1>20, <1>21, <1>22, <1>23 DEF IInv

\* A member lies within its struct.
LEMMA CoveredIs ==
    ASSUME of \in Messages, NEW i \in 1..5
    PROVE  /\ Covered(i) \subseteq 0..(SizeOf[of.kind] - 1)
           /\ SizeOf[of.kind] \in 96..160
<1> DEFINE at == Layout[of.kind][i].at
           size == SizeOf[of.kind]
<1>1. /\ Layout[of.kind][i].type \in {"int", "str"} /\ at \in 0..(size - 4) /\ size \in 96..160
  BY MessageIs, LayoutIs
<1>2. CASE Layout[of.kind][i].type = "int"
  <2>1. Covered(i) = at..(at + 3)
    BY <1>2 DEF Covered
  <2> HIDE DEF at, size
  <2>2. at..(at + 3) \subseteq 0..(size - 1)
    BY <1>1
  <2> QED
    BY <1>1, <2>1, <2>2 DEF size
<1>3. CASE Layout[of.kind][i].type = "str"
  <2>1. PICK e \in at..size : Len(CString(of.mem, at)) = e - at
    BY <1>3, StringEnd, Zenon
  <2>2. Covered(i) = at..(at + (e - at) - 1)
    BY <1>3, <2>1 DEF Covered
  <2> HIDE DEF at, size
  <2>3. at..(at + (e - at) - 1) \subseteq 0..(size - 1)
    BY <1>1
  <2> QED
    BY <1>1, <2>2, <2>3 DEF size
<1> QED
  BY <1>1, <1>2, <1>3

\* The bytes a node is stored as are the member's, and zeros behind a number.
LEMMA NodeBytes ==
    ASSUME of \in Messages, NEW i \in 1..5, MayCode(of, i)
    PROVE  LET member == Layout[of.kind][i]
               bytes == IF member.type = "int" THEN LongBytes(ReadInteger(Coded(of, i)))
                        ELSE Payload(Coded(of, i))
           IN  /\ bytes \in Seq(Bytes) /\ member.at \in Nat
               /\ \A j \in 1..Len(bytes) :
                      \/ bytes[j] = of.mem[member.at + j - 1]
                      \/ member.type = "int" /\ j \in 5..8 /\ bytes[j] = 0
               /\ \A o \in Covered(i) : o - member.at \in 0..(Len(bytes) - 1)
               /\ \A o \in Covered(i) : member.type = "int" => o - member.at + 1 \notin 5..8
<1> DEFINE at == Layout[of.kind][i].at
           member == Layout[of.kind][i]
<1>1. member.type = "int" \/ member.type = "str"
  BY MessageIs, LayoutIs
<1>2. CASE member.type = "int"
  <2> DEFINE bytes == LongBytes(IntAt(of.mem, at))
  <2>1. /\ at \in Nat /\ bytes \in Seq(Bytes) /\ Len(bytes) = 8
        /\ \A j \in 1..4 : bytes[j] = of.mem[at + j - 1]
        /\ \A j \in 5..8 : bytes[j] = 0
    BY <1>2, NumberIs, Zenon
  <2>2. ReadInteger(Coded(of, i)) = IntAt(of.mem, at)
    BY <1>2, CodedIs, Zenon
  <2>3. Covered(i) = at..(at + 3)
    BY <1>2 DEF Covered
  <2> HIDE DEF bytes, at
  <2>4. \A j \in 1..Len(bytes) : bytes[j] = of.mem[at + j - 1] \/ (j \in 5..8 /\ bytes[j] = 0)
    <3>1. \A j \in 1..8 : j \in 1..4 \/ j \in 5..8
      OBVIOUS
    <3> QED
      BY <2>1, <3>1
  <2>5. \A o \in at..(at + 3) : o - at \in 0..(8 - 1) /\ o - at + 1 \notin 5..8
    BY <2>1
  <2>6. bytes = LongBytes(ReadInteger(Coded(of, i)))
    BY <2>2 DEF bytes
  <2> QED
    BY <1>2, <2>1, <2>3, <2>4, <2>5, <2>6, Zenon DEF at
<1>3. CASE member.type = "str"
  <2> DEFINE bytes == CString(of.mem, at)
  <2>1. PICK e \in at..SizeOf[of.kind] :
            /\ bytes = [j \in 1..(e - at) |-> of.mem[at + j - 1]]
            /\ bytes \in Seq(Bytes) /\ Len(bytes) = e - at
            /\ e - at \in 0..160 /\ at \in Nat
    BY <1>3, StringEnd, Zenon
  <2>2. Payload(Coded(of, i)) = bytes
    BY <1>3, CodedIs, Zenon
  <2>3. Covered(i) = at..(at + Len(bytes) - 1) /\ member.type # "int"
    BY <1>3 DEF Covered
  <2> HIDE DEF bytes, at
  <2>4. \A j \in 1..Len(bytes) : bytes[j] = of.mem[at + j - 1]
    BY <2>1
  <2>5. \A o \in Covered(i) : o - at \in 0..(Len(bytes) - 1)
    BY <2>1, <2>3
  <2> QED
    BY <2>1, <2>2, <2>3, <2>4, <2>5, Zenon DEF at
<1> QED
  BY <1>1, <1>2, <1>3

\* One member more: the zeros behind a number fall on no member read before.
LEMMA FilledMore ==
    ASSUME of \in Messages, of' = of, pMsg \in Memory(of.kind),
           NEW k \in 1..5, MayCode(of, k), Filled(k - 1),
           pMsg' = LET member == Layout[of.kind][k]
                   IN  Stored(pMsg, member.at,
                              IF member.type = "int" THEN LongBytes(ReadInteger(Coded(of, k)))
                              ELSE Payload(Coded(of, k)))
    PROVE  pMsg' \in Memory(of.kind) /\ Filled(k)'
<1> DEFINE at == Layout[of.kind][k].at
           int == Layout[of.kind][k].type = "int"
           bytes == IF int THEN LongBytes(ReadInteger(Coded(of, k))) ELSE Payload(Coded(of, k))
           size == SizeOf[of.kind]
<1>1. /\ bytes \in Seq(Bytes) /\ at \in Nat
      /\ \A j \in 1..Len(bytes) : \/ bytes[j] = of.mem[at + j - 1]
                                  \/ int /\ j \in 5..8 /\ bytes[j] = 0
      /\ \A o \in Covered(k) : o - at \in 0..(Len(bytes) - 1)
      /\ \A o \in Covered(k) : int => o - at + 1 \notin 5..8
  BY NodeBytes, Zenon
<1>2. pMsg' = Stored(pMsg, at, bytes)
  BY Zenon
<1>3. int => k = 1 \/ at = size - 4
  BY MessageIs, LayoutIs
<1>4. \A i \in 1..5 : Covered(i) \subseteq 0..(size - 1) /\ size \in 96..160
  BY CoveredIs
<1> HIDE DEF bytes, int, at, size
<1>5. /\ DOMAIN pMsg = 0..(size + 7) /\ \A o \in DOMAIN pMsg : pMsg[o] \in Bytes
      /\ size \in 96..160
  <2>1. size \in 96..160
    BY <1>4
  <2> QED
    BY MemoryIs, MessageIs, <2>1 DEF size
<1> DEFINE In(o) == o - at \in 0..(Len(bytes) - 1)
<1>6. /\ pMsg' = [o \in DOMAIN pMsg |-> IF In(o) THEN bytes[o - at + 1] ELSE pMsg[o]]
  BY <1>2 DEF Stored
<1>7. ASSUME NEW o \in DOMAIN pMsg, In(o)
      PROVE  /\ o - at + 1 \in 1..Len(bytes) /\ pMsg'[o] = bytes[o - at + 1]
             /\ at + (o - at + 1) - 1 = o /\ pMsg'[o] \in Bytes
             /\ pMsg'[o] = of.mem[o] \/ (int /\ o - at + 1 \in 5..8 /\ pMsg'[o] = 0)
  <2>1. o \in Nat /\ Len(bytes) \in Nat
    BY <1>1, <1>5
  <2>2. o - at + 1 \in 1..Len(bytes) /\ at + (o - at + 1) - 1 = o
    BY <1>1, <1>7, <2>1
  <2>3. pMsg'[o] = bytes[o - at + 1]
    BY <1>6, <1>7
  <2>4. bytes[o - at + 1] \in Bytes
    BY <1>1, <2>2
  <2>5. bytes[o - at + 1] = of.mem[o] \/ (int /\ o - at + 1 \in 5..8 /\ bytes[o - at + 1] = 0)
    BY <1>1, <2>2
  <2> QED
    BY <2>2, <2>3, <2>4, <2>5
<1>8. ASSUME NEW o \in DOMAIN pMsg, ~In(o)
      PROVE  pMsg'[o] = pMsg[o]
  BY <1>6, <1>8
<1>9. DOMAIN pMsg' = DOMAIN pMsg /\ pMsg' = [o \in DOMAIN pMsg |-> pMsg'[o]]
  BY <1>6
<1> HIDE DEF In
<1>10. pMsg' \in Memory(of.kind)
  <2>1. \A o \in DOMAIN pMsg : pMsg'[o] \in Bytes
    BY <1>5, <1>7, <1>8
  <2>2. pMsg' \in [0..(size + 7) -> Bytes]
    BY <1>5, <1>9, <2>1
  <2> QED
    BY <2>2, Zenon DEF Memory, Bytes, size
<1>11. \A o \in DOMAIN pMsg' : pMsg'[o] \in {0, of.mem[o]}
  <2>1. \A o \in DOMAIN pMsg : pMsg[o] \in {0, of.mem[o]}
    BY DEF Filled
  <2> QED
    BY <1>7, <1>8, <1>9, <2>1
<1>12. ASSUME NEW i \in 1..k, NEW o \in Covered(i)
       PROVE  pMsg'[o] = of.mem[o]
  <2>1. i \in 1..5 /\ o \in 0..(size - 1) /\ o \in DOMAIN pMsg
    BY <1>4, <1>5
  <2>2. CASE i = k
    <3>1. In(o) /\ (int => o - at + 1 \notin 5..8)
      BY <1>1, <2>2 DEF In
    <3> QED
      BY <1>7, <2>1, <3>1
  <2>3. CASE i # k
    <3>1. i \in 1..(k - 1) /\ k # 1
      BY <2>3
    <3>2. pMsg[o] = of.mem[o]
      BY <3>1 DEF Filled
    <3>3. CASE In(o)
      <4>1. int => o - at + 1 \notin 5..8
        BY <1>3, <1>5, <2>1, <3>1
      <4> QED
        BY <1>7, <2>1, <3>3, <4>1
    <3>4. CASE ~In(o)
      BY <1>8, <2>1, <3>2, <3>4
    <3> QED
      BY <3>3, <3>4
  <2> QED
    BY <2>2, <2>3
<1>13. \A i \in 1..k : \A o \in Covered(i)' : pMsg'[o] = of'.mem[o]
  <2>1. \A i \in 1..k : Covered(i)' = Covered(i)
    BY DEF Covered
  <2> QED
    BY <1>12, <2>1
<1> QED
  BY <1>10, <1>11, <1>13 DEF Filled

LEMMA ReadNodeStep == IInv /\ ReadNode => IInv'
<1>1. SUFFICES ASSUME IInv, ReadNode PROVE IInv'
  OBVIOUS
<1>2. /\ pc = "decode" /\ field \in 1..5 /\ op = "decode" /\ data = out /\ Filled(field - 1)
      /\ of # NoMessage /\ of.kind = msg.kind /\ of \in Messages
      /\ \A i \in 1..5 : MayCode(of, i)
      /\ pMsg \in Memory(of.kind)
  <2>1. pc = "decode" /\ field \in 1..5 /\ op = "decode"
    BY <1>1 DEF IInv, ReadNode, StageInv
  <2> QED
    BY <1>1, <2>1 DEF IInv, ReadInv, OutInv, TypeOK
<1>3. /\ msg' = msg /\ heap' = heap /\ live' = live /\ mHeader' = mHeader /\ mTemp' = mTemp
      /\ out' = out /\ of' = of /\ data' = data /\ op' = op /\ ret' = ret
      /\ failures' = failures /\ calls' = calls
  BY <1>1 DEF ReadNode
<1>4. PICK c \in Seq(Addresses) : Holds(c, of, 5) /\ (field > 1 => mNext = c[field])
  BY <1>1, <1>2 DEF IInv, ListInv
<1>5. /\ Len(c) = 5 /\ mHeader = c[1] /\ \A i \in 1..5 : heap[c[i]].data = Coded(of, i)
      /\ \A i \in 1..5 : heap[c[i]].next = IF i = 5 THEN Null ELSE c[i + 1]
      /\ \A i \in 1..5 : c[i] \in Addresses
  <2>1. Len(c) = 5 /\ mHeader = c[1] /\ \A i \in 1..5 : heap[c[i]].data = Coded(of, i)
    BY <1>4 DEF Holds
  <2>2. \A i \in 1..5 : heap[c[i]].next = IF i = 5 THEN Null ELSE c[i + 1]
    BY <1>4, <2>1 DEF Holds, IsChain
  <2>3. \A i \in 1..5 : c[i] \in Addresses
    <3>1. c \in Seq(Addresses)
      BY <1>4
    <3>2. \A i \in 1..Len(c) : c[i] \in Addresses
      BY <3>1
    <3> QED
      BY <2>1, <3>2
  <2> QED
    BY <2>1, <2>2, <2>3
<1>6. (IF field = 1 THEN mHeader ELSE mNext) = c[field]
  BY <1>2, <1>4, <1>5
<1>7. /\ pMsg' = LET member == Layout[of.kind][field]
                 IN  Stored(pMsg, member.at,
                            IF member.type = "int" THEN LongBytes(ReadInteger(Coded(of, field)))
                            ELSE Payload(Coded(of, field)))
      /\ mNext' = IF field = 5 THEN Null ELSE c[field + 1]
  <2> DEFINE node == heap[IF field = 1 THEN mHeader ELSE mNext]
  <2>1. node.data = Coded(of, field) /\ node.next = IF field = 5 THEN Null ELSE c[field + 1]
    BY <1>2, <1>5, <1>6
  <2>2. /\ pMsg' = Stored(pMsg, Member.at,
                          IF Member.type = "int" THEN LongBytes(ReadInteger(node.data))
                          ELSE Payload(node.data))
        /\ mNext' = node.next
    BY <1>1, Zenon DEF ReadNode
  <2>3. Member = Layout[of.kind][field]
    BY <1>2 DEF Member
  <2> HIDE DEF node
  <2> QED
    BY <2>1, <2>2, <2>3
<1>8. IF field = 5 THEN pc' = "free" /\ field' = 1 ELSE pc' = "decode" /\ field' = field + 1
  <2>1. Len(Layout[msg.kind]) = 5
    BY <1>1, MessageIs, LayoutIs DEF IInv, TypeOK
  <2> QED
    BY <1>1, <2>1, Zenon DEF ReadNode
<1>9. /\ pMsg' \in Memory(of.kind)
      /\ \A o \in DOMAIN pMsg' : pMsg'[o] \in {0, of.mem[o]}
      /\ \A i \in 1..field : \A o \in Covered(i) : pMsg'[o] = of.mem[o]
  <2>1. PICK k \in 1..5 : k = field
    BY <1>2
  <2>2. Filled(k - 1) /\ MayCode(of, k)
    BY <1>2, <2>1
  <2>3. pMsg' \in Memory(of.kind) /\ Filled(k)'
    BY <1>2, <1>3, <1>7, <2>1, <2>2, FilledMore, Zenon
  <2>4. \A i \in 1..k : Covered(i)' = Covered(i)
    BY <1>3 DEF Covered
  <2> QED
    BY <1>3, <2>1, <2>3, <2>4 DEF Filled
<1>10. TypeOK'
  <2>1. mNext' \in Addresses \cup {Null} /\ field' \in 1..6 /\ pc' \in {"decode", "free"}
    <3>1. field # 5 => field + 1 \in 1..5
      BY <1>2
    <3> QED
      BY <1>2, <1>5, <1>7, <1>8, <3>1
  <2>2. pMsg' \in Memory(msg'.kind)
    BY <1>2, <1>3, <1>9
  <2> QED
    BY <1>1, <1>3, <2>1, <2>2 DEF IInv, TypeOK
<1>11. HeapInv'
  BY <1>1, <1>3 DEF IInv, HeapInv
<1>12. StageInv'
  BY <1>2, <1>3, <1>8 DEF StageInv
<1>13. OutInv'
  BY <1>1, <1>3 DEF IInv, OutInv
<1>14. ListInv'
  <2>1. Holds(c, of, 5)'
    BY <1>3, <1>4 DEF Holds, IsChain
  <2>2. CASE field = 5
    BY <1>8, <2>1, <2>2 DEF ListInv
  <2>3. CASE field # 5
    <3>1. pc' = "decode" /\ mNext' = c[field']
      BY <1>7, <1>8, <2>3
    <3> QED
      BY <2>1, <3>1 DEF ListInv
  <2> QED
    BY <2>2, <2>3
<1>15. ReadInv'
  <2>1. \A i \in 1..5 : Covered(i)' = Covered(i)
    BY <1>3 DEF Covered
  <2>2. CASE field = 5
    <3>1. Filled(5)'
      BY <1>2, <1>3, <1>9, <2>1, <2>2 DEF Filled
    <3> QED
      BY <1>2, <1>3, <1>8, <2>2, <3>1 DEF ReadInv
  <2>3. CASE field # 5
    <3>1. field' - 1 = field /\ \A i \in 1..field : i \in 1..5
      BY <1>2, <1>8, <2>3
    <3>2. Filled(field - 1)'
      BY <1>3, <1>9, <2>1, <3>1 DEF Filled
    <3> QED
      BY <1>2, <1>3, <1>8, <2>3, <3>2 DEF ReadInv
  <2> QED
    BY <2>2, <2>3
<1>16. RoomInv'
  BY <1>1, <1>2, <1>3, <1>8 DEF IInv, RoomInv
<1> QED
  BY <1>10, <1>11, <1>12, <1>13, <1>14, <1>15, <1>16 DEF IInv

-----------------------------------------------------------------------------
(* The theorems.                                                              *)

\* The invariant is inductive: whatever lengths the members have and whatever the
\* codec objects did before, a call finds the nodes and the bytes it relies on.
THEOREM Invariant == Spec => []IInv
<1>1. Init => IInv
  BY InitIInv
<1>2. IInv /\ [Next]_vars => IInv'
  BY NewStep, EncodeCallStep, WriteNodeStep, WriteNodeFailsStep, PackStep, FreeStep,
     DecodeCallStep, UnpackStep, UnpackFailsStep, ReadNodeStep, StutterStep DEF Next
<1> QED
  BY <1>1, <1>2, PTL DEF Spec

\* The codec objects keep to their types.
THEOREM TypeCorrect == Spec => []TypeOK
<1>1. IInv => TypeOK
  BY DEF IInv
<1> QED
  BY <1>1, Invariant, PTL

\* msgEncode and msgDecode follow no pointer to a freed node and free none twice,
\* though writeNextNode, readNextNode and freeSequence take the pointers as earlier
\* calls left them.
THEOREM NoDanglingPointer == Spec => []PointersLive
<1>1. IInv => PointersLive
  <2>1. SUFFICES ASSUME IInv PROVE PointersLive
    OBVIOUS
  <2>2. pc = "encode" /\ field > 1 => mNext \in live
    <3>1. SUFFICES ASSUME pc = "encode", field > 1 PROVE mNext \in live
      OBVIOUS
    <3>2. PICK c \in Seq(Addresses) : Holds(c, msg, field - 1) /\ mNext = c[field - 1]
      BY <2>1, <3>1 DEF IInv, ListInv
    <3>3. field - 1 \in 1..(field - 1)
      BY <2>1, <3>1 DEF IInv, TypeOK
    <3> QED
      BY <3>2, <3>3 DEF Holds
  <2>3. pc = "decode" => (IF field = 1 THEN mHeader ELSE mNext) \in live
    <3>1. SUFFICES ASSUME pc = "decode"
                   PROVE  (IF field = 1 THEN mHeader ELSE mNext) \in live
      OBVIOUS
    <3>2. PICK c \in Seq(Addresses) : Holds(c, of, 5) /\ (field > 1 => mNext = c[field])
      BY <2>1, <3>1 DEF IInv, ListInv
    <3>3. field \in 1..5
      BY <2>1, <3>1 DEF IInv, StageInv
    <3> QED
      BY <3>2, <3>3 DEF Holds
  <2>4. pc \in {"pack", "free"} => mHeader # Null /\ ToSet(List(mHeader)) \subseteq live
    <3>1. SUFFICES ASSUME pc \in {"pack", "free"}
                   PROVE  mHeader # Null /\ ToSet(List(mHeader)) \subseteq live
      OBVIOUS
    <3>2. \E m : \E c \in Seq(Addresses) : Holds(c, m, 5)
      <4>1. CASE pc = "pack"
        <5>1. field - 1 = 5
          BY <2>1, <4>1 DEF IInv, StageInv
        <5> QED
          BY <2>1, <4>1, <5>1 DEF IInv, ListInv
      <4>2. CASE pc = "free"
        BY <2>1, <4>2 DEF IInv, ListInv
      <4> QED
        BY <3>1, <4>1, <4>2
    <3>3. PICK m : \E c \in Seq(Addresses) : Holds(c, m, 5)
      BY <3>2
    <3>4. PICK c \in Seq(Addresses) : Holds(c, m, 5)
      BY <3>3
    <3>5. ToSet(List(mHeader)) = {c[i] : i \in 1..5}
      BY <2>1, <3>1, <3>4, HeldIs DEF IInv
    <3>6. c[1] \in Addresses /\ mHeader = c[1]
      BY <3>4, SMTT(30) DEF Holds
    <3> QED
      BY <3>4, <3>5, <3>6, MsgCodecAssumption DEF Holds, Addresses, Null
  <2> QED
    BY <2>2, <2>3, <2>4 DEF PointersLive
<1> QED
  BY <1>1, Invariant, PTL

\* Calls that succeed free every node they allocate; only a failed call leaves its
\* nodes, or m_temp, behind.
THEOREM LeaksAreFailures == Spec => []OnlyFailuresLeak
<1>1. IInv => OnlyFailuresLeak
  BY DEF IInv, ListInv, OnlyFailuresLeak
<1> QED
  BY <1>1, Invariant, PTL

\* A struct whose members were all read back holds the values of the message.
LEMMA FilledIs ==
    ASSUME of \in Messages, pMsg \in Memory(of.kind), Filled(5), NEW i \in 1..5
    PROVE  LET m == Layout[of.kind][i] IN Value(pMsg, m) = Value(of.mem, m)
<1> DEFINE m == Layout[of.kind][i]
           at == m.at
<1>1. /\ m.type = "int" \/ m.type = "str"
      /\ at \in Nat
  BY MessageIs, LayoutIs
<1>2. \A o \in Covered(i) : pMsg[o] = of.mem[o]
  BY DEF Filled
<1>3. CASE m.type = "int"
  <2>1. Covered(i) = at..(at + 3)
    BY <1>3 DEF Covered
  <2> HIDE DEF at
  <2>2. at \in Covered(i) /\ at + 1 \in Covered(i) /\ at + 2 \in Covered(i) /\ at + 3 \in Covered(i)
    BY <1>1, <2>1
  <2>3. /\ pMsg[at] = of.mem[at] /\ pMsg[at + 1] = of.mem[at + 1]
        /\ pMsg[at + 2] = of.mem[at + 2] /\ pMsg[at + 3] = of.mem[at + 3]
    BY <1>2, <2>2, Zenon
  <2>4. IntAt(pMsg, at) = IntAt(of.mem, at)
    BY <2>3, SMT DEF IntAt
  <2> QED
    BY <1>3, <2>4, Zenon DEF Value, at
<1>4. CASE m.type = "str"
  <2>1. PICK e \in at..SizeOf[of.kind] :
            /\ of.mem[e] = 0 /\ \A o \in at..(e - 1) : of.mem[o] # 0
            /\ CString(of.mem, at) = [j \in 1..(e - at) |-> of.mem[at + j - 1]]
            /\ Len(CString(of.mem, at)) = e - at /\ e \in DOMAIN of.mem
    BY <1>4, StringEnd, Zenon
  <2>2. Covered(i) = at..(at + (e - at) - 1)
    BY <1>4, <2>1 DEF Covered
  <2>3. DOMAIN pMsg = DOMAIN of.mem /\ DOMAIN pMsg \subseteq Nat
    BY MemoryIs, MessageIs
  <2> HIDE DEF at, m
  <2>4. \A o \in at..(e - 1) : o \in Covered(i)
    BY <1>1, <2>2
  <2>5. pMsg[e] = 0
    BY <2>1, <2>3 DEF Filled
  <2>6. \A o \in at..(e - 1) : pMsg[o] = of.mem[o]
    BY <1>2, <2>4
  <2>7. CString(pMsg, at) = [j \in 1..(e - at) |-> pMsg[at + j - 1]]
    <3>1. e >= at /\ e \in DOMAIN pMsg /\ \A o \in at..(e - 1) : pMsg[o] # 0
      BY <1>1, <2>1, <2>3, <2>6
    <3> QED
      BY <1>1, <2>3, <2>5, <3>1, CStringIs
  <2>8. \A j \in 1..(e - at) : at + j - 1 \in at..(e - 1)
    BY <1>1, <2>1
  <2>9. CString(pMsg, at) = CString(of.mem, at)
    BY <2>1, <2>6, <2>7, <2>8
  <2>10. m.type # "int"
    BY <1>4
  <2> QED
    BY <2>9, <2>10, Zenon DEF Value, at, m
<1> QED
  BY <1>1, <1>3, <1>4

\* A message decoded is the message encoded, for every message whose strings end in
\* its struct: the string that runs on into the member behind it, and the numbers
\* stored as eight bytes, spoil no member.  What is cut short is refused.
THEOREM DecodesToEncoded == Spec => []RoundTrip
<1>1. IInv => RoundTrip
  <2>1. SUFFICES ASSUME IInv, pc = "idle", op = "decode"
                 PROVE  IF data # out THEN ret = -1
                        ELSE /\ ret = 0
                             /\ \A i \in DOMAIN Layout[msg.kind] :
                                    LET m == Layout[msg.kind][i]
                                    IN  Value(pMsg, m) = Value(of.mem, m)
    BY DEF RoundTrip
  <2>2. /\ of # NoMessage /\ of.kind = msg.kind
        /\ IF data = out THEN ret = 0 /\ Filled(5) ELSE ret = -1
    BY <2>1 DEF IInv, ReadInv
  <2>3. of \in Messages /\ pMsg \in Memory(of.kind) /\ DOMAIN Layout[of.kind] = 1..5
    BY <2>1, <2>2, MessageIs, LayoutIs DEF IInv, OutInv, TypeOK
  <2> QED
    BY <2>2, <2>3, FilledIs
<1> QED
  BY <1>1, Invariant, PTL

-----------------------------------------------------------------------------
(* The other items of the coder.                                              *)

Tagged(tag) == IF tag >= 128 THEN tag ELSE tag % 32

\* An item's tag, and how few bytes it has.
LEMMA ItemSize ==
    ASSUME NEW tag \in Bytes, NEW body \in Bodies, NEW limit \in Nat, Len(body) <= limit
    PROVE  /\ Tlv(tag, body) \in Items /\ Tlv(tag, body) \in Seq(Bytes)
           /\ Len(Tlv(tag, body)) \in 2..(limit + 6)
           /\ TagValue(Tlv(tag, body)) = Tagged(tag)
<1> DEFINE n == Len(body)
           k == LengthOfSize(n)
           t == Tlv(tag, body)
<1>1. /\ n \in Nat /\ k \in 1..5 /\ t \in Seq(Bytes) /\ Len(t) = 1 + k + n /\ t[1] = tag
      /\ n <= limit
  BY ItemType
<1>2. t \in Items
  BY DEF Items
<1> HIDE DEF n, k, t
<1>3. Len(t) \in 2..(limit + 6)
  BY <1>1
<1>4. TagValue(t) = Tagged(tag)
  BY <1>1, Zenon DEF TagValue, Tagged
<1> QED
  BY <1>1, <1>2, <1>3, <1>4 DEF t

\* A bit string is read without its first byte, another string as it is.
LEMMA ReadStringIs ==
    ASSUME NEW tag \in Bytes, NEW body \in Bodies, NEW type, NEW unused,
           Tagged(tag) # IntegerTag
    PROVE  ReadString(Node(Tlv(tag, body), type, unused)).data =
               IF type = BitStringTag THEN Tail(body) ELSE body
<1> DEFINE t == Tlv(tag, body)
           node == Node(t, type, unused)
<1>1. Payload(t) = body /\ ItemLength(t, 1) = Len(t)
  BY PayloadIs
<1>2. TagValue(t) # IntegerTag
  <2>1. Len(body) \in Nat /\ Len(body) <= Len(body)
    BY ItemType
  <2> QED
    BY <2>1, ItemSize
<1>3. node.data = t /\ node.type = type
  BY DEF Node
<1> HIDE DEF t, node
<1>4. ReadString(node).data = IF type = BitStringTag THEN Tail(body) ELSE body
  BY <1>1, <1>2, <1>3 DEF ReadString, Node
<1> QED
  BY <1>4 DEF node, t

\* The items of a text: s with the unused bits before it, and s.
LEMMA TextIs ==
    ASSUME NEW s \in Texts
    PROVE  LET bits == <<Len(s) % 8>> \o s
           IN  /\ s \in Bodies /\ Len(s) \in Nat /\ Len(s) <= MaxText /\ Len(s) \in Small
               /\ bits \in Bodies /\ Len(bits) = Len(s) + 1 /\ Tail(bits) = s
               /\ EncodeUnsignedChar(s).data = Tlv(BitStringTag, bits)
<1> DEFINE u == Len(s) % 8
           bits == <<u>> \o s
<1>1. s \in Seq(Bytes) /\ Len(s) <= MaxText /\ Len(s) \in Nat
  BY MsgCodecAssumption DEF Bytes
<1>2. \A n \in Nat : n <= MaxText => n \in Small /\ n + 1 \in Small /\ n % 8 \in Bytes
  BY SMT DEF MaxText, Small, Bytes
<1>3. /\ Len(s) \in Small /\ Len(s) + 1 \in Small /\ u \in Bytes
  BY <1>1, <1>2
<1> HIDE DEF u
<1>4. <<u>> \in Seq(Bytes) /\ Len(<<u>>) = 1 /\ <<u>>[1] = u
  BY <1>3
<1>5. /\ bits \in Seq(Bytes) /\ Len(bits) = 1 + Len(s)
      /\ \A i \in 1..Len(s) : bits[1 + i] = s[i]
  <2>1. /\ bits \in Seq(Bytes) /\ Len(bits) = Len(<<u>>) + Len(s)
        /\ \A i \in 1..Len(s) : bits[Len(<<u>>) + i] = s[i]
    BY <1>1, <1>4, Joined
  <2> QED
    BY <1>4, <2>1, Zenon
<1>6. EncodeUnsignedChar(s).data = Tlv(BitStringTag, bits)
  <2> DEFINE head == TagAndLength(BitStringTag, Len(s) + 1)
  <2>1. StringToAnyBuf(s).data = s /\ StringToAnyBuf(s).unused = u
    BY DEF StringToAnyBuf, Node, u
  <2>2. EncodeUnsignedChar(s).data = (head \o <<u>>) \o s
    BY <2>1 DEF EncodeUnsignedChar, WriteBitString, Node
  <2>3. Len(bits) = Len(s) + 1
    BY <1>1, <1>5
  <2>4. head \in Seq(Bytes)
    <3>1. BitStringTag \in Bytes
      BY DEF BitStringTag, Bytes
    <3> QED
      BY <1>3, <3>1, HeadIs
  <2>5. (head \o <<u>>) \o s = head \o bits
    <3> HIDE DEF head
    <3> QED
      BY <1>1, <1>4, <2>4, ConcatAssociative
  <2> QED
    BY <2>2, <2>3, <2>5, Zenon DEF Tlv
<1> HIDE DEF bits
<1>7. Tail(bits) = s
  <2>1. Tail(bits) \in Seq(Bytes) /\ Len(Tail(bits)) = Len(s)
    BY <1>1, <1>5
  <2>2. \A i \in 1..Len(s) : Tail(bits)[i] = s[i]
    <3>1. SUFFICES ASSUME NEW i \in 1..Len(s) PROVE Tail(bits)[i] = s[i]
      OBVIOUS
    <3>2. Tail(bits)[i] = bits[i + 1] /\ i + 1 = 1 + i
      BY <1>1, <1>5
    <3> QED
      BY <1>5, <3>2
  <2> QED
    BY <1>1, <2>1, <2>2, SeqEqual
<1>8. bits \in Bodies /\ Len(bits) = Len(s) + 1 /\ s \in Bodies
  BY <1>1, <1>3, <1>5 DEF Bodies
<1> QED
  BY <1>1, <1>3, <1>6, <1>7, <1>8 DEF bits, u

\* NULL, and a sequence of it.
LEMMA NullIs ==
    /\ <<>> \in Bodies /\ NullTag \in Bytes /\ WriteNull.data = Tlv(NullTag, <<>>)
    /\ ReadNull(WriteNull) /\ Len(WriteNull.data) = 2
<1>1. /\ <<>> \in Seq(Bytes) /\ Len(<<>>) = 0
      /\ <<5, 0>> \in Seq(Bytes) /\ SubSeq(<<5, 0>>, 1, 2) = <<5, 0>> /\ Len(<<5, 0>>) = 2
  <2>1. <<>> \in Seq(Bytes) /\ Len(<<>>) = 0
    OBVIOUS
  <2>2. <<5, 0>> \in Seq(Bytes) /\ Len(<<5, 0>>) = 2
    BY DEF Bytes
  <2>3. SubSeq(<<5, 0>>, 1, Len(<<5, 0>>)) = <<5, 0>>
    BY <2>2, SubSeqFull, Zenon
  <2> QED
    BY <2>1, <2>2, <2>3, Zenon
<1>2. 0 \in Small /\ LengthOfSize(0) = 1
  BY SMT DEF Small, LengthOfSize
<1>3. <<>> \in Bodies /\ NullTag \in Bytes
  BY <1>1, <1>2 DEF Bodies, NullTag, Bytes
<1>4. WriteNull.data = <<NullTag, 0>>
  BY DEF WriteNull, Node
<1>5. Tlv(NullTag, <<>>) = <<NullTag, 0>>
  <2>1. TagAndLength(NullTag, 0) = <<NullTag, 0>>
    BY <1>2, Zenon DEF TagAndLength
  <2>2. <<NullTag, 0>> \o <<>> = <<NullTag, 0>>
    BY <1>1 DEF NullTag
  <2> QED
    BY <1>1, <2>1, <2>2, Zenon DEF Tlv
<1>6. ReadNull(WriteNull) /\ Len(WriteNull.data) = 2
  BY <1>1, <1>4 DEF ReadNull, NullTag
<1> QED
  BY <1>3, <1>4, <1>5, <1>6

\* A few short items, as nodes, become a sequence, and the sequence these items with
\* their tags for types.
LEMMA NodesIs ==
    ASSUME NEW list, NEW items \in Seq(Items), Len(items) \in 1..5, NEW limit \in Nat,
           \A i \in 1..Len(items) : Len(items[i]) \in 2..limit,
           5 * limit <= 25 * MaxText + 1000,
           DOMAIN list = 1..Len(items), \A i \in 1..Len(items) : list[i].data = items[i]
    PROVE  LET node == SequenceNode(list)
               body == FlattenSeq(items)
           IN  /\ body \in Bodies /\ Len(body) <= 5 * limit
               /\ node = Node(Tlv(SequenceTag, body), SequenceTag % 32, 0)
               /\ NodesOf(node) = [i \in 1..Len(items) |-> Node(items[i], TagValue(items[i]), 0)]
<1> DEFINE node == SequenceNode(list)
           body == FlattenSeq(items)
<1>1. body \in Seq(Bytes) /\ Len(body) \in 2..(5 * limit)
  BY FewItems, ZenonT(60)
<1>2. body \in Bodies /\ Len(body) <= 5 * limit
  <2>1. \A n \in Nat : n <= 25 * MaxText + 1000 => n \in Small
    BY SMT DEF Small, MaxText
  <2> DEFINE n == Len(body)
             most == 25 * MaxText + 1000
  <2>2. most \in Nat
    BY SMT DEF MaxText
  <2>3. n \in 2..(5 * limit) /\ 5 * limit <= most
    BY <1>1
  <2> HIDE DEF n, most
  <2>4. n \in Nat /\ n <= most /\ n <= 5 * limit
    BY <2>2, <2>3
  <2>5. n \in Small
    BY <2>1, <2>4, ZenonT(60) DEF most
  <2> QED
    BY <1>1, <2>4, <2>5 DEF Bodies, n
<1>3. items = [i \in DOMAIN list |-> list[i].data]
  OBVIOUS
<1>4. /\ WriteSequence(items) = Tlv(SequenceTag, body)
      /\ ReadSequence(WriteSequence(items)) = items
  BY <1>2, SequenceItem
<1>5. node = Node(Tlv(SequenceTag, body), SequenceTag % 32, 0)
  BY <1>3, <1>4, Zenon DEF SequenceNode
<1> HIDE DEF body, node
<1>6. node.data = WriteSequence(items)
  BY <1>4, <1>5 DEF Node
<1>7. NodesOf(node) = [i \in DOMAIN items |-> Node(items[i], TagValue(items[i]), 0)]
  BY <1>4, <1>6, Zenon DEF NodesOf
<1> QED
  BY <1>2, <1>5, <1>7 DEF body, node

\* Whatever its length, a text comes back from a bit string, a printable and a BMP
\* string, by itself and through a sequence inside a sequence.
LEMMA TextComesBack ==
    ASSUME NEW s \in Texts
    PROVE  ComesBack(s)
<1> DEFINE bits  == EncodeUnsignedChar(s)
           chars == EncodeChar(s)
           bmp   == WritePrintableString([StringToAnyBuf(s) EXCEPT !.type = BmpTag])
           low   == <<bmp, WriteNull, bits>>
           inner == SequenceNode(low)
           num   == Node(WriteInteger(Len(s)), IntegerTag, 0)
           high  == <<bits, WriteNullSequence, inner, chars, num>>
           outer == SequenceNode(high)
           nodes == NodesOf(outer)
           deep  == NodesOf(nodes[3])
           wrapped == <<Len(s) % 8>> \o s
           n == Len(s)
<1>1. /\ s \in Bodies /\ n \in Nat /\ n <= MaxText /\ n \in Small
      /\ wrapped \in Bodies /\ Len(wrapped) = n + 1 /\ Tail(wrapped) = s
      /\ bits.data = Tlv(BitStringTag, wrapped)
  BY TextIs, Zenon
<1>2. /\ BitStringTag \in Bytes /\ StringTag \in Bytes /\ BmpTag \in Bytes
      /\ NullTag \in Bytes /\ IntegerTag \in Bytes /\ SequenceTag \in Bytes
      /\ Tagged(BitStringTag) = BitStringTag /\ Tagged(StringTag) = StringTag
      /\ Tagged(BmpTag) = BmpTag /\ Tagged(NullTag) = NullTag
      /\ Tagged(SequenceTag) = SequenceTag % 32
      /\ BitStringTag # IntegerTag /\ StringTag # IntegerTag /\ BmpTag # IntegerTag
      /\ BitStringTag # StringTag /\ BitStringTag # BmpTag /\ StringTag # BmpTag
  BY SMT DEF BitStringTag, StringTag, BmpTag, NullTag, IntegerTag, SequenceTag, Bytes, Tagged
<1>3. /\ bits.type = BitStringTag
      /\ chars = Node(Tlv(StringTag, s), StringTag, 0)
      /\ bmp = Node(Tlv(BmpTag, s), BmpTag, 0)
  <2>1. bits.type = BitStringTag
    BY DEF EncodeUnsignedChar, WriteBitString, Node
  <2>2. /\ StringToAnyBuf(s).data = s /\ StringToAnyBuf(s).type = StringTag
        /\ [StringToAnyBuf(s) EXCEPT !.type = BmpTag].data = s
        /\ [StringToAnyBuf(s) EXCEPT !.type = BmpTag].type = BmpTag
    BY DEF StringToAnyBuf, Node
  <2>3. WriteString(s) = Tlv(StringTag, s)
    BY <1>1, StringItem
  <2>4. chars = Node(Tlv(StringTag, s), StringTag, 0)
    BY <1>2, <2>2, <2>3, Zenon DEF EncodeChar, WritePrintableString
  <2>5. bmp = Node(Tlv(BmpTag, s), BmpTag, 0)
    BY <2>2, Zenon DEF WritePrintableString, WriteBmpString, Tlv
  <2> QED
    BY <2>1, <2>4, <2>5
<1>4. bits = Node(Tlv(BitStringTag, wrapped), BitStringTag, bits.unused)
  <2>1. bits = [data |-> bits.data, type |-> bits.type, unused |-> bits.unused]
    BY DEF EncodeUnsignedChar, WriteBitString, Node
  <2> QED
    BY <1>1, <1>3, <2>1, Zenon DEF Node
<1> DEFINE bitItem   == Tlv(BitStringTag, wrapped)
           charItem  == Tlv(StringTag, s)
           bmpItem   == Tlv(BmpTag, s)
           nullItem  == Tlv(NullTag, <<>>)
           numItem   == WriteInteger(n)
           lowItems  == <<bmpItem, nullItem, bitItem>>
           lowBody   == FlattenSeq(lowItems)
           nulls     == <<nullItem>>
           nullsBody == FlattenSeq(nulls)
<1> HIDE DEF bits, chars, bmp, wrapped, n
\* What is read of each kind of node.
<1>5. ASSUME NEW unused
      PROVE  ReadString(Node(bitItem, BitStringTag, unused)).data = s
  <2>1. Tagged(BitStringTag) # IntegerTag /\ BitStringTag \in Bytes /\ wrapped \in Bodies
    BY <1>1, <1>2
  <2>2. ReadString(Node(Tlv(BitStringTag, wrapped), BitStringTag, unused)).data =
            IF BitStringTag = BitStringTag THEN Tail(wrapped) ELSE wrapped
    BY <2>1, ReadStringIs, ZenonT(60)
  <2> QED
    BY <1>1, <2>2, Zenon
<1>6. ASSUME NEW unused
      PROVE  /\ ReadString(Node(charItem, StringTag, unused)).data = s
             /\ ReadString(Node(bmpItem, BmpTag, unused)).data = s
  <2>1. Tagged(StringTag) # IntegerTag /\ Tagged(BmpTag) # IntegerTag
    BY <1>2
  <2>2. /\ ReadString(Node(charItem, StringTag, unused)).data =
               IF StringTag = BitStringTag THEN Tail(s) ELSE s
        /\ ReadString(Node(bmpItem, BmpTag, unused)).data =
               IF BmpTag = BitStringTag THEN Tail(s) ELSE s
    BY <1>1, <1>2, <2>1, ReadStringIs
  <2> QED
    BY <1>2, <2>2, Zenon
\* The sizes of the items.
<1>7. /\ \A i \in {bitItem, charItem, bmpItem} : i \in Items /\ Len(i) \in 2..(n + 7)
      /\ TagValue(bitItem) = BitStringTag /\ TagValue(charItem) = StringTag
      /\ TagValue(bmpItem) = BmpTag
  <2> DEFINE limit == n + 1
  <2>1. limit \in Nat /\ Len(wrapped) <= limit /\ Len(s) <= limit /\ limit + 6 = n + 7
    BY <1>1 DEF n
  <2> HIDE DEF limit
  <2>2. /\ bitItem \in Items /\ Len(bitItem) \in 2..(limit + 6)
        /\ TagValue(bitItem) = BitStringTag
    BY <1>1, <1>2, <2>1, ItemSize
  <2>3. /\ charItem \in Items /\ Len(charItem) \in 2..(limit + 6)
        /\ TagValue(charItem) = StringTag
    BY <1>1, <1>2, <2>1, ItemSize
  <2>4. /\ bmpItem \in Items /\ Len(bmpItem) \in 2..(limit + 6)
        /\ TagValue(bmpItem) = BmpTag
    BY <1>1, <1>2, <2>1, ItemSize
  <2> QED
    BY <2>1, <2>2, <2>3, <2>4, Zenon
<1>8. /\ nullItem \in Items /\ Len(nullItem) = 2 /\ WriteNull.data = nullItem
      /\ ReadNull(WriteNull) /\ TagValue(nullItem) = NullTag
  <2>1. Len(<<>>) = 0 /\ 0 \in Nat /\ 0 <= 0
    OBVIOUS
  <2> QED
    BY <1>2, <2>1, NullIs, ItemSize, Zenon
<1>9. numItem \in Items /\ Len(numItem) \in 2..(n + 11) /\ ReadInteger(numItem) = n
  <2>1. /\ numItem = Tlv(IntegerTag, IntToChar(n)) /\ IntToChar(n) \in Bodies
        /\ ReadInteger(numItem) = n
    BY <1>1, IntegerItem, Zenon
  <2> DEFINE limit == n + 5
             x == Len(IntToChar(n))
  <2>2. x \in 1..5
    BY <1>1, IntToCharIs, Zenon
  <2> HIDE DEF x
  <2>3. limit \in Nat /\ x <= limit /\ limit + 6 = n + 11
    BY <1>1, <2>2
  <2> HIDE DEF limit
  <2>4. Tlv(IntegerTag, IntToChar(n)) \in Items
        /\ Len(Tlv(IntegerTag, IntToChar(n))) \in 2..(limit + 6)
    BY <1>2, <2>1, <2>3, ItemSize DEF x
  <2> QED
    BY <2>1, <2>3, <2>4, Zenon
<1> HIDE DEF bitItem, charItem, bmpItem, nullItem, numItem
\* The sequence inside, and the one with NULL alone.
<1>10. /\ lowBody \in Bodies /\ Len(lowBody) <= 5 * (n + 7)
       /\ inner = Node(Tlv(SequenceTag, lowBody), SequenceTag % 32, 0)
       /\ NodesOf(inner) = [i \in 1..3 |-> Node(lowItems[i], TagValue(lowItems[i]), 0)]
  <2> DEFINE limit == n + 7
  <2>1. limit \in Nat /\ 2 \in 2..limit /\ 5 * limit <= 25 * MaxText + 1000
    BY <1>1, SMT DEF MaxText
  <2>2. /\ lowItems \in Seq(Items) /\ Len(lowItems) = 3
        /\ \A i \in 1..3 : i = 1 \/ i = 2 \/ i = 3
        /\ lowItems[1] = bmpItem /\ lowItems[2] = nullItem /\ lowItems[3] = bitItem
    BY <1>7, <1>8
  <2>3. /\ DOMAIN low = 1..3
        /\ low[1].data = bmpItem /\ low[2].data = nullItem /\ low[3].data = bitItem
    <3>1. bmp.data = bmpItem /\ bits.data = bitItem /\ WriteNull.data = nullItem
      BY <1>1, <1>3, <1>8 DEF Node, bmpItem, bitItem
    <3> QED
      BY <3>1
  <2> HIDE DEF low, lowItems, limit
  <2>4. \A i \in 1..3 : Len(lowItems[i]) \in 2..limit /\ low[i].data = lowItems[i]
    BY <1>7, <1>8, <2>1, <2>2, <2>3, Zenon DEF limit
  <2>5. 3 \in 1..5
    OBVIOUS
  <2>6. /\ lowBody \in Bodies /\ Len(lowBody) <= 5 * limit
        /\ inner = Node(Tlv(SequenceTag, lowBody), SequenceTag % 32, 0)
        /\ NodesOf(inner) = [i \in 1..3 |-> Node(lowItems[i], TagValue(lowItems[i]), 0)]
    <3>1. /\ Len(lowItems) \in 1..5
          /\ \A i \in 1..Len(lowItems) : Len(lowItems[i]) \in 2..limit
          /\ DOMAIN low = 1..Len(lowItems)
          /\ \A i \in 1..Len(lowItems) : low[i].data = lowItems[i]
      BY <2>2, <2>3, <2>4, <2>5, Zenon
    <3>2. /\ lowBody \in Bodies /\ Len(lowBody) <= 5 * limit
          /\ inner = Node(Tlv(SequenceTag, lowBody), SequenceTag % 32, 0)
          /\ NodesOf(inner) =
                 [i \in 1..Len(lowItems) |-> Node(lowItems[i], TagValue(lowItems[i]), 0)]
      BY <2>1, <2>2, <3>1, NodesIs, ZenonT(60)
    <3> QED
      BY <2>2, <3>2, Zenon
  <2> QED
    BY <2>6 DEF limit

<1>11. /\ nullsBody \in Bodies /\ Len(nullsBody) <= 10
       /\ WriteNullSequence = Node(Tlv(SequenceTag, nullsBody), SequenceTag % 32, 0)
       /\ NodesOf(WriteNullSequence) = [i \in 1..1 |-> Node(nulls[i], TagValue(nulls[i]), 0)]
       /\ nulls[1] = nullItem
  <2> DEFINE list == <<WriteNull>>
             two  == 2
  <2>1. /\ two \in Nat /\ 2 \in 2..two /\ 5 * two <= 25 * MaxText + 1000 /\ 1 \in 1..5
        /\ \A i \in 1..1 : i = 1
    BY SMT DEF MaxText
  <2>2. /\ nulls \in Seq(Items) /\ Len(nulls) = 1 /\ nulls[1] = nullItem
        /\ 5 * two = 10
    BY <1>8
  <2>3. DOMAIN list = 1..1 /\ list[1].data = nullItem
    BY <1>8
  <2>4. WriteNullSequence = SequenceNode(list)
    BY Zenon DEF WriteNullSequence
  <2> HIDE DEF list, nulls, two
  <2>5. /\ Len(nulls) \in 1..5
        /\ \A i \in 1..Len(nulls) : Len(nulls[i]) \in 2..two
        /\ DOMAIN list = 1..Len(nulls)
        /\ \A i \in 1..Len(nulls) : list[i].data = nulls[i]
    BY <1>8, <2>1, <2>2, <2>3, Zenon
  <2>6. /\ nullsBody \in Bodies /\ Len(nullsBody) <= 5 * two
        /\ SequenceNode(list) = Node(Tlv(SequenceTag, nullsBody), SequenceTag % 32, 0)
        /\ NodesOf(SequenceNode(list)) =
               [i \in 1..Len(nulls) |-> Node(nulls[i], TagValue(nulls[i]), 0)]
    <3>1. two \in Nat /\ 5 * two <= 25 * MaxText + 1000 /\ nulls \in Seq(Items)
      BY <2>1, <2>2
    <3> QED
      BY <2>5, <3>1, NodesIs, ZenonT(60)
  <2> QED
    BY <2>1, <2>2, <2>4, <2>6, Zenon
<1> DEFINE innerItem == Tlv(SequenceTag, lowBody)
           nullsItem == Tlv(SequenceTag, nullsBody)
           highItems == <<bitItem, nullsItem, innerItem, charItem, numItem>>
           highBody  == FlattenSeq(highItems)
           limit == 5 * n + 41
<1>12. /\ innerItem \in Items /\ Len(innerItem) \in 2..limit
       /\ nullsItem \in Items /\ Len(nullsItem) \in 2..limit
       /\ TagValue(innerItem) = SequenceTag % 32 /\ TagValue(nullsItem) = SequenceTag % 32
  <2> DEFINE most == 5 * (n + 7)
             x == Len(innerItem)
             y == Len(nullsItem)
  <2>1. most \in Nat /\ 10 \in Nat
    BY <1>1
  <2>2. SequenceTag \in Bytes /\ Len(lowBody) <= most
    BY <1>2, <1>10
  <2> HIDE DEF most, lowBody, nullsBody
  <2>3. /\ innerItem \in Items /\ Len(innerItem) \in 2..(most + 6)
        /\ TagValue(innerItem) = Tagged(SequenceTag)
    BY <1>10, <2>1, <2>2, ItemSize, Zenon
  <2>4. /\ nullsItem \in Items /\ Len(nullsItem) \in 2..(10 + 6)
        /\ TagValue(nullsItem) = Tagged(SequenceTag)
    BY <1>11, <2>1, <2>2, ItemSize, Zenon
  <2>5. x \in 2..(most + 6) /\ y \in 2..(10 + 6)
    BY <2>3, <2>4
  <2> HIDE DEF x, y
  <2>6. x \in 2..limit /\ y \in 2..limit
    BY <1>1, <2>5 DEF most
  <2> QED
    BY <1>2, <2>3, <2>4, <2>6, Zenon DEF x, y
<1> HIDE DEF lowBody, nullsBody, innerItem, nullsItem
<1>13. /\ limit \in Nat /\ 5 * limit <= 25 * MaxText + 1000
       /\ \A m \in 2..(n + 7) : m \in 2..limit
       /\ \A m \in 2..(n + 11) : m \in 2..limit
  <2>1. MaxText \in Nat
    BY SMT DEF MaxText
  <2> QED
    BY <1>1, <2>1
<1> HIDE DEF limit
<1>14. /\ highItems \in Seq(Items) /\ Len(highItems) = 5 /\ 5 \in 1..5
       /\ highItems[1] = bitItem /\ highItems[2] = nullsItem /\ highItems[3] = innerItem
       /\ highItems[4] = charItem /\ highItems[5] = numItem
  BY <1>7, <1>9, <1>12
<1>15. \A i \in 1..5 : i = 1 \/ i = 2 \/ i = 3 \/ i = 4 \/ i = 5
  OBVIOUS
<1>16. /\ DOMAIN high = 1..5
       /\ high[1].data = bitItem /\ high[2].data = nullsItem /\ high[3].data = innerItem
       /\ high[4].data = charItem /\ high[5].data = numItem
  <2>1. /\ bits.data = bitItem /\ WriteNullSequence.data = nullsItem /\ inner.data = innerItem
        /\ chars.data = charItem /\ num.data = numItem
    BY <1>1, <1>3, <1>10, <1>11 DEF Node, bitItem, charItem, numItem, nullsItem, innerItem, n
  <2> HIDE DEF inner, num
  <2> QED
    BY <2>1
<1> HIDE DEF low, high, inner, lowItems, highItems, nulls
<1>17. ASSUME NEW list, DOMAIN list = 1..5, \A i \in 1..5 : list[i].data = highItems[i]
       PROVE  /\ SequenceNode(list) = Node(Tlv(SequenceTag, highBody), SequenceTag % 32, 0)
              /\ NodesOf(SequenceNode(list)) =
                     [i \in 1..5 |-> Node(highItems[i], TagValue(highItems[i]), 0)]
  <2>1. \A i \in 1..5 : Len(highItems[i]) \in 2..limit
    BY <1>7, <1>9, <1>12, <1>13, <1>14, <1>15, Zenon
  <2>2. /\ Len(highItems) \in 1..5
        /\ \A i \in 1..Len(highItems) : Len(highItems[i]) \in 2..limit
        /\ DOMAIN list = 1..Len(highItems)
        /\ \A i \in 1..Len(highItems) : list[i].data = highItems[i]
    BY <1>14, <1>17, <2>1, Zenon
  <2>3. /\ SequenceNode(list) = Node(Tlv(SequenceTag, highBody), SequenceTag % 32, 0)
        /\ NodesOf(SequenceNode(list)) =
               [i \in 1..Len(highItems) |-> Node(highItems[i], TagValue(highItems[i]), 0)]
    BY <1>13, <1>14, <2>2, NodesIs, ZenonT(60)
  <2> QED
    BY <1>14, <2>3, Zenon
<1> HIDE DEF highBody
<1>18. /\ outer = Node(Tlv(SequenceTag, highBody), SequenceTag % 32, 0)
       /\ nodes = [i \in 1..5 |-> Node(highItems[i], TagValue(highItems[i]), 0)]
  <2>1. \A i \in 1..5 : high[i].data = highItems[i]
    BY <1>14, <1>15, <1>16, Zenon
  <2> QED
    BY <1>16, <1>17, <2>1, Zenon
<1>19. /\ nodes[1] = Node(bitItem, BitStringTag, 0)
       /\ nodes[2] = WriteNullSequence
       /\ nodes[3] = inner
       /\ nodes[4] = Node(charItem, StringTag, 0)
       /\ nodes[5].data = numItem
       /\ Len(nodes) = 5 /\ DOMAIN nodes = 1..5
       /\ \A i \in 1..5 : nodes[i].data = highItems[i]
  <2>1. \A i \in 1..5 : nodes[i] = Node(highItems[i], TagValue(highItems[i]), 0)
    BY <1>18, Zenon
  <2>2. \A i \in 1..5 : nodes[i].data = highItems[i]
    BY <2>1 DEF Node
  <2>3. Len(nodes) = 5 /\ DOMAIN nodes = 1..5
    BY <1>18
  <2>4. 1 \in 1..5 /\ 2 \in 1..5 /\ 3 \in 1..5 /\ 4 \in 1..5 /\ 5 \in 1..5
    OBVIOUS
  <2> HIDE DEF nodes, inner
  <2>5. nodes[1] = Node(bitItem, BitStringTag, 0) /\ nodes[4] = Node(charItem, StringTag, 0)
    BY <1>7, <1>14, <2>1, <2>4, Zenon
  <2>6. nodes[2] = Node(nullsItem, SequenceTag % 32, 0)
    BY <1>12, <1>14, <2>1, <2>4, Zenon
  <2>7. nodes[3] = Node(innerItem, SequenceTag % 32, 0)
    BY <1>12, <1>14, <2>1, <2>4, Zenon
  <2>8. nodes[2] = WriteNullSequence /\ nodes[3] = inner
    BY <1>10, <1>11, <2>6, <2>7, Zenon DEF innerItem, nullsItem
  <2>9. nodes[5].data = numItem
    BY <1>14, <2>2, <2>4, Zenon
  <2> QED
    BY <2>2, <2>3, <2>5, <2>8, <2>9, Zenon
<1>20. /\ deep[1] = Node(bmpItem, BmpTag, 0) /\ deep[2] = WriteNull
       /\ deep[3] = Node(bitItem, BitStringTag, 0)
       /\ Len(deep) = 3
  <2>1. deep = [i \in 1..3 |-> Node(lowItems[i], TagValue(lowItems[i]), 0)]
    BY <1>10, <1>19, Zenon
  <2>2. /\ lowItems[1] = bmpItem /\ lowItems[2] = nullItem /\ lowItems[3] = bitItem
    BY DEF lowItems
  <2>3. Len(deep) = 3
    BY <2>1
  <2>4. 1 \in 1..3 /\ 2 \in 1..3 /\ 3 \in 1..3
    OBVIOUS
  <2>5. WriteNull = Node(nullItem, NullTag, 0)
    <3>1. WriteNull = Node(<<NullTag, 0>>, NullTag, 0)
      BY Zenon DEF WriteNull
    <3>2. <<NullTag, 0>> = nullItem
      BY <1>8 DEF WriteNull, Node
    <3> QED
      BY <3>1, <3>2, Zenon
  <2> HIDE DEF deep
  <2> QED
    BY <1>7, <1>8, <2>1, <2>2, <2>3, <2>4, <2>5, Zenon
<1>21. ReadNull(NodesOf(nodes[2])[1])
  <2>1. NodesOf(nodes[2])[1] = Node(nullItem, NullTag, 0)
    <3>1. 1 \in 1..1
      OBVIOUS
    <3> QED
      BY <1>8, <1>11, <1>19, <3>1, Zenon
  <2>2. NodesOf(nodes[2])[1].data = WriteNull.data
    BY <1>8, <2>1 DEF Node
  <2> QED
    BY <1>8, <2>2, Zenon DEF ReadNull
<1>22. SequenceNode(nodes) = outer
  <2> HIDE DEF nodes, outer
  <2> QED
    BY <1>17, <1>18, <1>19, Zenon
<1>23. DecodeUnsignedChar(nodes[1]) = s /\ DecodeChar(nodes[4]) = s
  BY <1>5, <1>6, <1>19, Zenon DEF DecodeUnsignedChar, DecodeChar
<1>24. DecodeUnsignedChar(bits) = s /\ DecodeChar(chars) = s /\ ReadString(bmp).data = s
  BY <1>3, <1>4, <1>5, <1>6, Zenon DEF DecodeUnsignedChar, DecodeChar, bitItem, charItem, bmpItem
<1>25. ReadString(deep[1]).data = s /\ DecodeUnsignedChar(deep[3]) = s /\ ReadNull(deep[2])
  BY <1>5, <1>6, <1>8, <1>20, Zenon DEF DecodeUnsignedChar
<1>26. EncodeUnsignedChar(DecodeUnsignedChar(nodes[1])).data = bits.data
  BY <1>23, Zenon DEF bits
<1>27. ReadInteger(nodes[5].data) = Len(s)
  BY <1>9, <1>19, Zenon DEF n
<1>28. Len(nodes) = 5 /\ Len(deep) = 3
  BY <1>19, <1>20
<1> QED
  BY <1>21, <1>22, <1>23, <1>24, <1>25, <1>26, <1>27, <1>28, Zenon
  DEF ComesBack, bits, chars, bmp, low, inner, high

\* What is coded is decoded for every text, as a bit string, a printable and a BMP
\* string, by itself and as an item of nested sequences, and gives the same bytes again.
THEOREM ItemsComeBack == Spec => []ItemsRoundTrip
<1>1. ItemsRoundTrip
  BY TextComesBack DEF ItemsRoundTrip
<1> QED
  BY <1>1, PTL
=============================================================================
