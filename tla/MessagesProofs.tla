---------------------------- MODULE MessagesProofs ----------------------------
(***************************************************************************)
(* What one end decodes the other has encoded, for every size of the       *)
(* receive buffer and every set of requests: where each field of a         *)
(* datagram lies, that a field is read back from where it was written,     *)
(* that exactly the datagrams that fit the buffer are accepted, and that   *)
(* these are decoded to the message that was sent.                         *)
(***************************************************************************)
EXTENDS Messages, SequenceTheorems, TLAPS

Bytes == Int \X Int

\* s lies in buffer behind the first at bytes.
HoldsAt(buffer, at, s) ==
    \A k \in 1..Len(s) : at + k \in DOMAIN buffer /\ buffer[at + k] = s[k]

\* Concatenation, as an operator of its own so that a step can leave it unexpanded.
Cat(s, t) == s \o t

\* The messages of the four classes, as the two ends make them.
IsReadSend(m) == \E uid \in Uids, offset \in Offsets, length \in ReadLengths :
                     m = MessageReadSend(uid, offset, length)
IsWriteSend(m) == \E uid \in Uids, offset \in Offsets, length \in WriteLengths :
                      m = MessageWriteSend(uid, offset, length, Payload(uid, length))
FailedData(length) == [k \in 1..length |-> Garbage]
IsReadReceive(m) ==
    \E uid \in Uids, length \in ReadLengths, result \in BOOLEAN :
        \E data \in {Payload(uid, length), FailedData(length)} :
            m = MessageReadReceive(uid, result, length, data)
IsWriteReceive(m) ==
    \E uid \in Uids, result \in BOOLEAN : m = MessageWriteReceive(uid, result)
IsMessage(m) == IsReadSend(m) \/ IsWriteSend(m) \/ IsReadReceive(m) \/ IsWriteReceive(m)

-------------------------------------------------------------------------------
(* Sequences of bytes. *)

\* The two parts of a concatenation.
LEMMA ConcatParts ==
    ASSUME NEW s \in Seq(Bytes), NEW t \in Seq(Bytes)
    PROVE  /\ Cat(s, t) \in Seq(Bytes) /\ Len(Cat(s, t)) = Len(s) + Len(t)
           /\ Len(s) \in Nat /\ Len(t) \in Nat
           /\ HoldsAt(Cat(s, t), 0, s) /\ HoldsAt(Cat(s, t), Len(s), t)
  <1>1. /\ s \o t \in Seq(Bytes) /\ Len(s \o t) = Len(s) + Len(t)
        /\ DOMAIN (s \o t) = 1..(Len(s) + Len(t))
        /\ Len(s) \in Nat /\ Len(t) \in Nat
    OBVIOUS
  <1>2. \A i \in 1..(Len(s) + Len(t)) :
            (s \o t)[i] = IF i <= Len(s) THEN s[i] ELSE t[i - Len(s)]
    OBVIOUS
  <1>3. PICK z : z = s \o t
    OBVIOUS
  <1>4. HoldsAt(z, 0, s)
    <2> SUFFICES ASSUME NEW k \in 1..Len(s) PROVE 0 + k \in DOMAIN z /\ z[0 + k] = s[k]
      BY DEF HoldsAt
    <2>1. 0 + k = k /\ k \in 1..(Len(s) + Len(t)) /\ k <= Len(s)
      BY <1>1
    <2> QED BY <1>1, <1>2, <1>3, <2>1
  <1>5. HoldsAt(z, Len(s), t)
    <2> SUFFICES ASSUME NEW k \in 1..Len(t)
                 PROVE  Len(s) + k \in DOMAIN z /\ z[Len(s) + k] = t[k]
      BY DEF HoldsAt
    <2>1. /\ Len(s) + k \in 1..(Len(s) + Len(t)) /\ ~(Len(s) + k <= Len(s))
          /\ (Len(s) + k) - Len(s) = k
      BY <1>1
    <2> QED BY <1>1, <1>2, <1>3, <2>1
  <1> QED BY <1>1, <1>3, <1>4, <1>5 DEF Cat

\* What lies in a part lies in the whole, as far behind as the part does.
LEMMA HoldsDeeper ==
    ASSUME NEW z \in Seq(Bytes), NEW t \in Seq(Bytes), NEW x \in Seq(Bytes),
           NEW a \in Nat, NEW b \in Nat, HoldsAt(z, a, t), HoldsAt(t, b, x)
    PROVE  HoldsAt(z, a + b, x)
  <1> SUFFICES ASSUME NEW k \in 1..Len(x)
               PROVE  (a + b) + k \in DOMAIN z /\ z[(a + b) + k] = x[k]
    BY DEF HoldsAt
  <1>0. DOMAIN t = 1..Len(t)
    OBVIOUS
  <1>1. b + k \in 1..Len(t) /\ t[b + k] = x[k]
    BY <1>0 DEF HoldsAt
  <1>2. a + (b + k) \in DOMAIN z /\ z[a + (b + k)] = t[b + k]
    BY <1>1 DEF HoldsAt
  <1>3. a + (b + k) = (a + b) + k
    OBVIOUS
  <1> QED BY <1>1, <1>2, <1>3

\* A number of w bytes.
LEMMA NumberBytes ==
    ASSUME NEW v \in Int, NEW w \in Nat
    PROVE  /\ Number(v, w) \in Seq(Bytes) /\ Len(Number(v, w)) = w
           /\ \A k \in 1..w : Number(v, w)[k] = <<v, k>>
  <1>1. \A k \in 1..w : <<v, k>> \in Bytes
    BY DEF Bytes
  <1> QED BY <1>1 DEF Number

\* A number is read back from where it lies.
LEMMA NumberReadBack ==
    ASSUME NEW buffer, NEW at \in Nat, NEW v \in Int, NEW w \in Nat \ {0},
           HoldsAt(buffer, at, Number(v, w))
    PROVE  NumberAt(buffer, at, w) = v
  <1> DEFINE bytes == [k \in 1..w |-> buffer[at + k]]
  <1>1. \A k \in 1..w : bytes[k] = <<v, k>>
    BY NumberBytes DEF HoldsAt
  <1>2. bytes = Number(v, w)
    BY <1>1 DEF Number
  <1>3. bytes[1][1] = v
    BY <1>1
  <1> HIDE DEF bytes
  <1>4. NumberAt(buffer, at, w) = IF bytes = Number(bytes[1][1], w) THEN bytes[1][1] ELSE -1
    BY DEF NumberAt, bytes
  <1> QED BY <1>2, <1>3, <1>4

\* Data are read back from where they lie.
LEMMA BytesReadBack ==
    ASSUME NEW buffer, NEW at \in Nat, NEW data \in Seq(Bytes), HoldsAt(buffer, at, data)
    PROVE  BytesAt(buffer, at, Len(data)) = data
  <1>1. \A k \in 1..Len(data) : at + k \in DOMAIN buffer /\ buffer[at + k] = data[k]
    BY DEF HoldsAt
  <1>2. DOMAIN data = 1..Len(data) /\ data = [k \in 1..Len(data) |-> data[k]]
    OBVIOUS
  <1>3. BytesAt(buffer, at, Len(data)) = [k \in 1..Len(data) |-> data[k]]
    BY <1>1 DEF BytesAt
  <1> QED BY <1>2, <1>3

-------------------------------------------------------------------------------
(* The layout of a datagram. *)

Headed(m, body) ==
    Cat(Cat(Cat(Number(GetSize(m), 4), Number(m.type, 4)), Number(m.uid, 8)), body)

\* Two sequences, the length of the first being known.
LEMMA Behind ==
    ASSUME NEW s \in Seq(Bytes), NEW t \in Seq(Bytes), NEW n \in Nat, Len(s) = n
    PROVE  /\ Cat(s, t) \in Seq(Bytes) /\ Len(Cat(s, t)) = n + Len(t)
           /\ HoldsAt(Cat(s, t), 0, s) /\ HoldsAt(Cat(s, t), n, t)
  BY ConcatParts, Zenon

\* What lies in the first of two sequences.
LEMMA InFront ==
    ASSUME NEW s \in Seq(Bytes), NEW t \in Seq(Bytes), NEW x \in Seq(Bytes),
           NEW b \in Nat, HoldsAt(s, b, x)
    PROVE  HoldsAt(Cat(s, t), b, x)
  <1>1. Cat(s, t) \in Seq(Bytes) /\ HoldsAt(Cat(s, t), 0, s)
    BY ConcatParts
  <1>2. 0 \in Nat /\ 0 + b = b
    OBVIOUS
  <1>3. HoldsAt(Cat(s, t), 0 + b, x)
    BY <1>1, <1>2, HoldsDeeper, Zenon
  <1> QED BY <1>2, <1>3, Zenon

\* Two numbers.
LEMMA TwoNumbers ==
    ASSUME NEW u \in Int, NEW v \in Int, NEW i \in Nat, NEW j \in Nat
    PROVE  LET z == Cat(Number(u, i), Number(v, j))
           IN  /\ z \in Seq(Bytes) /\ Len(z) = i + j
               /\ HoldsAt(z, 0, Number(u, i)) /\ HoldsAt(z, i, Number(v, j))
  <1>1. /\ Number(u, i) \in Seq(Bytes) /\ Len(Number(u, i)) = i
        /\ Number(v, j) \in Seq(Bytes) /\ Len(Number(v, j)) = j
    BY NumberBytes, Zenon
  <1>2. /\ Cat(Number(u, i), Number(v, j)) \in Seq(Bytes)
        /\ Len(Cat(Number(u, i), Number(v, j))) = i + Len(Number(v, j))
        /\ HoldsAt(Cat(Number(u, i), Number(v, j)), 0, Number(u, i))
        /\ HoldsAt(Cat(Number(u, i), Number(v, j)), i, Number(v, j))
    BY <1>1, Behind, Zenon
  <1> QED BY <1>1, <1>2, Zenon

\* Two numbers and what follows them.
LEMMA TwoNumbersAndData ==
    ASSUME NEW u \in Int, NEW v \in Int, NEW i \in Nat, NEW j \in Nat, NEW data \in Seq(Bytes)
    PROVE  LET z == Cat(Cat(Number(u, i), Number(v, j)), data)
           IN  /\ z \in Seq(Bytes) /\ Len(z) = (i + j) + Len(data)
               /\ HoldsAt(z, 0, Number(u, i)) /\ HoldsAt(z, i, Number(v, j))
               /\ HoldsAt(z, i + j, data)
  <1>1. PICK n \in Seq(Bytes) : /\ n = Cat(Number(u, i), Number(v, j)) /\ Len(n) = i + j
                                /\ HoldsAt(n, 0, Number(u, i)) /\ HoldsAt(n, i, Number(v, j))
    BY TwoNumbers, Zenon
  <1>2. i + j \in Nat /\ 0 \in Nat
    OBVIOUS
  <1>3. /\ Cat(n, data) \in Seq(Bytes) /\ Len(Cat(n, data)) = (i + j) + Len(data)
        /\ HoldsAt(Cat(n, data), i + j, data)
    BY <1>1, <1>2, Behind, Zenon
  <1>4. Number(u, i) \in Seq(Bytes) /\ Number(v, j) \in Seq(Bytes)
    BY NumberBytes, Zenon
  <1>5. HoldsAt(Cat(n, data), 0, Number(u, i)) /\ HoldsAt(Cat(n, data), i, Number(v, j))
    BY <1>1, <1>2, <1>4, InFront, Zenon
  <1> QED BY <1>1, <1>3, <1>5, Zenon

\* The base class writes size, type and uid in front of what a class adds.
LEMMA HeaderLayout ==
    ASSUME NEW m, GetSize(m) \in Int, m.type \in Int, m.uid \in Int, NEW body \in Seq(Bytes)
    PROVE  /\ Headed(m, body) \in Seq(Bytes) /\ Len(Headed(m, body)) = 16 + Len(body)
           /\ HoldsAt(Headed(m, body), 0, Number(GetSize(m), 4))
           /\ HoldsAt(Headed(m, body), 4, Number(m.type, 4))
           /\ HoldsAt(Headed(m, body), 8, Number(m.uid, 8))
           /\ HoldsAt(Headed(m, body), 16, body)
  <1> DEFINE a == Number(GetSize(m), 4)
             b == Number(m.type, 4)
             c == Number(m.uid, 8)
  <1>1. /\ a \in Seq(Bytes) /\ b \in Seq(Bytes) /\ c \in Seq(Bytes) /\ Len(c) = 8
    BY NumberBytes
  <1>2. PICK h \in Seq(Bytes) :
            /\ h = Cat(Cat(a, b), c) /\ Len(h) = 16
            /\ HoldsAt(h, 0, a) /\ HoldsAt(h, 4, b) /\ HoldsAt(h, 8, c)
    <2> HIDE DEF c
    <2>1. PICK u \in Int, v \in Int : u = GetSize(m) /\ v = m.type
      OBVIOUS
    <2>2. \A i, j \in Nat : LET z == Cat(Cat(Number(u, i), Number(v, j)), c)
                            IN  /\ z \in Seq(Bytes) /\ Len(z) = (i + j) + Len(c)
                                /\ HoldsAt(z, 0, Number(u, i)) /\ HoldsAt(z, i, Number(v, j))
                                /\ HoldsAt(z, i + j, c)
      BY <1>1, TwoNumbersAndData, Zenon
    <2>3. /\ Cat(Cat(a, b), c) \in Seq(Bytes) /\ Len(Cat(Cat(a, b), c)) = (4 + 4) + 8
          /\ HoldsAt(Cat(Cat(a, b), c), 0, a) /\ HoldsAt(Cat(Cat(a, b), c), 4, b)
          /\ HoldsAt(Cat(Cat(a, b), c), 4 + 4, c)
      BY <1>1, <2>1, <2>2
    <2> HIDE DEF a, b
    <2> QED BY <2>3
  <1> HIDE DEF a, b, c
  <1>3. 0 \in Nat /\ 4 \in Nat /\ 8 \in Nat /\ 16 \in Nat
    OBVIOUS
  <1>4. /\ Cat(h, body) \in Seq(Bytes) /\ Len(Cat(h, body)) = 16 + Len(body)
        /\ HoldsAt(Cat(h, body), 16, body)
    BY <1>2, <1>3, Behind, Zenon
  <1>5. /\ HoldsAt(Cat(h, body), 0, a) /\ HoldsAt(Cat(h, body), 4, b)
        /\ HoldsAt(Cat(h, body), 8, c)
    BY <1>1, <1>2, <1>3, InFront, Zenon
  <1>6. Cat(h, body) = Headed(m, body)
    BY <1>2, Zenon DEF Headed, a, b, c
  <1> QED BY <1>4, <1>5, <1>6, Zenon DEF a, b, c

\* The data of a message.
LEMMA DataBytes ==
    ASSUME NEW uid \in Nat, NEW length \in Nat
    PROVE  /\ Payload(uid, length) \in Seq(Bytes) /\ Len(Payload(uid, length)) = length
           /\ FailedData(length) \in Seq(Bytes) /\ Len(FailedData(length)) = length
  <1>1. \A k \in 1..length : <<uid, -k>> \in Bytes /\ Garbage \in Bytes
    BY DEF Bytes, Garbage
  <1>2. Payload(uid, length) \in [1..length -> Bytes] /\ FailedData(length) \in [1..length -> Bytes]
    BY <1>1 DEF Payload, FailedData
  <1> QED BY <1>2, LenProperties

\* What the classes' constructors put in the fields.
LEMMA ReadSendFields ==
    ASSUME NEW uid, NEW offset, NEW length, NEW m, m = MessageReadSend(uid, offset, length)
    PROVE  m.type = 0 /\ m.uid = uid /\ m.offset = offset /\ m.length = length
  BY DEF MessageReadSend, AMessage, READ_SEND

\* The fields of a write command.
LEMMA WriteSendFields ==
    ASSUME NEW uid, NEW offset, NEW length, NEW data, NEW m,
           m = MessageWriteSend(uid, offset, length, data)
    PROVE  /\ m.type = 1 /\ m.uid = uid /\ m.offset = offset /\ m.length = length
           /\ m.data = data
  BY DEF MessageWriteSend, AMessage, WRITE_SEND

\* The fields of the answer to a read.
LEMMA ReadReceiveFields ==
    ASSUME NEW uid, NEW result, NEW length, NEW data, NEW m,
           m = MessageReadReceive(uid, result, length, data)
    PROVE  /\ m.type = 2 /\ m.uid = uid /\ m.result = result /\ m.length = length
           /\ m.data = data
  BY DEF MessageReadReceive, AMessage, READ_RECEIVE

\* The fields of the answer to a write.
LEMMA WriteReceiveFields ==
    ASSUME NEW uid, NEW result, NEW m, m = MessageWriteReceive(uid, result)
    PROVE  m.type = 3 /\ m.uid = uid /\ m.result = result
  BY DEF MessageWriteReceive, AMessage, WRITE_RECEIVE

\* The encoding z of m begins with m's header and is as long as it says.
HeaderOf(z, m) ==
    /\ z \in Seq(Bytes) /\ Len(z) = GetSize(m) /\ GetSize(m) \in Nat /\ GetSize(m) > 16
    /\ HoldsAt(z, 0, Number(GetSize(m), 4)) /\ HoldsAt(z, 4, Number(m.type, 4))
    /\ HoldsAt(z, 8, Number(m.uid, 8))

\* A datagram is its header and what the class adds.
LEMMA Encoded ==
    ASSUME NEW m, m.type \in Int, m.uid \in Int, NEW body \in Seq(Bytes), Len(body) > 0,
           GetSize(m) = 16 + Len(body), ToBuffer(m) = Headed(m, body)
    PROVE  /\ HeaderOf(ToBuffer(m), m)
           /\ \A at \in Nat, x \in Seq(Bytes) :
                  HoldsAt(body, at, x) => HoldsAt(ToBuffer(m), 16 + at, x)
  <1>1. GetSize(m) \in Nat /\ GetSize(m) \in Int /\ GetSize(m) > 16
    OBVIOUS
  <1>2. /\ Headed(m, body) \in Seq(Bytes) /\ Len(Headed(m, body)) = 16 + Len(body)
        /\ HoldsAt(Headed(m, body), 0, Number(GetSize(m), 4))
        /\ HoldsAt(Headed(m, body), 4, Number(m.type, 4))
        /\ HoldsAt(Headed(m, body), 8, Number(m.uid, 8))
        /\ HoldsAt(Headed(m, body), 16, body)
    BY <1>1, HeaderLayout, Zenon
  <1>3. HeaderOf(ToBuffer(m), m)
    BY <1>1, <1>2, Zenon DEF HeaderOf
  <1>4. 16 \in Nat
    OBVIOUS
  <1>5. \A at \in Nat, x \in Seq(Bytes) :
            HoldsAt(body, at, x) => HoldsAt(ToBuffer(m), 16 + at, x)
    BY <1>2, <1>4, HoldsDeeper, Zenon
  <1> QED BY <1>3, <1>5

\* MessageReadSend::ToBuffer.
LEMMA ReadSendLayout ==
    ASSUME NEW m, IsReadSend(m)
    PROVE  /\ HeaderOf(ToBuffer(m), m)
           /\ HoldsAt(ToBuffer(m), 16, Number(m.offset, 8))
           /\ HoldsAt(ToBuffer(m), 24, Number(m.length, 8))
           /\ m.type = 0 /\ m.uid \in Nat /\ m.offset \in Nat /\ m.length \in Nat
           /\ m = MessageReadSend(m.uid, m.offset, m.length)
  <1>0. PICK uid \in Uids, offset \in Offsets, length \in ReadLengths :
            m = MessageReadSend(uid, offset, length)
    BY DEF IsReadSend
  <1>1. /\ m.type = 0 /\ m.uid \in Nat /\ m.offset \in Nat /\ m.length \in Nat
        /\ m = MessageReadSend(m.uid, m.offset, m.length)
    <2>1. m.type = 0 /\ m.uid = uid /\ m.offset = offset /\ m.length = length
      BY <1>0, ReadSendFields
    <2>2. m = MessageReadSend(m.uid, m.offset, m.length)
      BY <1>0, <2>1, Zenon
    <2> QED BY <2>1, <2>2, MessagesAssumption
  <1>2. GetSize(m) = 32
    BY <1>1 DEF GetSize, ReadSendSize, BaseSize, READ_SEND, WRITE_SEND, READ_RECEIVE, WRITE_RECEIVE
  <1>3. ToBuffer(m) = Headed(m, ReadSendBody(m))
    BY <1>1 DEF ToBuffer, Headed, Cat, READ_SEND, WRITE_SEND, READ_RECEIVE, WRITE_RECEIVE
  <1>4. PICK u \in Int, v \in Int : u = m.offset /\ v = m.length
    BY <1>1
  <1>5. PICK z \in Seq(Bytes) : /\ z = Cat(Number(u, 8), Number(v, 8)) /\ Len(z) = 8 + 8
                                /\ HoldsAt(z, 0, Number(u, 8)) /\ HoldsAt(z, 8, Number(v, 8))
    BY TwoNumbers
  <1>6. ReadSendBody(m) = z
    BY <1>4, <1>5, Zenon DEF ReadSendBody, Cat
  <1>7. /\ m.type \in Int /\ m.uid \in Int /\ Len(z) > 0 /\ GetSize(m) = 16 + Len(z)
        /\ ToBuffer(m) = Headed(m, z)
    <2>1. Len(z) > 0 /\ GetSize(m) = 16 + Len(z)
      <3>1. Len(z) = 8 + 8
        BY <1>5, Zenon
      <3> QED BY <1>2, <3>1
    <2>2. ToBuffer(m) = Headed(m, z)
      BY <1>3, <1>6, Zenon
    <2> QED BY <1>1, <2>1, <2>2
  <1>8. /\ HeaderOf(ToBuffer(m), m)
        /\ \A at \in Nat, x \in Seq(Bytes) :
               HoldsAt(z, at, x) => HoldsAt(ToBuffer(m), 16 + at, x)
    BY <1>7, Encoded
  <1>9. Number(u, 8) \in Seq(Bytes) /\ Number(v, 8) \in Seq(Bytes)
    BY NumberBytes
  <1>10. HoldsAt(ToBuffer(m), 16 + 0, Number(u, 8)) /\ HoldsAt(ToBuffer(m), 16 + 8, Number(v, 8))
    BY <1>5, <1>8, <1>9
  <1> QED BY <1>1, <1>4, <1>8, <1>10

\* Two numbers and data behind the header.
LEMMA NumbersAndDataLayout ==
    ASSUME NEW m, m.type \in Int, m.uid \in Int, NEW u \in Int, NEW v \in Int,
           NEW i \in Nat \ {0}, NEW j \in Nat, NEW data \in Seq(Bytes),
           NEW body \in Seq(Bytes), HoldsAt(body, 0, Cat(Cat(Number(u, i), Number(v, j)), data)),
           Len(body) > 0, ToBuffer(m) = Headed(m, body), GetSize(m) = 16 + Len(body)
    PROVE  /\ HeaderOf(ToBuffer(m), m)
           /\ HoldsAt(ToBuffer(m), 16, Number(u, i))
           /\ HoldsAt(ToBuffer(m), 16 + i, Number(v, j))
           /\ HoldsAt(ToBuffer(m), 16 + (i + j), data)
  <1>1. PICK z \in Seq(Bytes) :
            /\ z = Cat(Cat(Number(u, i), Number(v, j)), data)
            /\ HoldsAt(z, 0, Number(u, i)) /\ HoldsAt(z, i, Number(v, j))
            /\ HoldsAt(z, i + j, data)
    BY TwoNumbersAndData
  <1>2. i + j \in Nat /\ 0 \in Nat /\ 16 + 0 = 16 /\ \A k \in Nat : 0 + k = k
    OBVIOUS
  <1>3. \A at \in Nat, x \in Seq(Bytes) : HoldsAt(z, at, x) => HoldsAt(body, 0 + at, x)
    BY <1>1, <1>2, HoldsDeeper, Zenon
  <1>4. \A at \in Nat, x \in Seq(Bytes) : HoldsAt(z, at, x) => HoldsAt(body, at, x)
    BY <1>2, <1>3
  <1>5. /\ HeaderOf(ToBuffer(m), m)
        /\ \A at \in Nat, x \in Seq(Bytes) :
               HoldsAt(body, at, x) => HoldsAt(ToBuffer(m), 16 + at, x)
    BY Encoded, Zenon
  <1>6. Number(u, i) \in Seq(Bytes) /\ Number(v, j) \in Seq(Bytes)
    BY NumberBytes
  <1>7. /\ HoldsAt(ToBuffer(m), 16 + 0, Number(u, i))
        /\ HoldsAt(ToBuffer(m), 16 + i, Number(v, j))
        /\ HoldsAt(ToBuffer(m), 16 + (i + j), data)
    BY <1>1, <1>2, <1>4, <1>5, <1>6, Zenon
  <1> QED BY <1>2, <1>5, <1>7, Zenon

\* MessageWriteSend::ToBuffer: the data, and the byte behind them.
LEMMA WriteSendLayout ==
    ASSUME NEW m, IsWriteSend(m)
    PROVE  /\ HeaderOf(ToBuffer(m), m)
           /\ HoldsAt(ToBuffer(m), 16, Number(m.offset, 8))
           /\ HoldsAt(ToBuffer(m), 24, Number(m.length, 8))
           /\ HoldsAt(ToBuffer(m), 32, m.data)
           /\ m.data \in Seq(Bytes) /\ Len(m.data) = m.length
           /\ m.type = 1 /\ m.uid \in Nat /\ m.offset \in Nat /\ m.length \in Nat
           /\ m = MessageWriteSend(m.uid, m.offset, m.length, m.data)
  <1>1. /\ m.type = 1 /\ m.uid \in Nat /\ m.offset \in Nat /\ m.length \in Nat
        /\ m.data = Payload(m.uid, m.length)
        /\ m = MessageWriteSend(m.uid, m.offset, m.length, m.data)
    <2>1. PICK uid \in Uids, offset \in Offsets, length \in WriteLengths :
              m = MessageWriteSend(uid, offset, length, Payload(uid, length))
      BY DEF IsWriteSend
    <2>2. /\ m.type = 1 /\ m.uid = uid /\ m.offset = offset /\ m.length = length
          /\ m.data = Payload(uid, length)
      BY <2>1, WriteSendFields
    <2>3. m = MessageWriteSend(m.uid, m.offset, m.length, m.data)
      BY <2>1, <2>2, Zenon
    <2> QED BY <2>2, <2>3, MessagesAssumption
  <1>2. GetSize(m) = 33 + m.length
    BY <1>1 DEF GetSize, WriteSendSize, BaseSize, READ_SEND, WRITE_SEND, READ_RECEIVE, WRITE_RECEIVE
  <1>3. ToBuffer(m) = Headed(m, WriteSendBody(m))
    BY <1>1 DEF ToBuffer, Headed, Cat, READ_SEND, WRITE_SEND, READ_RECEIVE, WRITE_RECEIVE
  <1>4. m.data \in Seq(Bytes) /\ Len(m.data) = m.length
    BY <1>1, DataBytes
  <1>5. PICK u \in Int, v \in Int, data \in Seq(Bytes) :
            u = m.offset /\ v = m.length /\ data = m.data
    BY <1>1, <1>4
  <1>6. PICK z \in Seq(Bytes) :
            z = Cat(Cat(Number(u, 8), Number(v, 8)), data) /\ Len(z) = (8 + 8) + Len(data)
    BY TwoNumbersAndData
  <1>7. <<Garbage>> \in Seq(Bytes) /\ Len(<<Garbage>>) = 1
    BY DEF Garbage, Bytes
  <1>8. PICK body \in Seq(Bytes) :
            body = Cat(z, <<Garbage>>) /\ Len(body) = Len(z) + 1 /\ HoldsAt(body, 0, z)
    BY <1>7, ConcatParts
  <1>9. WriteSendBody(m) = body
    BY <1>5, <1>6, <1>8, Zenon DEF WriteSendBody, Cat
  <1>10. ToBuffer(m) = Headed(m, body)
    BY <1>3, <1>9, Zenon
  <1>11. Len(body) > 0 /\ GetSize(m) = 16 + Len(body)
    BY <1>1, <1>2, <1>4, <1>5, <1>6, <1>8
  <1>12. /\ HeaderOf(ToBuffer(m), m)
         /\ HoldsAt(ToBuffer(m), 16, Number(u, 8))
         /\ HoldsAt(ToBuffer(m), 16 + 8, Number(v, 8))
         /\ HoldsAt(ToBuffer(m), 16 + (8 + 8), data)
    <2>1. 8 \in Nat \ {0} /\ m.type \in Int /\ m.uid \in Int
      BY <1>1
    <2>2. HoldsAt(body, 0, Cat(Cat(Number(u, 8), Number(v, 8)), data))
      BY <1>6, <1>8, Zenon
    <2> QED BY <1>10, <1>11, <2>1, <2>2, NumbersAndDataLayout
  <1> QED BY <1>1, <1>4, <1>5, <1>12

\* MessageReadReceive::ToBuffer.
LEMMA ReadReceiveLayout ==
    ASSUME NEW m, IsReadReceive(m)
    PROVE  /\ HeaderOf(ToBuffer(m), m)
           /\ HoldsAt(ToBuffer(m), 16, Flag(m.result))
           /\ HoldsAt(ToBuffer(m), 17, Number(m.length, 8))
           /\ HoldsAt(ToBuffer(m), 25, m.data)
           /\ m.data \in Seq(Bytes) /\ Len(m.data) = m.length
           /\ m.type = 2 /\ m.uid \in Nat /\ m.length \in Nat /\ m.result \in BOOLEAN
           /\ m = MessageReadReceive(m.uid, m.result, m.length, m.data)
  <1>0. PICK uid \in Uids, length \in ReadLengths, result \in BOOLEAN :
            \E data \in {Payload(uid, length), FailedData(length)} :
                m = MessageReadReceive(uid, result, length, data)
    BY DEF IsReadReceive
  <1>1. PICK data \in {Payload(uid, length), FailedData(length)} :
            m = MessageReadReceive(uid, result, length, data)
    BY <1>0
  <1>2. uid \in Nat /\ length \in Nat
    BY MessagesAssumption
  <1>3. data \in Seq(Bytes) /\ Len(data) = length
    BY <1>2, DataBytes
  <1>4. /\ m.type = 2 /\ m.uid = uid /\ m.result = result /\ m.length = length
        /\ m.data = data
    BY <1>1, ReadReceiveFields
  <1>5. GetSize(m) = 25 + length
    BY <1>2, <1>4
       DEF GetSize, ReadReceiveSize, BaseSize, READ_SEND, WRITE_SEND, READ_RECEIVE, WRITE_RECEIVE
  <1>6. ToBuffer(m) = Headed(m, ReadReceiveBody(m))
    BY <1>4 DEF ToBuffer, Headed, Cat, READ_SEND, WRITE_SEND, READ_RECEIVE, WRITE_RECEIVE
  <1>7. PICK f \in Int : f = IF result THEN 1 ELSE 0
    OBVIOUS
  <1>8. PICK z \in Seq(Bytes) :
            z = Cat(Cat(Number(f, 1), Number(length, 8)), data) /\ Len(z) = (1 + 8) + Len(data)
    <2>1. length \in Int /\ 1 \in Nat /\ 8 \in Nat
      BY <1>2
    <2>2. PICK v \in Int : v = length
      BY <2>1
    <2>3. \A i, j \in Nat : LET y == Cat(Cat(Number(f, i), Number(v, j)), data)
                            IN  y \in Seq(Bytes) /\ Len(y) = (i + j) + Len(data)
      BY <1>3, TwoNumbersAndData, Zenon
    <2> QED BY <2>1, <2>2, <2>3
  <1>9. ReadReceiveBody(m) = z
    BY <1>4, <1>7, <1>8, Zenon DEF ReadReceiveBody, Flag, Cat
  <1>10. ToBuffer(m) = Headed(m, z)
    BY <1>6, <1>9, Zenon
  <1>11. Len(z) > 0 /\ GetSize(m) = 16 + Len(z)
    <2>1. Len(z) = (1 + 8) + length
      BY <1>3, <1>8, Zenon
    <2> QED BY <1>2, <1>5, <2>1
  <1>12. HoldsAt(z, 0, z)
    BY DEF HoldsAt
  <1>13. /\ HeaderOf(ToBuffer(m), m)
         /\ HoldsAt(ToBuffer(m), 16, Number(f, 1))
         /\ HoldsAt(ToBuffer(m), 16 + 1, Number(length, 8))
         /\ HoldsAt(ToBuffer(m), 16 + (1 + 8), data)
    <2>1. /\ 8 \in Nat /\ 1 \in Nat \ {0} /\ m.type \in Int /\ m.uid \in Int
          /\ length \in Int
      BY <1>2, <1>4
    <2>2. HoldsAt(z, 0, Cat(Cat(Number(f, 1), Number(length, 8)), data))
      BY <1>8, <1>12, Zenon
    <2> QED BY <1>3, <1>10, <1>11, <2>1, <2>2, NumbersAndDataLayout, Zenon
  <1>14. Flag(m.result) = Number(f, 1)
    BY <1>4, <1>7, Zenon DEF Flag
  <1>15. m = MessageReadReceive(m.uid, m.result, m.length, m.data)
    BY <1>1, <1>4, Zenon
  <1> QED BY <1>2, <1>3, <1>4, <1>13, <1>14, <1>15

\* MessageWriteReceive::ToBuffer.
LEMMA WriteReceiveLayout ==
    ASSUME NEW m, IsWriteReceive(m)
    PROVE  /\ HeaderOf(ToBuffer(m), m)
           /\ HoldsAt(ToBuffer(m), 16, Flag(m.result))
           /\ m.type = 3 /\ m.uid \in Nat /\ m.result \in BOOLEAN
           /\ m = MessageWriteReceive(m.uid, m.result)
  <1>1. PICK uid \in Uids, result \in BOOLEAN : m = MessageWriteReceive(uid, result)
    BY DEF IsWriteReceive
  <1>2. uid \in Nat
    BY MessagesAssumption
  <1>3. m.type = 3 /\ m.uid = uid /\ m.result = result
    BY <1>1, WriteReceiveFields
  <1>4. GetSize(m) = 17
    BY <1>3
       DEF GetSize, WriteReceiveSize, BaseSize, READ_SEND, WRITE_SEND, READ_RECEIVE, WRITE_RECEIVE
  <1>5. ToBuffer(m) = Headed(m, WriteReceiveBody(m))
    BY <1>3 DEF ToBuffer, Headed, Cat, READ_SEND, WRITE_SEND, READ_RECEIVE, WRITE_RECEIVE
  <1>6. PICK f \in Int : f = IF result THEN 1 ELSE 0
    OBVIOUS
  <1>7. PICK z \in Seq(Bytes) : z = Number(f, 1) /\ Len(z) = 1
    BY NumberBytes
  <1>8. Flag(m.result) = z /\ WriteReceiveBody(m) = z
    BY <1>3, <1>6, <1>7, Zenon DEF Flag, WriteReceiveBody
  <1>9. ToBuffer(m) = Headed(m, z)
    BY <1>5, <1>8, Zenon
  <1>10. /\ m.type \in Int /\ m.uid \in Int /\ Len(z) > 0 /\ GetSize(m) = 16 + Len(z)
         /\ 0 \in Nat
    <2>1. Len(z) = 1
      BY <1>7, Zenon
    <2> QED BY <1>2, <1>3, <1>4, <2>1
  <1>11. HoldsAt(z, 0, z)
    BY DEF HoldsAt
  <1>12. HeaderOf(ToBuffer(m), m) /\ HoldsAt(ToBuffer(m), 16 + 0, z)
    <2>1. /\ HeaderOf(ToBuffer(m), m)
          /\ \A at \in Nat, x \in Seq(Bytes) :
                 HoldsAt(z, at, x) => HoldsAt(ToBuffer(m), 16 + at, x)
      BY <1>9, <1>10, Encoded, Zenon
    <2> QED BY <1>10, <1>11, <2>1, Zenon
  <1>13. m = MessageWriteReceive(m.uid, m.result)
    BY <1>1, <1>3, Zenon
  <1> QED BY <1>2, <1>3, <1>8, <1>12, <1>13

\* Whatever its class, a message is encoded behind its header.
LEMMA MessageLayout ==
    ASSUME NEW m, IsMessage(m)
    PROVE  HeaderOf(ToBuffer(m), m) /\ m.uid \in Nat /\ m.type \in 0..3
  <1>1. CASE IsReadSend(m)
    BY <1>1, ReadSendLayout
  <1>2. CASE IsWriteSend(m)
    BY <1>2, WriteSendLayout
  <1>3. CASE IsReadReceive(m)
    BY <1>3, ReadReceiveLayout
  <1>4. CASE IsWriteReceive(m)
    BY <1>4, WriteReceiveLayout
  <1> QED BY <1>1, <1>2, <1>3, <1>4 DEF IsMessage

-------------------------------------------------------------------------------
(* Decoding. *)

\* A flag is read back.
LEMMA FlagReadBack ==
    ASSUME NEW buffer, NEW at \in Nat, NEW result \in BOOLEAN, HoldsAt(buffer, at, Flag(result))
    PROVE  (NumberAt(buffer, at, 1) # 0) = result
  <1>1. PICK f \in Int : f = IF result THEN 1 ELSE 0
    OBVIOUS
  <1>2. HoldsAt(buffer, at, Number(f, 1))
    BY <1>1, Zenon DEF Flag
  <1>3. NumberAt(buffer, at, 1) = f
    BY <1>2, NumberReadBack
  <1> QED BY <1>1, <1>3

\* Type and uid are read back from a buffer that begins with the encoding.
LEMMA HeaderReadBack ==
    ASSUME NEW m, IsMessage(m), NEW buffer \in Seq(Bytes), HoldsAt(buffer, 0, ToBuffer(m))
    PROVE  /\ NumberAt(buffer, 0, 4) = GetSize(m) /\ NumberAt(buffer, 4, 4) = m.type
           /\ UidOf(buffer) = m.uid
           /\ \A at \in Nat, x \in Seq(Bytes) :
                  HoldsAt(ToBuffer(m), at, x) => HoldsAt(buffer, at, x)
  <1>1. /\ ToBuffer(m) \in Seq(Bytes) /\ GetSize(m) \in Nat
        /\ HoldsAt(ToBuffer(m), 0, Number(GetSize(m), 4))
        /\ HoldsAt(ToBuffer(m), 4, Number(m.type, 4))
        /\ HoldsAt(ToBuffer(m), 8, Number(m.uid, 8)) /\ m.uid \in Nat /\ m.type \in 0..3
    BY MessageLayout DEF HeaderOf
  <1>2. ASSUME NEW at \in Nat, NEW x \in Seq(Bytes), HoldsAt(ToBuffer(m), at, x)
        PROVE  HoldsAt(buffer, at, x)
    <2>1. 0 \in Nat /\ 0 + at = at
      OBVIOUS
    <2>2. HoldsAt(buffer, 0 + at, x)
      BY <1>1, <1>2, <2>1, HoldsDeeper, Zenon
    <2> QED BY <2>1, <2>2, Zenon
  <1>3. PICK u \in Int, v \in Int, w \in Int : u = GetSize(m) /\ v = m.type /\ w = m.uid
    BY <1>1
  <1>4. /\ Number(u, 4) \in Seq(Bytes) /\ Number(v, 4) \in Seq(Bytes)
        /\ Number(w, 8) \in Seq(Bytes)
    BY NumberBytes
  <1>5. /\ HoldsAt(buffer, 0, Number(u, 4)) /\ HoldsAt(buffer, 4, Number(v, 4))
        /\ HoldsAt(buffer, 8, Number(w, 8))
    BY <1>1, <1>2, <1>3, <1>4
  <1>6. NumberAt(buffer, 0, 4) = u /\ NumberAt(buffer, 4, 4) = v /\ NumberAt(buffer, 8, 8) = w
    BY <1>5, NumberReadBack
  <1> QED BY <1>2, <1>3, <1>6 DEF UidOf

\* FromBuffer gives back the message whose encoding the buffer begins with, whatever is
\* behind it.
LEMMA Decoded ==
    ASSUME NEW m, IsMessage(m), NEW buffer \in Seq(Bytes), HoldsAt(buffer, 0, ToBuffer(m))
    PROVE  FromBuffer(buffer) = m
  <1>1. /\ NumberAt(buffer, 4, 4) = m.type /\ UidOf(buffer) = m.uid
        /\ \A at \in Nat, x \in Seq(Bytes) :
               HoldsAt(ToBuffer(m), at, x) => HoldsAt(buffer, at, x)
    BY HeaderReadBack
  <1>2. \A u \in Int : Number(u, 8) \in Seq(Bytes) /\ Number(u, 1) \in Seq(Bytes)
    BY NumberBytes
  <1>3. ASSUME NEW u \in Nat, NEW at \in Nat, HoldsAt(ToBuffer(m), at, Number(u, 8))
        PROVE  NumberAt(buffer, at, 8) = u
    <2>1. HoldsAt(buffer, at, Number(u, 8))
      BY <1>1, <1>2, <1>3
    <2> QED BY <2>1, NumberReadBack
  <1>4. ASSUME NEW result \in BOOLEAN, HoldsAt(ToBuffer(m), 16, Flag(result))
        PROVE  (NumberAt(buffer, 16, 1) # 0) = result
    <2>1. Flag(result) \in Seq(Bytes)
      <3>1. PICK f \in Int : f = IF result THEN 1 ELSE 0
        OBVIOUS
      <3> QED BY <1>2, <3>1, Zenon DEF Flag
    <2>2. HoldsAt(buffer, 16, Flag(result))
      BY <1>1, <1>4, <2>1
    <2> QED BY <2>2, FlagReadBack
  <1>5. ASSUME NEW data \in Seq(Bytes), NEW at \in Nat, HoldsAt(ToBuffer(m), at, data)
        PROVE  BytesAt(buffer, at, Len(data)) = data
    BY <1>1, <1>5, BytesReadBack
  <1>6. CASE IsReadSend(m)
    <2>1. /\ HoldsAt(ToBuffer(m), 16, Number(m.offset, 8))
          /\ HoldsAt(ToBuffer(m), 24, Number(m.length, 8))
          /\ m.type = 0 /\ m.offset \in Nat /\ m.length \in Nat
          /\ m = MessageReadSend(m.uid, m.offset, m.length)
      BY <1>6, ReadSendLayout
    <2>2. NumberAt(buffer, 16, 8) = m.offset /\ NumberAt(buffer, 24, 8) = m.length
      BY <1>3, <2>1
    <2>3. FromBuffer(buffer) = ReadSendFromBuffer(buffer)
      BY <1>1, <2>1 DEF FromBuffer, READ_SEND, WRITE_SEND, READ_RECEIVE, WRITE_RECEIVE
    <2> QED BY <1>1, <2>1, <2>2, <2>3, Zenon DEF ReadSendFromBuffer
  <1>7. CASE IsWriteSend(m)
    <2>1. /\ HoldsAt(ToBuffer(m), 16, Number(m.offset, 8))
          /\ HoldsAt(ToBuffer(m), 24, Number(m.length, 8))
          /\ HoldsAt(ToBuffer(m), 32, m.data)
          /\ m.data \in Seq(Bytes) /\ Len(m.data) = m.length
          /\ m.type = 1 /\ m.offset \in Nat /\ m.length \in Nat
          /\ m = MessageWriteSend(m.uid, m.offset, m.length, m.data)
      BY <1>7, WriteSendLayout
    <2>2. NumberAt(buffer, 16, 8) = m.offset /\ NumberAt(buffer, 24, 8) = m.length
      BY <1>3, <2>1
    <2>3. BytesAt(buffer, 32, m.length) = m.data
      BY <1>5, <2>1
    <2>4. FromBuffer(buffer) = WriteSendFromBuffer(buffer)
      BY <1>1, <2>1 DEF FromBuffer, READ_SEND, WRITE_SEND, READ_RECEIVE, WRITE_RECEIVE
    <2> QED BY <1>1, <2>1, <2>2, <2>3, <2>4, Zenon DEF WriteSendFromBuffer
  <1>8. CASE IsReadReceive(m)
    <2>1. /\ HoldsAt(ToBuffer(m), 16, Flag(m.result))
          /\ HoldsAt(ToBuffer(m), 17, Number(m.length, 8))
          /\ HoldsAt(ToBuffer(m), 25, m.data)
          /\ m.data \in Seq(Bytes) /\ Len(m.data) = m.length
          /\ m.type = 2 /\ m.length \in Nat /\ m.result \in BOOLEAN
          /\ m = MessageReadReceive(m.uid, m.result, m.length, m.data)
      BY <1>8, ReadReceiveLayout
    <2>2. NumberAt(buffer, 17, 8) = m.length /\ (NumberAt(buffer, 16, 1) # 0) = m.result
      BY <1>3, <1>4, <2>1
    <2>3. BytesAt(buffer, 25, m.length) = m.data
      BY <1>5, <2>1
    <2>4. FromBuffer(buffer) = ReadReceiveFromBuffer(buffer)
      BY <1>1, <2>1 DEF FromBuffer, READ_SEND, WRITE_SEND, READ_RECEIVE, WRITE_RECEIVE
    <2> QED BY <1>1, <2>1, <2>2, <2>3, <2>4, Zenon DEF ReadReceiveFromBuffer
  <1>9. CASE IsWriteReceive(m)
    <2>1. /\ HoldsAt(ToBuffer(m), 16, Flag(m.result)) /\ m.type = 3 /\ m.result \in BOOLEAN
          /\ m = MessageWriteReceive(m.uid, m.result)
      BY <1>9, WriteReceiveLayout
    <2>2. (NumberAt(buffer, 16, 1) # 0) = m.result
      BY <1>4, <2>1
    <2>3. FromBuffer(buffer) = WriteReceiveFromBuffer(buffer)
      BY <1>1, <2>1 DEF FromBuffer, READ_SEND, WRITE_SEND, READ_RECEIVE, WRITE_RECEIVE
    <2> QED BY <1>1, <2>1, <2>2, <2>3, Zenon DEF WriteReceiveFromBuffer
  <1> QED BY <1>6, <1>7, <1>8, <1>9 DEF IsMessage

-------------------------------------------------------------------------------
(* Receive buffers. *)

\* What a receive buffer may hold.
IsStack(stack) == stack \in Seq(Bytes) /\ Len(stack) = BufSize

\* How much recvfrom takes of a datagram.
LEMMA MinOfTwo ==
    ASSUME NEW a \in Int, NEW b \in Int
    PROVE  Min({a, b}) = IF a <= b THEN a ELSE b
  <1> DEFINE c == IF a <= b THEN a ELSE b
  <1>1. c \in {a, b} /\ \A y \in {a, b} : c <= y
    OBVIOUS
  <1>2. \A x \in {a, b} : (\A y \in {a, b} : x <= y) => x = c
    OBVIOUS
  <1> HIDE DEF c
  <1>3. Min({a, b}) = CHOOSE x \in {a, b} : \A y \in {a, b} : x <= y
    BY DEF Min
  <1>4. Min({a, b}) = c
    BY <1>1, <1>2, <1>3, Zenon
  <1> QED BY <1>4 DEF c

\* recvfrom replaces the front of the buffer by the front of the datagram.
LEMMA Reception ==
    ASSUME NEW datagram \in Seq(Bytes), NEW stack, IsStack(stack)
    PROVE  /\ IsStack(ReceiveFrom(datagram, stack))
           /\ \A k \in 1..Min({Len(datagram), BufSize - 1}) :
                  ReceiveFrom(datagram, stack)[k] = datagram[k]
  <1>1. PICK n : n = Min({Len(datagram), BufSize - 1})
    OBVIOUS
  <1>2. Len(datagram) \in Nat /\ BufSize \in Nat /\ BufSize > 8
    BY MessagesAssumption
  <1>3. n \in Nat /\ n <= Len(datagram) /\ n < BufSize
    BY <1>1, <1>2, MinOfTwo
  <1>4. PICK x : x = SubSeq(datagram, 1, n)
    OBVIOUS
  <1>5. PICK y : y = SubSeq(stack, n + 1, BufSize)
    OBVIOUS
  <1>6. x \in Seq(Bytes) /\ Len(x) = n /\ \A k \in 1..n : x[k] = datagram[k]
    <2>1. \A k \in 1..n : datagram[k] \in Bytes
      BY <1>2, <1>3
    <2> QED BY <1>2, <1>3, <1>4, <2>1, SubSeqProperties
  <1>7. y \in Seq(Bytes) /\ Len(y) = BufSize - n
    <2>1. \A k \in (n + 1)..BufSize : stack[k] \in Bytes
      BY <1>2, <1>3 DEF IsStack
    <2> QED BY <1>2, <1>3, <1>5, <2>1, SubSeqProperties DEF IsStack
  <1>8. ReceiveFrom(datagram, stack) = Cat(x, y)
    BY <1>1, <1>4, <1>5, Zenon DEF ReceiveFrom, Cat
  <1>9. Cat(x, y) \in Seq(Bytes) /\ Len(Cat(x, y)) = Len(x) + Len(y) /\ HoldsAt(Cat(x, y), 0, x)
    BY <1>6, <1>7, ConcatParts
  <1>10. IsStack(Cat(x, y))
    BY <1>2, <1>3, <1>6, <1>7, <1>9 DEF IsStack
  <1>11. ASSUME NEW k \in 1..n PROVE Cat(x, y)[k] = datagram[k]
    <2>1. k \in 1..Len(x) /\ 0 + k = k
      BY <1>3, <1>6
    <2>2. Cat(x, y)[0 + k] = x[k]
      BY <1>9, <2>1 DEF HoldsAt
    <2> QED BY <1>6, <2>1, <2>2
  <1> QED BY <1>1, <1>8, <1>10, <1>11

\* A message is sent whole.
LEMMA SentWhole ==
    ASSUME NEW m, IsMessage(m)
    PROVE  /\ SendTo(m) = ToBuffer(m) /\ SendTo(m) \in Seq(Bytes)
           /\ Len(SendTo(m)) = GetSize(m) /\ GetSize(m) \in Nat /\ GetSize(m) > 16
  <1>1. PICK z \in Seq(Bytes) : z = ToBuffer(m) /\ Len(z) = GetSize(m)
    BY MessageLayout DEF HeaderOf
  <1>2. GetSize(m) \in Nat /\ GetSize(m) > 16
    BY MessageLayout DEF HeaderOf
  <1>3. SubSeq(z, 1, Len(z)) = z
    BY SubSeqFull
  <1>4. SendTo(m) = z
    BY <1>1, <1>3, Zenon DEF SendTo
  <1> QED BY <1>1, <1>2, <1>4

\* The size is read from the buffer even if the datagram was cut.
LEMMA SizeReadBack ==
    ASSUME NEW m, IsMessage(m), NEW stack, IsStack(stack)
    PROVE  NumberAt(ReceiveFrom(SendTo(m), stack), 0, 4) = GetSize(m)
  <1>1. PICK buffer : buffer = ReceiveFrom(SendTo(m), stack)
    OBVIOUS
  <1>2. /\ SendTo(m) = ToBuffer(m) /\ SendTo(m) \in Seq(Bytes) /\ Len(SendTo(m)) = GetSize(m)
        /\ GetSize(m) \in Nat /\ GetSize(m) > 16
    BY SentWhole
  <1>3. PICK n \in Nat : n = Min({Len(SendTo(m)), BufSize - 1}) /\ n >= 4
    BY <1>2, MinOfTwo, MessagesAssumption
  <1>4. buffer \in Seq(Bytes) /\ Len(buffer) = BufSize /\ \A k \in 1..n : buffer[k] = SendTo(m)[k]
    BY <1>1, <1>2, <1>3, Reception DEF IsStack
  <1>5. PICK v \in Int : v = GetSize(m)
    BY <1>2
  <1>6. HoldsAt(SendTo(m), 0, Number(v, 4))
    BY <1>2, <1>5, MessageLayout DEF HeaderOf
  <1>7. HoldsAt(buffer, 0, Number(v, 4))
    <2>1. Len(Number(v, 4)) = 4
      BY NumberBytes
    <2> SUFFICES ASSUME NEW k \in 1..4
                 PROVE  0 + k \in DOMAIN buffer /\ buffer[0 + k] = Number(v, 4)[k]
      BY <2>1 DEF HoldsAt
    <2>2. SendTo(m)[0 + k] = Number(v, 4)[k]
      BY <1>6, <2>1 DEF HoldsAt
    <2>3. 0 + k = k /\ k \in 1..n /\ k \in 1..BufSize /\ DOMAIN buffer = 1..BufSize
      BY <1>3, <1>4, MessagesAssumption
    <2> QED BY <1>4, <2>2, <2>3
  <1>8. NumberAt(buffer, 0, 4) = v
    BY <1>7, NumberReadBack
  <1> QED BY <1>1, <1>5, <1>8

\* Whatever the receive buffer held before, exactly the datagrams that are smaller than
\* the buffer pass the checks of GetTaskArgs and OnMinionFDWakeUp, and FromBuffer then
\* gives back, field by field, the message that ToBuffer was given.
THEOREM RoundTrip ==
    ASSUME NEW m, IsMessage(m), NEW stack, IsStack(stack)
    PROVE  LET buffer == ReceiveFrom(SendTo(m), stack)
           IN  /\ Accepted(SendTo(m), buffer) <=> GetSize(m) < BufSize
               /\ Accepted(SendTo(m), buffer) => FromBuffer(buffer) = m
  <1>1. PICK buffer : buffer = ReceiveFrom(SendTo(m), stack)
    OBVIOUS
  <1>2. /\ SendTo(m) = ToBuffer(m) /\ SendTo(m) \in Seq(Bytes) /\ Len(SendTo(m)) = GetSize(m)
        /\ GetSize(m) \in Nat /\ GetSize(m) > 16 /\ BufSize \in Nat /\ BufSize > 8
    BY SentWhole, MessagesAssumption
  <1>3. PICK n \in Nat : /\ n = Min({Len(SendTo(m)), BufSize - 1})
                         /\ n = IF GetSize(m) <= BufSize - 1 THEN GetSize(m) ELSE BufSize - 1
    BY <1>2, MinOfTwo
  <1>4. Accepted(SendTo(m), buffer) <=> n >= 8 /\ GetSize(m) <= n
    BY <1>1, <1>3, SizeReadBack DEF Accepted
  <1>5. Accepted(SendTo(m), buffer) <=> GetSize(m) < BufSize
    BY <1>2, <1>3, <1>4
  <1>6. ASSUME GetSize(m) < BufSize PROVE FromBuffer(buffer) = m
    <2>1. n = GetSize(m)
      BY <1>2, <1>3, <1>6
    <2>2. /\ buffer \in Seq(Bytes) /\ Len(buffer) = BufSize
          /\ \A k \in 1..n : buffer[k] = SendTo(m)[k]
      BY <1>1, <1>2, <1>3, Reception DEF IsStack
    <2>3. HoldsAt(buffer, 0, ToBuffer(m))
      <3> SUFFICES ASSUME NEW k \in 1..Len(SendTo(m))
                   PROVE  0 + k \in DOMAIN buffer /\ buffer[0 + k] = SendTo(m)[k]
        BY <1>2 DEF HoldsAt
      <3>1. 0 + k = k /\ k \in 1..n /\ k \in 1..BufSize /\ DOMAIN buffer = 1..BufSize
        BY <1>2, <1>6, <2>1, <2>2
      <3> QED BY <2>2, <3>1
    <2> QED BY <2>2, <2>3, Decoded
  <1> QED BY <1>1, <1>5, <1>6, Zenon

-------------------------------------------------------------------------------
(* The protocol. *)

\* Every datagram under way is one that was sent, and what was decoded was sent: the
\* buffers hold bytes, of which nothing more needs to be known.
MessagesInv ==
    /\ \A m \in sent : IsReadSend(m) \/ IsWriteSend(m)
    /\ \A m \in answered : IsReadReceive(m) \/ IsWriteReceive(m)
    /\ \A datagram \in commands : \E m \in sent : datagram = SendTo(m)
    /\ \A datagram \in answers : \E m \in answered : datagram = SendTo(m)
    /\ accepted \subseteq ran /\ ran \subseteq sent /\ received \subseteq answered
    /\ IsStack(minionStack) /\ IsStack(masterStack)

\* An uninitialised buffer.
LEMMA CleanStack == IsStack(Clean)
  <1>1. Clean \in [1..BufSize -> Bytes]
    BY DEF Clean, Garbage, Bytes
  <1> QED BY <1>1, MessagesAssumption, LenProperties DEF IsStack

\* Nothing is sent at first.
LEMMA InitMessages == Init => MessagesInv
  BY CleanStack DEF Init, MessagesInv

\* Of what is received only what was sent is decoded.
LEMMA OnlySentDecoded ==
    ASSUME NEW S, \A m \in S : IsMessage(m), NEW datagram, \E m \in S : datagram = SendTo(m),
           NEW stack, IsStack(stack), NEW buffer, buffer = ReceiveFrom(datagram, stack)
    PROVE  IsStack(buffer) /\ (Accepted(datagram, buffer) => FromBuffer(buffer) \in S)
  <1>1. PICK m \in S : datagram = SendTo(m)
    OBVIOUS
  <1>2. IsMessage(m)
    OBVIOUS
  <1>3. Accepted(datagram, buffer) => FromBuffer(buffer) = m
    BY <1>1, <1>2, RoundTrip, Zenon
  <1>4. datagram \in Seq(Bytes)
    BY <1>1, <1>2, SentWhole
  <1>5. IsStack(buffer)
    BY <1>4, Reception
  <1> QED BY <1>3, <1>5

\* A new command and its datagram.
LEMMA SendKeeps ==
    ASSUME MessagesInv, NEW command, IsReadSend(command) \/ IsWriteSend(command), Send(command)
    PROVE  MessagesInv'
  <1>1. /\ sent' = sent \cup {command} /\ commands' = commands \cup {SendTo(command)}
        /\ UNCHANGED <<received, masterStack, minionVars, answers>>
    BY DEF Send
  <1>2. UNCHANGED <<accepted, ran, answered, minionStack, received, masterStack, answers>>
    BY <1>1 DEF minionVars
  <1>3. \A m \in sent' : IsReadSend(m) \/ IsWriteSend(m)
    BY <1>1 DEF MessagesInv
  <1>4. \A datagram \in commands' : \E m \in sent' : datagram = SendTo(m)
    BY <1>1 DEF MessagesInv
  <1> QED BY <1>1, <1>2, <1>3, <1>4 DEF MessagesInv, IsStack

\* A command that is received.
LEMMA GetTaskArgsKeeps ==
    ASSUME MessagesInv, GetTaskArgs
    PROVE  MessagesInv'
  <1>1. PICK datagram \in commands, stack \in {minionStack, Clean} :
            LET buffer == ReceiveFrom(datagram, stack)
                new == IF Accepted(datagram, buffer) THEN {FromBuffer(buffer)} ELSE {}
            IN  /\ commands' = commands \ {datagram}
                /\ minionStack' = buffer
                /\ accepted' = accepted \cup new
                /\ ran' = ran \cup new
                /\ UNCHANGED <<answered, masterVars, answers>>
    BY Zenon DEF GetTaskArgs
  <1>2. PICK buffer : buffer = ReceiveFrom(datagram, stack)
    OBVIOUS
  <1>3. PICK new : new = IF Accepted(datagram, buffer) THEN {FromBuffer(buffer)} ELSE {}
    OBVIOUS
  <1>4. /\ commands' = commands \ {datagram} /\ minionStack' = buffer
        /\ accepted' = accepted \cup new /\ ran' = ran \cup new
        /\ UNCHANGED <<answered, sent, received, masterStack, answers>>
    BY <1>1, <1>2, <1>3, Zenon DEF masterVars
  <1>5. IsStack(stack) /\ \A m \in sent : IsMessage(m)
    BY CleanStack DEF MessagesInv, IsMessage
  <1>6. IsStack(buffer) /\ (Accepted(datagram, buffer) => FromBuffer(buffer) \in sent)
    <2>1. \E m \in sent : datagram = SendTo(m)
      BY DEF MessagesInv
    <2> QED BY <1>2, <1>5, <2>1, OnlySentDecoded, Zenon
  <1>7. new \subseteq sent
    BY <1>3, <1>6
  <1> QED BY <1>4, <1>6, <1>7 DEF MessagesInv, IsStack

\* An answer that is received.
LEMMA OnMinionFDWakeUpKeeps ==
    ASSUME MessagesInv, OnMinionFDWakeUp
    PROVE  MessagesInv'
  <1>1. PICK datagram \in answers, stack \in {masterStack, Clean} :
            LET buffer == ReceiveFrom(datagram, stack)
            IN  /\ answers' = answers \ {datagram}
                /\ masterStack' = buffer
                /\ received' = received \cup
                       IF Accepted(datagram, buffer) THEN {FromBuffer(buffer)} ELSE {}
                /\ UNCHANGED <<sent, minionVars, commands>>
    BY Zenon DEF OnMinionFDWakeUp
  <1>2. PICK buffer : buffer = ReceiveFrom(datagram, stack)
    OBVIOUS
  <1>3. PICK new : new = IF Accepted(datagram, buffer) THEN {FromBuffer(buffer)} ELSE {}
    OBVIOUS
  <1>4. /\ answers' = answers \ {datagram} /\ masterStack' = buffer
        /\ received' = received \cup new
        /\ UNCHANGED <<accepted, ran, answered, minionStack, sent, commands>>
    BY <1>1, <1>2, <1>3, Zenon DEF minionVars
  <1>5. IsStack(stack) /\ \A m \in answered : IsMessage(m)
    BY CleanStack DEF MessagesInv, IsMessage
  <1>6. IsStack(buffer) /\ (Accepted(datagram, buffer) => FromBuffer(buffer) \in answered)
    <2>1. \E m \in answered : datagram = SendTo(m)
      BY DEF MessagesInv
    <2> QED BY <1>2, <1>5, <2>1, OnlySentDecoded, Zenon
  <1>7. new \subseteq answered
    BY <1>3, <1>6
  <1> QED BY <1>4, <1>6, <1>7 DEF MessagesInv, IsStack

\* An answer and its datagram.
LEMMA RespondKeeps ==
    ASSUME MessagesInv, NEW command, NEW answer, Respond(command, answer),
           IsReadReceive(answer) \/ IsWriteReceive(answer)
    PROVE  MessagesInv'
  <1>1. /\ accepted' = accepted \ {command} /\ answered' = answered \cup {answer}
        /\ answers' = answers \cup {SendTo(answer)}
        /\ UNCHANGED <<ran, minionStack, sent, received, masterStack, commands>>
    BY DEF Respond, masterVars
  <1>2. \A m \in answered' : IsReadReceive(m) \/ IsWriteReceive(m)
    BY <1>1 DEF MessagesInv
  <1>3. \A datagram \in answers' : \E m \in answered' : datagram = SendTo(m)
    BY <1>1 DEF MessagesInv
  <1> QED BY <1>1, <1>2, <1>3 DEF MessagesInv, IsStack

\* A command is answered with a message of the class that belongs to it.
LEMMA RunCommandKeeps ==
    ASSUME MessagesInv, RunCommand
    PROVE  MessagesInv'
  <1>1. PICK command \in accepted, result \in BOOLEAN :
            SendReadResponse(command, result) \/ SendWriteResponse(command, result)
    BY Zenon DEF RunCommand
  <1>2. IsReadSend(command) \/ IsWriteSend(command)
    BY DEF MessagesInv
  <1>3. CASE SendReadResponse(command, result)
    <2>1. PICK data \in {Payload(command.uid, command.length), FailedData(command.length)} :
              Respond(command, MessageReadReceive(command.uid, result, command.length, data))
      BY <1>3, Zenon DEF SendReadResponse, FailedData
    <2>2. command.type = 0
      BY <1>3 DEF SendReadResponse, READ_SEND
    <2>3. IsReadSend(command)
      BY <1>2, <2>2, WriteSendLayout
    <2>4. command.uid \in Uids /\ command.length \in ReadLengths
      BY <2>3, ReadSendFields DEF IsReadSend
    <2>5. IsReadReceive(MessageReadReceive(command.uid, result, command.length, data))
      BY <2>4, Zenon DEF IsReadReceive
    <2> QED BY <2>1, <2>5, RespondKeeps
  <1>4. CASE SendWriteResponse(command, result)
    <2>1. /\ command.type = 1
          /\ Respond(command, MessageWriteReceive(command.uid, result))
      BY <1>4, Zenon DEF SendWriteResponse, WRITE_SEND
    <2>2. IsWriteSend(command)
      BY <1>2, <2>1, ReadSendLayout
    <2>3. command.uid \in Uids
      BY <2>2, WriteSendFields DEF IsWriteSend
    <2>4. IsWriteReceive(MessageWriteReceive(command.uid, result))
      BY <2>3, Zenon DEF IsWriteReceive
    <2> QED BY <2>1, <2>4, RespondKeeps
  <1> QED BY <1>1, <1>3, <1>4

\* Every step of the two ends keeps the invariant.
LEMMA NextMessages == MessagesInv /\ [Next]_vars => MessagesInv'
  <1> SUFFICES ASSUME MessagesInv, [Next]_vars PROVE MessagesInv'
    OBVIOUS
  <1>1. ASSUME NEW uid \in Uids, AddReadTask(uid) PROVE MessagesInv'
    <2>1. PICK offset \in Offsets, length \in ReadLengths :
              Send(MessageReadSend(uid, offset, length))
      BY <1>1 DEF AddReadTask
    <2>2. IsReadSend(MessageReadSend(uid, offset, length))
      BY Zenon DEF IsReadSend
    <2> QED BY <2>1, <2>2, SendKeeps
  <1>2. ASSUME NEW uid \in Uids, AddWriteTask(uid) PROVE MessagesInv'
    <2>1. PICK offset \in Offsets, length \in WriteLengths :
              Send(MessageWriteSend(uid, offset, length, Payload(uid, length)))
      BY <1>2 DEF AddWriteTask
    <2>2. IsWriteSend(MessageWriteSend(uid, offset, length, Payload(uid, length)))
      BY Zenon DEF IsWriteSend
    <2> QED BY <2>1, <2>2, SendKeeps
  <1>3. CASE GetTaskArgs
    BY <1>3, GetTaskArgsKeeps
  <1>4. CASE RunCommand
    BY <1>4, RunCommandKeeps
  <1>5. CASE OnMinionFDWakeUp
    BY <1>5, OnMinionFDWakeUpKeeps
  <1>6. CASE UNCHANGED vars
    BY <1>6 DEF vars, masterVars, minionVars, MessagesInv, IsStack
  <1> QED BY <1>1, <1>2, <1>3, <1>4, <1>5, <1>6 DEF Next

\* A datagram that was cut, or bytes that an earlier one left in the receive buffer, never
\* become a command or an answer, for every size of the buffer, every request and every
\* order in which datagrams arrive.
THEOREM NothingEverCorrupted == Spec => []NothingCorrupted
  <1>1. MessagesInv => NothingCorrupted
    <2> SUFFICES ASSUME MessagesInv PROVE NothingCorrupted
      OBVIOUS
    <2>1. ASSUME NEW m \in sent PROVE m.uid \in Uids
      <3>1. IsReadSend(m) \/ IsWriteSend(m)
        BY DEF MessagesInv
      <3>2. CASE IsReadSend(m)
        BY <3>2, ReadSendFields DEF IsReadSend
      <3>3. CASE IsWriteSend(m)
        BY <3>3, WriteSendFields DEF IsWriteSend
      <3> QED BY <3>1, <3>2, <3>3
    <2>2. TypeOK
      BY <2>1 DEF TypeOK, MessagesInv, IsStack
    <2> QED BY <2>2 DEF NothingCorrupted, MessagesInv
  <1> QED BY <1>1, InitMessages, NextMessages, PTL DEF Spec
===============================================================================
