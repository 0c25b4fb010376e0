--------------------------- MODULE NBDSessionProofs ----------------------------
(***************************************************************************)
(* The session with the kernel, for any number of requests and signals and *)
(* any lengths of header and data: where requests end, who is answered,    *)
(* and what the signal handler uses.                                       *)
(***************************************************************************)
EXTENDS NBDSession, SequenceTheorems, TLAPS

(* Sequences of tokens that are whole messages, one after the other. *)

\* Every token lies within a message of q that is there from its first token to its last:
\* the message begins behind position p - part.  len gives the length of each message.
Framed(len, q) ==
    \A p \in 1..Len(q) :
        LET h == q[p].handle
            before == p - q[p].part
        IN /\ q[p].part \in 1..len[h]
           /\ before >= 0 /\ before + len[h] <= Len(q)
           /\ \A k \in 1..len[h] : q[before + k] = [handle |-> h, part |-> k]

Names == Handles \cup {Disc}

\* A token says which message it belongs to and which part of it it is.
LEMMA TokenParts ==
    ASSUME NEW t \in Tokens PROVE t.handle \in Names /\ t.part \in Nat /\ t.part >= 1
  BY SessionAssumption DEF Tokens, Names

\* q begins with the whole message h, whose length is l.
BeginsWith(q, h, l) ==
    l <= Len(q) /\ \A k \in 1..l : q[k] = [handle |-> h, part |-> k]

\* A framed sequence begins with the whole message its first token is of.

\* A stream of whole messages begins with all the tokens of one.
LEMMA FirstMessage ==
    ASSUME NEW len \in [Names -> Nat \ {0}], NEW q \in Seq(Tokens), q # << >>,
           Framed(len, q)
    PROVE  q[1].handle \in Names /\ BeginsWith(q, q[1].handle, len[q[1].handle])
  <1> DEFINE h == q[1].handle
             before == 1 - q[1].part
  <1>1. 1 \in 1..Len(q) /\ Len(q) \in Nat
    OBVIOUS
  <1>2. q[1] \in Tokens
    BY <1>1
  <1>3. h \in Names /\ len[h] \in Nat \ {0} /\ q[1].part \in Nat
    BY <1>2, TokenParts
  <1>4. /\ q[1].part \in 1..len[h] /\ before >= 0 /\ before + len[h] <= Len(q)
        /\ \A k \in 1..len[h] : q[before + k] = [handle |-> h, part |-> k]
    BY <1>1 DEF Framed
  <1> HIDE DEF h
  <1>5. before = 0
    BY <1>3, <1>4
  <1> HIDE DEF before
  <1>6. \A k \in 1..len[h] : q[k] = [handle |-> h, part |-> k]
    <2> SUFFICES ASSUME NEW k \in 1..len[h] PROVE before + k = k
      BY <1>4
    <2> QED BY <1>3, <1>5
  <1> QED BY <1>1, <1>3, <1>4, <1>5, <1>6 DEF h, BeginsWith

\* A message that ends within the queue ends within what is left once l bytes are taken.
LEMMA Shifted ==
    \A l, i, part, n, m, k \in Nat :
        l + m = k /\ (l + i) - part + n <= k => i - part + n <= m
  OBVIOUS

\* What follows the first message is framed too.
LEMMA RestFramed ==
    ASSUME NEW len \in [Names -> Nat \ {0}], NEW q \in Seq(Tokens), q # << >>,
           Framed(len, q), NEW r \in Seq(Tokens),
           Len(r) = Len(q) - len[q[1].handle],
           \A i \in 1..Len(r) : r[i] = q[len[q[1].handle] + i]
    PROVE  Framed(len, r)
  <1>0. q[1].handle \in Names /\ BeginsWith(q, q[1].handle, len[q[1].handle])
    BY FirstMessage, Zenon
  <1> DEFINE h == q[1].handle
             l == len[h]
  <1>1. /\ h \in Names /\ l <= Len(q) /\ Len(q) \in Nat /\ l \in Nat \ {0}
        /\ \A k \in 1..l : q[k] = [handle |-> h, part |-> k]
    BY <1>0 DEF BeginsWith
  <1> HIDE DEF h, l
  <1>2. Len(r) = Len(q) - l /\ \A i \in 1..Len(r) : r[i] = q[l + i]
    BY DEF h, l
  <1> SUFFICES ASSUME NEW i \in 1..Len(r)
               PROVE  LET g == r[i].handle
                          before == i - r[i].part
                      IN /\ r[i].part \in 1..len[g]
                         /\ before >= 0 /\ before + len[g] <= Len(r)
                         /\ \A k \in 1..len[g] : r[before + k] = [handle |-> g, part |-> k]
    BY DEF Framed
  <1> DEFINE p == l + i
             g == r[i].handle
             part == r[i].part
             before == p - part
  <1>3. Len(r) \in Nat /\ p \in 1..Len(q) /\ r[i] = q[p] /\ i \in Nat
    BY <1>1, <1>2
  <1>4. /\ part \in 1..len[g] /\ before >= 0 /\ before + len[g] <= Len(q)
        /\ \A k \in 1..len[g] : q[before + k] = [handle |-> g, part |-> k]
    BY <1>3 DEF Framed
  <1>5. g \in Names /\ len[g] \in Nat \ {0} /\ part \in Nat
    <2>1. r[i] \in Tokens
      OBVIOUS
    <2> QED BY <2>1, TokenParts
  <1> HIDE DEF g, part
  <1>6. before >= l
    <2> SUFFICES ASSUME before < l PROVE FALSE
      BY <1>1, <1>3, <1>5
    <2>1. l - before \in 1..len[g]
      BY <1>1, <1>3, <1>4, <1>5
    <2>2. before + (l - before) = l
      BY <1>1, <1>3, <1>5
    <2>3. q[l] = [handle |-> g, part |-> l - before]
      BY <1>4, <2>1, <2>2
    <2>4. q[l] = [handle |-> h, part |-> l]
      BY <1>1
    <2>5. g = h /\ l - before = l
      BY <2>3, <2>4
    <2>6. before = 0 /\ len[g] = l
      BY <1>1, <1>3, <1>5, <2>5 DEF l
    <2> QED BY <1>1, <1>3, <1>4, <1>5, <2>6
  <1>7. i - part >= 0 /\ i - part + len[g] <= Len(r) /\ i - part = before - l
    <2>1. /\ l \in Nat /\ i \in Nat /\ part \in Nat /\ len[g] \in Nat /\ Len(q) \in Nat
          /\ Len(r) \in Nat /\ l + Len(r) = Len(q)
      BY <1>1, <1>2, <1>3, <1>5
    <2>2. (l + i) - part >= l /\ (l + i) - part + len[g] <= Len(q)
      BY <1>4, <1>6
    <2> HIDE DEF l
    <2>3. i - part = ((l + i) - part) - l
      BY <2>1
    <2>4. i - part >= 0
      BY <2>1, <2>2
    <2>5. i - part + len[g] <= Len(r)
      BY <2>1, <2>2, Shifted, Zenon
    <2> QED BY <2>3, <2>4, <2>5
  <1>8. ASSUME NEW k \in 1..len[g] PROVE r[(i - part) + k] = [handle |-> g, part |-> k]
    <2>1. (i - part) + k \in 1..Len(r) /\ l + ((i - part) + k) = before + k
      BY <1>1, <1>3, <1>5, <1>7
    <2> QED BY <1>2, <1>4, <2>1
  <1> QED BY <1>4, <1>7, <1>8 DEF g, part

\* A message put behind framed ones.
LEMMA AppendedFramed ==
    ASSUME NEW len \in [Names -> Nat \ {0}], NEW q \in Seq(Tokens), Framed(len, q),
           NEW h \in Names, NEW r \in Seq(Tokens),
           Len(r) = Len(q) + len[h],
           \A i \in 1..Len(q) : r[i] = q[i],
           \A k \in 1..len[h] : r[Len(q) + k] = [handle |-> h, part |-> k]
    PROVE  Framed(len, r)
  <1> DEFINE n == Len(q)
  <1>0. n \in Nat /\ len[h] \in Nat \ {0} /\ Len(r) = n + len[h]
    OBVIOUS
  <1> SUFFICES ASSUME NEW p \in 1..Len(r)
               PROVE  LET g == r[p].handle
                          before == p - r[p].part
                      IN /\ r[p].part \in 1..len[g]
                         /\ before >= 0 /\ before + len[g] <= Len(r)
                         /\ \A k \in 1..len[g] : r[before + k] = [handle |-> g, part |-> k]
    BY DEF Framed
  <1>1. CASE p \in 1..n
    <2> DEFINE g == q[p].handle
               before == p - q[p].part
    <2>1. r[p] = q[p] /\ q[p] \in Tokens
      BY <1>1
    <2>2. /\ q[p].part \in 1..len[g] /\ before >= 0 /\ before + len[g] <= n
          /\ \A k \in 1..len[g] : q[before + k] = [handle |-> g, part |-> k]
      BY <1>1 DEF Framed
    <2>3a. g \in Names /\ q[p].part \in Nat
      BY <2>1, TokenParts
    <2>3. g \in Names /\ len[g] \in Nat \ {0} /\ q[p].part \in Nat /\ before \in Int
      BY <1>1, <2>3a
    <2> HIDE DEF g, before
    <2>4. before + len[g] <= Len(r)
      BY <1>0, <2>2, <2>3
    <2>5. ASSUME NEW k \in 1..len[g] PROVE r[before + k] = [handle |-> g, part |-> k]
      <3>1. before + k \in 1..n
        BY <1>0, <2>2, <2>3
      <3> QED BY <2>2, <3>1
    <2> QED BY <2>1, <2>2, <2>4, <2>5 DEF g, before
  <1>2. CASE p \notin 1..n
    <2>1. p - n \in 1..len[h] /\ n + (p - n) = p
      BY <1>0, <1>2
    <2>2. r[p] = [handle |-> h, part |-> p - n]
      BY <2>1
    <2>3. r[p].handle = h /\ r[p].part = p - n /\ p - (p - n) = n
      BY <1>0, <2>2
    <2>4. n >= 0 /\ n + len[h] <= Len(r)
      BY <1>0
    <2> HIDE DEF n
    <2>5. \A k \in 1..len[h] : r[n + k] = [handle |-> h, part |-> k]
      BY DEF n
    <2> QED BY <2>1, <2>3, <2>4, <2>5
  <1> QED BY <1>1, <1>2

\* Only the lengths of the messages that are there matter.
LEMMA FramedByLengths ==
    ASSUME NEW len, NEW other, NEW q, Framed(len, q),
           \A p \in 1..Len(q) : other[q[p].handle] = len[q[p].handle]
    PROVE  Framed(other, q)
  BY DEF Framed

-------------------------------------------------------------------------------
(* The invariants. *)

Lengths == [h \in Names |-> Length(h)]

\* What Receive has taken, what has arrived, what the kernel has still to put.
Held == IF reactor \in {"header", "data"} THEN buffer ELSE << >>
Joined(b, s, o) == b \o (s \o o)
Put(q, m) == q \o m
Stream == Joined(Held, socket, outgoing)

\* The stream is whole messages, of requests the kernel has issued.
Orderly ==
    /\ Framed(Lengths, Stream)
    /\ \A p \in 1..Len(Stream) :
           Stream[p].handle \in Handles => op[Stream[p].handle] # "none"

\* Whether the reactor's thread has a request in hand.
InHand == reactor \in {"count", "store", "table"}

\* How far Receive has come, and what it has handed over.
Position ==
    /\ reactor = "header" => Len(buffer) < HeaderLen
    /\ reactor = "data" => /\ Len(buffer) >= HeaderLen /\ Len(buffer) < HeaderLen + DataLen
                           /\ buffer[1].handle \in Handles /\ op[buffer[1].handle] = "write"
    /\ InHand => /\ buffer[1].handle \in Handles /\ op[buffer[1].handle] # "none"
                 /\ buffer = Message(buffer[1].handle, Length(buffer[1].handle))

AnswerType == answering \in Seq([uid : Nat, of : Handles]) /\ Len(answering) <= 1

FrameInv ==
    /\ TypeOK /\ AnswerType
    /\ reactor # "threw"
    /\ reactor \in {"store", "table"} => seen \in Nat
    /\ reactor # "failed" => Orderly /\ Position

\* No token of a request is in q twice.
Distinct(q) == \A p, j \in 1..Len(q) : q[p].handle \in Handles /\ q[p] = q[j] => p = j

On(q, h) == \E p \in 1..Len(q) : q[p].handle = h
Waiting(h) == On(Stream, h)
Current(h) == InHand /\ buffer[1].handle = h
Worked(h) == \E w \in working : w.of = h
Answered(h) == answering # << >> /\ answering[1].of = h
Replied(h) == \E k \in 1..Len(replies) : replies[k].of = h

\* A request is in one place: in the stream, in hand, worked on, being answered or
\* answered.
WorkedOnce == \A w, v \in working : w.of = v.of => w = v
RepliedOnce == \A k, j \in 1..Len(replies) : replies[k].of = replies[j].of => k = j
Apart ==
    \A h \in Handles :
        /\ Worked(h) => ~Answered(h) /\ ~Replied(h)
        /\ Answered(h) => ~Replied(h)
        /\ Worked(h) \/ Answered(h) \/ Replied(h) => op[h] # "none" /\ ~Current(h)
StreamApart ==
    /\ Distinct(Stream)
    /\ \A h \in Handles : Waiting(h) => ~(Current(h) \/ Worked(h) \/ Answered(h) \/ Replied(h))
OnePlace ==
    WorkedOnce /\ RepliedOnce /\ Apart /\ (reactor # "failed" => StreamApart)

\* Unless the counter was put back, the uids given out lie below it, and the reply
\* prepared for a request is found under its uid.
UidsPair ==
    /\ \A r \in m_responses : r.uid < s_counter
    /\ reactor = "store" => seen <= s_counter
    /\ reactor = "table" => seen < s_counter
    /\ reactor \in {"store", "table"} => \A r \in m_responses : r.uid < seen
    /\ \A r, s \in m_responses : r.uid = s.uid => r = s
    /\ \A w \in working : [uid |-> w.uid, handle |-> w.of] \in m_responses
    /\ answering # << >> => [uid |-> answering[1].uid, handle |-> answering[1].of] \in m_responses
    /\ \A k \in 1..Len(replies) : replies[k].handle = replies[k].of

RepliesInv == FrameInv /\ OnePlace /\ (rolledBack \/ UidsPair)

\* Once the NBD is being destroyed its descriptor is kept only if the kernel has refused.
HandlerInv ==
    /\ parent \in {"waiting", "gone"} /\ device = "open" => refused
    /\ usedClosed => refused

\* The signal handler never uses the closed descriptor unless the kernel has
\* refused to disconnect the device.
THEOREM HandlerNeverUsesClosed == Spec => []HandlerUsesOpenDevice
  <1>1. Init => HandlerInv
    BY DEF Init, HandlerInv
  <1>2. HandlerInv /\ [Next]_vars => HandlerInv'
    <2> SUFFICES ASSUME HandlerInv, [Next]_vars PROVE HandlerInv'
      OBVIOUS
    <2>1. CASE UNCHANGED processVars
      BY <2>1 DEF HandlerInv, processVars
    <2>2. CASE RunClient \/ ChildEnds \/ InstallHandler
      BY <2>2 DEF HandlerInv, RunClient, ChildEnds, InstallHandler
    <2>3. CASE Signal
      <3>1. CASE parent' = "killed" /\ UNCHANGED <<device, refused, usedClosed>>
        BY <3>1 DEF HandlerInv
      <3>2. CASE UNCHANGED parent /\ DisconnectNBD
        BY <3>2, Zenon DEF HandlerInv, DisconnectNBD
      <3> QED BY <2>3, <3>1, <3>2 DEF Signal
    <2>4. CASE DestroyBegin
      BY <2>4 DEF HandlerInv, DestroyBegin, DisconnectNBD
    <2>5. CASE DestroyEnd
      BY <2>5 DEF HandlerInv, DestroyEnd
    <2>6. CASE UNCHANGED vars
      BY <2>1, <2>6 DEF vars
    <2> QED
      BY <2>1, <2>2, <2>3, <2>4, <2>5, <2>6
         DEF Next, Issue, Deliver, WakeUp, Receive, Recv, ReceiveThrows, ReadCounter, StoreCounter,
             PrepareReply, ResultReadsCounter, ResultStoresCounter, OnNBDResponse
  <1>3. HandlerInv => HandlerUsesOpenDevice
    BY DEF HandlerInv, HandlerUsesOpenDevice
  <1> QED BY <1>1, <1>2, <1>3, PTL DEF Spec

-------------------------------------------------------------------------------
(* The stream. *)

\* Every message has at least a header, and at most a header and data.
LEMMA LengthType ==
    ASSUME TypeOK
    PROVE  /\ Lengths \in [Names -> Nat \ {0}]
           /\ \A h \in Names : /\ Lengths[h] = Length(h) /\ Length(h) >= HeaderLen
                               /\ Length(h) \in 1..(HeaderLen + DataLen)
  BY SessionAssumption DEF Lengths, Length, TypeOK, Names

\* The tokens of a message are numbered.
LEMMA MessageType ==
    ASSUME NEW h \in Names, NEW n \in 1..(HeaderLen + DataLen)
    PROVE  /\ Message(h, n) \in Seq(Tokens) /\ Len(Message(h, n)) = n
           /\ \A k \in 1..n : Message(h, n)[k] = [handle |-> h, part |-> k]
  <1>1. n \in Nat /\ 1..n \subseteq 1..(HeaderLen + DataLen)
    BY SessionAssumption
  <1>2. \A k \in 1..n : [handle |-> h, part |-> k] \in Tokens
    BY <1>1 DEF Tokens, Names
  <1> QED BY <1>1, <1>2 DEF Message

\* What Receive holds, and all that is still to be read, are tokens.
LEMMA StreamType ==
    ASSUME TypeOK
    PROVE  Held \in Seq(Tokens) /\ Stream \in Seq(Tokens)
  <1>1. Held \in Seq(Tokens)
    BY DEF Held, TypeOK
  <1>2. socket \o outgoing \in Seq(Tokens)
    BY DEF TypeOK
  <1> QED BY <1>1, <1>2 DEF Stream, Joined

\* A sequence is a prefix and the rest.
LEMMA SplitAt ==
    ASSUME NEW T, NEW s \in Seq(T), NEW k \in 1..Len(s)
    PROVE  /\ SubSeq(s, 1, k) \in Seq(T) /\ Len(SubSeq(s, 1, k)) = k
           /\ SubSeq(s, k + 1, Len(s)) \in Seq(T)
           /\ SubSeq(s, 1, k) \o SubSeq(s, k + 1, Len(s)) = s
  <1>1. Len(s) \in Nat /\ k \in Int /\ k + 1 \in Int /\ 1 <= k /\ k <= Len(s)
    OBVIOUS
  <1>2. \A i \in 1..k : s[i] \in T
    BY <1>1
  <1>3. \A i \in (k + 1)..Len(s) : s[i] \in T
    BY <1>1
  <1>4. SubSeq(s, 1, k) \in Seq(T) /\ Len(SubSeq(s, 1, k)) = k
    BY <1>1, <1>2, SubSeqProperties
  <1>5. SubSeq(s, k + 1, Len(s)) \in Seq(T)
    BY <1>1, <1>3, SubSeqProperties
  <1>6. SubSeq(s, 1, k) \o SubSeq(s, k + 1, Len(s)) = SubSeq(s, 1, Len(s))
    <2>1. 1 \in 1..Len(s) + 1 /\ k \in 1 - 1..Len(s) /\ Len(s) \in k..Len(s)
      BY <1>1
    <2> QED BY <2>1, ConcatAdjacentSubSeq
  <1> QED BY <1>4, <1>5, <1>6, SubSeqFull

\* Tokens are joined in one order only.
LEMMA PutAssociates ==
    ASSUME NEW x \in Seq(Tokens), NEW y \in Seq(Tokens), NEW z \in Seq(Tokens)
    PROVE  Put(Put(x, y), z) = Put(x, Put(y, z))
  BY ConcatAssociative, SMTT(40) DEF Put

\* Tokens joined are tokens.
LEMMA PutType == ASSUME NEW x \in Seq(Tokens), NEW y \in Seq(Tokens) PROVE Put(x, y) \in Seq(Tokens)
  BY DEF Put

\* The stream is put together from its parts.
LEMMA JoinedIsPut == \A b, s, o : Joined(b, s, o) = Put(b, Put(s, o))
  BY DEF Joined, Put

\* Where the parts of the stream are cut does not matter.
LEMMA CutAnywhere ==
    \A b, x, y, o \in Seq(Tokens) : Joined(Put(b, x), y, o) = Joined(b, Put(x, y), o)
  <1> TAKE b, x, y, o \in Seq(Tokens)
  <1>1. PICK t \in Seq(Tokens) : t = Put(y, o)
    BY PutType
  <1>2. Put(Put(b, x), t) = Put(b, Put(x, t))
    BY <1>1, PutAssociates
  <1>3. Put(x, t) = Put(Put(x, y), o)
    BY <1>1, PutAssociates
  <1> QED BY <1>1, <1>2, <1>3, JoinedIsPut

\* A token that moves from the kernel to the socket leaves the stream as it is.
LEMMA MoveOne ==
    ASSUME NEW b, NEW s \in Seq(Tokens), NEW o \in Seq(Tokens), o # << >>
    PROVE  Joined(b, Append(s, Head(o)), Tail(o)) = Joined(b, s, o)
  <1>1. Append(s, Head(o)) \o Tail(o) = s \o o
    OBVIOUS
  <1> QED BY <1>1 DEF Joined

\* A message that is put behind the outgoing tokens is behind the whole stream.
LEMMA PutBehind ==
    \A b, s, o, n \in Seq(Tokens) : Joined(b, s, Put(o, n)) = Put(Joined(b, s, o), n)
  <1> TAKE b, s, o, n \in Seq(Tokens)
  <1>1. PICK t \in Seq(Tokens) : t = Put(s, o)
    BY PutType
  <1>2. Put(s, Put(o, n)) = Put(t, n)
    BY <1>1, PutAssociates
  <1>3. Put(b, Put(t, n)) = Put(Put(b, t), n)
    BY <1>1, PutAssociates
  <1> QED BY <1>1, <1>2, <1>3, JoinedIsPut

\* A stream of whole messages stays one when another message is put behind it.
LEMMA MessageFramed ==
    ASSUME NEW len \in [Names -> 1..(HeaderLen + DataLen)], NEW q \in Seq(Tokens),
           Framed(len, q), NEW h \in Names
    PROVE  Framed(len, q \o Message(h, len[h]))
  <1> DEFINE m == Message(h, len[h])
             r == q \o m
  <1>1. len \in [Names -> Nat \ {0}]
    BY SessionAssumption
  <1>2. m \in Seq(Tokens) /\ Len(m) = len[h] /\ \A k \in 1..len[h] : m[k] = [handle |-> h, part |-> k]
    BY MessageType
  <1> HIDE DEF m
  <1>3. /\ r \in Seq(Tokens) /\ Len(r) = Len(q) + len[h]
        /\ \A i \in 1..Len(q) : r[i] = q[i]
        /\ \A k \in 1..len[h] : r[Len(q) + k] = m[k]
    BY <1>1, <1>2
  <1> HIDE DEF r
  <1>4. \A k \in 1..len[h] : r[Len(q) + k] = [handle |-> h, part |-> k]
    BY <1>2, <1>3
  <1>5. Framed(len, r)
    BY <1>1, <1>3, <1>4, AppendedFramed
  <1> QED BY <1>5 DEF r, m

\* A message is put behind the stream.
LEMMA AppendStep ==
    ASSUME TypeOK, TypeOK', Orderly, NEW h \in Names,
           \A g \in Handles : op[g] # "none" => op'[g] = op[g],
           h \in Handles => op'[h] # "none",
           outgoing' = outgoing \o Message(h, Lengths'[h]),
           UNCHANGED <<socket, Held>>
    PROVE  Orderly' /\ Stream' = Stream \o Message(h, Lengths'[h])
  <1>1. Lengths' \in [Names -> 1..(HeaderLen + DataLen)]
    BY SessionAssumption DEF Lengths, Length, TypeOK, Names
  <1>2. \A g \in Names : (g \in Handles => op[g] # "none") => Lengths'[g] = Lengths[g]
    BY DEF Lengths, Length, Names
  <1>3. PICK len \in [Names -> 1..(HeaderLen + DataLen)] : len = Lengths'
    BY <1>1
  <1>4. Stream \in Seq(Tokens) /\ Held \in Seq(Tokens)
    BY StreamType
  <1>5. \A p \in 1..Len(Stream) : Stream[p] \in Tokens
    BY <1>4
  <1>6. \A p \in 1..Len(Stream) : Stream[p].handle \in Names
    BY <1>5, TokenParts
  <1>7. \A p \in 1..Len(Stream) : len[Stream[p].handle] = Lengths[Stream[p].handle]
    BY <1>2, <1>3, <1>6 DEF Orderly
  <1>8. Framed(len, Stream)
    BY <1>7, FramedByLengths DEF Orderly
  <1>9. PICK m \in Seq(Tokens) : /\ m = Message(h, len[h]) /\ Len(m) = len[h]
                                 /\ \A k \in 1..len[h] : m[k] = [handle |-> h, part |-> k]
    BY MessageType
  <1>10. Framed(len, Stream \o m)
    BY <1>4, <1>8, <1>9, MessageFramed
  <1>11. Stream' = Stream \o m
    <2>1. outgoing' = Put(outgoing, m)
      BY <1>3, <1>9 DEF Put
    <2>2. Stream' = Joined(Held, socket, Put(outgoing, m))
      BY <2>1 DEF Stream
    <2>3. socket \in Seq(Tokens) /\ outgoing \in Seq(Tokens)
      BY DEF TypeOK
    <2>4. Joined(Held, socket, Put(outgoing, m)) = Put(Joined(Held, socket, outgoing), m)
      BY <1>4, <1>9, <2>3, PutBehind
    <2> QED BY <2>2, <2>4 DEF Stream, Put
  <1>12. Framed(Lengths', Stream')
    BY <1>3, <1>10, <1>11
  <1>13. ASSUME NEW p \in 1..Len(Stream'), Stream'[p].handle \in Handles
         PROVE  op'[Stream'[p].handle] # "none"
    <2>1. CASE p \in 1..Len(Stream)
      <3>1. Stream'[p] = Stream[p]
        BY <1>4, <1>9, <1>11, <2>1
      <3> QED BY <1>13, <2>1, <3>1 DEF Orderly
    <2>2. CASE p \notin 1..Len(Stream)
      <3>1. Stream'[p] = m[p - Len(Stream)] /\ p - Len(Stream) \in 1..len[h]
        BY <1>4, <1>9, <1>11, <2>2
      <3>2. Stream'[p].handle = h
        BY <1>9, <3>1
      <3> QED BY <1>13, <3>2
    <2> QED BY <2>1, <2>2
  <1> QED BY <1>3, <1>9, <1>11, <1>12, <1>13 DEF Orderly

\* What has been taken from a framed stream: its header is that of one request, and once
\* it has the length of that request it is the request, and a framed stream is left.
LEMMA ReadMessage ==
    ASSUME NEW len \in [Names -> 1..(HeaderLen + DataLen)], \A g \in Names : len[g] >= HeaderLen,
           NEW b \in Seq(Tokens), NEW rest \in Seq(Tokens), Framed(len, Put(b, rest)),
           Len(b) >= HeaderLen
    PROVE  /\ b[1].handle \in Names
           /\ MagicOf(b)
           /\ Len(b) = len[b[1].handle] =>
                  b = Message(b[1].handle, len[b[1].handle]) /\ Framed(len, rest)
  <1> DEFINE q == b \o rest
             h == b[1].handle
             l == len[h]
  <1>1. /\ HeaderLen \in Nat \ {0} /\ DataLen \in Nat \ {0} /\ Len(b) \in Nat /\ Len(rest) \in Nat
        /\ len \in [Names -> Nat \ {0}] /\ 1 \in 1..Len(b)
    BY SessionAssumption
  <1>2. /\ q \in Seq(Tokens) /\ Len(q) = Len(b) + Len(rest)
        /\ \A i \in 1..Len(b) : q[i] = b[i]
        /\ \A i \in 1..Len(rest) : q[Len(b) + i] = rest[i]
    BY <1>1
  <1>3. Framed(len, q)
    BY DEF Put
  <1> HIDE DEF q
  <1>4. q # << >> /\ q[1] = b[1]
    BY <1>1, <1>2
  <1>5. h \in Names /\ BeginsWith(q, h, l)
    <2>1. q[1].handle \in Names /\ BeginsWith(q, q[1].handle, len[q[1].handle])
      BY <1>1, <1>2, <1>3, <1>4, FirstMessage
    <2> QED BY <1>4, <2>1
  <1>6. l \in 1..(HeaderLen + DataLen) /\ l \in Nat /\ l >= HeaderLen
    BY <1>1, <1>5
  <1> HIDE DEF h, l
  <1>7. \A k \in 1..l : k <= Len(b) => b[k] = [handle |-> h, part |-> k]
    BY <1>1, <1>2, <1>5, <1>6 DEF BeginsWith
  <1>8. MagicOf(b)
    <2>1. \A k \in 1..HeaderLen : b[k] = [handle |-> h, part |-> k]
      BY <1>1, <1>6, <1>7
    <2>2. /\ SubSeq(b, 1, HeaderLen) \in Seq(Tokens) /\ Len(SubSeq(b, 1, HeaderLen)) = HeaderLen
          /\ \A k \in 1..HeaderLen : SubSeq(b, 1, HeaderLen)[k] = b[k]
      BY <1>1
    <2>3. SubSeq(b, 1, HeaderLen) = Message(h, HeaderLen)
      BY <1>1, <2>1, <2>2 DEF Message
    <2> QED BY <2>3 DEF MagicOf, h
  <1>9. ASSUME Len(b) = l PROVE b = Message(h, l) /\ Framed(len, rest)
    <2>1. b = Message(h, l)
      <3>1. \A k \in 1..l : b[k] = [handle |-> h, part |-> k]
        BY <1>6, <1>7, <1>9
      <3> QED BY <1>6, <1>9, <3>1 DEF Message
    <2>2. Framed(len, rest)
      <3>1. q[1].handle = h /\ len[h] = l
        BY <1>4 DEF h, l
      <3>2. /\ Len(rest) = Len(q) - len[q[1].handle]
            /\ \A i \in 1..Len(rest) : rest[i] = q[len[q[1].handle] + i]
        BY <1>1, <1>2, <1>6, <1>9, <3>1
      <3> QED BY <1>1, <1>2, <1>3, <1>4, <3>2, RestFramed
    <2> QED BY <2>1, <2>2
  <1> QED BY <1>5, <1>8, <1>9 DEF h, l

-------------------------------------------------------------------------------
(* Each step keeps the requests framed. *)

\* Steps that leave the stream and the operations alone keep its framing.
LEMMA OrderlyKept ==
    ASSUME Orderly, UNCHANGED <<op, Stream>> PROVE Orderly'
  BY DEF Orderly, Lengths, Length

\* Between two requests the stream is what is in the socket and behind it.
LEMMA EmptyHeld ==
    ASSUME TypeOK, Held = << >> PROVE Stream = socket \o outgoing
  BY DEF Stream, Joined, TypeOK

\* Receive hands over the first message of the stream, whole.
TakesFirst ==
    /\ Stream = Put(buffer', Stream')
    /\ buffer'[1].handle \in Names
    /\ buffer' = Message(buffer'[1].handle, Lengths[buffer'[1].handle])

\* Receive has not come to the end of a message, or hands one over.
ReceiveEffect ==
    /\ reactor \in {"header", "data"}
    /\ \/ reactor' \in {"header", "data"} /\ Stream' = Stream
       \/ reactor' = "select" /\ TakesFirst /\ buffer'[1].handle = Disc
       \/ reactor' = "count" /\ TakesFirst

\* A call of recv takes tokens of one message only, and ends exactly with it.
LEMMA ReceiveKeepsFrame == FrameInv /\ Receive => FrameInv' /\ ReceiveEffect
  <1> SUFFICES ASSUME FrameInv, Receive PROVE FrameInv' /\ ReceiveEffect
    OBVIOUS
  <1>1. PICK k \in 1..Len(socket) :
            Recv(k) /\ reactor' = IF k = Missing THEN AfterReceive(buffer') ELSE reactor
    BY DEF Receive
  <1>2. /\ TypeOK /\ AnswerType /\ Orderly /\ Position /\ reactor \in {"header", "data"}
        /\ k <= Missing
        /\ buffer' = buffer \o SubSeq(socket, 1, k)
        /\ socket' = SubSeq(socket, k + 1, Len(socket))
        /\ UNCHANGED <<kernelVars, seen, m_responses, working, answerVars, uidVars, processVars>>
    BY <1>1 DEF FrameInv, Recv, Serving
  <1>3. /\ HeaderLen \in Nat \ {0} /\ DataLen \in Nat \ {0} /\ Len(buffer) \in Nat
        /\ socket \in Seq(Tokens) /\ buffer \in Seq(Tokens) /\ outgoing \in Seq(Tokens)
    BY <1>2, SessionAssumption DEF TypeOK
  <1>4. /\ buffer' \in Seq(Tokens) /\ socket' \in Seq(Tokens)
        /\ Len(buffer') = Len(buffer) + k
        /\ \A i \in 1..Len(buffer) : buffer'[i] = buffer[i]
    <2>1. PICK x \in Seq(Tokens) : x = SubSeq(socket, 1, k) /\ Len(x) = k
      BY <1>3, SplitAt
    <2>2. socket' \in Seq(Tokens)
      BY <1>2, <1>3, SplitAt
    <2>3. buffer' = buffer \o x
      BY <1>2, <2>1
    <2> QED BY <1>3, <2>1, <2>2, <2>3
  <1>5. Stream = Joined(buffer', socket', outgoing)
    <2>1. PICK taken \in Seq(Tokens) : taken = SubSeq(socket, 1, k)
      BY <1>3, SplitAt
    <2>2. socket = Put(taken, socket')
      BY <1>2, <1>3, <2>1, SplitAt DEF Put
    <2>3. buffer' = Put(buffer, taken)
      BY <1>2, <2>1 DEF Put
    <2>4. Stream = Joined(buffer, Put(taken, socket'), outgoing)
      BY <1>2, <2>2 DEF Stream, Held
    <2>5. PICK left \in Seq(Tokens) : left = socket'
      BY <1>4
    <2>6. Joined(Put(buffer, taken), left, outgoing) = Joined(buffer, Put(taken, left), outgoing)
      <3>1. taken \in Seq(Tokens) /\ left \in Seq(Tokens)
        BY <2>1, <2>5
      <3> QED BY <1>3, <3>1, CutAnywhere
    <2> QED BY <2>3, <2>4, <2>5, <2>6
  <1>6. PICK rest \in Seq(Tokens) : rest = socket' \o outgoing
    <2>1. socket' \o outgoing \in Seq(Tokens)
      BY <1>3, <1>4
    <2> QED BY <2>1
  <1>7. Stream = Put(buffer', rest)
    BY <1>5, <1>6 DEF Joined, Put
  <1>8. PICK len \in [Names -> 1..(HeaderLen + DataLen)] :
            len = Lengths /\ \A g \in Names : len[g] = Length(g) /\ len[g] >= HeaderLen
    BY <1>2, LengthType
  <1>9. PICK b \in Seq(Tokens) : b = buffer'
    BY <1>4
  <1>10. /\ Framed(len, Put(b, rest)) /\ Stream \in Seq(Tokens)
         /\ \A i \in 1..Len(b) : Stream[i] = b[i] /\ i \in 1..Len(Stream)
         /\ \A i \in 1..Len(rest) : rest[i] = Stream[Len(b) + i] /\ Len(b) + i \in 1..Len(Stream)
    <2>1. Framed(len, Put(b, rest))
      BY <1>2, <1>7, <1>8, <1>9 DEF Orderly
    <2> QED BY <1>6, <1>7, <1>9, <2>1 DEF Put
  <1>11. AnswerType' /\ (reactor' \in {"select", "header", "data", "count"} => TypeOK')
    BY <1>2, <1>4 DEF TypeOK, AnswerType, kernelVars, answerVars, uidVars, processVars
  <1>12. ASSUME reactor' \in {"header", "data"} PROVE Orderly' /\ Stream' = Stream
    <2>1. Stream' = Stream
      BY <1>2, <1>5, <1>12 DEF Stream, Held, kernelVars
    <2> QED BY <1>2, <2>1, OrderlyKept DEF kernelVars
  <1>13. ASSUME reactor' \in {"select", "count"}, Framed(len, rest)
         PROVE  Orderly' /\ Stream = Put(buffer', Stream')
    <2>1. Stream' = rest
      <3>1. Held' = << >> /\ outgoing' = outgoing
        BY <1>2, <1>13 DEF Held, kernelVars
      <3>2. Stream' = << >> \o rest
        BY <1>6, <3>1 DEF Stream, Joined
      <3>3. << >> \o rest = rest
        BY <1>6
      <3> QED BY <3>2, <3>3
    <2>2. Lengths' = len
      BY <1>2, <1>8 DEF Lengths, Length, kernelVars
    <2>3. \A i \in 1..Len(rest) : rest[i].handle \in Handles => op[rest[i].handle] # "none"
      BY <1>2, <1>10 DEF Orderly
    <2>4. op' = op
      BY <1>2 DEF kernelVars
    <2>5. Stream = Put(buffer', Stream')
      BY <1>7, <2>1
    <2> QED BY <1>13, <2>1, <2>2, <2>3, <2>4, <2>5 DEF Orderly
  <1>14. CASE k # Missing
    <2>1. reactor' = reactor /\ k < Missing
      <3>1. reactor' = reactor
        BY <1>1, <1>14
      <3>2. Missing \in Int /\ k \in Int
        BY <1>3 DEF Missing
      <3> QED BY <1>2, <1>14, <3>1, <3>2
    <2>2. Position'
      <3>1. op' = op /\ Len(buffer') = Len(buffer) + k /\ k \in Nat
        BY <1>2, <1>4 DEF kernelVars
      <3>2. CASE reactor = "header"
        <4>1. Len(buffer') < HeaderLen
          BY <1>3, <2>1, <3>1, <3>2 DEF Missing
        <4> QED BY <2>1, <3>2, <4>1 DEF Position, InHand
      <3>3. CASE reactor = "data"
        <4>1. /\ Len(buffer) >= HeaderLen
              /\ buffer[1].handle \in Handles /\ op[buffer[1].handle] = "write"
          BY <1>2, <3>3 DEF Position
        <4>2. /\ Len(buffer') >= HeaderLen /\ Len(buffer') < HeaderLen + DataLen
              /\ 1 \in 1..Len(buffer)
          BY <1>3, <2>1, <3>1, <3>3, <4>1 DEF Missing
        <4>3. buffer'[1] = buffer[1]
          BY <1>4, <4>2
        <4> QED BY <2>1, <3>1, <3>3, <4>1, <4>2, <4>3 DEF Position, InHand
      <3> QED BY <1>2, <3>2, <3>3
    <2> QED BY <1>2, <1>11, <1>12, <2>1, <2>2 DEF FrameInv, ReceiveEffect
  <1>15. CASE k = Missing
    <2>1. /\ reactor = "header" => Len(b) = HeaderLen
          /\ reactor = "data" => Len(b) = HeaderLen + DataLen
      BY <1>2, <1>3, <1>4, <1>9, <1>15 DEF Missing
    <2>2. Len(b) >= HeaderLen /\ 1 \in 1..Len(b)
      BY <1>2, <1>3, <2>1
    <2>3. /\ b[1].handle \in Names /\ MagicOf(b)
          /\ Len(b) = len[b[1].handle] => b = Message(b[1].handle, len[b[1].handle]) /\ Framed(len, rest)
      BY <1>6, <1>8, <1>9, <1>10, <2>2, ReadMessage
    <2>4. reactor' = IF reactor = "data" THEN "count" ELSE Switch(b[1].handle)
      BY <1>1, <1>9, <1>15, <2>3 DEF AfterReceive
    <2>5. b[1].handle \in Handles => op[b[1].handle] # "none"
      BY <1>2, <1>10, <2>2 DEF Orderly
    <2>6. op' = op /\ buffer' = b
      BY <1>2, <1>9 DEF kernelVars
    <2>7. \A g : Length(g)' = Length(g)
      BY <2>6 DEF Length
    <2>8. CASE reactor = "data"
      <3>1. b[1] = buffer[1] /\ buffer[1].handle \in Handles /\ op[buffer[1].handle] = "write"
        BY <1>2, <1>3, <1>4, <1>9, <2>8 DEF Position
      <3>2. Length(b[1].handle) = HeaderLen + DataLen /\ reactor' = "count"
        BY <2>4, <2>8, <3>1 DEF Length
      <3>3. len[b[1].handle] = Len(b) /\ len[b[1].handle] = Length(b[1].handle)
        BY <1>8, <2>1, <2>3, <2>8, <3>2
      <3>4. Orderly' /\ TakesFirst
        BY <1>8, <1>9, <1>13, <2>3, <3>2, <3>3 DEF TakesFirst
      <3>5. Position'
        BY <2>3, <2>5, <2>6, <2>7, <3>1, <3>2, <3>3 DEF Position, InHand
      <3> QED BY <1>2, <1>11, <3>2, <3>4, <3>5 DEF FrameInv, ReceiveEffect
    <2>9. CASE reactor = "header" /\ b[1].handle = Disc
      <3>1. reactor' = "select" /\ Length(b[1].handle) = HeaderLen
        BY <2>4, <2>9, SessionAssumption DEF Switch, Length, Handles
      <3>2. len[b[1].handle] = Len(b)
        BY <1>8, <2>1, <2>3, <2>9, <3>1
      <3>3. Orderly' /\ TakesFirst
        BY <1>8, <1>9, <1>13, <2>3, <3>1, <3>2 DEF TakesFirst
      <3>4. Position'
        BY <3>1 DEF Position, InHand
      <3> QED BY <1>2, <1>9, <1>11, <2>9, <3>1, <3>3, <3>4 DEF FrameInv, ReceiveEffect
    <2>10. CASE reactor = "header" /\ b[1].handle # Disc /\ op[b[1].handle] = "write"
      <3>1. reactor' = "data" /\ b[1].handle \in Handles
        BY <2>3, <2>4, <2>10 DEF Switch, Names
      <3>2. Position'
        BY <1>3, <2>1, <2>6, <2>10, <3>1 DEF Position, InHand
      <3> QED BY <1>2, <1>11, <1>12, <3>1, <3>2 DEF FrameInv, ReceiveEffect
    <2>11. CASE reactor = "header" /\ b[1].handle # Disc /\ op[b[1].handle] # "write"
      <3>1. reactor' = "count" /\ b[1].handle \in Handles /\ Length(b[1].handle) = HeaderLen
        BY <2>3, <2>4, <2>11 DEF Switch, Names, Length
      <3>2. len[b[1].handle] = Len(b) /\ len[b[1].handle] = Length(b[1].handle)
        BY <1>8, <2>1, <2>3, <2>11, <3>1
      <3>3. Orderly' /\ TakesFirst
        BY <1>8, <1>9, <1>13, <2>3, <3>1, <3>2 DEF TakesFirst
      <3>4. Position'
        BY <2>3, <2>5, <2>6, <2>7, <3>1, <3>2 DEF Position, InHand
      <3> QED BY <1>2, <1>11, <3>1, <3>3, <3>4 DEF FrameInv, ReceiveEffect
    <2> QED BY <1>2, <2>8, <2>9, <2>10, <2>11
  <1> QED BY <1>14, <1>15

\* Nothing is sent at first.
LEMMA InitFrame == Init => FrameInv
  <1> SUFFICES ASSUME Init PROVE FrameInv
    OBVIOUS
  <1>1. TypeOK /\ AnswerType
    <2>1. {rolledBack, refused, usedClosed} \subseteq BOOLEAN
      BY DEF Init
    <2>2. signals \in 0..MaxSignals
      BY SessionAssumption DEF Init
    <2>3. op \in [Handles -> {"none", "read", "write"}]
      BY DEF Init
    <2> QED BY <2>1, <2>2, <2>3 DEF Init, TypeOK, AnswerType
  <1>2. Len(Stream) = 0
    BY DEF Init, Stream, Held, Joined
  <1>3. Orderly
    BY <1>2 DEF Orderly, Framed
  <1> QED BY <1>1, <1>3 DEF Init, FrameInv, Position, InHand

\* A request of the kernel puts a whole message behind the stream.
LEMMA IssueKeepsFrame ==
    ASSUME FrameInv, NEW h \in Handles, NEW o \in {"read", "write"}, Issue(h, o) PROVE FrameInv'
  <1>1. TypeOK /\ AnswerType
    BY DEF FrameInv
  <1>2. op' = [op EXCEPT ![h] = o] /\ op' \in [Handles -> {"none", "read", "write"}]
    BY <1>1 DEF Issue, TypeOK
  <1>3. op'[h] = o /\ \A g \in Handles : g # h => op'[g] = op[g]
    BY <1>1, <1>2 DEF TypeOK
  <1>4. h \in Names /\ Lengths'[h] = Length(h)' /\ Length(h)' \in 1..(HeaderLen + DataLen)
    BY <1>2, SessionAssumption DEF Names, Lengths, Length
  <1>5. outgoing' = outgoing \o Message(h, Lengths'[h])
    BY <1>4 DEF Issue
  <1>6. outgoing' \in Seq(Tokens)
    <2>1. PICK n \in 1..(HeaderLen + DataLen) : n = Lengths'[h]
      BY <1>4
    <2>2. Message(h, n) \in Seq(Tokens) /\ outgoing \in Seq(Tokens)
      BY <1>1, <1>4, MessageType DEF TypeOK
    <2>3. outgoing \o Message(h, n) \in Seq(Tokens)
      BY <2>2
    <2> QED BY <1>5, <2>1, <2>3
  <1>7. UNCHANGED <<replies, reactorVars, answerVars, uidVars, processVars>>
    BY DEF Issue
  <1>8. TypeOK' /\ AnswerType'
    BY <1>1, <1>2, <1>6, <1>7
       DEF TypeOK, AnswerType, reactorVars, answerVars, uidVars, processVars
  <1>9. op[h] = "none"
    BY DEF Issue
  <1>10. \A g \in Handles : op[g] # "none" => op'[g] = op[g]
    BY <1>3, <1>9
  <1>11. ASSUME Orderly PROVE Orderly'
    <2>1. UNCHANGED <<socket, Held>>
      BY <1>7 DEF Held, reactorVars
    <2>2. h \in Handles => op'[h] # "none"
      BY <1>3
    <2> QED BY <1>1, <1>4, <1>5, <1>8, <1>10, <1>11, <2>1, <2>2, AppendStep
  <1>12. ASSUME Position PROVE Position'
    <2>1. buffer' = buffer /\ reactor' = reactor
      BY <1>7 DEF reactorVars
    <2>2. \A g \in Handles : op[g] # "none" => Length(g)' = Length(g)
      BY <1>10 DEF Length
    <2> QED BY <1>10, <1>12, <2>1, <2>2 DEF Position, InHand
  <1> QED BY <1>7, <1>8, <1>11, <1>12 DEF FrameInv, reactorVars

\* A disconnect request is a whole message too.
LEMMA DisconnectKeepsFrame ==
    ASSUME FrameInv, DisconnectNBD, UNCHANGED <<op, replies, socket, buffer, seen, m_responses,
               working, answerVars, uidVars, child>>,
           signals' \in 0..MaxSignals, parent' \in {"forked", "ready", "waiting", "gone", "killed"},
           reactor' = reactor \/ (reactor = "select" /\ reactor' = "failed")
    PROVE  FrameInv'
  <1>1. TypeOK /\ AnswerType
    BY DEF FrameInv
  <1>2. Disc \in Names /\ Lengths'[Disc] = HeaderLen /\ HeaderLen \in 1..(HeaderLen + DataLen)
    <2>1. Disc \notin Handles
      BY SessionAssumption DEF Handles
    <2>2. HeaderLen \in 1..(HeaderLen + DataLen)
      BY SessionAssumption
    <2> QED BY <2>1, <2>2 DEF Names, Lengths, Length
  <1>3. outgoing' = outgoing \/ outgoing' = outgoing \o Message(Disc, HeaderLen)
    BY DEF DisconnectNBD
  <1>4. outgoing' \in Seq(Tokens)
    <2>1. Message(Disc, HeaderLen) \in Seq(Tokens) /\ outgoing \in Seq(Tokens)
      BY <1>1, <1>2, MessageType DEF TypeOK
    <2>2. outgoing \o Message(Disc, HeaderLen) \in Seq(Tokens)
      BY <2>1
    <2> QED BY <1>3, <2>1, <2>2
  <1>5. usedClosed' \in BOOLEAN /\ refused' \in BOOLEAN /\ device' \in {"unset", "open"}
    <2>1. usedClosed \in BOOLEAN /\ refused \in BOOLEAN /\ device \in {"unset", "open"}
      BY <1>1 DEF TypeOK
    <2> QED BY <2>1 DEF DisconnectNBD
  <1>6. reactor' \in {"select", "header", "data", "count", "store", "table", "threw", "failed"}
    BY <1>1 DEF TypeOK
  <1>7. TypeOK' /\ AnswerType'
    <2>1. {rolledBack', refused', usedClosed'} \subseteq BOOLEAN
      BY <1>1, <1>5, Zenon DEF TypeOK, uidVars
    <2> QED BY <1>1, <1>4, <1>5, <1>6, <2>1 DEF TypeOK, AnswerType, answerVars, uidVars
  <1>8. CASE reactor' = "failed"
    BY <1>7, <1>8 DEF FrameInv
  <1>9. CASE reactor' # "failed"
    <2>1. reactor' = reactor /\ Orderly /\ Position /\ UNCHANGED <<socket, Held>>
      BY <1>9 DEF FrameInv, Held
    <2>2. Orderly'
      <3>1. CASE outgoing' = outgoing
        BY <2>1, <3>1, OrderlyKept DEF Stream
      <3>2. CASE outgoing' = outgoing \o Message(Disc, HeaderLen)
        <4>1. outgoing' = outgoing \o Message(Disc, Lengths'[Disc])
          BY <1>2, <3>2
        <4>2. Disc \notin Handles
          BY SessionAssumption DEF Handles
        <4> QED BY <1>1, <1>2, <1>7, <2>1, <4>1, <4>2, AppendStep
      <3> QED BY <1>3, <3>1, <3>2
    <2>3. Position'
      BY <2>1 DEF Position, InHand, Length
    <2> QED BY <1>7, <2>1, <2>2, <2>3 DEF FrameInv
  <1> QED BY <1>8, <1>9

\* The first element of a sequence is one of its elements.
LEMMA FirstElement ==
    ASSUME NEW S, NEW q \in Seq(S), q # << >> PROVE q[1] \in S
  OBVIOUS

\* Every step of the session keeps the stream framed.
LEMMA NextKeepsFrame == FrameInv /\ [Next]_vars => FrameInv'
  <1> SUFFICES ASSUME FrameInv, [Next]_vars PROVE FrameInv'
    OBVIOUS
  <1>1. TypeOK /\ AnswerType
    BY DEF FrameInv
  <1>2. ASSUME UNCHANGED <<op, outgoing, socket, reactor, buffer, seen>>, TypeOK', AnswerType'
        PROVE  FrameInv'
    <2>1. UNCHANGED Stream
      BY <1>2 DEF Stream, Held
    <2>2. Orderly => Orderly'
      BY <1>2, <2>1, OrderlyKept
    <2>3. Position => Position'
      BY <1>2 DEF Position, InHand, Length
    <2> QED BY <1>2, <2>2, <2>3 DEF FrameInv
  <1>3. CASE Deliver
    <2>1. TypeOK' /\ AnswerType'
      BY <1>1, <1>3 DEF Deliver, TypeOK, AnswerType, answerVars, uidVars, processVars
    <2>2. /\ outgoing # << >> /\ outgoing \in Seq(Tokens) /\ socket \in Seq(Tokens)
          /\ socket' = Append(socket, Head(outgoing)) /\ outgoing' = Tail(outgoing)
          /\ Held' = Held
      BY <1>1, <1>3 DEF Deliver, TypeOK, Held
    <2>3. Stream' = Stream
      BY <2>2, MoveOne DEF Stream
    <2>4. Orderly => Orderly'
      BY <1>3, <2>3, OrderlyKept DEF Deliver
    <2>5. Position => Position'
      BY <1>3 DEF Deliver, Position, InHand, Length
    <2> QED BY <1>3, <2>1, <2>4, <2>5 DEF FrameInv, Deliver
  <1>4. ASSUME UNCHANGED <<op, outgoing, socket>>, Orderly, TypeOK', AnswerType', Position',
               reactor \in {"select", "count", "store", "table"},
               \/ reactor' \in {"select", "count", "store", "table"}
               \/ reactor' = "header" /\ buffer' = << >>,
               reactor' \in {"store", "table"} => seen' \in Nat
        PROVE  FrameInv'
    <2>1. Held = << >> /\ Held' = << >>
      BY <1>4 DEF Held
    <2>2. Stream' = Stream
      BY <1>4, <2>1 DEF Stream
    <2>3. Orderly'
      BY <1>4, <2>2, OrderlyKept
    <2> QED BY <1>4, <2>3 DEF FrameInv
  <1>5. CASE WakeUp
    <2>1. TypeOK' /\ AnswerType' /\ Orderly
      BY <1>1, <1>5 DEF WakeUp, Serving, FrameInv, TypeOK, AnswerType, kernelVars, answerVars,
                        uidVars, processVars
    <2>2. Position'
      BY <1>5, SessionAssumption DEF WakeUp, Position, InHand
    <2> QED BY <1>4, <1>5, <2>1, <2>2 DEF WakeUp, kernelVars
  <1>6. CASE ReadCounter
    <2>1. TypeOK' /\ AnswerType' /\ Orderly /\ s_counter \in Nat
      BY <1>1, <1>6 DEF ReadCounter, Serving, FrameInv, TypeOK, AnswerType, kernelVars, answerVars,
                        uidVars, processVars
    <2>2. Position'
      BY <1>6 DEF FrameInv, ReadCounter, Serving, Position, InHand, Length, kernelVars
    <2>3. UNCHANGED <<op, outgoing, socket>> /\ reactor = "count" /\ reactor' = "store" /\ seen' \in Nat
      BY <1>6, <2>1 DEF ReadCounter, kernelVars
    <2> QED BY <1>4, <2>1, <2>2, <2>3
  <1>7. CASE StoreCounter
    <2>1. seen \in Nat /\ s_counter' \in Nat
      BY <1>1, <1>7 DEF FrameInv, StoreCounter
    <2>2. TypeOK' /\ AnswerType' /\ Orderly
      BY <1>1, <1>7, <2>1 DEF StoreCounter, Serving, FrameInv, TypeOK, AnswerType, kernelVars,
                              answerVars, processVars
    <2>3. Position'
      BY <1>7 DEF FrameInv, StoreCounter, Serving, Position, InHand, Length, kernelVars
    <2>4. UNCHANGED <<op, outgoing, socket>> /\ reactor = "store" /\ reactor' = "table" /\ seen' \in Nat
      BY <1>7, <2>1 DEF StoreCounter, kernelVars
    <2> QED BY <1>4, <2>2, <2>3, <2>4
  <1>8. CASE PrepareReply
    <2>1. seen \in Nat /\ buffer[1].handle \in Handles /\ Orderly
      BY <1>8 DEF FrameInv, PrepareReply, Serving, Position, InHand
    <2>2. /\ m_responses' \subseteq [uid : Nat, handle : Handles]
          /\ working' \subseteq [uid : Nat, of : Handles]
      BY <1>1, <1>8, <2>1 DEF PrepareReply, TypeOK
    <2>3. TypeOK' /\ AnswerType'
      BY <1>1, <1>8, <2>2 DEF PrepareReply, TypeOK, AnswerType, kernelVars, answerVars, uidVars,
                              processVars
    <2>4. Position'
      BY <1>8 DEF PrepareReply, Position, InHand
    <2>5. UNCHANGED <<op, outgoing, socket>> /\ reactor = "table" /\ reactor' = "select"
      BY <1>8 DEF PrepareReply, kernelVars
    <2> QED BY <1>4, <2>1, <2>3, <2>4, <2>5
  <1>9. ASSUME NEW w \in working, ResultReadsCounter(w) PROVE FrameInv'
    <2>1. TypeOK' /\ AnswerType'
      BY <1>1, <1>9 DEF ResultReadsCounter, TypeOK, AnswerType, kernelVars, uidVars, processVars
    <2> QED BY <1>2, <1>9, <2>1 DEF ResultReadsCounter, kernelVars
  <1>10. CASE ResultStoresCounter
    <2>1. rolledBack' \in BOOLEAN
      BY <1>1, <1>10 DEF ResultStoresCounter
    <2>2. seenToo \in Nat /\ s_counter' \in Nat
      BY <1>1, <1>10 DEF ResultStoresCounter, TypeOK
    <2>3. {rolledBack', refused', usedClosed'} \subseteq BOOLEAN
      BY <1>1, <1>10, <2>1, Zenon DEF ResultStoresCounter, TypeOK, processVars
    <2>4. TypeOK' /\ AnswerType'
      BY <1>1, <1>10, <2>2, <2>3 DEF ResultStoresCounter, TypeOK, AnswerType, kernelVars,
                                     reactorVars, processVars
    <2> QED BY <1>2, <1>10, <2>4 DEF ResultStoresCounter, kernelVars, reactorVars
  <1>11. CASE OnNBDResponse
    <2>1. answering[1] \in [uid : Nat, of : Handles]
      BY <1>1, <1>11, FirstElement DEF OnNBDResponse, AnswerType
    <2>2. replies' \in Seq([handle : Handles, of : Handles])
      <3> DEFINE found == {r \in m_responses : r.uid = answering[1].uid}
      <3>1. CASE found = {}
        BY <1>1, <1>11, <3>1 DEF OnNBDResponse, TypeOK
      <3>2. CASE found # {}
        <4>1. (CHOOSE r \in found : TRUE) \in [uid : Nat, handle : Handles]
          BY <1>1, <3>2 DEF TypeOK
        <4>2. [handle |-> (CHOOSE r \in found : TRUE).handle, of |-> answering[1].of]
                  \in [handle : Handles, of : Handles]
          BY <2>1, <4>1
        <4>3. replies' = Append(replies, [handle |-> (CHOOSE r \in found : TRUE).handle,
                                          of |-> answering[1].of])
          BY <1>11, <3>2 DEF OnNBDResponse
        <4>4. replies \in Seq([handle : Handles, of : Handles])
          BY <1>1 DEF TypeOK
        <4> HIDE DEF found
        <4> QED BY <4>2, <4>3, <4>4, AppendProperties
      <3> QED BY <3>1, <3>2
    <2>3. m_responses' \subseteq [uid : Nat, handle : Handles] /\ AnswerType'
      BY <1>1, <1>11 DEF OnNBDResponse, TypeOK, AnswerType
    <2>4. TypeOK'
      BY <1>1, <1>11, <2>2, <2>3 DEF OnNBDResponse, TypeOK, uidVars, processVars
    <2> QED BY <1>2, <1>11, <2>3, <2>4 DEF OnNBDResponse
  <1>12. CASE RunClient \/ ChildEnds \/ InstallHandler \/ DestroyEnd
    <2>1. TypeOK' /\ AnswerType'
      BY <1>1, <1>12 DEF RunClient, ChildEnds, InstallHandler, DestroyEnd, TypeOK, AnswerType,
                         kernelVars, reactorVars, answerVars, uidVars
    <2> QED BY <1>2, <1>12, <2>1 DEF RunClient, ChildEnds, InstallHandler, DestroyEnd, kernelVars,
                                     reactorVars
  <1>13. CASE Signal
    <2>1. signals' \in 0..MaxSignals
      BY <1>1, <1>13, SessionAssumption DEF Signal, TypeOK
    <2>2. CASE parent' = "killed" /\ UNCHANGED <<outgoing, device, refused, usedClosed, reactor>>
      <3>1. TypeOK' /\ AnswerType'
        BY <1>1, <1>13, <2>1, <2>2 DEF Signal, TypeOK, AnswerType, answerVars, uidVars
      <3> QED BY <1>2, <1>13, <2>2, <3>1 DEF Signal
    <2>3. CASE /\ parent \in {"ready", "waiting", "gone"} /\ DisconnectNBD /\ parent' = parent
               /\ reactor' = reactor \/ (reactor = "select" /\ reactor' = "failed")
      BY <1>13, <2>1, <2>3, DisconnectKeepsFrame DEF Signal
    <2> QED BY <1>13, <2>2, <2>3 DEF Signal
  <1>14. CASE DestroyBegin
    <2>1. signals' \in 0..MaxSignals
      BY <1>1, <1>14 DEF DestroyBegin, TypeOK
    <2> QED BY <1>14, <2>1, DisconnectKeepsFrame DEF DestroyBegin, reactorVars
  <1>15. CASE UNCHANGED vars
    <2>1. TypeOK' /\ AnswerType'
      BY <1>1, <1>15 DEF vars, TypeOK, AnswerType, kernelVars, reactorVars, answerVars, uidVars,
                         processVars
    <2> QED BY <1>2, <1>15, <2>1 DEF vars, kernelVars, reactorVars
  <1>16. CASE ReceiveThrows
    <2>1. TypeOK' /\ AnswerType'
      BY <1>1, <1>16 DEF ReceiveThrows, TypeOK, AnswerType, kernelVars, answerVars, uidVars,
                         processVars
    <2> QED BY <1>16, <2>1 DEF ReceiveThrows, FrameInv
  <1> QED BY <1>3, <1>5, <1>6, <1>7, <1>8, <1>9, <1>10, <1>11, <1>12, <1>13, <1>14, <1>15, <1>16,
             IssueKeepsFrame, ReceiveKeepsFrame DEF Next

\* However the bytes of requests and disconnect requests arrive, Receive hands over
\* exactly one request at a time and NBDProxy never throws over a wrong magic.
THEOREM RequestsAlwaysFramed == Spec => []RequestsFramed
  <1>1. FrameInv => RequestsFramed
    <2>1. Disc \notin Handles
      BY SessionAssumption DEF Handles
    <2>2. InHand => reactor # "failed"
      BY DEF InHand
    <2> QED BY <2>1, <2>2 DEF FrameInv, RequestsFramed, Position, InHand
  <1> QED BY <1>1, InitFrame, NextKeepsFrame, PTL DEF Spec

-------------------------------------------------------------------------------
(* Each request is in one place. *)

\* A message of a request that is not in q, or of Disc, is put behind q.
LEMMA AppendedDistinct ==
    ASSUME NEW q \in Seq(Tokens), Distinct(q), NEW h \in Names, h \in Handles => ~On(q, h),
           NEW n \in 1..(HeaderLen + DataLen)
    PROVE  /\ Distinct(Put(q, Message(h, n)))
           /\ \A g \in Handles : On(Put(q, Message(h, n)), g) => On(q, g) \/ g = h
  <1>1. n \in Nat /\ Len(q) \in Nat
    BY SessionAssumption
  <1>2. PICK m \in Seq(Tokens) : /\ m = Message(h, n) /\ Len(m) = n
                                 /\ \A k \in 1..n : m[k] = [handle |-> h, part |-> k]
    BY MessageType
  <1>3. PICK r \in Seq(Tokens) : r = q \o m
    <2>1. q \o m \in Seq(Tokens)
      BY <1>2
    <2> QED BY <2>1
  <1>4. /\ Len(r) = Len(q) + n
        /\ \A p \in 1..Len(q) : r[p] = q[p]
        /\ \A p \in 1..Len(r) : p \notin 1..Len(q) => r[p] = [handle |-> h, part |-> p - Len(q)]
    <2>1. Len(r) = Len(q) + n /\ \A p \in 1..Len(q) : r[p] = q[p]
      <3>1. m \in Seq(Tokens)
        BY <1>2
      <3>2. Len(q \o m) = Len(q) + Len(m) /\ \A p \in 1..Len(q) : (q \o m)[p] = q[p]
        BY <3>1
      <3> QED BY <1>2, <1>3, <3>2
    <2>2. ASSUME NEW p \in 1..Len(r), p \notin 1..Len(q) PROVE r[p] = [handle |-> h, part |-> p - Len(q)]
      <3>1. p - Len(q) \in 1..n /\ r[p] = m[p - Len(q)]
        BY <1>1, <1>2, <1>3, <2>1, <2>2
      <3> QED BY <1>2, <3>1
    <2> QED BY <2>1, <2>2
  <1>5. \A p \in 1..Len(r) : p \notin 1..Len(q) => r[p].handle = h /\ r[p].part = p - Len(q)
    BY <1>4
  <1>6. \A p \in 1..Len(q) : h \in Handles => q[p].handle # h
    BY DEF On
  <1>7. Distinct(r)
    <2> SUFFICES ASSUME NEW p \in 1..Len(r), NEW j \in 1..Len(r), r[p].handle \in Handles, r[p] = r[j]
                 PROVE  p = j
      BY DEF Distinct
    <2>1. CASE p \in 1..Len(q) /\ j \in 1..Len(q)
      BY <1>4, <2>1 DEF Distinct
    <2>2. CASE p \notin 1..Len(q) /\ j \notin 1..Len(q)
      <3>1. p - Len(q) = j - Len(q)
        BY <1>5, <2>2
      <3> QED BY <1>1, <1>4, <3>1
    <2>3. CASE p \in 1..Len(q) /\ j \notin 1..Len(q)
      BY <1>4, <1>5, <1>6, <2>3
    <2>4. CASE p \notin 1..Len(q) /\ j \in 1..Len(q)
      BY <1>4, <1>5, <1>6, <2>4
    <2> QED BY <2>1, <2>2, <2>3, <2>4
  <1>8. \A g \in Handles : On(r, g) => On(q, g) \/ g = h
    <2> SUFFICES ASSUME NEW g \in Handles, NEW p \in 1..Len(r), r[p].handle = g, g # h PROVE On(q, g)
      BY DEF On
    <2>1. p \in 1..Len(q) /\ q[p].handle = g
      BY <1>4, <1>5
    <2> QED BY <2>1 DEF On
  <1> QED BY <1>2, <1>3, <1>7, <1>8 DEF Put

\* The message taken from a framed stream is not in the rest of it.
LEMMA TakenDistinct ==
    ASSUME NEW len \in [Names -> 1..(HeaderLen + DataLen)], NEW h \in Names,
           NEW b \in Seq(Tokens), b = Message(h, len[h]), NEW rest \in Seq(Tokens),
           Framed(len, Put(b, rest)), Distinct(Put(b, rest))
    PROVE  /\ Distinct(rest) /\ On(Put(b, rest), h)
           /\ \A g \in Handles : On(rest, g) => On(Put(b, rest), g) /\ g # h
  <1> DEFINE l == len[h]
  <1>1. l \in 1..(HeaderLen + DataLen) /\ l \in Nat \ {0}
    BY SessionAssumption
  <1>2. Len(b) = l /\ \A k \in 1..l : b[k] = [handle |-> h, part |-> k]
    BY <1>1, MessageType
  <1>3. PICK q \in Seq(Tokens) : q = b \o rest
    <2>1. b \o rest \in Seq(Tokens)
      OBVIOUS
    <2> QED BY <2>1
  <1>4. Framed(len, q) /\ Distinct(q)
    BY <1>3 DEF Put
  <1>5. /\ Len(q) = l + Len(rest) /\ Len(rest) \in Nat
        /\ \A k \in 1..l : q[k] = b[k]
        /\ \A i \in 1..Len(rest) : l + i \in 1..Len(q) /\ q[l + i] = rest[i]
    BY <1>1, <1>2, <1>3
  <1> HIDE DEF l
  <1>6. Distinct(rest)
    <2> SUFFICES ASSUME NEW p \in 1..Len(rest), NEW j \in 1..Len(rest), rest[p].handle \in Handles,
                        rest[p] = rest[j]
                 PROVE  p = j
      BY DEF Distinct
    <2>1. l + p = l + j
      BY <1>4, <1>5 DEF Distinct
    <2> QED BY <1>1, <1>5, <2>1
  <1>7. On(q, h)
    <2>1. 1 \in 1..Len(q) /\ q[1].handle = h
      BY <1>1, <1>2, <1>5
    <2> QED BY <2>1 DEF On
  <1>8. ASSUME NEW g \in Handles, On(rest, g) PROVE On(q, g) /\ g # h
    <2>1. PICK i \in 1..Len(rest) : rest[i].handle = g
      BY <1>8 DEF On
    <2>2. l + i \in 1..Len(q) /\ q[l + i].handle = g
      BY <1>5, <2>1
    <2>3. g # h
      <3> SUFFICES ASSUME g = h PROVE FALSE
        OBVIOUS
      <3> DEFINE k == q[l + i].part
      <3>1. k \in 1..l
        BY <1>4, <2>2 DEF Framed, l
      <3>2. q[k] = [handle |-> h, part |-> k] /\ k \in 1..Len(q)
        BY <1>1, <1>2, <1>5, <3>1
      <3>3. q[l + i] \in Tokens
        BY <2>2
      <3>4. q[l + i] = [handle |-> h, part |-> k]
        BY <2>2, <3>3 DEF Tokens
      <3>5. l + i = k
        BY <1>4, <2>2, <3>2, <3>4 DEF Distinct
      <3> QED BY <1>1, <3>1, <3>5
    <2> QED BY <2>2, <2>3 DEF On
  <1> QED BY <1>3, <1>6, <1>7, <1>8 DEF Put

\* A step that gives no request a new place.
LEMMA PlacesKept ==
    ASSUME OnePlace, UNCHANGED <<working, replies, answering>>,
           \A h \in Handles : op[h] # "none" => op'[h] # "none",
           \A h \in Handles : Current(h)' => Current(h),
           reactor' # "failed" => /\ reactor # "failed" /\ Distinct(Stream')
                                  /\ \A h \in Handles : Waiting(h)' => Waiting(h)
    PROVE  OnePlace'
  <1>1. \A h \in Handles : /\ Worked(h)' <=> Worked(h)
                           /\ Answered(h)' <=> Answered(h)
                           /\ Replied(h)' <=> Replied(h)
    BY DEF Worked, Answered, Replied
  <1>2. WorkedOnce' /\ RepliedOnce'
    BY DEF OnePlace, WorkedOnce, RepliedOnce
  <1>3. Apart'
    BY <1>1 DEF OnePlace, Apart
  <1>4. ASSUME reactor' # "failed" PROVE StreamApart'
    BY <1>1, <1>4 DEF OnePlace, StreamApart
  <1> QED BY <1>2, <1>3, <1>4 DEF OnePlace

\* A new request is in the stream and nowhere else.
LEMMA IssueKeepsPlaces ==
    ASSUME FrameInv, OnePlace, NEW h \in Handles, NEW o \in {"read", "write"}, Issue(h, o)
    PROVE  OnePlace'
  <1>1. TypeOK /\ TypeOK'
    BY IssueKeepsFrame DEF FrameInv
  <1>2. op' = [op EXCEPT ![h] = o] /\ op[h] = "none"
    BY DEF Issue
  <1>3. op'[h] = o /\ \A g \in Handles : g # h => op'[g] = op[g]
    BY <1>1, <1>2 DEF TypeOK
  <1>4. UNCHANGED <<working, replies, answering, reactor, buffer, socket>>
    BY DEF Issue, reactorVars, answerVars
  <1>5. \A g \in Handles : /\ Worked(g)' <=> Worked(g)
                           /\ Answered(g)' <=> Answered(g)
                           /\ Replied(g)' <=> Replied(g)
                           /\ Current(g)' <=> Current(g)
    BY <1>4 DEF Worked, Answered, Replied, Current, InHand
  <1>6. WorkedOnce' /\ RepliedOnce'
    BY <1>4 DEF OnePlace, WorkedOnce, RepliedOnce
  <1>7. Apart'
    BY <1>3, <1>5 DEF OnePlace, Apart
  <1>8. ASSUME reactor' # "failed" PROVE StreamApart'
    <2>1. Orderly /\ Position /\ StreamApart
      BY <1>4, <1>8 DEF FrameInv, OnePlace
    <2>2. h \in Names /\ Lengths'[h] = Length(h)' /\ Length(h)' \in 1..(HeaderLen + DataLen)
      BY <1>1, SessionAssumption DEF Names, Lengths, Length, TypeOK
    <2>3. Stream' = Stream \o Message(h, Lengths'[h])
      <3>1. UNCHANGED <<socket, Held>>
        BY <1>4 DEF Held
      <3>2. outgoing' = outgoing \o Message(h, Lengths'[h])
        BY <2>2 DEF Issue
      <3>3. \A g \in Handles : op[g] # "none" => op'[g] = op[g]
        BY <1>2, <1>3
      <3>4. h \in Handles => op'[h] # "none"
        BY <1>3
      <3> QED BY <1>1, <2>1, <2>2, <3>1, <3>2, <3>3, <3>4, AppendStep
    <2>4. PICK n \in 1..(HeaderLen + DataLen) : n = Lengths'[h]
      BY <2>2
    <2>5. Stream \in Seq(Tokens) /\ Stream' = Put(Stream, Message(h, n))
      BY <1>1, <2>3, <2>4, StreamType DEF Put
    <2>6. ~On(Stream, h)
      BY <1>2, <2>1 DEF On, Orderly
    <2>7. Distinct(Stream) /\ ~Current(h) /\ ~Worked(h) /\ ~Answered(h) /\ ~Replied(h)
      BY <1>2, <2>1 DEF StreamApart, OnePlace, Apart, Current, Position
    <2>8. Distinct(Stream') /\ \A g \in Handles : On(Stream', g) => On(Stream, g) \/ g = h
      BY <2>2, <2>4, <2>5, <2>6, <2>7, AppendedDistinct
    <2> QED BY <1>5, <2>1, <2>7, <2>8 DEF StreamApart, Waiting
  <1> QED BY <1>6, <1>7, <1>8 DEF OnePlace

\* A disconnect request moves no request.
LEMMA DisconnectKeepsPlaces ==
    ASSUME FrameInv, FrameInv', OnePlace, DisconnectNBD,
           UNCHANGED <<op, replies, socket, buffer, working, answerVars>>,
           reactor' = reactor \/ (reactor = "select" /\ reactor' = "failed")
    PROVE  OnePlace'
  <1>1. \A h \in Handles : Current(h)' => Current(h)
    BY DEF Current, InHand
  <1>2. ASSUME reactor' # "failed"
        PROVE  /\ reactor # "failed" /\ Distinct(Stream')
               /\ \A h \in Handles : Waiting(h)' => Waiting(h)
    <2>1. TypeOK /\ TypeOK' /\ Orderly /\ Distinct(Stream) /\ UNCHANGED <<socket, Held>>
      BY <1>2 DEF FrameInv, OnePlace, StreamApart, Held
    <2>2. Disc \notin Handles
      BY SessionAssumption DEF Handles
    <2>3. Disc \in Names /\ Lengths'[Disc] = HeaderLen
      BY <2>2 DEF Names, Lengths, Length
    <2>4. CASE outgoing' = outgoing
      BY <1>2, <2>1, <2>4 DEF Stream, Waiting
    <2>5. CASE outgoing' = outgoing \o Message(Disc, HeaderLen)
      <3>1. Stream' = Put(Stream, Message(Disc, HeaderLen)) /\ Stream \in Seq(Tokens)
        <4>1. outgoing' = outgoing \o Message(Disc, Lengths'[Disc])
          BY <2>3, <2>5
        <4> QED BY <2>1, <2>2, <2>3, <4>1, AppendStep, StreamType DEF Put
      <3>2. HeaderLen \in 1..(HeaderLen + DataLen)
        BY SessionAssumption
      <3>3. Distinct(Stream') /\ \A g \in Handles : On(Stream', g) => On(Stream, g) \/ g = Disc
        BY <2>1, <2>2, <2>3, <3>1, <3>2, AppendedDistinct
      <3> QED BY <1>2, <2>2, <3>3 DEF Waiting
    <2> QED BY <2>4, <2>5 DEF DisconnectNBD
  <1> QED BY <1>1, <1>2, PlacesKept DEF answerVars

\* A request that has been read to its end moves from the stream to its reader.
LEMMA ReceiveKeepsPlaces ==
    ASSUME FrameInv, OnePlace, Receive PROVE OnePlace'
  <1>1. FrameInv' /\ ReceiveEffect
    BY ReceiveKeepsFrame
  <1>2. UNCHANGED <<op, working, replies, answering>>
    BY DEF Receive, Recv, kernelVars, answerVars
  <1>3. /\ reactor \in {"header", "data"} /\ TypeOK /\ TypeOK' /\ Orderly /\ StreamApart
        /\ \A h \in Handles : ~Current(h)
    BY <1>1 DEF ReceiveEffect, FrameInv, OnePlace, Current, InHand
  <1>4. CASE reactor' \in {"header", "data"} /\ Stream' = Stream
    <2>1. \A h \in Handles : ~Current(h)'
      BY <1>4 DEF Current, InHand
    <2> QED BY <1>2, <1>3, <1>4, <2>1, PlacesKept DEF StreamApart, Waiting
  <1>5. CASE reactor' \in {"select", "count"} /\ TakesFirst
    <2>1. PICK len \in [Names -> 1..(HeaderLen + DataLen)] : len = Lengths
      BY <1>3, LengthType
    <2>2. PICK b \in Seq(Tokens) : b = buffer'
      BY <1>3 DEF TypeOK
    <2>3. Stream' \in Seq(Tokens)
      BY <1>3, SessionAssumption DEF TypeOK, Stream, Joined, Held
    <2>4. PICK rest \in Seq(Tokens) : rest = Stream'
      BY <2>3
    <2>5. PICK h \in Names : h = b[1].handle
      BY <1>5, <2>2 DEF TakesFirst
    <2>6. b = Message(h, len[h]) /\ Stream = Put(b, rest)
      BY <1>5, <2>1, <2>2, <2>4, <2>5 DEF TakesFirst
    <2>7. Framed(len, Put(b, rest)) /\ Distinct(Put(b, rest))
      BY <1>3, <2>1, <2>6 DEF Orderly, StreamApart
    <2>8. /\ Distinct(rest) /\ On(Put(b, rest), h)
          /\ \A g \in Handles : On(rest, g) => On(Put(b, rest), g) /\ g # h
      BY <2>1, <2>2, <2>4, <2>5, <2>6, <2>7, TakenDistinct
    <2>9. Distinct(Stream') /\ Waiting(h) /\ \A g \in Handles : Waiting(g)' => Waiting(g) /\ g # h
      BY <2>4, <2>6, <2>8 DEF Waiting
    <2>10. \A g \in Handles : Current(g)' => g = h
      BY <2>2, <2>5 DEF Current
    <2>11. \A g \in Handles : /\ Worked(g)' <=> Worked(g)
                              /\ Answered(g)' <=> Answered(g)
                              /\ Replied(g)' <=> Replied(g)
      BY <1>2 DEF Worked, Answered, Replied
    <2>12. WorkedOnce' /\ RepliedOnce'
      BY <1>2 DEF OnePlace, WorkedOnce, RepliedOnce
    <2>13. Apart'
      BY <1>2, <1>3, <2>9, <2>10, <2>11 DEF OnePlace, Apart, StreamApart
    <2>14. StreamApart'
      BY <1>3, <2>9, <2>10, <2>11 DEF StreamApart
    <2> QED BY <2>12, <2>13, <2>14 DEF OnePlace
  <1> QED BY <1>1, <1>4, <1>5 DEF ReceiveEffect

\* The task goes to the pool, and the reply is prepared under its uid.
LEMMA PrepareKeepsReplies ==
    ASSUME RepliesInv, PrepareReply
    PROVE  OnePlace' /\ (rolledBack' \/ UidsPair')
  <1>1. FrameInv /\ OnePlace /\ TypeOK /\ Position /\ StreamApart /\ reactor = "table" /\ seen \in Nat
    BY DEF RepliesInv, FrameInv, PrepareReply, Serving, OnePlace
  <1>2. PICK h \in Handles : h = buffer[1].handle /\ Current(h) /\ op[h] # "none"
    BY <1>1 DEF Position, InHand, Current
  <1>3. /\ working' = working \cup {[uid |-> seen, of |-> h]}
        /\ UNCHANGED <<op, replies, answering, s_counter, rolledBack>> /\ reactor' = "select"
        /\ UNCHANGED Stream
    BY <1>1, <1>2 DEF PrepareReply, kernelVars, answerVars, uidVars, Stream, Held
  <1>4. ~Worked(h) /\ ~Answered(h) /\ ~Replied(h)
    BY <1>1, <1>2 DEF OnePlace, Apart
  <1>5. \A g \in Handles : /\ Worked(g)' <=> Worked(g) \/ g = h
                           /\ Answered(g)' <=> Answered(g)
                           /\ Replied(g)' <=> Replied(g)
                           /\ ~Current(g)'
                           /\ Waiting(g)' <=> Waiting(g)
    <2>1. \A g \in Handles : Worked(g)' <=> Worked(g) \/ g = h
      <3>1. \A w : w \in working' <=> w \in working \/ w = [uid |-> seen, of |-> h]
        BY <1>3
      <3>2. [uid |-> seen, of |-> h].of = h
        OBVIOUS
      <3> QED BY <3>1, <3>2 DEF Worked
    <2> QED BY <1>3, <2>1 DEF Answered, Replied, Current, InHand, Waiting
  <1>6. WorkedOnce'
    <2>1. \A w \in working : w.of # h
      BY <1>4 DEF Worked
    <2>2. \A w \in working' : w \in working \/ (w.of = h /\ w = [uid |-> seen, of |-> h])
      BY <1>3
    <2> QED BY <1>1, <2>1, <2>2 DEF OnePlace, WorkedOnce
  <1>7. RepliedOnce'
    BY <1>1, <1>3 DEF OnePlace, RepliedOnce
  <1>8. Apart'
    BY <1>1, <1>2, <1>3, <1>4, <1>5 DEF OnePlace, Apart
  <1>9. StreamApart'
    BY <1>1, <1>2, <1>3, <1>5 DEF StreamApart
  <1>10. ASSUME UidsPair PROVE UidsPair'
    <2>1. m_responses' = m_responses \cup {[uid |-> seen, handle |-> h]}
      BY <1>1, <1>2, <1>10, SMT DEF PrepareReply, UidsPair, TypeOK
    <2>2. \A r \in m_responses : r.uid \in Nat /\ r.uid < seen
      BY <1>1, <1>10 DEF UidsPair, TypeOK
    <2>3. \A r \in m_responses' : r.uid < s_counter
      BY <1>1, <1>10, <2>1 DEF UidsPair
    <2>4. ASSUME NEW r \in m_responses', NEW s \in m_responses', r.uid = s.uid PROVE r = s
      <3> DEFINE new == [uid |-> seen, handle |-> h]
      <3>1. \A t \in m_responses' : t \in m_responses \/ t = new
        BY <2>1
      <3>2. \A t \in m_responses : t.uid # new.uid
        BY <1>1, <2>2
      <3> HIDE DEF new
      <3> QED BY <1>10, <2>4, <3>1, <3>2 DEF UidsPair
    <2>5. ASSUME NEW w \in working' PROVE [uid |-> w.uid, handle |-> w.of] \in m_responses'
      <3>1. CASE w \in working
        BY <1>10, <2>1, <3>1 DEF UidsPair
      <3>2. CASE w = [uid |-> seen, of |-> h]
        BY <2>1, <3>2
      <3> QED BY <1>3, <3>1, <3>2
    <2> QED BY <1>3, <1>10, <2>1, <2>3, <2>4, <2>5 DEF UidsPair
  <1> QED BY <1>3, <1>6, <1>7, <1>8, <1>9, <1>10 DEF OnePlace, RepliesInv

\* A ticket is done: its request goes from the drive to the thread that answers it.
LEMMA ResultKeepsReplies ==
    ASSUME RepliesInv, NEW w \in working, ResultReadsCounter(w)
    PROVE  OnePlace' /\ (rolledBack' \/ UidsPair')
  <1>1. FrameInv /\ OnePlace /\ TypeOK /\ w \in [uid : Nat, of : Handles]
    BY DEF RepliesInv, FrameInv, TypeOK
  <1>2. /\ working' = working \ {w} /\ answering = << >> /\ answering' = <<w>>
        /\ UNCHANGED <<op, replies, s_counter, rolledBack, reactor, buffer, seen, m_responses>>
        /\ UNCHANGED Stream
    BY DEF ResultReadsCounter, kernelVars, uidVars, Stream, Held
  <1>3. /\ \A v \in working' : v \in working /\ v # w
        /\ w.of \in Handles /\ answering'[1] = w /\ answering' # << >>
    BY <1>1, <1>2
  <1>4. \A h \in Handles : /\ Worked(h)' => Worked(h) /\ h # w.of
                           /\ Answered(h)' <=> h = w.of
                           /\ Replied(h)' <=> Replied(h)
                           /\ Current(h)' <=> Current(h)
                           /\ Waiting(h)' <=> Waiting(h)
    <2>1. \A h \in Handles : Worked(h)' => Worked(h) /\ h # w.of
      BY <1>1, <1>3 DEF Worked, OnePlace, WorkedOnce
    <2> QED BY <1>2, <1>3, <2>1 DEF Answered, Replied, Current, InHand, Waiting
  <1>5. Worked(w.of)
    BY DEF Worked
  <1>6. WorkedOnce' /\ RepliedOnce'
    BY <1>1, <1>2, <1>3 DEF OnePlace, WorkedOnce, RepliedOnce
  <1>7. Apart'
    BY <1>1, <1>2, <1>3, <1>4, <1>5 DEF OnePlace, Apart
  <1>8. ASSUME reactor' # "failed" PROVE StreamApart'
    BY <1>1, <1>2, <1>3, <1>4, <1>5, <1>8 DEF OnePlace, StreamApart
  <1>9. ASSUME UidsPair PROVE UidsPair'
    BY <1>2, <1>3, <1>9 DEF UidsPair
  <1> QED BY <1>2, <1>6, <1>7, <1>8, <1>9 DEF OnePlace, RepliesInv

\* The reply prepared under the uid is the request's, and it is sent.
LEMMA ResponseKeepsReplies ==
    ASSUME RepliesInv, OnNBDResponse
    PROVE  OnePlace' /\ (rolledBack' \/ UidsPair')
  <1> DEFINE found == {r \in m_responses : r.uid = answering[1].uid}
  <1>1. FrameInv /\ OnePlace /\ TypeOK /\ AnswerType /\ answering # << >>
    BY DEF RepliesInv, FrameInv, OnNBDResponse
  <1>2. PICK a \in [uid : Nat, of : Handles] : a = answering[1]
    BY <1>1, FirstElement DEF AnswerType
  <1>3. a.of \in Handles /\ Answered(a.of) /\ ~Worked(a.of) /\ ~Replied(a.of)
    BY <1>1, <1>2 DEF Answered, OnePlace, Apart
  <1>4. /\ answering' = << >> /\ m_responses' = m_responses \ found
        /\ UNCHANGED <<op, working, s_counter, rolledBack, reactor, buffer, seen>>
        /\ UNCHANGED Stream
    BY DEF OnNBDResponse, uidVars, Stream, Held
  <1>5. PICK x : replies' = replies \/ replies' = Append(replies, [handle |-> x, of |-> a.of])
    BY <1>2 DEF OnNBDResponse
  <1>6. /\ Len(replies) \in Nat
        /\ \A k \in 1..Len(replies) : k \in 1..Len(replies') /\ replies'[k] = replies[k]
        /\ \A k \in 1..Len(replies') :
               k \in 1..Len(replies) \/ (k = Len(replies) + 1 /\ replies'[k].of = a.of)
    <2>1. PICK T : replies \in Seq(T)
      BY <1>1 DEF TypeOK
    <2>2. CASE replies' = replies
      BY <2>1, <2>2
    <2>3. CASE replies' = Append(replies, [handle |-> x, of |-> a.of])
      BY <2>1, <2>3
    <2> QED BY <1>5, <2>2, <2>3
  <1>7. \A h \in Handles : /\ Worked(h)' <=> Worked(h)
                           /\ ~Answered(h)'
                           /\ Replied(h)' => Replied(h) \/ h = a.of
                           /\ Current(h)' <=> Current(h)
                           /\ Waiting(h)' <=> Waiting(h)
    <2>1. \A h \in Handles : Replied(h)' => Replied(h) \/ h = a.of
      BY <1>6 DEF Replied
    <2> QED BY <1>4, <2>1 DEF Worked, Answered, Current, InHand, Waiting
  <1>8. WorkedOnce'
    BY <1>1, <1>4 DEF OnePlace, WorkedOnce
  <1>9. RepliedOnce'
    <2>1. \A k \in 1..Len(replies) : replies[k].of # a.of
      BY <1>3 DEF Replied
    <2> QED BY <1>1, <1>6, <2>1 DEF OnePlace, RepliedOnce
  <1>10. Apart'
    BY <1>1, <1>3, <1>4, <1>7 DEF OnePlace, Apart
  <1>11. ASSUME reactor' # "failed" PROVE StreamApart'
    BY <1>1, <1>3, <1>4, <1>7, <1>11 DEF OnePlace, StreamApart
  <1>12. ASSUME UidsPair PROVE UidsPair'
    <2>1. [uid |-> a.uid, handle |-> a.of] \in m_responses
      BY <1>1, <1>2, <1>12 DEF UidsPair
    <2>2. found = {[uid |-> a.uid, handle |-> a.of]}
      BY <1>2, <1>12, <2>1 DEF UidsPair
    <2>3. replies' = Append(replies, [handle |-> a.of, of |-> a.of])
      <3>1. (CHOOSE r \in found : TRUE) = [uid |-> a.uid, handle |-> a.of]
        BY <2>2
      <3> QED BY <1>2, <2>2, <3>1 DEF OnNBDResponse
    <2>4. \A k \in 1..Len(replies') : replies'[k].handle = replies'[k].of
      <3>1. PICK T : replies \in Seq(T)
        BY <1>1 DEF TypeOK
      <3>2. \A k \in 1..Len(replies') :
                k \in 1..Len(replies) \/ replies'[k] = [handle |-> a.of, of |-> a.of]
        BY <2>3, <3>1
      <3> QED BY <1>6, <1>12, <3>2 DEF UidsPair
    <2>5. ASSUME NEW w \in working PROVE [uid |-> w.uid, handle |-> w.of] \in m_responses'
      <3>1. [uid |-> w.uid, handle |-> w.of] \in m_responses /\ w.of # a.of
        BY <1>3, <1>12 DEF UidsPair, Worked
      <3> QED BY <1>4, <2>2, <3>1
    <2> HIDE DEF found
    <2> QED BY <1>4, <1>12, <2>4, <2>5 DEF UidsPair
  <1> QED BY <1>4, <1>8, <1>9, <1>10, <1>11, <1>12 DEF OnePlace, RepliesInv

\* No request is under way at first.
LEMMA InitReplies == Init => RepliesInv
  <1> SUFFICES ASSUME Init PROVE RepliesInv
    OBVIOUS
  <1>1. FrameInv
    BY InitFrame
  <1>2. Len(Stream) = 0
    BY DEF Init, Stream, Held, Joined
  <1>3. OnePlace
    BY <1>2 DEF Init, OnePlace, WorkedOnce, RepliedOnce, Apart, StreamApart, Distinct, Waiting, On,
                Current, InHand, Worked, Answered, Replied
  <1>4. UidsPair
    BY DEF Init, UidsPair
  <1> QED BY <1>1, <1>3, <1>4 DEF RepliesInv

\* Every step keeps each request in one place, and its uid with its handle.
LEMMA NextKeepsReplies == RepliesInv /\ [Next]_vars => RepliesInv'
  <1> SUFFICES ASSUME RepliesInv, [Next]_vars PROVE RepliesInv'
    OBVIOUS
  <1>1. FrameInv /\ OnePlace /\ FrameInv' /\ TypeOK
    BY NextKeepsFrame DEF RepliesInv, FrameInv
  <1> SUFFICES OnePlace' /\ (rolledBack' \/ UidsPair')
    BY <1>1 DEF RepliesInv
  <1>2. ASSUME UNCHANGED <<working, replies, answering, m_responses, s_counter, rolledBack>>,
               reactor' \in {"store", "table"} => reactor' = reactor /\ seen' = seen
        PROVE  rolledBack' \/ UidsPair'
    BY <1>2 DEF RepliesInv, UidsPair
  <1>3. ASSUME UNCHANGED <<op, working, replies, answering, Stream>>, reactor # "failed",
               InHand' => InHand /\ buffer' = buffer
        PROVE  OnePlace'
    <2>1. \A h \in Handles : Current(h)' => Current(h)
      BY <1>3 DEF Current
    <2>2. Distinct(Stream') /\ \A h \in Handles : Waiting(h)' => Waiting(h)
      BY <1>1, <1>3 DEF OnePlace, StreamApart, Waiting
    <2> QED BY <1>1, <1>3, <2>1, <2>2, PlacesKept
  <1>4. ASSUME UNCHANGED <<op, working, replies, answering, outgoing, socket, reactor, buffer>>
        PROVE  OnePlace'
    <2>1. UNCHANGED Stream
      BY <1>4 DEF Stream, Held
    <2>2. \A h \in Handles : Current(h)' => Current(h)
      BY <1>4 DEF Current, InHand
    <2>3. reactor # "failed" => Distinct(Stream')
      BY <1>1, <2>1 DEF OnePlace, StreamApart
    <2>4. \A h \in Handles : Waiting(h)' => Waiting(h)
      BY <2>1 DEF Waiting
    <2> QED BY <1>1, <1>4, <2>2, <2>3, <2>4, PlacesKept
  <1>5. ASSUME NEW h \in Handles, NEW o \in {"read", "write"}, Issue(h, o)
        PROVE  OnePlace' /\ (rolledBack' \/ UidsPair')
    BY <1>1, <1>2, <1>5, IssueKeepsPlaces DEF Issue, reactorVars, answerVars, uidVars
  <1>6. CASE Deliver
    <2>1. UNCHANGED Stream
      <3>1. /\ outgoing # << >> /\ outgoing \in Seq(Tokens) /\ socket \in Seq(Tokens)
            /\ socket' = Append(socket, Head(outgoing)) /\ outgoing' = Tail(outgoing)
            /\ Held' = Held
        BY <1>1, <1>6 DEF Deliver, TypeOK, Held
      <3> QED BY <3>1, MoveOne DEF Stream
    <2>2. \A h \in Handles : (Current(h)' => Current(h)) /\ (Waiting(h)' => Waiting(h))
      BY <1>6, <2>1 DEF Deliver, Current, InHand, Waiting
    <2>3. reactor # "failed" => Distinct(Stream')
      BY <1>1, <2>1 DEF OnePlace, StreamApart
    <2>4. OnePlace'
      BY <1>1, <1>6, <2>2, <2>3, PlacesKept DEF Deliver, answerVars
    <2> QED BY <1>2, <1>6, <2>4 DEF Deliver, answerVars, uidVars
  <1>7. CASE WakeUp
    <2>1. Held = << >> /\ Held' = << >> /\ ~InHand' /\ reactor = "select"
      BY <1>7 DEF WakeUp, Held, InHand
    <2>2. UNCHANGED Stream
      BY <1>7, <2>1 DEF WakeUp, Stream, kernelVars
    <2>3. OnePlace'
      BY <1>3, <1>7, <2>1, <2>2 DEF WakeUp, kernelVars, answerVars
    <2> QED BY <1>2, <1>7, <2>3 DEF WakeUp, kernelVars, answerVars, uidVars
  <1>8. CASE Receive
    <2>1. ReceiveEffect
      BY <1>1, <1>8, ReceiveKeepsFrame
    <2>2. rolledBack' \/ UidsPair'
      BY <1>2, <1>8, <2>1 DEF Receive, Recv, ReceiveEffect, kernelVars, answerVars, uidVars
    <2> QED BY <1>1, <1>8, <2>2, ReceiveKeepsPlaces
  <1>9. CASE ReadCounter
    <2>1. OnePlace'
      BY <1>3, <1>9 DEF ReadCounter, InHand, Stream, Held, kernelVars, answerVars
    <2>2. ASSUME UidsPair PROVE UidsPair'
      BY <1>1, <1>9, <2>2 DEF UidsPair, ReadCounter, TypeOK, kernelVars, answerVars, uidVars
    <2> QED BY <1>9, <2>1, <2>2 DEF RepliesInv, ReadCounter, uidVars
  <1>10. CASE StoreCounter
    <2>1. OnePlace'
      BY <1>3, <1>10 DEF StoreCounter, InHand, Stream, Held, kernelVars, answerVars
    <2>2. seen \in Nat /\ \A r \in m_responses : r.uid \in Nat
      BY <1>1, <1>10 DEF FrameInv, TypeOK, StoreCounter
    <2>3. ASSUME UidsPair PROVE UidsPair'
      <3>1. \A r \in m_responses : r.uid < seen /\ r.uid < seen + 1
        BY <1>10, <2>2, <2>3 DEF UidsPair, StoreCounter
      <3> QED BY <1>10, <2>2, <2>3, <3>1 DEF UidsPair, StoreCounter, kernelVars, answerVars
    <2> QED BY <1>10, <2>1, <2>3 DEF RepliesInv, StoreCounter
  <1>11. CASE ResultStoresCounter
    <2>1. OnePlace'
      BY <1>4, <1>11 DEF ResultStoresCounter, kernelVars, reactorVars
    <2>2. /\ seenToo \in Nat /\ s_counter \in Nat /\ \A r \in m_responses : r.uid \in Nat
          /\ reactor \in {"store", "table"} => seen \in Nat
      BY <1>1, <1>11 DEF FrameInv, TypeOK, ResultStoresCounter
    <2>3. CASE s_counter > seenToo + 1
      BY <1>11, <2>1, <2>3 DEF ResultStoresCounter
    <2>4. CASE ~(s_counter > seenToo + 1)
      <3>1. s_counter' \in Nat /\ s_counter <= s_counter'
        BY <1>11, <2>2, <2>4 DEF ResultStoresCounter
      <3>2. rolledBack' <=> rolledBack
        BY <1>11, <2>4 DEF ResultStoresCounter
      <3>3. ASSUME UidsPair PROVE UidsPair'
        BY <1>11, <2>2, <3>1, <3>3 DEF UidsPair, ResultStoresCounter, kernelVars, reactorVars
      <3> QED BY <2>1, <3>2, <3>3 DEF RepliesInv
    <2> QED BY <2>3, <2>4
  <1>12. CASE RunClient \/ ChildEnds \/ InstallHandler \/ DestroyEnd \/ UNCHANGED vars
    <2>1. UNCHANGED <<kernelVars, reactorVars, answerVars, uidVars>>
      BY <1>12 DEF RunClient, ChildEnds, InstallHandler, DestroyEnd, vars
    <2> QED BY <1>2, <1>4, <2>1 DEF kernelVars, reactorVars, answerVars, uidVars
  <1>13. CASE Signal
    <2>1. /\ UNCHANGED <<op, replies, socket, buffer, seen, m_responses, working, answerVars, uidVars>>
          /\ reactor' = reactor \/ (reactor = "select" /\ reactor' = "failed")
          /\ DisconnectNBD \/ UNCHANGED <<outgoing, reactor>>
      BY <1>13 DEF Signal
    <2>2. OnePlace'
      BY <1>1, <1>4, <2>1, DisconnectKeepsPlaces DEF answerVars
    <2>3. reactor' \in {"store", "table"} => reactor' = reactor /\ seen' = seen
      BY <2>1
    <2> QED BY <1>2, <2>1, <2>2, <2>3 DEF answerVars, uidVars
  <1>14. CASE DestroyBegin
    <2>1. UNCHANGED <<op, replies, reactorVars, answerVars, uidVars>> /\ DisconnectNBD
      BY <1>14 DEF DestroyBegin
    <2>2. OnePlace'
      BY <1>1, <2>1, DisconnectKeepsPlaces DEF reactorVars
    <2> QED BY <1>2, <2>1, <2>2 DEF reactorVars, answerVars, uidVars
  <1>15. CASE ReceiveThrows
    <2>1. \A h \in Handles : Current(h)' => Current(h)
      BY <1>15 DEF ReceiveThrows, Current, InHand
    <2>2. OnePlace'
      BY <1>1, <1>15, <2>1, PlacesKept DEF ReceiveThrows, kernelVars, answerVars
    <2> QED BY <1>2, <1>15, <2>2 DEF ReceiveThrows, kernelVars, answerVars, uidVars
  <1> QED BY <1>5, <1>6, <1>7, <1>8, <1>9, <1>10, <1>11, <1>12, <1>13, <1>14, <1>15,
             PrepareKeepsReplies, ResultKeepsReplies, ResponseKeepsReplies DEF Next

\* Every reply carries the handle of the request it answers and no request gets
\* two, as long as the unlocked counter is not put back below uids given out.
THEOREM RepliesAlwaysMatch == Spec => []RepliesMatch
  <1>1. RepliesInv => RepliesMatch
    BY DEF RepliesInv, OnePlace, RepliedOnce, UidsPair, RepliesMatch
  <1> QED BY <1>1, InitReplies, NextKeepsReplies, PTL DEF Spec
===============================================================================
