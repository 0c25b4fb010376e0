------------------------- MODULE StripeSplitterProofs -------------------------
(***************************************************************************)
(* What ValidateRange and Split guarantee for every chunk size, every      *)
(* number of minions and every request.                                    *)
(***************************************************************************)
EXTENDS StripeSplitter, TLAPS

\* size_t division and remainder by a positive divisor.
LEMMA DivMod ==
    ASSUME NEW a \in Nat, NEW c \in Nat \ {0}
    PROVE  /\ a \div c \in Nat
           /\ a % c \in Nat
           /\ a % c < c
           /\ a = (a \div c) * c + (a % c)
  OBVIOUS

\* Multiplication by a natural number is monotone.
LEMMA TimesMonotone ==
    ASSUME NEW a \in Nat, NEW b \in Nat, NEW c \in Nat, a <= b
    PROVE  a * c <= b * c
  OBVIOUS

\* An address inside n chunks of c units lies in one of those chunks.
LEMMA DivBound ==
    ASSUME NEW a \in Nat, NEW c \in Nat \ {0}, NEW n \in Nat, a < n * c
    PROVE  a \div c < n
  <1>1. SUFFICES ASSUME n <= a \div c PROVE FALSE
    BY DivMod
  <1>2. n * c <= (a \div c) * c
    BY <1>1, DivMod, TimesMonotone
  <1>3. (a \div c) * c <= a
    BY DivMod
  <1>4. n * c \in Nat /\ (a \div c) * c \in Nat
    BY DivMod
  <1> QED
    BY <1>2, <1>3, <1>4

\* The chunk of an address is determined by the chunk's bounds.
LEMMA DivUnique ==
    ASSUME NEW a \in Nat, NEW c \in Nat \ {0}, NEW q \in Nat, NEW r \in Nat,
           r < c, a = q * c + r
    PROVE  a \div c = q
  <1> DEFINE d == a \div c
  <1>1. d \in Nat /\ a % c \in Nat /\ a % c < c /\ a = d * c + (a % c)
    BY DivMod
  <1> HIDE DEF d
  <1>2. /\ q * c \in Nat /\ d * c \in Nat
        /\ (q + 1) * c = q * c + c /\ (d + 1) * c = d * c + c
    BY <1>1
  <1>3. ~(q + 1 <= d)
    <2>1. q + 1 <= d => (q + 1) * c <= d * c
      BY <1>1, TimesMonotone
    <2> QED BY <1>1, <1>2, <2>1
  <1>4. ~(d + 1 <= q)
    <2>1. d + 1 <= q => (d + 1) * c <= q * c
      BY <1>1, TimesMonotone
    <2> QED BY <1>1, <1>2, <2>1
  <1> QED BY <1>1, <1>3, <1>4 DEF d

-------------------------------------------------------------------------------
\* The end, in the caller's buffer, of what the segments produced so far cover.
Covered ==
    IF segments = << >>
    THEN 0
    ELSE segments[Len(segments)].bufferOffset + segments[Len(segments)].length

(***************************************************************************)
(* The loop invariant: the three counters of Split move together, the      *)
(* segments cover exactly the part already consumed, and ValidateRange has *)
(* admitted the request whenever the loop runs.                            *)
(***************************************************************************)
Progress ==
    /\ currentOffset = offset + bufferOffset
    /\ bufferOffset + remaining = length
    /\ bufferOffset = Covered
    /\ pc \in {"loop", "done"} => offset + length <= DriveSize
    /\ pc = "done" => remaining = 0

LoopInv == TypeOK /\ SegmentsPlaced /\ SegmentsTile /\ Progress

\* What Segment returns for a position inside the drive.
LEMMA SegmentFits ==
    ASSUME NEW o \in Nat, NEW r \in Nat \ {0}, NEW b \in Nat, o < DriveSize
    PROVE  /\ Segment(o, r, b) \in SegmentType
           /\ SegmentPlaced(Segment(o, r, b))
           /\ Segment(o, r, b).length <= r
           /\ Segment(o, r, b).bufferOffset = b
           /\ Segment(o, r, b).primaryMinionIndex * ChunkSize
                  + Segment(o, r, b).localOffset = o
  <1> DEFINE p == o \div ChunkSize
             l == o % ChunkSize
             s == Segment(o, r, b)
  <1>1. p \in Nat /\ l \in Nat /\ l < ChunkSize /\ o = p * ChunkSize + l
    BY DivMod, StripingAssumption
  <1>2. p < NumMinions
    BY DivBound, StripingAssumption DEF DriveSize
  <1>3. p * ChunkSize \in Nat
    BY <1>1, StripingAssumption
  <1>4. /\ GetBackupIndex(p) \in Minions
        /\ NumMinions > 1 => GetBackupIndex(p) # p
    <2>1. CASE p + 1 < NumMinions
      BY <1>1, <2>1, StripingAssumption DEF GetBackupIndex, Minions
    <2>2. CASE p + 1 = NumMinions
      BY <1>1, <2>2, StripingAssumption DEF GetBackupIndex, Minions
    <2> QED
      BY <1>1, <1>2, <2>1, <2>2, StripingAssumption
  <1>5. GetBackupIndex(p) \in Nat
    BY <1>4 DEF Minions
  <1>6. s = [localOffset        |-> l,
             length             |-> IF r <= ChunkSize - l THEN r ELSE ChunkSize - l,
             bufferOffset       |-> b,
             primaryMinionIndex |-> p,
             backupMinionIndex  |-> GetBackupIndex(p)]
    BY DEF Segment, GetPrimaryIndex
  <1> HIDE DEF p, l, s
  <1>7. s.length \in Nat \ {0} /\ s.length <= r /\ s.localOffset + s.length <= ChunkSize
    BY <1>1, <1>6, StripingAssumption
  <1>8. s \in SegmentType
    BY <1>1, <1>5, <1>6, <1>7 DEF SegmentType
  <1>9. SegmentPlaced(s)
    BY <1>1, <1>2, <1>4, <1>6, <1>7, StripingAssumption DEF SegmentPlaced, Minions
  <1> QED
    BY <1>1, <1>3, <1>6, <1>7, <1>8, <1>9 DEF s

\* The loop invariant holds before the first iteration.
LEMMA InitEstablishesLoopInv == Init => LoopInv
  BY MaxLengthAssumption
     DEF Init, LoopInv, TypeOK, SegmentsPlaced, SegmentsTile, Progress, Covered

\* Validation, an iteration and the return keep the loop invariant.
LEMMA NextPreservesLoopInv == LoopInv /\ [Next]_vars => LoopInv'
  <1> SUFFICES ASSUME LoopInv, [Next]_vars PROVE LoopInv'
    OBVIOUS
  <1> USE DEF LoopInv
  <1>1. CASE Validate
    <2>1. TypeOK' BY <1>1 DEF Validate, TypeOK
    <2>2. SegmentsPlaced' BY <1>1 DEF Validate, SegmentsPlaced
    <2>3. SegmentsTile' BY <1>1 DEF Validate, SegmentsTile
    <2>4. Progress'
      BY <1>1 DEF Validate, ValidateRange, Progress, Covered
    <2> QED BY <2>1, <2>2, <2>3, <2>4
  <1>2. CASE Iterate
    <2> DEFINE seg == Segment(currentOffset, remaining, bufferOffset)
    <2>1. /\ currentOffset \in Nat /\ remaining \in Nat \ {0} /\ bufferOffset \in Nat
          /\ offset \in Nat /\ length \in Nat /\ DriveSize \in Nat
      BY <1>2, StripingAssumption DEF Iterate, TypeOK, DriveSize
    <2>2. currentOffset < DriveSize
      BY <1>2, <2>1 DEF Iterate, Progress
    <2>3. /\ seg \in SegmentType
          /\ SegmentPlaced(seg)
          /\ seg.length <= remaining
          /\ seg.bufferOffset = bufferOffset
          /\ seg.primaryMinionIndex * ChunkSize + seg.localOffset = currentOffset
      BY <2>1, <2>2, SegmentFits
    <2>4. /\ segments' = Append(segments, seg)
          /\ currentOffset' = currentOffset + seg.length
          /\ bufferOffset' = bufferOffset + seg.length
          /\ remaining' = remaining - seg.length
          /\ UNCHANGED <<offset, length, pc>>
          /\ pc = "loop"
      BY <1>2 DEF Iterate
    <2> HIDE DEF seg
    <2>5. segments \in Seq(SegmentType)
      BY DEF TypeOK
    <2>6. /\ Len(segments') = Len(segments) + 1
          /\ Len(segments) \in Nat
          /\ segments'[Len(segments) + 1] = seg
          /\ \A i \in 1..Len(segments) : segments'[i] = segments[i]
          /\ segments' \in Seq(SegmentType)
      BY <2>3, <2>4, <2>5
    <2>7. seg.length \in Nat
      BY <2>3 DEF SegmentType
    <2>8. TypeOK'
      <3>1. currentOffset' \in Nat /\ bufferOffset' \in Nat /\ remaining' \in Nat
        BY <2>1, <2>3, <2>4, <2>7
      <3> QED BY <2>4, <2>6, <3>1 DEF TypeOK
    <2>9. SegmentsPlaced'
      BY <2>3, <2>4, <2>6 DEF SegmentsPlaced, SegmentPlaced
    <2>10. SegmentsTile'
      <3>1. CASE segments = << >>
        BY <2>3, <2>4, <2>6, <3>1 DEF SegmentsTile, Progress, Covered
      <3>2. CASE segments # << >>
        <4>1. Len(segments) >= 1
          BY <2>5, <3>2
        <4>2. bufferOffset = segments[Len(segments)].bufferOffset
                                 + segments[Len(segments)].length
          BY <3>2 DEF Progress, Covered
        <4> DEFINE Tiles(s, i) ==
                /\ s[i].primaryMinionIndex * ChunkSize + s[i].localOffset
                       = offset + s[i].bufferOffset
                /\ s[i].bufferOffset = IF i = 1 THEN 0 ELSE s[i - 1].bufferOffset + s[i - 1].length
        <4>3. ASSUME NEW i \in 1..Len(segments) PROVE Tiles(segments', i)
          <5>1. Tiles(segments, i)
            BY DEF SegmentsTile
          <5>2. i # 1 => i - 1 \in 1..Len(segments)
            BY <2>6
          <5>3. segments'[i] = segments[i] /\ (i # 1 => segments'[i - 1] = segments[i - 1])
            BY <2>6, <5>2
          <5> QED BY <5>1, <5>3
        <4>4. Tiles(segments', Len(segments) + 1)
          <5>1. /\ Len(segments) + 1 # 1 /\ (Len(segments) + 1) - 1 = Len(segments)
                /\ segments'[Len(segments)] = segments[Len(segments)]
            BY <2>6, <4>1
          <5>2. currentOffset = offset + bufferOffset
            BY DEF Progress
          <5> QED BY <2>3, <2>6, <4>2, <5>1, <5>2
        <4>5. \A i \in 1..Len(segments') : i \in 1..Len(segments) \/ i = Len(segments) + 1
          BY <2>6
        <4>6. \A i \in 1..Len(segments') : Tiles(segments', i)
          BY <4>3, <4>4, <4>5
        <4> QED BY <2>4, <4>6 DEF SegmentsTile
      <3> QED BY <3>1, <3>2
    <2>11. Progress'
      <3>1. segments' # << >>
        BY <2>6
      <3>2. Covered' = seg.bufferOffset + seg.length
        BY <2>6, <3>1 DEF Covered
      <3>3. /\ currentOffset' = offset' + bufferOffset'
            /\ bufferOffset' + remaining' = length'
        <4>1. currentOffset = offset + bufferOffset /\ bufferOffset + remaining = length
          BY DEF Progress
        <4>2. /\ currentOffset' = currentOffset + seg.length /\ offset' = offset
              /\ bufferOffset' = bufferOffset + seg.length /\ length' = length
              /\ remaining' = remaining - seg.length
          BY <2>4
        <4> QED
          BY <2>1, <2>7, <4>1, <4>2
      <3>4. bufferOffset' = Covered'
        BY <2>3, <2>4, <3>2
      <3>5. (offset + length <= DriveSize)'
        BY <2>4 DEF Progress, DriveSize
      <3>6. pc' # "done"
        BY <2>4
      <3> QED
        BY <3>3, <3>4, <3>5, <3>6 DEF Progress
    <2> QED BY <2>8, <2>9, <2>10, <2>11
  <1>3. CASE Return
    <2>1. TypeOK' BY <1>3 DEF Return, TypeOK
    <2>2. SegmentsPlaced' BY <1>3 DEF Return, SegmentsPlaced
    <2>3. SegmentsTile' BY <1>3 DEF Return, SegmentsTile
    <2>4. Progress' BY <1>3 DEF Return, Progress, Covered
    <2> QED BY <2>1, <2>2, <2>3, <2>4
  <1>4. CASE UNCHANGED vars
    BY <1>4 DEF vars, TypeOK, SegmentsPlaced, SegmentsTile, Progress, Covered
  <1> QED
    BY <1>1, <1>2, <1>3, <1>4 DEF Next

\* Every request that passes ValidateRange is split by Split under LoopInv.
THEOREM LoopInvariant == Spec => []LoopInv
  BY InitEstablishesLoopInv, NextPreservesLoopInv, PTL DEF Spec

\* No unsigned subtraction of the loop goes below zero.
THEOREM TypeCorrect == Spec => []TypeOK
  BY LoopInvariant, PTL DEF LoopInv

\* AddReadTask and AddWriteTask never index m_minions, or a minion's file,
\* out of bounds, whatever the drive's geometry.
THEOREM Placed == Spec => []SegmentsPlaced
  BY LoopInvariant, PTL DEF LoopInv

\* When Split returns, its segments are the requested range: each starts where its
\* predecessor ended, stands for the drive address of that position, and the last
\* ends where the request ends.
THEOREM Partitioned == Spec => []SegmentsPartition
  <1>1. LoopInv => SegmentsCover
    BY DEF LoopInv, TypeOK, Progress, Covered, SegmentsCover
  <1>2. LoopInv => SegmentsPartition
    BY <1>1 DEF LoopInv, SegmentsPartition
  <1> QED BY <1>2, LoopInvariant, PTL

-------------------------------------------------------------------------------
(***************************************************************************)
(* The loop against the closed form: iteration i has appended segment i of *)
(* Split; while something remains, the loop stands at the start of the     *)
(* next one, in the chunk it belongs to; when nothing remains, there have  *)
(* been as many iterations as Split has segments.                          *)
(***************************************************************************)
ClosedSegment(i) ==
    Segment(SegmentStart(offset, i), offset + length - SegmentStart(offset, i),
            SegmentStart(offset, i) - offset)

Follows ==
    /\ \A i \in 1..Len(segments) : segments[i] = ClosedSegment(i)
    /\ remaining > 0 =>
           /\ currentOffset = SegmentStart(offset, Len(segments) + 1)
           /\ GetPrimaryIndex(currentOffset) = GetPrimaryIndex(offset) + Len(segments)
    /\ remaining = 0 => Len(segments) = NumSegments(offset, length)

\* Before the first iteration the loop stands at the start of the first segment.
LEMMA InitFollows == Init => Follows
  <1> SUFFICES ASSUME Init PROVE Follows
    OBVIOUS
  <1>1. /\ segments = << >> /\ currentOffset = offset /\ remaining = length
        /\ offset \in Nat /\ length \in Nat /\ Len(segments) = 0
    BY MaxLengthAssumption DEF Init
  <1>2. GetPrimaryIndex(offset) \in Nat
    BY <1>1, DivMod, StripingAssumption DEF GetPrimaryIndex
  <1> QED BY <1>1, <1>2 DEF Follows, SegmentStart, NumSegments

\* An iteration appends the next segment of Split, and ends the request or the chunk.
LEMMA IterateFollows ==
    ASSUME LoopInv, Follows, Iterate PROVE Follows'
  <1> DEFINE seg == Segment(currentOffset, remaining, bufferOffset)
             n == Len(segments)
             p == GetPrimaryIndex(currentOffset)
             l == currentOffset % ChunkSize
  <1>1. /\ currentOffset \in Nat /\ remaining \in Nat \ {0} /\ bufferOffset \in Nat
        /\ offset \in Nat /\ length \in Nat /\ segments \in Seq(SegmentType) /\ n \in Nat
    BY DEF LoopInv, TypeOK, Iterate
  <1>2. currentOffset = offset + bufferOffset /\ bufferOffset + remaining = length
    BY DEF LoopInv, Progress
  <1>3. /\ currentOffset = SegmentStart(offset, n + 1)
        /\ p = GetPrimaryIndex(offset) + n
    BY <1>1 DEF Follows
  <1>4. /\ segments' = Append(segments, seg)
        /\ currentOffset' = currentOffset + seg.length
        /\ remaining' = remaining - seg.length
        /\ offset' = offset /\ length' = length
    BY DEF Iterate
  <1>5. /\ p \in Nat /\ l \in Nat /\ l < ChunkSize /\ currentOffset = p * ChunkSize + l
        /\ ChunkSize \in Nat /\ p * ChunkSize \in Nat
    BY <1>1, DivMod, StripingAssumption DEF GetPrimaryIndex
  <1>6. seg.length = IF remaining <= ChunkSize - l THEN remaining ELSE ChunkSize - l
    BY DEF Segment
  <1>7. GetPrimaryIndex(offset) \in Nat
    BY <1>1, DivMod, StripingAssumption DEF GetPrimaryIndex
  <1>8. seg = ClosedSegment(n + 1)
    <2>1. /\ remaining = offset + length - currentOffset
          /\ bufferOffset = currentOffset - offset
      BY <1>1, <1>2
    <2> QED BY <1>3, <2>1 DEF ClosedSegment
  <1> HIDE DEF seg, p, l
  <1>9. /\ Len(segments') = n + 1 /\ segments'[n + 1] = seg
        /\ \A i \in 1..n : segments'[i] = segments[i]
    BY <1>1, <1>4
  <1>10. \A i \in 1..Len(segments') : segments'[i] = ClosedSegment(i)'
    <2>1. \A i : ClosedSegment(i)' = ClosedSegment(i)
      BY <1>4 DEF ClosedSegment
    <2>2. \A i \in 1..n : segments[i] = ClosedSegment(i)
      BY DEF Follows
    <2>3. ASSUME NEW i \in 1..(n + 1) PROVE segments'[i] = ClosedSegment(i)
      <3>1. i \in 1..n \/ i = n + 1
        BY <1>1
      <3> QED BY <1>8, <1>9, <2>2, <3>1
    <2> QED BY <1>9, <2>1, <2>3
  <1>11. CASE remaining <= ChunkSize - l
    <2>1. remaining' = 0
      BY <1>1, <1>4, <1>6, <1>11
    <2>2. GetPrimaryIndex(offset + length - 1) = p
      <3> DEFINE a == offset + length - 1
      <3>1. /\ a \in Nat /\ l + remaining - 1 \in Nat /\ l + remaining - 1 < ChunkSize
            /\ a = p * ChunkSize + (l + remaining - 1)
        BY <1>1, <1>2, <1>5, <1>11
      <3> HIDE DEF a
      <3>2. a \div ChunkSize = p
        BY <1>5, <3>1, DivUnique, StripingAssumption
      <3> QED BY <3>2 DEF GetPrimaryIndex, a
    <2>3. length # 0
      BY <1>1, <1>2
    <2>4. NumSegments(offset, length) = n + 1
      BY <1>1, <1>3, <1>7, <2>2, <2>3 DEF NumSegments
    <2> QED BY <1>4, <1>9, <1>10, <2>1, <2>4 DEF Follows
  <1>12. CASE ~(remaining <= ChunkSize - l)
    <2>1. /\ remaining' > 0 /\ remaining' # 0
          /\ currentOffset' = p * ChunkSize + ChunkSize
      BY <1>1, <1>4, <1>5, <1>6, <1>12
    <2>2. currentOffset' = (p + 1) * ChunkSize
      BY <1>5, <2>1
    <2>3. GetPrimaryIndex(currentOffset') = p + 1
      <3>1. currentOffset' \in Nat /\ currentOffset' = (p + 1) * ChunkSize + 0 /\ 0 < ChunkSize
        BY <1>5, <2>1, <2>2, StripingAssumption
      <3>2. \A a \in Nat : a = (p + 1) * ChunkSize + 0 => a \div ChunkSize = p + 1
        BY <1>5, <3>1, DivUnique, StripingAssumption
      <3> QED BY <3>1, <3>2 DEF GetPrimaryIndex
    <2>4. SegmentStart(offset, n + 2) = (p + 1) * ChunkSize
      <3>1. GetPrimaryIndex(offset) + (n + 2) - 1 = p + 1 /\ n + 2 # 1
        BY <1>1, <1>3, <1>7
      <3> QED BY <3>1 DEF SegmentStart
    <2>5. p + 1 = GetPrimaryIndex(offset) + (n + 1) /\ (n + 1) + 1 = n + 2
      BY <1>1, <1>3, <1>7
    <2> QED BY <1>4, <1>9, <1>10, <2>1, <2>2, <2>3, <2>4, <2>5 DEF Follows
  <1> QED BY <1>11, <1>12

\* The loop of Split returns the closed form that RaidDrive is built on, for every chunk
\* size, every number of minions and every range that ValidateRange admits.
THEOREM LoopIsSplit == Spec => []LoopComputesSplit
  <1>1. LoopInv /\ Follows /\ [Next]_vars => Follows'
    <2> SUFFICES ASSUME LoopInv, Follows, [Next]_vars PROVE Follows'
      OBVIOUS
    <2>1. CASE UNCHANGED <<offset, length, remaining, currentOffset, bufferOffset, segments>>
      BY <2>1 DEF Follows, ClosedSegment
    <2> QED BY <2>1, IterateFollows DEF Next, Validate, Return, vars
  <1>2. LoopInv /\ Follows => LoopComputesSplit
    <2> SUFFICES ASSUME LoopInv, Follows, pc = "done"
                 PROVE  segments = Split(offset, length)
      BY DEF LoopComputesSplit
    <2>1. Len(segments) = NumSegments(offset, length) /\ segments \in Seq(SegmentType)
      BY DEF LoopInv, Progress, Follows, TypeOK
    <2>2. segments = [i \in 1..Len(segments) |-> segments[i]]
      BY <2>1
    <2>3. \A i \in 1..Len(segments) : segments[i] = ClosedSegment(i)
      BY DEF Follows
    <2> DEFINE m == NumSegments(offset, length)
    <2>4. Split(offset, length) = [i \in 1..m |-> ClosedSegment(i)]
      BY DEF Split, ClosedSegment
    <2> HIDE DEF m
    <2> QED BY <2>1, <2>2, <2>3, <2>4 DEF m
  <1> QED BY <1>1, <1>2, InitFollows, LoopInvariant, PTL DEF Spec
===============================================================================
