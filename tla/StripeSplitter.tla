---------------------------- MODULE StripeSplitter ----------------------------
(***************************************************************************)
(* The prologue of MinionManager::AddReadTask / AddWriteTask: ValidateRange *)
(* and then the while loop of StripeSplitter::Split, one action per         *)
(* iteration, for one request of the given offset and length.               *)
(***************************************************************************)
EXTENDS Striping

CONSTANT MaxLength      \* bound on the offsets and lengths tried

ASSUME MaxLengthAssumption == MaxLength \in Nat

VARIABLES offset, length,           \* the arguments
          pc,                       \* "validate", "loop", "done" or "thrown"
          remaining, currentOffset, bufferOffset, segments

args == <<offset, length>>
vars == <<offset, length, pc, remaining, currentOffset, bufferOffset, segments>>

Init ==
    /\ offset \in 0..MaxLength
    /\ length \in 0..MaxLength
    /\ pc = "validate"
    /\ remaining = length
    /\ currentOffset = offset
    /\ bufferOffset = 0
    /\ segments = << >>

Validate ==
    /\ pc = "validate"
    /\ pc' = IF ValidateRange(offset, length) THEN "loop" ELSE "thrown"
    /\ UNCHANGED <<offset, length, remaining, currentOffset, bufferOffset, segments>>

\* Slips a change to the loop could make.
IterateWithoutClamp ==
    LET seg == Segment(currentOffset, remaining, bufferOffset)
        whole == ChunkSize - seg.localOffset
    IN /\ pc = "loop"
       /\ remaining > 0
       /\ segments' = Append(segments, seg)
       /\ currentOffset' = currentOffset + whole
       /\ bufferOffset' = bufferOffset + whole
       /\ remaining' = remaining - whole
       /\ UNCHANGED <<offset, length, pc>>

IterateByChunk ==
    LET seg == Segment(currentOffset, remaining, bufferOffset)
    IN /\ pc = "loop"
       /\ remaining > 0
       /\ segments' = Append(segments, seg)
       /\ currentOffset' = currentOffset + seg.length
       /\ bufferOffset' = bufferOffset + ChunkSize
       /\ remaining' = remaining - seg.length
       /\ UNCHANGED <<offset, length, pc>>

Iterate ==
    LET seg == Segment(currentOffset, remaining, bufferOffset)
    IN /\ pc = "loop"
       /\ remaining > 0
       /\ segments' = Append(segments, seg)
       /\ currentOffset' = currentOffset + seg.length
       /\ bufferOffset' = bufferOffset + seg.length
       /\ remaining' = remaining - seg.length
       /\ UNCHANGED <<offset, length, pc>>

ReturnEarly ==
    /\ pc = "loop"
    /\ remaining <= 1
    /\ pc' = "done"
    /\ UNCHANGED <<offset, length, remaining, currentOffset, bufferOffset, segments>>

Return ==
    /\ pc = "loop"
    /\ remaining = 0
    /\ pc' = "done"
    /\ UNCHANGED <<offset, length, remaining, currentOffset, bufferOffset, segments>>

Next == Validate \/ Iterate \/ Return

Spec == Init /\ [][Next]_vars

-------------------------------------------------------------------------------
SegmentType ==
    [localOffset : Nat, length : Nat, bufferOffset : Nat,
     primaryMinionIndex : Nat, backupMinionIndex : Nat]

\* Every loop variable keeps its unsigned type: no subtraction goes below zero.
TypeOK ==
    /\ offset \in Nat
    /\ length \in Nat
    /\ pc \in {"validate", "loop", "done", "thrown"}
    /\ remaining \in Nat
    /\ currentOffset \in Nat
    /\ bufferOffset \in Nat
    /\ segments \in Seq(SegmentType)

\* Segment s addresses stored units: it is not empty, stays inside one chunk of
\* an existing minion, and mirrors that chunk on the next minion.
SegmentPlaced(s) ==
    /\ s.length > 0
    /\ s.localOffset + s.length <= ChunkSize
    /\ s.primaryMinionIndex \in Minions
    /\ s.backupMinionIndex \in Minions
    /\ NumMinions > 1 => s.backupMinionIndex # s.primaryMinionIndex

\* AddReadTask and AddWriteTask index m_minions and the minion's file with the
\* fields of every segment: none of those accesses may be out of bounds, and a
\* mirror is never the minion it mirrors.
SegmentsPlaced ==
    \A i \in 1..Len(segments) : SegmentPlaced(segments[i])

\* Each segment starts in the caller's buffer where the one before ended, and
\* the drive address it stands for is the one of that buffer position: no unit
\* of the request is skipped, repeated or sent to another address.
SegmentsTile ==
    \A i \in 1..Len(segments) :
        /\ segments[i].primaryMinionIndex * ChunkSize + segments[i].localOffset
               = offset + segments[i].bufferOffset
        /\ segments[i].bufferOffset
               = IF i = 1 THEN 0
                 ELSE segments[i - 1].bufferOffset + segments[i - 1].length

\* When Split returns, the last segment ends where the request ends (a request
\* of length zero has no segment at all).
SegmentsCover ==
    pc = "done" =>
        IF segments = << >>
        THEN length = 0
        ELSE LET last == segments[Len(segments)]
             IN last.bufferOffset + last.length = length

\* The segments partition the request: together they are the whole range, piece by
\* piece, and nothing else.
SegmentsPartition == SegmentsTile /\ SegmentsCover

\* The loop computes the closed form that the other modules use.
LoopComputesSplit == pc = "done" => segments = Split(offset, length)
===============================================================================
