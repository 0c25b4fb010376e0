------------------------------- MODULE Striping -------------------------------
(***************************************************************************)
(* Where the bytes of the virtual drive live.  The drive is NumMinions     *)
(* chunks of ChunkSize units; chunk p is served by minion p (its primary)  *)
(* and mirrored by the next minion (its backup), at the same local offset. *)
(* Offsets and lengths are size_t values in the code; a request comes from *)
(* a block device of DriveSize units, so offset + length never wraps.      *)
(***************************************************************************)
EXTENDS Integers, Sequences

CONSTANTS ChunkSize,    \* m_MBMinion: units stored by one minion
          NumMinions    \* m_minions.size()

\* MinionManager::Init throws on an empty list of minions and on a zero chunk.
ASSUME StripingAssumption ==
    /\ ChunkSize \in Nat \ {0}
    /\ NumMinions \in Nat \ {0}

Minions == 0..(NumMinions - 1)

DriveSize == NumMinions * ChunkSize

\* TRUE when ValidateRange returns, FALSE when it throws out_of_range.
ValidateRange(offset, length) == offset + length <= DriveSize

GetPrimaryIndex(offset) == offset \div ChunkSize

\* A slip: the last minion has no successor.
BackupIndexNoWrap(primaryIndex) == primaryIndex + 1

GetBackupIndex(primaryIndex) == (primaryIndex + 1) % NumMinions

\* The segment one iteration of Split's loop appends.
Segment(currentOffset, remaining, bufferOffset) ==
    LET primaryIndex == GetPrimaryIndex(currentOffset)
        localOffset  == currentOffset % ChunkSize
        spaceInChunk == ChunkSize - localOffset
    IN [localOffset        |-> localOffset,
        length             |-> IF remaining <= spaceInChunk THEN remaining ELSE spaceInChunk,
        bufferOffset       |-> bufferOffset,
        primaryMinionIndex |-> primaryIndex,
        backupMinionIndex  |-> GetBackupIndex(primaryIndex)]

(***************************************************************************)
(* What Split returns, in closed form: one segment per chunk the range     *)
(* touches, the first from offset and every later one from the start of    *)
(* its chunk.  Module StripeSplitter runs the code's loop and shows that   *)
(* it computes this sequence.                                              *)
(***************************************************************************)
NumSegments(offset, length) ==
    IF length = 0
    THEN 0
    ELSE GetPrimaryIndex(offset + length - 1) - GetPrimaryIndex(offset) + 1

SegmentStart(offset, i) ==
    IF i = 1 THEN offset ELSE (GetPrimaryIndex(offset) + i - 1) * ChunkSize

Split(offset, length) ==
    [i \in 1..NumSegments(offset, length) |->
        LET start == SegmentStart(offset, i)
        IN Segment(start, offset + length - start, start - offset)]
===============================================================================
