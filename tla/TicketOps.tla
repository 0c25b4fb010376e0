------------------------------- MODULE TicketOps ------------------------------
(***************************************************************************)
(* The Ticket class as a value: what its constructor builds and what its   *)
(* handlers compute.  A reply of a minion (AMessage) is a record with a    *)
(* flag, result, and the units it carries, data (0-based; empty in the     *)
(* reply to a write).  MinionProxy dereferences a message before it hands  *)
(* it to a ticket, so the pointer is never null and the pair primaryDone,  *)
(* primaryMsg is one field: NoMsg until the mirror has answered.           *)
(***************************************************************************)
EXTENDS Integers, Sequences

CONSTANT Garbage        \* what a memcpy beyond the end of a message's data reads

NoMsg == << >>          \* the null message pointer

Roles == {"primary", "backup"}

SegmentState(seg) ==
    [length |-> seg.length, bufferOffset |-> seg.bufferOffset,
     msg |-> [role \in Roles |-> NoMsg]]

NewTicket(uid, op, segments) ==
    [uid       |-> uid,
     op        |-> op,
     segments  |-> [i \in DOMAIN segments |-> SegmentState(segments[i])],
     completed |-> FALSE]

Done(seg, role) == seg.msg[role] # NoMsg

\* The conjunction the code repeats: Done, Msg not null and Msg->GetResult().
Answered(seg, role) == Done(seg, role) /\ seg.msg[role].result

\* Slips in the policy; each breaks one property of module Ticket.
ResolvedByOneMirror(op, seg) == \E role \in Roles : Done(seg, role)
ResolvedByPrimary(op, seg) == Done(seg, "primary")

IsSegmentResolved(op, seg) ==
    IF op = "write"
    THEN Done(seg, "primary") /\ Done(seg, "backup")
    ELSE Answered(seg, "primary") \/ Done(seg, "backup")

SelectSegmentMessage(seg) ==
    IF Answered(seg, "primary") THEN seg.msg["primary"]
    ELSE IF Done(seg, "backup") THEN seg.msg["backup"]
    ELSE seg.msg["primary"]

\* Slips: the backup's result, or every result, is not looked at.
SuccessfulOnPrimary(op, seg) == Answered(seg, "primary")
SuccessfulIfSelected(op, seg) == SelectSegmentMessage(seg) # NoMsg

IsSegmentSuccessful(op, seg) ==
    IF op = "write"
    THEN Answered(seg, "primary") /\ Answered(seg, "backup")
    ELSE SelectSegmentMessage(seg) # NoMsg /\ SelectSegmentMessage(seg).result

IsResolved(t) == \A i \in DOMAIN t.segments : IsSegmentResolved(t.op, t.segments[i])

\* The seg.length units memcpy takes from a message.
Slice(seg, msg) ==
    [k \in 0..(seg.length - 1) |->
        IF k \in DOMAIN msg.data THEN msg.data[k] ELSE Garbage]

(***************************************************************************)
(* The TaskResult of a resolved ticket.  The result buffer is kept as one  *)
(* slice per segment, slice i being the units copied to the buffer at      *)
(* segment i's bufferOffset: the segments tile the buffer (StripeSplitter) *)
(* so the slices are the buffer.  A failed read and a write have none.     *)
(***************************************************************************)
TaskResult(t) ==
    LET success == \A i \in DOMAIN t.segments :
                       IsSegmentSuccessful(t.op, t.segments[i])
    IN [uid    |-> t.uid,
        result |-> success,
        buffer |-> IF success /\ t.op = "read"
                   THEN [i \in DOMAIN t.segments |->
                            Slice(t.segments[i], SelectSegmentMessage(t.segments[i]))]
                   ELSE << >>]

RecordResponse(t, segmentIdx, role, message) ==
    [t EXCEPT !.segments[segmentIdx].msg[role] = message]

(***************************************************************************)
(* OnMirrorResponse followed by TryComplete, under the ticket's mutex: the *)
(* ticket it leaves, and the results it notifies (none or one).  The first *)
(* is a slip that does not test m_completed.                               *)
(***************************************************************************)
RecordedAfterCompletion(t, segmentIdx, role, message) ==
    LET u == RecordResponse(t, segmentIdx, role, message)
    IN [ticket |-> [u EXCEPT !.completed = IsResolved(u)],
        notified |-> IF IsResolved(u) THEN <<TaskResult(u)>> ELSE << >>]

OnMirrorResponse(t, segmentIdx, role, message) ==
    LET u == RecordResponse(t, segmentIdx, role, message)
    IN IF t.completed \/ segmentIdx \notin DOMAIN t.segments
       THEN [ticket |-> t, notified |-> << >>]
       ELSE IF IsResolved(u)
       THEN [ticket |-> [u EXCEPT !.completed = TRUE], notified |-> <<TaskResult(u)>>]
       ELSE [ticket |-> u, notified |-> << >>]
===============================================================================
