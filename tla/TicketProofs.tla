----------------------------- MODULE TicketProofs -----------------------------
(***************************************************************************)
(* The mirror policy of a ticket, for any number of segments of any length *)
(* and any set of replies.                                                 *)
(***************************************************************************)
EXTENDS Ticket, TLAPS

(***************************************************************************)
(* What the ticket has recorded is what the mirrors answered; until it     *)
(* completes it has recorded everything and is not resolved, and from then *)
(* on it is resolved and has notified its own result.                      *)
(***************************************************************************)
Recorded ==
    \A i \in DOMAIN Segments :
        /\ ticket.segments[i].length = Segments[i].length
        /\ \A role \in Roles :
               ticket.segments[i].msg[role] \in {NoMsg, answers[i][role]}

Open ==
    ~ticket.completed =>
        /\ results = << >>
        /\ ~IsResolved(ticket)
        /\ \A i \in DOMAIN Segments, role \in Roles :
               ticket.segments[i].msg[role] = answers[i][role]

Closed ==
    ticket.completed => IsResolved(ticket) /\ results = <<TaskResult(ticket)>>

TicketInv == TypeOK /\ Recorded /\ Open /\ Closed

\* A ticket has a first segment.
LEMMA SegmentsNotEmpty == 1 \in DOMAIN Segments /\ DOMAIN Segments = 1..Len(Segments)
  BY TicketAssumption

\* The elements of a sequence are in its set.
LEMMA SeqElements ==
    ASSUME NEW S, NEW s \in Seq(S), NEW i \in DOMAIN s
    PROVE  s[i] \in S
  OBVIOUS

\* Notifications of one mirror and none of the other.
LEMMA ConcatEmpty ==
    ASSUME NEW x
    PROVE  << >> \o << >> = << >> /\ <<x>> \o << >> = <<x>> /\ << >> \o <<x>> = <<x>>
  OBVIOUS

\* A new ticket has recorded nothing.
LEMMA InitEstablishesTicketInv == Init => TicketInv
  <1> SUFFICES ASSUME Init PROVE TicketInv
    OBVIOUS
  <1>1. PICK op \in {"read", "write"} : ticket = NewTicket("uid", op, Segments)
    BY DEF Init
  <1>2. \A i \in DOMAIN Segments : Segments[i] \in [length : Nat, bufferOffset : Nat]
    BY TicketAssumption, SeqElements
  <1>3. /\ ticket.op = op /\ ticket.completed = FALSE /\ ticket.uid = "uid"
        /\ DOMAIN ticket.segments = DOMAIN Segments
        /\ \A i \in DOMAIN Segments :
               ticket.segments[i] = [length |-> Segments[i].length,
                                     bufferOffset |-> Segments[i].bufferOffset,
                                     msg |-> [role \in Roles |-> NoMsg]]
    BY <1>1 DEF NewTicket, SegmentState
  <1>4. TypeOK
    <2>1. ticket.segments \in [DOMAIN Segments -> SegmentStates]
      BY <1>1, <1>2 DEF NewTicket, SegmentState, SegmentStates
    <2>2. ticket \in [uid : {"uid"}, op : {"read", "write"}, completed : BOOLEAN,
                      segments : [DOMAIN Segments -> SegmentStates]]
      BY <1>1, <2>1 DEF NewTicket
    <2> QED
      BY <2>2 DEF Init, TypeOK
  <1>5. \A i \in DOMAIN Segments, role \in Roles :
            /\ ticket.segments[i].length = Segments[i].length
            /\ ticket.segments[i].msg[role] = NoMsg
            /\ answers[i][role] = NoMsg
    <2>1. \A i \in DOMAIN Segments :
              /\ ticket.segments[i].length = Segments[i].length
              /\ ticket.segments[i].msg = [role \in Roles |-> NoMsg]
      <3> TAKE i \in DOMAIN Segments
      <3>1. ticket.segments[i] = [length |-> Segments[i].length,
                                  bufferOffset |-> Segments[i].bufferOffset,
                                  msg |-> [role \in Roles |-> NoMsg]]
        BY <1>3
      <3> QED BY <3>1
    <2>2. \A i \in DOMAIN Segments : answers[i] = [role \in Roles |-> NoMsg]
      BY DEF Init
    <2> QED
      BY <2>1, <2>2
  <1>6. Recorded
    BY <1>3, <1>5 DEF Recorded, Roles
  <1>7. ~IsResolved(ticket)
    <2>1. \A role \in Roles : ~Done(ticket.segments[1], role)
      BY <1>5, SegmentsNotEmpty DEF Done
    <2>2. ~IsSegmentResolved(op, ticket.segments[1])
      BY <2>1 DEF IsSegmentResolved, Answered, Roles
    <2> QED
      BY <1>3, <2>2, SegmentsNotEmpty DEF IsResolved
  <1>8. Open /\ Closed
    BY <1>3, <1>5, <1>7 DEF Open, Closed, Init
  <1> QED
    BY <1>4, <1>6, <1>8 DEF TicketInv

\* A response of a mirror keeps the invariant.
LEMMA NextPreservesTicketInv == TicketInv /\ [Next]_vars => TicketInv'
  <1> SUFFICES ASSUME TicketInv, [Next]_vars PROVE TicketInv'
    OBVIOUS
  <1>1. CASE UNCHANGED vars
    BY <1>1 DEF vars, TicketInv, TypeOK, Recorded, Open, Closed
  <1>2. ASSUME NEW i \in DOMAIN Segments, NEW role \in Roles, NEW msg \in Messages,
               MirrorResponse(i, role, msg)
        PROVE  TicketInv'
    <2> DEFINE u == RecordResponse(ticket, i, role, msg)
    <2>1. /\ ticket \in [uid : {"uid"}, op : {"read", "write"}, completed : BOOLEAN,
                         segments : [DOMAIN Segments -> SegmentStates]]
          /\ answers \in [DOMAIN Segments -> [Roles -> Messages \cup {NoMsg}]]
      BY DEF TicketInv, TypeOK
    <2>2. /\ answers[i][role] = NoMsg
          /\ answers' = [answers EXCEPT ![i][role] = msg]
      BY <1>2 DEF MirrorResponse
    <2>3. answers' \in [DOMAIN Segments -> [Roles -> Messages \cup {NoMsg}]]
      BY <2>1, <2>2
    <2>4. CASE ticket.completed
      <3>1. ticket' = ticket /\ results' = results
        <4>1. OnMirrorResponse(ticket, i, role, msg) = [ticket |-> ticket, notified |-> << >>]
          BY <2>4 DEF OnMirrorResponse
        <4>2. results = << >> \/ results = <<TaskResult(ticket)>>
          BY DEF TicketInv, TypeOK
        <4>3. ticket' = ticket /\ results' = results \o << >>
          BY <1>2, <4>1 DEF MirrorResponse
        <4> QED BY <4>2, <4>3, ConcatEmpty
      <3>2. ticket.segments[i].msg[role] = NoMsg
        BY <2>2 DEF TicketInv, Recorded
      <3>3. Recorded'
        BY <2>1, <2>2, <3>1, <3>2 DEF TicketInv, Recorded
      <3> QED
        BY <2>3, <2>4, <3>1, <3>3 DEF TicketInv, TypeOK, Open, Closed
    <2>5. CASE ~ticket.completed
      <3>1. /\ u.uid = ticket.uid /\ u.op = ticket.op /\ u.completed = ticket.completed
            /\ u.segments = [ticket.segments EXCEPT ![i].msg[role] = msg]
            /\ u \in [uid : {"uid"}, op : {"read", "write"}, completed : BOOLEAN,
                      segments : [DOMAIN Segments -> SegmentStates]]
        BY <2>1 DEF RecordResponse, SegmentStates
      <3>2. \A j \in DOMAIN Segments, r \in Roles :
                /\ u.segments[j].msg[r] = answers'[j][r]
                /\ u.segments[j].length = Segments[j].length
        BY <2>1, <2>2, <2>5, <3>1 DEF TicketInv, Open, Recorded, SegmentStates
      <3>3. results = << >>
        BY <2>5 DEF TicketInv, Open
      <3> HIDE DEF u
      <3>4. CASE IsResolved(u)
        <4> DEFINE w == [u EXCEPT !.completed = TRUE]
        <4>1. OnMirrorResponse(ticket, i, role, msg) =
                  [ticket |-> w, notified |-> <<TaskResult(u)>>]
          BY <2>1, <2>5, <3>4 DEF OnMirrorResponse, u
        <4>2. ticket' = w /\ results' = results \o <<TaskResult(u)>>
          BY <1>2, <4>1 DEF MirrorResponse
        <4>3. /\ w.uid = u.uid /\ w.op = u.op /\ w.segments = u.segments /\ w.completed
              /\ w \in [uid : {"uid"}, op : {"read", "write"}, completed : BOOLEAN,
                        segments : [DOMAIN Segments -> SegmentStates]]
          BY <3>1
        <4> HIDE DEF w
        <4>4. TaskResult(w) = TaskResult(u) /\ IsResolved(w)
          BY <3>4, <4>3 DEF TaskResult, IsResolved
        <4>5. results' = <<TaskResult(ticket')>>
          BY <3>3, <4>2, <4>4, ConcatEmpty
        <4>6. results' # << >>
          BY <4>5
        <4>7. TypeOK'
          BY <2>3, <4>2, <4>3, <4>5 DEF TypeOK
        <4>8. Recorded'
          BY <3>2, <4>2, <4>3 DEF Recorded
        <4> QED
          BY <4>2, <4>3, <4>4, <4>5, <4>7, <4>8 DEF TicketInv, Open, Closed
      <3>5. CASE ~IsResolved(u)
        <4>1. OnMirrorResponse(ticket, i, role, msg) = [ticket |-> u, notified |-> << >>]
          BY <2>1, <2>5, <3>5 DEF OnMirrorResponse, u
        <4>2. ticket' = u /\ results' = << >>
          BY <1>2, <3>3, <4>1, ConcatEmpty DEF MirrorResponse
        <4>3. TypeOK'
          BY <2>3, <3>1, <4>2 DEF TypeOK
        <4>4. Recorded'
          BY <3>2, <4>2 DEF Recorded
        <4>5. Open' /\ Closed'
          BY <2>5, <3>1, <3>2, <3>5, <4>2 DEF Open, Closed
        <4> QED
          BY <4>3, <4>4, <4>5 DEF TicketInv
      <3> QED BY <3>4, <3>5
    <2> QED BY <2>1, <2>4, <2>5
  <1> QED
    BY <1>1, <1>2 DEF Next

\* A ticket records its mirrors faithfully until the moment it completes.
THEOREM TicketInvariant == Spec => []TicketInv
  BY InitEstablishesTicketInv, NextPreservesTicketInv, PTL DEF Spec

\* Every field of the ticket keeps its type and at most one result is notified.
THEOREM TypeCorrect == Spec => []TypeOK
  BY TicketInvariant, PTL DEF TicketInv

-------------------------------------------------------------------------------
\* What a notified result says about the answers, from the invariant.
LEMMA ResultIsTaskResult ==
    ASSUME TicketInv, results # << >>
    PROVE  /\ ticket.completed
           /\ IsResolved(ticket)
           /\ results[1] = TaskResult(ticket)
           /\ DOMAIN ticket.segments = DOMAIN Segments
           /\ ticket.op \in {"read", "write"}
  <1>1. ticket.completed
    BY DEF TicketInv, Open, TypeOK
  <1>2. results = <<TaskResult(ticket)>> /\ IsResolved(ticket)
    BY <1>1 DEF TicketInv, Closed
  <1> QED
    BY <1>1, <1>2 DEF TicketInv, TypeOK

\* What a ticket has recorded of a mirror is what the mirror has answered.
LEMMA RecordedAnswers ==
    ASSUME TicketInv, NEW i \in DOMAIN Segments, NEW role \in Roles
    PROVE  /\ Done(ticket.segments[i], role) =>
                  HasAnswered(i, role) /\ answers[i][role] = ticket.segments[i].msg[role]
           /\ Answered(ticket.segments[i], role) => HasSucceeded(i, role)
           /\ Done(ticket.segments[i], role) /\ ~Answered(ticket.segments[i], role) =>
                  HasAnswered(i, role) /\ ~HasSucceeded(i, role)
  BY DEF TicketInv, Recorded, Done, Answered, HasAnswered, HasSucceeded

\* A message of a segment that was selected successfully is that of one mirror.
LEMMA SelectedIsRecorded ==
    ASSUME NEW seg, IsSegmentSuccessful("read", seg)
    PROVE  \E role \in Roles :
               Answered(seg, role) /\ SelectSegmentMessage(seg) = seg.msg[role]
  BY DEF IsSegmentSuccessful, SelectSegmentMessage, Answered, Done, Roles

\* RAID 01 write policy: an acknowledged write is on both mirrors.
THEOREM WritePolicy == Spec => []WriteAckedByBothMirrors
  <1>1. TicketInv => WriteAckedByBothMirrors
    <2> SUFFICES ASSUME TicketInv, ticket.op = "write", Succeeded,
                        NEW i \in DOMAIN Segments, NEW role \in Roles
                 PROVE  HasSucceeded(i, role)
      BY DEF WriteAckedByBothMirrors
    <2>1. TaskResult(ticket).result /\ DOMAIN ticket.segments = DOMAIN Segments
      BY ResultIsTaskResult DEF Succeeded
    <2>2. IsSegmentSuccessful("write", ticket.segments[i])
      BY <2>1 DEF TaskResult
    <2>3. Answered(ticket.segments[i], role)
      BY <2>2 DEF IsSegmentSuccessful, Roles
    <2> QED BY <2>3, RecordedAnswers
  <1> QED BY <1>1, TicketInvariant, PTL

\* Read policy: the buffer of a successful read is made of replies that the
\* segments' own mirrors sent with success.
THEOREM ReadPolicy == Spec => []ReadServedByHealthyMirror
  <1>1. TicketInv => ReadServedByHealthyMirror
    <2> SUFFICES ASSUME TicketInv, ticket.op = "read", Succeeded
                 PROVE  /\ DOMAIN results[1].buffer = DOMAIN Segments
                        /\ \A i \in DOMAIN Segments : \E role \in Roles :
                               /\ HasSucceeded(i, role)
                               /\ results[1].buffer[i] = Slice(Segments[i], answers[i][role])
      BY DEF ReadServedByHealthyMirror
    <2>1. /\ TaskResult(ticket).result
          /\ results[1] = TaskResult(ticket)
          /\ DOMAIN ticket.segments = DOMAIN Segments
      BY ResultIsTaskResult DEF Succeeded
    <2>2. TaskResult(ticket).buffer =
              [i \in DOMAIN Segments |->
                  Slice(ticket.segments[i], SelectSegmentMessage(ticket.segments[i]))]
      BY <2>1 DEF TaskResult
    <2>3. ASSUME NEW i \in DOMAIN Segments
          PROVE  \E role \in Roles :
                     /\ HasSucceeded(i, role)
                     /\ results[1].buffer[i] = Slice(Segments[i], answers[i][role])
      <3>1. IsSegmentSuccessful("read", ticket.segments[i])
        BY <2>1 DEF TaskResult
      <3>2. PICK role \in Roles :
                /\ Answered(ticket.segments[i], role)
                /\ SelectSegmentMessage(ticket.segments[i]) = ticket.segments[i].msg[role]
        BY <3>1, SelectedIsRecorded
      <3>3. HasSucceeded(i, role) /\ answers[i][role] = ticket.segments[i].msg[role]
        BY <3>2, RecordedAnswers DEF Answered
      <3>4. ticket.segments[i].length = Segments[i].length
        BY DEF TicketInv, Recorded
      <3>5. results[1].buffer[i] = Slice(Segments[i], answers[i][role])
        BY <2>1, <2>2, <3>2, <3>3, <3>4 DEF Slice
      <3> QED BY <3>3, <3>5
    <2> QED BY <2>1, <2>2, <2>3
  <1> QED BY <1>1, TicketInvariant, PTL

\* The ticket never invents a failure.
THEOREM FailuresHaveCauses == Spec => []FailureHasCause
  <1>1. TicketInv => FailureHasCause
    <2> SUFFICES ASSUME TicketInv, Failed PROVE FailureHasCause
      BY DEF FailureHasCause
    <2>1. /\ ~TaskResult(ticket).result
          /\ IsResolved(ticket)
          /\ DOMAIN ticket.segments = DOMAIN Segments
          /\ ticket.op \in {"read", "write"}
      BY ResultIsTaskResult DEF Failed
    <2>2. PICK i \in DOMAIN Segments : ~IsSegmentSuccessful(ticket.op, ticket.segments[i])
      BY <2>1 DEF TaskResult
    <2>3. IsSegmentResolved(ticket.op, ticket.segments[i])
      BY <2>1 DEF IsResolved
    <2>4. CASE ticket.op = "read"
      <3>1. Done(ticket.segments[i], "backup") /\ ~Answered(ticket.segments[i], "backup")
        BY <2>2, <2>3, <2>4
           DEF IsSegmentResolved, IsSegmentSuccessful, SelectSegmentMessage, Answered, Done
      <3>2. HasAnswered(i, "backup") /\ ~HasSucceeded(i, "backup")
        BY <3>1, RecordedAnswers DEF Roles
      <3> QED BY <2>4, <3>2 DEF FailureHasCause
    <2>5. CASE ticket.op = "write"
      <3>1. PICK role \in Roles : ~Answered(ticket.segments[i], role)
        BY <2>2, <2>5 DEF IsSegmentSuccessful, Roles
      <3>2. Done(ticket.segments[i], role)
        BY <2>3, <2>5 DEF IsSegmentResolved, Roles
      <3>3. HasAnswered(i, role) /\ ~HasSucceeded(i, role)
        BY <3>1, <3>2, RecordedAnswers
      <3> QED BY <2>5, <3>3 DEF FailureHasCause
    <2> QED BY <2>1, <2>4, <2>5
  <1> QED BY <1>1, TicketInvariant, PTL

\* A ticket with enough answers has notified its result: TryComplete cannot miss
\* the response that decides it.
THEOREM NoMissedCompletion == Spec => []DoneWhenAnswered
  <1>1. TicketInv => DoneWhenAnswered
    <2> SUFFICES ASSUME TicketInv, results = << >>,
                        \/ \A i \in DOMAIN Segments, role \in Roles : HasAnswered(i, role)
                        \/ /\ ticket.op = "read"
                           /\ \A i \in DOMAIN Segments :
                                  \E role \in Roles : HasSucceeded(i, role)
                 PROVE  FALSE
      BY DEF DoneWhenAnswered
    <2>1. ~ticket.completed
      BY DEF TicketInv, Closed
    <2>2. /\ ~IsResolved(ticket)
          /\ \A i \in DOMAIN Segments, role \in Roles :
                 ticket.segments[i].msg[role] = answers[i][role]
      BY <2>1 DEF TicketInv, Open
    <2>3. DOMAIN ticket.segments = DOMAIN Segments /\ ticket.op \in {"read", "write"}
      BY DEF TicketInv, TypeOK
    <2>4. PICK i \in DOMAIN Segments : ~IsSegmentResolved(ticket.op, ticket.segments[i])
      BY <2>2, <2>3 DEF IsResolved
    <2>5. \A role \in Roles :
              /\ HasAnswered(i, role) => Done(ticket.segments[i], role)
              /\ HasSucceeded(i, role) => Answered(ticket.segments[i], role)
      BY <2>2 DEF HasAnswered, HasSucceeded, Done, Answered
    <2> QED
      BY <2>3, <2>4, <2>5 DEF IsSegmentResolved, Roles, Answered
  <1> QED BY <1>1, TicketInvariant, PTL

\* Late replies find a completed ticket and leave it, and its result, alone.
THEOREM Frozen == Spec => FrozenAfterResult
  <1>1. TicketInv /\ [Next]_vars => [results # << >> => UNCHANGED <<ticket, results>>]_vars
    <2> SUFFICES ASSUME TicketInv, results # << >>,
                        NEW i \in DOMAIN Segments, NEW role \in Roles, NEW msg \in Messages,
                        MirrorResponse(i, role, msg)
                 PROVE  UNCHANGED <<ticket, results>>
      BY DEF Next
    <2>1. ticket.completed /\ results = <<TaskResult(ticket)>>
      BY ResultIsTaskResult DEF TicketInv, Closed
    <2>2. OnMirrorResponse(ticket, i, role, msg) = [ticket |-> ticket, notified |-> << >>]
      BY <2>1 DEF OnMirrorResponse
    <2>3. ticket' = ticket /\ results' = results \o << >>
      BY <2>2 DEF MirrorResponse
    <2> QED BY <2>1, <2>3, ConcatEmpty
  <1> QED BY <1>1, TicketInvariant, PTL DEF Spec, FrozenAfterResult
===============================================================================
