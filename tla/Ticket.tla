-------------------------------- MODULE Ticket --------------------------------
(***************************************************************************)
(* One ticket, from the callbacks AddReadTask / AddWriteTask hand to the   *)
(* minion proxies to the TaskResult it notifies.  The mirrors answer in    *)
(* any order and with any result; a proxy runs a callback at most once and *)
(* erases it, so every mirror of every segment answers at most once.       *)
(***************************************************************************)
EXTENDS TicketOps

CONSTANTS Segments,     \* the sequence of [length, bufferOffset] records of Split
          Messages      \* the replies a minion can send

ASSUME TicketAssumption ==
    /\ Segments \in Seq([length : Nat, bufferOffset : Nat])
    /\ Segments # << >>
    /\ NoMsg \notin Messages
    /\ \A m \in Messages : m.result \in BOOLEAN

VARIABLES ticket,
          answers,      \* [segment -> [role -> what that mirror answered]]
          results       \* the TaskResults the ticket has notified, in order

vars == <<ticket, answers, results>>

Init ==
    /\ \E op \in {"read", "write"} : ticket = NewTicket("uid", op, Segments)
    /\ answers = [i \in DOMAIN Segments |-> [role \in Roles |-> NoMsg]]
    /\ results = << >>

\* A mirror's reply reaches the callback registered for it.
MirrorResponse(i, role, msg) ==
    LET after == OnMirrorResponse(ticket, i, role, msg)
    IN /\ answers[i][role] = NoMsg
       /\ answers' = [answers EXCEPT ![i][role] = msg]
       /\ ticket' = after.ticket
       /\ results' = results \o after.notified

Next ==
    \E i \in DOMAIN Segments, role \in Roles, msg \in Messages :
        MirrorResponse(i, role, msg)

Spec == Init /\ [][Next]_vars

-------------------------------------------------------------------------------
SegmentStates ==
    [length : Nat, bufferOffset : Nat,
     msg : [Roles -> Messages \cup {NoMsg}]]

TypeOK ==
    /\ ticket \in [uid : {"uid"}, op : {"read", "write"}, completed : BOOLEAN,
                   segments : [DOMAIN Segments -> SegmentStates]]
    /\ answers \in [DOMAIN Segments -> [Roles -> Messages \cup {NoMsg}]]
    /\ results = << >> \/ results = <<TaskResult(ticket)>>

\* What the mirrors have answered, independently of what the ticket recorded.
HasAnswered(i, role) == answers[i][role] # NoMsg
HasSucceeded(i, role) == HasAnswered(i, role) /\ answers[i][role].result

Succeeded == results # << >> /\ results[1].result
Failed == results # << >> /\ ~results[1].result

\* A ticket notifies one result, and a late reply of a mirror does not change
\* the ticket after that (the guard on m_completed in OnMirrorResponse).
FrozenAfterResult ==
    [][results # << >> => UNCHANGED <<ticket, results>>]_vars

\* RAID 01 write policy: a write succeeds only when both mirrors of every
\* segment have written it.
WriteAckedByBothMirrors ==
    ticket.op = "write" /\ Succeeded =>
        \A i \in DOMAIN Segments, role \in Roles : HasSucceeded(i, role)

\* A read returns, for each segment, the data one of that segment's own mirrors
\* sent with a success flag: never the bytes of a failed read (the minion sends
\* its uninitialised buffer then), and never a part of the buffer left unset.
ReadServedByHealthyMirror ==
    ticket.op = "read" /\ Succeeded =>
        /\ DOMAIN results[1].buffer = DOMAIN Segments
        /\ \A i \in DOMAIN Segments : \E role \in Roles :
               /\ HasSucceeded(i, role)
               /\ results[1].buffer[i] = Slice(Segments[i], answers[i][role])

\* A request fails only because some mirror failed: of a write any of them, of a
\* read the backup.  (IsSegmentResolved does not wait for the primary once the backup
\* has answered, whatever it answered: a healthy primary that is slower than a failed
\* backup does not save the read.)
FailureHasCause ==
    Failed => \E i \in DOMAIN Segments :
                  IF ticket.op = "read"
                  THEN HasAnswered(i, "backup") /\ ~HasSucceeded(i, "backup")
                  ELSE \E role \in Roles : HasAnswered(i, role) /\ ~HasSucceeded(i, role)

\* One mirror is enough to finish a read: when every segment of a read has a
\* mirror that succeeded, or every mirror has answered, the ticket is done.
DoneWhenAnswered ==
    \/ \A i \in DOMAIN Segments, role \in Roles : HasAnswered(i, role)
    \/ ticket.op = "read" /\ \A i \in DOMAIN Segments : \E role \in Roles : HasSucceeded(i, role)
    => results # << >>
===============================================================================
