---------------------------- MODULE RaidDriveProofs ----------------------------
(***************************************************************************)
(* The drive end to end, for every geometry, every set of requests and any *)
(* number of faults.                                                       *)
(***************************************************************************)
EXTENDS RaidDrive, TLAPS

-------------------------------------------------------------------------------
(* Where requests lie. *)

\* size_t division and remainder by a positive divisor.
LEMMA DivMod ==
    ASSUME NEW a \in Nat, NEW c \in Nat \ {0}
    PROVE  /\ a \div c \in Nat
           /\ a % c \in Nat
           /\ a % c < c
           /\ a = (a \div c) * c + (a % c)
  OBVIOUS

\* Multiplication by a natural number is monotone.
LEMMA TimesMonotone ==
    ASSUME NEW a \in Nat, NEW b \in Nat, NEW c \in Nat, a <= b
    PROVE  a * c <= b * c
  OBVIOUS

\* The quotient and the remainder are the only numbers of their kind.
LEMMA DivModUnique ==
    ASSUME NEW q \in Nat, NEW r \in Nat, NEW c \in Nat \ {0}, r < c
    PROVE  /\ (q * c + r) \div c = q
           /\ (q * c + r) % c = r
  <1> DEFINE a == q * c + r
             p == a \div c
             s == a % c
  <1>1. a \in Nat /\ q * c \in Nat
    OBVIOUS
  <1>2. p \in Nat /\ s \in Nat /\ s < c /\ a = p * c + s
    BY <1>1, DivMod
  <1>3. p * c \in Nat
    BY <1>2
  <1> HIDE DEF p, s
  <1>4. CASE p < q
    <2>1. (p + 1) * c <= q * c
      BY <1>2, <1>4, TimesMonotone
    <2>2. (p + 1) * c = p * c + c
      BY <1>2
    <2> QED BY <1>1, <1>2, <1>3, <2>1, <2>2
  <1>5. CASE q < p
    <2>1. (q + 1) * c <= p * c
      BY <1>2, <1>5, TimesMonotone
    <2>2. (q + 1) * c = q * c + c
      OBVIOUS
    <2> QED BY <1>1, <1>2, <1>3, <2>1, <2>2
  <1>6. CASE p = q
    BY <1>1, <1>2, <1>6 DEF p, s
  <1> QED BY <1>2, <1>4, <1>5, <1>6

\* A unit of the drive lies in the chunk of a minion.
LEMMA UnitHasMinion ==
    ASSUME NEW a \in Nat, a < DriveSize
    PROVE  /\ GetPrimaryIndex(a) \in Minions
           /\ a % ChunkSize \in 0..(ChunkSize - 1)
  <1> DEFINE p == a \div ChunkSize
  <1>1. p \in Nat /\ a % ChunkSize \in Nat /\ a % ChunkSize < ChunkSize
        /\ a = p * ChunkSize + (a % ChunkSize)
    BY DivMod, StripingAssumption
  <1>2. p < NumMinions
    <2>1. SUFFICES ASSUME NumMinions <= p PROVE FALSE
      BY <1>1, StripingAssumption
    <2>2. NumMinions * ChunkSize <= p * ChunkSize
      BY <1>1, <2>1, StripingAssumption, TimesMonotone
    <2>3. p * ChunkSize \in Nat /\ NumMinions * ChunkSize \in Nat
      BY <1>1, StripingAssumption
    <2> QED BY <1>1, <2>2, <2>3 DEF DriveSize
  <1> QED BY <1>1, <1>2, StripingAssumption DEF GetPrimaryIndex, Minions

\* The backup of a chunk is a minion, and another one if there are two.
LEMMA BackupIsMinion ==
    ASSUME NEW p \in Minions
    PROVE  /\ GetBackupIndex(p) \in Minions
           /\ NumMinions > 1 => GetBackupIndex(p) # p
  <1>1. CASE p + 1 < NumMinions
    BY <1>1, StripingAssumption DEF GetBackupIndex, Minions
  <1>2. CASE p + 1 = NumMinions
    BY <1>2, StripingAssumption DEF GetBackupIndex, Minions
  <1> QED BY <1>1, <1>2, StripingAssumption DEF Minions

\* Every segment of an admitted request names two minions that exist.
LEMMA SegmentsHaveMinions ==
    ASSUME NEW o \in Nat, NEW l \in Nat \ {0}, o + l <= DriveSize
    PROVE  /\ NumSegments(o, l) \in Nat \ {0}
           /\ Len(Split(o, l)) = NumSegments(o, l)
           /\ DOMAIN Split(o, l) = 1..NumSegments(o, l)
           /\ \A i \in 1..NumSegments(o, l) :
                  /\ Split(o, l)[i].primaryMinionIndex \in Minions
                  /\ Split(o, l)[i].backupMinionIndex \in Minions
  <1> DEFINE p == o \div ChunkSize
             q == (o + l - 1) \div ChunkSize
             n == NumSegments(o, l)
  <1>1. p \in Nat /\ q \in Nat
    BY DivMod, StripingAssumption
  <1>2. q \in Minions /\ p \in Minions
    <2>1. o + l - 1 \in Nat /\ o + l - 1 < DriveSize /\ o < DriveSize
      BY StripingAssumption DEF DriveSize
    <2> QED BY <2>1, UnitHasMinion DEF GetPrimaryIndex
  <1>3. p <= q
    <2>1. SUFFICES ASSUME q + 1 <= p PROVE FALSE
      BY <1>1
    <2>2. (q + 1) * ChunkSize <= p * ChunkSize
      BY <1>1, <2>1, StripingAssumption, TimesMonotone
    <2>3. (q + 1) * ChunkSize = q * ChunkSize + ChunkSize
          /\ q * ChunkSize \in Nat /\ p * ChunkSize \in Nat
      BY <1>1, StripingAssumption
    <2>4. o = p * ChunkSize + (o % ChunkSize) /\ o % ChunkSize \in Nat
      BY DivMod, StripingAssumption
    <2>5. /\ o + l - 1 = q * ChunkSize + ((o + l - 1) % ChunkSize)
          /\ (o + l - 1) % ChunkSize \in Nat /\ (o + l - 1) % ChunkSize < ChunkSize
      BY DivMod, StripingAssumption
    <2> QED BY <2>2, <2>3, <2>4, <2>5, StripingAssumption
  <1>4. n = q - p + 1
    BY DEF NumSegments, GetPrimaryIndex
  <1> HIDE DEF p, q, n
  <1>5. n \in Nat \ {0}
    BY <1>1, <1>3, <1>4
  <1>6. DOMAIN Split(o, l) = 1..n /\ Len(Split(o, l)) = n
    BY <1>5 DEF Split, n
  <1>7. ASSUME NEW i \in 1..n
        PROVE  /\ Split(o, l)[i].primaryMinionIndex \in Minions
               /\ Split(o, l)[i].backupMinionIndex \in Minions
    <2> DEFINE start == SegmentStart(o, i)
    <2>1. start \div ChunkSize \in Minions
      <3>1. CASE i = 1
        BY <3>1, <1>2 DEF SegmentStart, p
      <3>2. CASE i # 1
        <4>1. start = (p + i - 1) * ChunkSize
          BY <3>2 DEF SegmentStart, GetPrimaryIndex, p
        <4>2. p + i - 1 \in Nat /\ p + i - 1 <= q
          BY <1>1, <1>4, <1>5
        <4>3. start \div ChunkSize = p + i - 1
          BY <4>1, <4>2, DivModUnique, StripingAssumption
        <4> QED BY <1>1, <1>2, <4>2, <4>3, StripingAssumption DEF Minions
      <3> QED BY <3>1, <3>2
    <2>2. /\ Split(o, l)[i].primaryMinionIndex = start \div ChunkSize
          /\ Split(o, l)[i].backupMinionIndex = GetBackupIndex(start \div ChunkSize)
      BY <1>6 DEF Split, Segment, GetPrimaryIndex, n
    <2> QED BY <2>1, <2>2, BackupIsMinion
  <1> QED BY <1>5, <1>6, <1>7 DEF n

-------------------------------------------------------------------------------
(* The tables. *)

TicketFields == {"uid", "op", "segments", "completed"}

\* The life of a request: its task, its ticket and what has been sent for it.
Progress(u) ==
    /\ task[u] = "none" <=> request[u] = NoRequest
    /\ task[u] \in {"none", "queued"} =>
           tickets[u] = << >> /\ replies[u] = NoReply /\ sent[u] = 0
    /\ task[u] \in {"sending", "ended"} => tickets[u] # << >>
    /\ task[u] = "sending" => sent[u] < 2 * Len(Segments(u))
    /\ tickets[u] # << >> => DOMAIN tickets[u] = TicketFields /\ tickets[u].uid = u
    /\ \A m \in Minions : m_map[m][u] # NoCallback => tickets[u] # << >>

TablesInv ==
    /\ TablesAgree
    /\ DOMAIN replies = Uids /\ DOMAIN allowed = Units /\ DOMAIN tickets = Uids
    /\ DOMAIN m_map = Minions
    /\ \A u \in Uids : Progress(u)

\* A request of the kernel lies inside the drive and is not empty.
LEMMA RequestFits ==
    ASSUME NEW r \in Workload
    PROVE  /\ r.op \in {"read", "write"}
           /\ r.offset \in Nat /\ r.length \in Nat \ {0} /\ r.offset + r.length <= DriveSize
           /\ r # NoRequest
  BY RaidAssumption

\* All tables are empty at first.
LEMMA InitEstablishesTablesInv == Init => TablesInv
  <1> SUFFICES ASSUME Init PROVE TablesInv
    OBVIOUS
  <1> USE DEF Init, Kernel!Init
  <1>1. TypeOK
    BY DEF TypeOK, Datagrams
  <1>2. CallbacksAwaited
    BY DEF CallbacksAwaited
  <1>3. TablesAgree
    BY <1>1, <1>2 DEF TablesAgree, Outstanding, Kernel!Outstanding
  <1>4. \A u \in Uids : Progress(u)
    BY DEF Progress
  <1> QED BY <1>3, <1>4 DEF TablesInv

\* A ticket keeps its fields and notifies under its own uid.
LEMMA MirrorResponseKeepsTicket ==
    ASSUME NEW t, DOMAIN t = TicketFields, NEW i, NEW role, NEW msg
    PROVE  LET after == OnMirrorResponse(t, i, role, msg)
           IN /\ DOMAIN after.ticket = TicketFields
              /\ after.ticket.uid = t.uid
              /\ after.notified = << >> \/ after.notified[1].uid = t.uid
  <1> DEFINE w == RecordResponse(t, i, role, msg)
             done == [w EXCEPT !.completed = TRUE]
             after == OnMirrorResponse(t, i, role, msg)
  <1>1. DOMAIN w = TicketFields /\ w.uid = t.uid
    BY DEF RecordResponse, TicketFields
  <1> HIDE DEF w
  <1>2. DOMAIN done = TicketFields /\ done.uid = t.uid
    BY <1>1 DEF TicketFields
  <1>3. TaskResult(w).uid = t.uid
    BY <1>1 DEF TaskResult
  <1>4. \/ after = [ticket |-> t, notified |-> << >>]
        \/ after = [ticket |-> done, notified |-> <<TaskResult(w)>>]
        \/ after = [ticket |-> w, notified |-> << >>]
    BY DEF OnMirrorResponse, w
  <1> HIDE DEF done, after
  <1>5. CASE after = [ticket |-> t, notified |-> << >>]
    BY <1>5 DEF after
  <1>6. CASE after = [ticket |-> done, notified |-> <<TaskResult(w)>>]
    BY <1>2, <1>3, <1>6 DEF after
  <1>7. CASE after = [ticket |-> w, notified |-> << >>]
    BY <1>1, <1>7 DEF after
  <1> QED BY <1>4, <1>5, <1>6, <1>7

\* The ticket a response leaves and what it notifies.
AfterAnswer(a) ==
    OnMirrorResponse(tickets[a.uid], m_map[a.minion][a.uid].segment,
                     m_map[a.minion][a.uid].role, [result |-> a.result, data |-> a.data])

\* The reply to the kernel that comes out of a notified result.
ReplyOf(u, r) ==
    [error  |-> ~r.result,
     buffer |-> IF r.buffer = << >> THEN << >> ELSE Assembled(u, r.buffer)]

\* What a response does to the ticket and to the tables.
LEMMA AnswerEffect ==
    ASSUME TablesInv, NEW a, a.minion \in Minions, a.uid \in Uids, HandleAnswer(a),
           m_map[a.minion][a.uid] # NoCallback
    PROVE  /\ tickets[a.uid] # << >>
           /\ DOMAIN tickets[a.uid] = TicketFields /\ tickets[a.uid].uid = a.uid
           /\ tickets' = [tickets EXCEPT ![a.uid] = AfterAnswer(a).ticket]
           /\ DOMAIN AfterAnswer(a).ticket = TicketFields
           /\ AfterAnswer(a).ticket.uid = a.uid
           /\ m_map' = [m_map EXCEPT ![a.minion][a.uid] = NoCallback]
           /\ \/ /\ UNCHANGED <<tableVars, replies, allowed, damaged>>
                 /\ AfterAnswer(a).notified = << >> \/ ~Outstanding(a.uid)
              \/ /\ AfterAnswer(a).notified # << >>
                 /\ Outstanding(a.uid)
                 /\ AfterAnswer(a).notified[1].uid = a.uid
                 /\ m_responses' = m_responses \ {a.uid}
                 /\ m_requests' = m_requests \ {a.uid}
                 /\ m_tickets' = m_tickets \ {a.uid}
                 /\ replies' = [replies EXCEPT ![a.uid] =
                                   ReplyOf(a.uid, AfterAnswer(a).notified[1])]
                 /\ allowed' = Kernel!AllowedOnReply(a.uid, ~AfterAnswer(a).notified[1].result)
                 /\ damaged' = Kernel!DamagedOnReply(a.uid, ~AfterAnswer(a).notified[1].result)
  <1> DEFINE after == AfterAnswer(a)
  <1>1. tickets[a.uid] # << >> /\ DOMAIN tickets[a.uid] = TicketFields
        /\ tickets[a.uid].uid = a.uid
    BY DEF TablesInv, Progress
  <1>2. DOMAIN after.ticket = TicketFields /\ after.ticket.uid = a.uid
        /\ (after.notified = << >> \/ after.notified[1].uid = a.uid)
    BY <1>1, MirrorResponseKeepsTicket DEF AfterAnswer
  <1>3. m_requests = m_responses /\ m_responses = {u \in Uids : Outstanding(u)}
    BY DEF TablesInv, TablesAgree
  <1>4. /\ tickets' = [tickets EXCEPT ![a.uid] = after.ticket]
        /\ m_map' = [m_map EXCEPT ![a.minion][a.uid] = NoCallback]
        /\ IF after.notified = << >>
           THEN UNCHANGED <<tableVars, replies, allowed, damaged>>
           ELSE OnTicketDone(after.notified[1])
    BY DEF HandleAnswer, AfterAnswer
  <1> HIDE DEF after
  <1>5. CASE after.notified = << >> \/ ~Outstanding(a.uid)
    <2>1. UNCHANGED <<tableVars, replies, allowed, damaged>>
      BY <1>2, <1>3, <1>4, <1>5 DEF OnTicketDone
    <2> QED BY <1>1, <1>2, <1>4, <1>5, <2>1 DEF after
  <1>6. CASE after.notified # << >> /\ Outstanding(a.uid)
    <2>1. a.uid \in m_requests /\ a.uid \in m_responses
      BY <1>3, <1>6
    <2>2. OnTicketDone(after.notified[1]) /\ after.notified[1].uid = a.uid
      BY <1>2, <1>4, <1>6
    <2>3. /\ m_responses' = m_responses \ {a.uid}
          /\ m_requests' = m_requests \ {a.uid}
          /\ m_tickets' = m_tickets \ {a.uid}
          /\ replies' = [replies EXCEPT ![a.uid] = ReplyOf(a.uid, after.notified[1])]
          /\ allowed' = Kernel!AllowedOnReply(a.uid, ~after.notified[1].result)
          /\ damaged' = Kernel!DamagedOnReply(a.uid, ~after.notified[1].result)
      BY <2>1, <2>2 DEF OnTicketDone, OnNBDResponse, ReplyOf
    <2> QED BY <1>1, <1>2, <1>4, <1>6, <2>2, <2>3 DEF after
  <1> QED BY <1>5, <1>6

\* A reply is told apart from no reply.
LEMMA ReplyIsARecord ==
    ASSUME NEW u, NEW r
    PROVE  ReplyOf(u, r) # NoReply
  <1>1. DOMAIN ReplyOf(u, r) = {"error", "buffer"}
    BY DEF ReplyOf
  <1> QED BY <1>1 DEF NoReply

\* A new request enters the tables of NBDProxy and ResponseManager together.
LEMMA TablesAfterGetTaskArgs ==
    ASSUME TablesInv, NEW u \in Uids, NEW r \in Workload, GetTaskArgs(u, r)
    PROVE  TablesInv'
  <1> USE DEF TablesInv, TablesAgree
  <1>1. /\ request[u] = NoRequest /\ r # NoRequest
        /\ request' = [request EXCEPT ![u] = r]
        /\ allowed' = Kernel!AllowedOnIssue(u, r)
        /\ task' = [task EXCEPT ![u] = "queued"]
        /\ m_responses' = m_responses \cup {u} /\ m_requests' = m_requests \cup {u}
        /\ UNCHANGED <<replies, m_tickets, sent, tickets, m_map, commands, answers,
                       minionVars, faults>>
    BY RequestFits DEF GetTaskArgs, Kernel!Issue, Kernel!MayIssue, OnNewTask, EnqueueTask
  <1>2. TypeOK'
    BY <1>1 DEF TypeOK, Datagrams, minionVars
  <1>3. CallbacksAwaited' = CallbacksAwaited
    BY <1>1 DEF CallbacksAwaited, Datagrams
  <1>4. \A v \in Uids : v # u => request'[v] = request[v] /\ task'[v] = task[v]
    BY <1>1 DEF TypeOK
  <1>5. tickets[u] = << >> /\ replies[u] = NoReply /\ request'[u] = r /\ task'[u] = "queued"
    BY <1>1 DEF Progress, TypeOK
  <1>6. /\ m_responses' = {v \in Uids : Outstanding(v)'}
        /\ m_tickets' = {v \in m_responses' : tickets'[v] # << >>}
    BY <1>1, <1>4, <1>5 DEF Outstanding, Kernel!Outstanding, NoReply
  <1>7. ASSUME NEW v \in Uids PROVE Progress(v)'
    <2>1. CASE v = u
      <3>1. \A m \in Minions : m_map'[m][u] = NoCallback
        BY <1>1, <1>5 DEF Progress
      <3> QED BY <1>1, <1>5, <2>1, <3>1 DEF Progress
    <2>2. CASE v # u
      BY <1>1, <1>4, <2>2 DEF Progress, Segments
    <2> QED BY <2>1, <2>2
  <1>8. DOMAIN allowed' = Units
    BY <1>1 DEF Kernel!AllowedOnIssue
  <1> QED BY <1>1, <1>2, <1>3, <1>6, <1>7, <1>8

\* A worker creates the ticket of its request.
LEMMA TablesAfterAddTask ==
    ASSUME TablesInv, NEW u \in Uids, AddTask(u)
    PROVE  TablesInv'
  <1> USE DEF TablesInv, TablesAgree
  <1>1. /\ request[u] \in Workload /\ replies[u] = NoReply /\ tickets[u] = << >>
        /\ task[u] = "queued"
    BY DEF AddTask, Progress, TypeOK
  <1>2. ValidateRange(request[u].offset, request[u].length)
    BY <1>1, RequestFits DEF ValidateRange
  <1>3. /\ task' = [task EXCEPT ![u] = "sending"]
        /\ tickets' = [tickets EXCEPT ![u] = NewTicket(u, request[u].op, Segments(u))]
        /\ m_tickets' = m_tickets \cup {u}
        /\ UNCHANGED <<kernelVars, m_responses, m_requests, sent, m_map, commands, answers,
                       minionVars, faults>>
    BY <1>2 DEF AddTask, OnTicketCreate
  <1>4. TypeOK'
    BY <1>3 DEF TypeOK, Datagrams, minionVars, kernelVars
  <1>5. CallbacksAwaited' = CallbacksAwaited
    BY <1>3 DEF CallbacksAwaited, Datagrams
  <1>6. /\ DOMAIN tickets'[u] = TicketFields /\ tickets'[u].uid = u
        /\ \A v \in Uids : v # u => tickets'[v] = tickets[v]
    BY <1>3 DEF NewTicket, TicketFields
  <1>7. tickets'[u] # << >>
    BY <1>6 DEF TicketFields
  <1>8. Outstanding(u) /\ \A v \in Uids : Outstanding(v)' = Outstanding(v)
    BY <1>1, <1>3, RequestFits DEF Outstanding, Kernel!Outstanding, kernelVars
  <1>9. /\ m_responses' = {v \in Uids : Outstanding(v)'}
        /\ m_tickets' = {v \in m_responses' : tickets'[v] # << >>}
    BY <1>3, <1>6, <1>7, <1>8
  <1>10. ASSUME NEW v \in Uids PROVE Progress(v)'
    <2>1. CASE v = u
      <3>1. task'[u] = "sending" /\ Segments(u)' = Segments(u) /\ sent'[u] = sent[u]
        BY <1>3 DEF Segments, kernelVars, TypeOK
      <3>2. sent[u] = 0
        BY <1>1 DEF Progress
      <3>3. PICK o \in Nat, l \in Nat \ {0} :
                o = request[u].offset /\ l = request[u].length /\ o + l <= DriveSize
        BY <1>1, RequestFits
      <3>4. Len(Split(o, l)) \in Nat \ {0}
        BY <3>3, SegmentsHaveMinions
      <3>5. Len(Segments(u)) \in Nat \ {0}
        BY <3>3, <3>4 DEF Segments
      <3> QED BY <1>1, <1>3, <1>6, <1>7, <2>1, <3>1, <3>2, <3>5 DEF Progress, kernelVars
    <2>2. CASE v # u
      BY <1>3, <1>6, <2>2 DEF Progress, Segments, kernelVars, TypeOK
    <2> QED BY <2>1, <2>2
  <1> QED BY <1>3, <1>4, <1>5, <1>9, <1>10 DEF kernelVars

\* The command of the next call goes to a minion that exists.
LEMMA NextCommand ==
    ASSUME TablesInv, NEW u \in Uids, task[u] = "sending"
    PROVE  /\ request[u] \in Workload
           /\ sent[u] \in Nat /\ Len(Segments(u)) \in Nat
           /\ SegmentOf(sent[u]) \in 1..Len(Segments(u))
           /\ Command(u, sent[u]).minion \in Minions
           /\ Command(u, sent[u]).uid = u
           /\ tickets[u] # << >>
  <1> DEFINE n == sent[u]
             o == request[u].offset
             l == request[u].length
  <1>1. request[u] \in Workload /\ n \in Nat /\ n < 2 * Len(Segments(u)) /\ tickets[u] # << >>
    BY DEF TablesInv, TablesAgree, TypeOK, Progress
  <1>2. o \in Nat /\ l \in Nat \ {0} /\ o + l <= DriveSize
    BY <1>1, RequestFits
  <1>3. /\ Len(Segments(u)) \in Nat
        /\ \A i \in 1..Len(Segments(u)) :
               /\ Segments(u)[i].primaryMinionIndex \in Minions
               /\ Segments(u)[i].backupMinionIndex \in Minions
    BY <1>2, SegmentsHaveMinions DEF Segments
  <1>4. SegmentOf(n) \in 1..Len(Segments(u))
    BY <1>1, <1>3 DEF SegmentOf
  <1>5. Command(u, n).minion = MinionOf(Segments(u)[SegmentOf(n)], RoleOf(n))
        /\ Command(u, n).uid = u
    BY DEF Command
  <1> QED BY <1>1, <1>3, <1>4, <1>5 DEF MinionOf

\* A command is sent after its callback is in the map.
LEMMA TablesAfterSendMirror ==
    ASSUME TablesInv, NEW u \in Uids, SendMirror(u) \/ SendMirrorFails(u)
    PROVE  TablesInv'
  <1> USE DEF TablesInv, TablesAgree
  <1> DEFINE c == Command(u, sent[u])
  <1>1. task[u] = "sending"
    BY DEF SendMirror, SendMirrorFails
  <1>2. c.minion \in Minions /\ c.uid = u /\ tickets[u] # << >> /\ sent[u] \in Nat
    BY <1>1, NextCommand
  <1>3. /\ m_map' = [m_map EXCEPT ![c.minion][u] = c.tag]
        /\ UNCHANGED <<kernelVars, tableVars, tickets, answers, minionVars>>
    BY DEF SendMirror, SendMirrorFails, RegisterCallback
  <1>4. \/ /\ commands' = commands \cup {c} /\ faults' = faults
           /\ sent' = [sent EXCEPT ![u] = sent[u] + 1]
           /\ task' = [task EXCEPT ![u] = IF sent[u] + 1 = 2 * Len(Segments(u))
                                          THEN "ended" ELSE @]
        \/ /\ commands' = commands /\ sent' = sent
           /\ faults' = [faults EXCEPT !["send"] = @ + 1]
           /\ task' = [task EXCEPT ![u] = "ended"]
    BY DEF SendMirror, SendMirrorFails, Happens
  <1> HIDE DEF c
  <1>5. TypeOK'
    <2>1. task' \in [Uids -> {"none", "queued", "sending", "ended"}] /\ sent' \in [Uids -> Nat]
          /\ faults' \in [FaultKinds -> Nat]
      <3>1. sent \in [Uids -> Nat] /\ faults \in [FaultKinds -> Nat]
            /\ task \in [Uids -> {"none", "queued", "sending", "ended"}] /\ "send" \in FaultKinds
        BY DEF TypeOK, FaultKinds
      <3>2. sent' \in [Uids -> Nat]
        BY <1>2, <1>4, <3>1
      <3>3. faults' \in [FaultKinds -> Nat]
        <4>1. faults' = faults \/ faults' = [faults EXCEPT !["send"] = @ + 1]
          BY <1>4
        <4> HIDE DEF TablesInv, TablesAgree
        <4> QED BY <3>1, <4>1
      <3>4. task' \in [Uids -> {"none", "queued", "sending", "ended"}]
        BY <1>1, <1>4, <3>1
      <3> QED BY <3>2, <3>3, <3>4
    <2>2. DOMAIN m_map' = Minions /\ \A m \in Minions : DOMAIN m_map'[m] = Uids
      BY <1>2, <1>3 DEF TypeOK
    <2>3. \A d \in Datagrams' : d.minion \in Minions /\ d.uid \in Uids
      BY <1>2, <1>3, <1>4 DEF TypeOK, Datagrams
    <2> QED BY <1>3, <2>1, <2>2, <2>3 DEF TypeOK, minionVars, kernelVars, tableVars
  <1>6. (faults["lost"] + faults["send"] + faults["restart"] = 0)' => CallbacksAwaited'
    <2> SUFFICES ASSUME (faults["lost"] + faults["send"] + faults["restart"] = 0)'
                 PROVE  CallbacksAwaited'
      OBVIOUS
    <2>1. commands' = commands \cup {c} /\ faults' = faults
      BY <1>4 DEF TypeOK, FaultKinds
    <2>2. CallbacksAwaited
      BY <2>1
    <2>3. ASSUME NEW m \in Minions, NEW v \in Uids, m_map'[m][v] # NoCallback
          PROVE  \E d \in Datagrams' : d.minion = m /\ d.uid = v
      <3>1. CASE m = c.minion /\ v = u
        BY <1>2, <2>1, <3>1 DEF Datagrams
      <3>2. CASE ~(m = c.minion /\ v = u)
        <4>1. m_map'[m][v] = m_map[m][v]
          BY <1>3, <3>2 DEF TypeOK
        <4> QED BY <1>3, <2>1, <2>2, <2>3, <4>1 DEF CallbacksAwaited, Datagrams
      <3> QED BY <3>1, <3>2
    <2> QED BY <2>3 DEF CallbacksAwaited
  <1>7. ASSUME NEW v \in Uids PROVE Progress(v)'
    <2>1. Segments(v)' = Segments(v) /\ replies' = replies /\ request' = request
      BY <1>3 DEF Segments, kernelVars
    <2>2. CASE v = u
      <3>1. request[u] # NoRequest
        BY <1>1 DEF Progress
      <3>2. task'[u] \in {"sending", "ended"}
            /\ (task'[u] = "sending" => sent'[u] < 2 * Len(Segments(u)))
        <4>1. sent[u] < 2 * Len(Segments(u)) /\ Len(Segments(u)) \in Nat /\ sent[u] \in Nat
          BY <1>1, NextCommand DEF Progress
        <4>2. u \in DOMAIN task /\ u \in DOMAIN sent
          BY DEF TypeOK
        <4>3. task'[u] \in {"sending", "ended"}
          BY <1>1, <1>4, <4>2
        <4>4. ASSUME task'[u] = "sending" PROVE sent'[u] < 2 * Len(Segments(u))
          <5>1. sent'[u] = sent[u] + 1 /\ sent[u] + 1 # 2 * Len(Segments(u))
            BY <1>4, <4>2, <4>4
          <5> QED BY <4>1, <5>1
        <4> QED BY <4>3, <4>4
      <3> QED BY <1>2, <1>3, <2>1, <2>2, <3>1, <3>2 DEF Progress
    <2>3. CASE v # u
      <3>1. task'[v] = task[v] /\ sent'[v] = sent[v]
            /\ \A m \in Minions : m_map'[m][v] = m_map[m][v]
        BY <1>2, <1>3, <1>4, <2>3 DEF TypeOK
      <3> QED BY <1>3, <2>1, <2>3, <3>1 DEF Progress
    <2> QED BY <2>2, <2>3
  <1>8. \A v \in Uids : Outstanding(v)' = Outstanding(v)
    BY <1>3 DEF Outstanding, Kernel!Outstanding, kernelVars
  <1> QED BY <1>3, <1>5, <1>6, <1>7, <1>8 DEF kernelVars, tableVars

\* A step outside the master.
LEMMA TablesWithoutMaster ==
    ASSUME TablesInv, TypeOK',
           UNCHANGED <<request, replies, allowed, tableVars, taskVars, m_map>>,
           (faults["lost"] + faults["send"] + faults["restart"] = 0)' => CallbacksAwaited'
    PROVE  TablesInv'
  <1> USE DEF tableVars, taskVars
  <1>1. \A u \in Uids : Outstanding(u)' = Outstanding(u) /\ Progress(u)' = Progress(u)
    BY DEF Outstanding, Kernel!Outstanding, Progress, Segments
  <1>2. TablesAgree'
    BY <1>1 DEF TablesInv, TablesAgree
  <1> QED BY <1>1, <1>2 DEF TablesInv

\* A write changes places of a minion's file and not its size.
LEMMA WrittenKeepsFile ==
    ASSUME TypeOK, NEW c, NEW written
    PROVE  /\ DOMAIN Written(c, written) = Minions
           /\ \A m \in Minions : DOMAIN Written(c, written)[m] = DOMAIN file[m]
  BY DEF Written, TypeOK

\* A minion puts an answer in the place of a command, or beside it.
LEMMA TablesAfterMinion ==
    ASSUME TablesInv, NEW c \in commands,
           RunMinionCommand(c) \/ MinionCommandFails(c) \/ DuplicateCommand(c)
    PROVE  TablesInv'
  <1> USE DEF TablesInv, TablesAgree
  <1>1. UNCHANGED <<request, replies, allowed, tableVars, taskVars, m_map>>
    BY DEF RunMinionCommand, MinionCommandFails, DuplicateCommand
  <1>2. PICK a : /\ a.minion = c.minion /\ a.uid = c.uid
                 /\ answers' = answers \cup {a}
                 /\ commands' = commands \/ commands' = commands \ {c}
    <2>1. ASSUME NEW result, NEW data
          PROVE  Answer(c, result, data).minion = c.minion /\ Answer(c, result, data).uid = c.uid
      BY DEF Answer
    <2>2. PICK result, data : answers' = answers \cup {Answer(c, result, data)}
      BY DEF RunMinionCommand, MinionCommandFails, DuplicateCommand, MinionReadCommand,
             MinionWriteCommand
    <2>3. commands' = commands \/ commands' = commands \ {c}
      BY DEF RunMinionCommand, MinionCommandFails, DuplicateCommand
    <2> QED BY <2>1, <2>2, <2>3
  <1>3. /\ faults' \in [FaultKinds -> Nat]
        /\ faults'["lost"] = faults["lost"] /\ faults'["send"] = faults["send"]
        /\ faults'["restart"] = faults["restart"]
    <2>1. faults \in [FaultKinds -> Nat]
      BY DEF TypeOK
    <2>2. \/ faults' = faults
          \/ \E k \in {"io", "duplicated"} : faults' = [faults EXCEPT ![k] = @ + 1]
      BY DEF RunMinionCommand, MinionCommandFails, DuplicateCommand, Happens
    <2> QED BY <2>1, <2>2 DEF FaultKinds
  <1>4. DOMAIN file' = Minions /\ \A m \in Minions : DOMAIN file'[m] = DOMAIN file[m]
    <2>1. file' = file \/ \E written : file' = Written(c, written)
      BY DEF RunMinionCommand, MinionCommandFails, DuplicateCommand, MinionReadCommand,
             MinionWriteCommand, Overwrite, minionVars
    <2> QED BY <2>1, WrittenKeepsFile DEF TypeOK
  <1>5. good' \in [Minions -> BOOLEAN]
    <2>1. good' = good \/ good' = [good EXCEPT ![c.minion] = FALSE]
      BY DEF RunMinionCommand, MinionCommandFails, DuplicateCommand, MinionReadCommand,
             MinionWriteCommand, minionVars
    <2> QED BY <2>1 DEF TypeOK
  <1>6. \A d \in Datagrams' : d.minion \in Minions /\ d.uid \in Uids
    BY <1>2 DEF TypeOK, Datagrams
  <1>7. TypeOK'
    BY <1>1, <1>3, <1>4, <1>5, <1>6 DEF TypeOK, tableVars, taskVars
  <1>8. CallbacksAwaited => CallbacksAwaited'
    BY <1>1, <1>2 DEF CallbacksAwaited, Datagrams
  <1> QED BY <1>1, <1>3, <1>7, <1>8, TablesWithoutMaster

\* The network and a restart touch none of the tables.
LEMMA TablesAfterNetwork ==
    ASSUME TablesInv, LoseDatagram \/ (\E m \in Minions : RestartMinion(m))
    PROVE  TablesInv'
  <1> USE DEF TablesInv, TablesAgree
  <1>1. faults \in [FaultKinds -> Nat]
    BY DEF TypeOK
  <1>2. CASE LoseDatagram
    <2>1. UNCHANGED <<kernelVars, tableVars, taskVars, m_map, minionVars>>
      BY <1>2 DEF LoseDatagram
    <2>2. commands' \subseteq commands /\ answers' \subseteq answers
      BY <1>2 DEF LoseDatagram
    <2>3. /\ faults' \in [FaultKinds -> Nat] /\ faults'["lost"] > 0 /\ faults'["send"] \in Nat
          /\ faults'["restart"] \in Nat
      BY <1>1, <1>2 DEF LoseDatagram, Happens, FaultKinds
    <2>4. TypeOK'
      BY <2>1, <2>2, <2>3 DEF TypeOK, Datagrams, kernelVars, tableVars, taskVars, minionVars
    <2> QED BY <2>1, <2>3, <2>4, TablesWithoutMaster DEF FaultKinds, kernelVars
  <1>3. ASSUME NEW m \in Minions, RestartMinion(m) PROVE TablesInv'
    <2>1. /\ UNCHANGED <<request, replies, allowed, tableVars, taskVars, m_map, answers>>
          /\ commands' \subseteq commands
      BY <1>3 DEF RestartMinion
    <2>2. /\ faults' \in [FaultKinds -> Nat] /\ faults'["lost"] \in Nat
          /\ faults'["send"] \in Nat /\ faults'["restart"] > 0
      BY <1>1, <1>3 DEF RestartMinion, Happens, FaultKinds
    <2>3. good' \in [Minions -> BOOLEAN] /\ DOMAIN file' = Minions
          /\ \A i \in Minions : DOMAIN file'[i] = DOMAIN file[i]
      BY <1>3 DEF RestartMinion, TypeOK
    <2>4. TypeOK'
      BY <2>1, <2>2, <2>3 DEF TypeOK, Datagrams, tableVars, taskVars
    <2> QED BY <2>1, <2>2, <2>4, TablesWithoutMaster DEF FaultKinds
  <1> QED BY <1>2, <1>3

\* The manager's reactor takes a response, for the first time or again.
LEMMA TablesAfterAnswer ==
    ASSUME TablesInv, NEW a \in answers, OnMinionFDWakeUp(a) \/ DuplicateAnswer(a)
    PROVE  TablesInv'
  <1> USE DEF TablesInv, TablesAgree
  <1>1. a.minion \in Minions /\ a.uid \in Uids
    BY DEF TypeOK, Datagrams
  <1>2. /\ HandleAnswer(a)
        /\ UNCHANGED <<request, task, sent, commands, minionVars>>
        /\ answers' = answers \/ answers' = answers \ {a}
    BY DEF OnMinionFDWakeUp, DuplicateAnswer
  <1>3. /\ faults' \in [FaultKinds -> Nat]
        /\ faults'["lost"] = faults["lost"] /\ faults'["send"] = faults["send"]
        /\ faults'["restart"] = faults["restart"]
    <2>1. faults \in [FaultKinds -> Nat]
      BY DEF TypeOK
    <2>2. faults' = faults \/ faults' = [faults EXCEPT !["duplicated"] = @ + 1]
      BY DEF OnMinionFDWakeUp, DuplicateAnswer, Happens
    <2> QED BY <2>1, <2>2 DEF FaultKinds
  <1>4. /\ m_map'[a.minion][a.uid] = NoCallback
        /\ DOMAIN m_map' = Minions /\ \A m \in Minions : DOMAIN m_map'[m] = Uids
        /\ \A m \in Minions, v \in Uids :
               ~(m = a.minion /\ v = a.uid) => m_map'[m][v] = m_map[m][v]
    <2>1. CASE m_map[a.minion][a.uid] = NoCallback
      BY <1>2, <2>1 DEF HandleAnswer, TypeOK
    <2>2. CASE m_map[a.minion][a.uid] # NoCallback
      <3>1. m_map' = [m_map EXCEPT ![a.minion][a.uid] = NoCallback]
        BY <1>1, <1>2, <2>2, AnswerEffect
      <3> QED BY <1>1, <3>1 DEF TypeOK
    <2> QED BY <2>1, <2>2
  <1>5. CallbacksAwaited => CallbacksAwaited'
    <2> SUFFICES ASSUME CallbacksAwaited, NEW m \in Minions, NEW v \in Uids,
                        m_map'[m][v] # NoCallback
                 PROVE  \E d \in Datagrams' : d.minion = m /\ d.uid = v
      BY DEF CallbacksAwaited
    <2>1. ~(m = a.minion /\ v = a.uid) /\ m_map[m][v] # NoCallback
      BY <1>4
    <2>2. PICK d \in Datagrams : d.minion = m /\ d.uid = v
      BY <2>1 DEF CallbacksAwaited
    <2> QED BY <1>2, <2>1, <2>2 DEF Datagrams
  <1>6. \A d \in Datagrams' : d.minion \in Minions /\ d.uid \in Uids
    BY <1>2 DEF TypeOK, Datagrams
  <1>7. CASE m_map[a.minion][a.uid] = NoCallback
    <2>1. UNCHANGED <<tickets, m_map, tableVars, replies, allowed, damaged>>
      BY <1>2, <1>7 DEF HandleAnswer
    <2>2. TypeOK'
      BY <1>2, <1>3, <1>6, <2>1 DEF TypeOK, minionVars, tableVars
    <2> QED BY <1>2, <1>3, <1>5, <2>1, <2>2, TablesWithoutMaster
            DEF kernelVars, tableVars, taskVars
  <1>8. CASE m_map[a.minion][a.uid] # NoCallback
    <2> DEFINE after == tickets'[a.uid]
    <2>0. /\ tickets[a.uid] # << >>
          /\ tickets' = [tickets EXCEPT ![a.uid] = AfterAnswer(a).ticket]
          /\ DOMAIN AfterAnswer(a).ticket = TicketFields
          /\ AfterAnswer(a).ticket.uid = a.uid
      BY <1>1, <1>2, <1>8, AnswerEffect
    <2>1. /\ tickets[a.uid] # << >>
          /\ DOMAIN tickets' = Uids
          /\ DOMAIN after = TicketFields /\ after.uid = a.uid
          /\ \A v \in Uids : v # a.uid => tickets'[v] = tickets[v]
      BY <1>1, <2>0
    <2>2. after # << >>
      BY <2>1 DEF TicketFields
    <2>3. \/ UNCHANGED <<tableVars, replies, allowed, damaged>>
          \/ /\ Outstanding(a.uid)
             /\ m_responses' = m_responses \ {a.uid}
             /\ m_requests' = m_requests \ {a.uid}
             /\ m_tickets' = m_tickets \ {a.uid}
             /\ DOMAIN replies' = Uids
             /\ replies'[a.uid] # << >>
             /\ \A v \in Uids : v # a.uid => replies'[v] = replies[v]
             /\ DOMAIN allowed' = Units
      <3> DEFINE r == AfterAnswer(a).notified[1]
      <3>1. \/ UNCHANGED <<tableVars, replies, allowed, damaged>>
            \/ /\ Outstanding(a.uid)
               /\ m_responses' = m_responses \ {a.uid}
               /\ m_requests' = m_requests \ {a.uid}
               /\ m_tickets' = m_tickets \ {a.uid}
               /\ replies' = [replies EXCEPT ![a.uid] = ReplyOf(a.uid, r)]
               /\ allowed' = Kernel!AllowedOnReply(a.uid, ~r.result)
        BY <1>1, <1>2, <1>8, AnswerEffect
      <3> HIDE DEF r
      <3>2. ASSUME NEW e PROVE DOMAIN Kernel!AllowedOnReply(a.uid, e) = Units
        BY DEF Kernel!AllowedOnReply
      <3> QED BY <1>1, <3>1, <3>2, ReplyIsARecord DEF NoReply
    <2> HIDE DEF after
    <2>4. TypeOK'
      BY <1>2, <1>3, <1>4, <1>6, <2>3 DEF TypeOK, minionVars, tableVars
    <2>5. \A v \in Uids : v # a.uid => Outstanding(v)' = Outstanding(v)
      BY <1>2, <2>3 DEF Outstanding, Kernel!Outstanding
    <2>6. request[a.uid] # NoRequest /\ task[a.uid] \notin {"none", "queued"}
      BY <1>1, <2>1 DEF Progress
    <2>7. /\ m_responses' = {v \in Uids : Outstanding(v)'}
          /\ m_requests' = m_responses'
          /\ m_tickets' = {v \in m_responses' : tickets'[v] # << >>}
          /\ DOMAIN replies' = Uids /\ DOMAIN allowed' = Units
      <3>1. CASE UNCHANGED <<tableVars, replies, allowed, damaged>>
        <4>1. Outstanding(a.uid)' = Outstanding(a.uid)
          BY <1>2, <3>1 DEF Outstanding, Kernel!Outstanding
        <4> QED BY <1>1, <2>1, <2>2, <2>5, <3>1, <4>1 DEF tableVars, after
      <3>2. CASE ~ UNCHANGED <<tableVars, replies, allowed, damaged>>
        <4>1. ~Outstanding(a.uid)'
          BY <1>2, <2>3, <3>2 DEF Outstanding, Kernel!Outstanding, NoReply
        <4>2. m_responses' = {v \in Uids : Outstanding(v)'}
          BY <1>1, <2>3, <2>5, <3>2, <4>1
        <4>3. m_tickets' = {v \in m_responses' : tickets'[v] # << >>}
          BY <1>1, <2>1, <2>3, <3>2
        <4> QED BY <2>3, <3>2, <4>2, <4>3
      <3> QED BY <3>1, <3>2
    <2>8. ASSUME NEW v \in Uids PROVE Progress(v)'
      <3>1. Segments(v)' = Segments(v)
        BY <1>2 DEF Segments
      <3>2. CASE v = a.uid
        <4>1. task'[v] = task[v] /\ request'[v] = request[v] /\ sent'[v] = sent[v]
          BY <1>2
        <4>2. Progress(v)
          OBVIOUS
        <4> QED BY <2>1, <2>2, <2>6, <3>1, <3>2, <4>1, <4>2 DEF Progress, after
      <3>3. CASE v # a.uid
        <4>1. replies'[v] = replies[v] /\ tickets'[v] = tickets[v]
              /\ \A m \in Minions : m_map'[m][v] = m_map[m][v]
          BY <1>1, <1>4, <2>1, <2>3, <3>3
        <4>2. Progress(v)
          OBVIOUS
        <4> QED BY <1>2, <3>1, <4>1, <4>2 DEF Progress
      <3> QED BY <3>2, <3>3
    <2> QED BY <1>3, <1>4, <1>5, <2>1, <2>4, <2>7, <2>8
  <1> QED BY <1>7, <1>8

\* Every step of the drive keeps its tables in agreement.
LEMMA NextPreservesTablesInv == TablesInv /\ [Next]_vars => TablesInv'
  <1> SUFFICES ASSUME TablesInv, [Next]_vars PROVE TablesInv'
    OBVIOUS
  <1>1. ASSUME NEW u \in Uids, NEW r \in Workload, GetTaskArgs(u, r) PROVE TablesInv'
    BY <1>1, TablesAfterGetTaskArgs
  <1>2. ASSUME NEW u \in Uids, Worker(u) PROVE TablesInv'
    BY <1>2, TablesAfterAddTask, TablesAfterSendMirror DEF Worker
  <1>3. ASSUME NEW m \in Minions, Minion(m) PROVE TablesInv'
    BY <1>3, TablesAfterMinion DEF Minion
  <1>4. CASE ManagerReactor
    BY <1>4, TablesAfterAnswer DEF ManagerReactor
  <1>5. CASE LoseDatagram
    BY <1>5, TablesAfterNetwork
  <1>6. ASSUME NEW a \in answers, DuplicateAnswer(a) PROVE TablesInv'
    BY <1>6, TablesAfterAnswer
  <1>7. ASSUME NEW c \in commands, DuplicateCommand(c) PROVE TablesInv'
    BY <1>7, TablesAfterMinion
  <1>8. ASSUME NEW m \in Minions, RestartMinion(m) PROVE TablesInv'
    BY <1>8, TablesAfterNetwork
  <1>9. CASE UNCHANGED vars
    <2>1. UNCHANGED <<request, replies, allowed, tableVars, taskVars, m_map>> /\ TypeOK' = TypeOK
          /\ CallbacksAwaited' = CallbacksAwaited /\ faults' = faults
      BY <1>9 DEF vars, TypeOK, CallbacksAwaited, Datagrams, kernelVars, tableVars, taskVars,
                  minionVars
    <2> QED BY <2>1, TablesWithoutMaster DEF TablesInv, TablesAgree
  <1> QED BY <1>1, <1>2, <1>3, <1>4, <1>5, <1>6, <1>7, <1>8, <1>9 DEF Next

\* The tables of NBDProxy, ResponseManager and the pool, and the kernel's own view, agree
\* in every reachable state, for every geometry and any number of faults.
THEOREM TablesInvariant == Spec => []TablesInv
  BY InitEstablishesTablesInv, NextPreservesTablesInv, PTL DEF Spec

\* Whatever is requested and whatever fails, the three tables of the master hold
\* exactly the requests the kernel still waits for, and a callback of a MinionProxy
\* is left waiting for nothing only if a datagram was lost, on the network or with a
\* restarted minion, or a SendTo failed.
THEOREM TablesAlwaysAgree == Spec => []TablesAgree
  <1>1. TablesInv => TablesAgree
    BY DEF TablesInv
  <1> QED BY <1>1, TablesInvariant, PTL

-------------------------------------------------------------------------------
(* Where datagrams and callbacks come from. *)

\* The datagram, or the callback's tag, of call n of request u.
MadeBy(minion, tag, u, n) == minion = Command(u, n).minion /\ tag = Command(u, n).tag

\* Commands and answers go back to calls that have been made, callbacks to calls of
\* the request.
RoutesInv ==
    /\ \A u \in Uids : request[u] # NoRequest => sent[u] <= 2 * Len(Segments(u))
    /\ \A c \in commands : \E n \in 0..(sent[c.uid] - 1) : c = Command(c.uid, n)
    /\ \A a \in answers : \E n \in 0..(sent[a.uid] - 1) : MadeBy(a.minion, a.tag, a.uid, n)
    /\ \A m \in Minions, u \in Uids :
           m_map[m][u] # NoCallback => \E n \in Calls(u) : MadeBy(m, m_map[m][u], u, n)

\* A request that has been issued does not change, and neither do its calls.
LEMMA CallsFixed ==
    ASSUME NEW u, request'[u] = request[u]
    PROVE  /\ Segments(u)' = Segments(u)
           /\ Calls(u)' = Calls(u)
           /\ \A n : Command(u, n)' = Command(u, n)
           /\ \A m, t, n : MadeBy(m, t, u, n)' = MadeBy(m, t, u, n)
  <1>1. Segments(u)' = Segments(u)
    BY DEF Segments
  <1>2. ASSUME NEW n PROVE Command(u, n)' = Command(u, n)
    <2>1. ASSUME NEW seg PROVE WriteSlice(u, seg)' = WriteSlice(u, seg)
      BY DEF WriteSlice, Kernel!Stamp
    <2> QED BY <1>1, <2>1 DEF Command
  <1> QED BY <1>1, <1>2 DEF MadeBy, Calls

\* Nothing is under way at first.
LEMMA InitEstablishesRoutesInv == Init => RoutesInv
  BY DEF Init, Kernel!Init, RoutesInv

\* What a step may do to the routes.
LEMMA RoutesKept ==
    ASSUME TablesInv, RoutesInv,
           \A u \in Uids : request[u] # NoRequest => request'[u] = request[u],
           \A u \in Uids : request'[u] # NoRequest =>
               sent'[u] \in Nat /\ sent[u] <= sent'[u] /\ sent'[u] <= 2 * Len(Segments(u)'),
           \A c \in commands' : c \in commands \/
               (c.uid \in Uids /\ \E n \in 0..(sent'[c.uid] - 1) : c = Command(c.uid, n)'),
           \A a \in answers' : a \in answers \/
               \E c \in commands : a.uid = c.uid /\ a.minion = c.minion /\ a.tag = c.tag,
           \A m \in Minions, u \in Uids : m_map'[m][u] \in {m_map[m][u], NoCallback} \/
               \E n \in Calls(u) : request[u] # NoRequest /\ MadeBy(m, m_map'[m][u], u, n)
    PROVE  RoutesInv'
  <1>1. ASSUME NEW u \in Uids, sent[u] > 0 \/ \E m \in Minions : m_map[m][u] # NoCallback
        PROVE  request[u] # NoRequest
    BY <1>1 DEF TablesInv, Progress
  <1>2. /\ \A d \in Datagrams : d.uid \in Uids
        /\ sent \in [Uids -> Nat]
    BY DEF TablesInv, TablesAgree, TypeOK
  <1>3. ASSUME NEW c \in commands PROVE \E n \in 0..(sent'[c.uid] - 1) : c = Command(c.uid, n)'
    <2>1. PICK n \in 0..(sent[c.uid] - 1) : c = Command(c.uid, n)
      BY DEF RoutesInv
    <2>2. c.uid \in Uids /\ sent[c.uid] \in Nat /\ sent[c.uid] > 0
      BY <1>2, <2>1 DEF Datagrams
    <2>3. request[c.uid] # NoRequest /\ request'[c.uid] = request[c.uid]
      BY <1>1, <2>2
    <2>4. c = Command(c.uid, n)'
      BY <2>1, <2>3, CallsFixed
    <2> QED BY <2>2, <2>3, <2>4
  <1>4. ASSUME NEW a, NEW n \in 0..(sent[a.uid] - 1), a.uid \in Uids,
               MadeBy(a.minion, a.tag, a.uid, n)
        PROVE  \E k \in 0..(sent'[a.uid] - 1) : MadeBy(a.minion, a.tag, a.uid, k)'
    <2>2. sent[a.uid] \in Nat /\ sent[a.uid] > 0
      BY <1>2, <1>4
    <2>3. request[a.uid] # NoRequest /\ request'[a.uid] = request[a.uid]
      BY <1>1, <1>4, <2>2
    <2>4. MadeBy(a.minion, a.tag, a.uid, n)'
      BY <1>4, <2>3, CallsFixed DEF MadeBy
    <2> QED BY <1>4, <2>2, <2>3, <2>4
  <1>5. ASSUME NEW a \in answers'
        PROVE  \E k \in 0..(sent'[a.uid] - 1) : MadeBy(a.minion, a.tag, a.uid, k)'
    <2>1. a.uid \in Uids /\ \E n \in 0..(sent[a.uid] - 1) : MadeBy(a.minion, a.tag, a.uid, n)
      <3>1. CASE a \in answers
        BY <1>2, <3>1 DEF RoutesInv, Datagrams
      <3>2. CASE a \notin answers
        <4>1. PICK c \in commands : a.uid = c.uid /\ a.minion = c.minion /\ a.tag = c.tag
          BY <3>2
        <4> QED BY <1>2, <4>1 DEF RoutesInv, Datagrams, MadeBy
      <3> QED BY <3>1, <3>2
    <2> QED BY <1>4, <2>1
  <1>6. ASSUME NEW m \in Minions, NEW u \in Uids, m_map'[m][u] # NoCallback
        PROVE  \E n \in Calls(u)' : MadeBy(m, m_map[m][u], u, n)'
    <2>1. request[u] # NoRequest /\ \E n \in Calls(u) : MadeBy(m, m_map'[m][u], u, n)
      BY <1>1, <1>6 DEF RoutesInv
    <2>2. request'[u] = request[u]
      BY <2>1
    <2> QED BY <2>1, <2>2, CallsFixed DEF MadeBy
  <1> QED BY <1>3, <1>5, <1>6 DEF RoutesInv

\* Every step keeps commands and answers tied to the segment they are for.
LEMMA NextPreservesRoutesInv == TablesInv /\ RoutesInv /\ [Next]_vars => RoutesInv'
  <1> SUFFICES ASSUME TablesInv, RoutesInv, [Next]_vars PROVE RoutesInv'
    OBVIOUS
  <1>1. /\ sent \in [Uids -> Nat] /\ request \in [Uids -> Workload \cup {NoRequest}]
        /\ \A d \in Datagrams : d.minion \in Minions /\ d.uid \in Uids
        /\ DOMAIN m_map = Minions /\ \A m \in Minions : DOMAIN m_map[m] = Uids
        /\ \A u \in Uids : Progress(u)
    BY DEF TablesInv, TablesAgree, TypeOK
  <1>2. \A u \in Uids : request[u] # NoRequest => sent[u] <= 2 * Len(Segments(u))
    BY DEF RoutesInv
  <1>3. ASSUME request' = request, sent' = sent
        PROVE  \A u \in Uids : request'[u] # NoRequest =>
                   sent'[u] \in Nat /\ sent[u] <= sent'[u] /\ sent'[u] <= 2 * Len(Segments(u)')
    BY <1>1, <1>2, <1>3, CallsFixed
  <1>4. ASSUME NEW u \in Uids, NEW r \in Workload, GetTaskArgs(u, r) PROVE RoutesInv'
    <2>1. /\ request[u] = NoRequest /\ request' = [request EXCEPT ![u] = r]
          /\ UNCHANGED <<sent, m_map, commands, answers>>
      BY <1>4 DEF GetTaskArgs, Kernel!Issue, Kernel!MayIssue
    <2>2. \A v \in Uids : request[v] # NoRequest => request'[v] = request[v]
      BY <1>1, <2>1
    <2>3. sent[u] = 0 /\ Len(Segments(u)') \in Nat
      <3>1. request'[u] = r
        BY <1>1, <2>1
      <3>2. Len(Split(r.offset, r.length)) \in Nat
        BY RequestFits, SegmentsHaveMinions
      <3> QED BY <1>1, <2>1, <3>1, <3>2 DEF Progress, Segments
    <2>4. ASSUME NEW v \in Uids, request'[v] # NoRequest
          PROVE  sent'[v] \in Nat /\ sent[v] <= sent'[v] /\ sent'[v] <= 2 * Len(Segments(v)')
      <3>1. CASE v = u
        BY <2>1, <2>3, <3>1
      <3>2. CASE v # u
        <4>1. request'[v] = request[v]
          BY <1>1, <2>1, <3>2
        <4> QED BY <1>1, <1>2, <2>1, <2>4, <4>1, CallsFixed
      <3> QED BY <3>1, <3>2
    <2> QED BY <2>1, <2>2, <2>4, RoutesKept
  <1>5. ASSUME NEW u \in Uids, AddTask(u) PROVE RoutesInv'
    <2>1. UNCHANGED <<request, sent, m_map, commands, answers>>
      BY <1>5 DEF AddTask, kernelVars
    <2> QED BY <1>3, <2>1, RoutesKept
  <1>6. ASSUME NEW u \in Uids, SendMirror(u) \/ SendMirrorFails(u) PROVE RoutesInv'
    <2>0. PICK n : n = sent[u]
      OBVIOUS
    <2>1. task[u] = "sending" /\ UNCHANGED <<request, answers>>
          /\ m_map' = [m_map EXCEPT ![Command(u, n).minion][u] = Command(u, n).tag]
      BY <1>6, <2>0 DEF SendMirror, SendMirrorFails, RegisterCallback, kernelVars
    <2>2. /\ request[u] # NoRequest
          /\ n \in Nat /\ n < 2 * Len(Segments(u)) /\ Len(Segments(u)) \in Nat
          /\ Command(u, n).minion \in Minions /\ Command(u, n).uid = u
      BY <1>1, <2>0, <2>1, NextCommand DEF Progress
    <2>3. \/ commands' = commands \cup {Command(u, n)} /\ sent' = [sent EXCEPT ![u] = n + 1]
          \/ commands' = commands /\ sent' = sent
      BY <1>6, <2>0 DEF SendMirror, SendMirrorFails
    <2>4. ASSUME NEW v \in Uids, request'[v] # NoRequest
          PROVE  sent'[v] \in Nat /\ sent[v] <= sent'[v] /\ sent'[v] <= 2 * Len(Segments(v)')
      <3>1. Segments(v)' = Segments(v) /\ sent[v] \in Nat /\ sent[v] <= 2 * Len(Segments(v))
        BY <1>1, <1>2, <2>1, <2>4, CallsFixed
      <3> QED BY <1>1, <2>0, <2>2, <2>3, <3>1
    <2>5. ASSUME NEW c \in commands', c \notin commands
          PROVE  c.uid \in Uids /\ \E k \in 0..(sent'[c.uid] - 1) : c = Command(c.uid, k)'
      <3>1. c = Command(u, n) /\ sent'[u] = n + 1 /\ c.uid = u
        BY <1>1, <2>2, <2>3, <2>5
      <3>2. Command(u, n)' = Command(u, n)
        BY <2>1, CallsFixed
      <3>3. n \in 0..(sent'[u] - 1)
        BY <2>2, <3>1
      <3> QED BY <3>1, <3>2, <3>3
    <2>6. ASSUME NEW m \in Minions, NEW v \in Uids
          PROVE  m_map'[m][v] \in {m_map[m][v], NoCallback} \/
                 \E k \in Calls(v) : request[v] # NoRequest /\ MadeBy(m, m_map'[m][v], v, k)
      <3>1. CASE m = Command(u, n).minion /\ v = u
        <4>1. m_map'[m][v] = Command(u, n).tag
          BY <1>1, <2>1, <3>1
        <4>2. n \in Calls(u)
          BY <2>2 DEF Calls
        <4> QED BY <2>2, <3>1, <4>1, <4>2 DEF MadeBy
      <3>2. CASE ~(m = Command(u, n).minion /\ v = u)
        BY <1>1, <2>1, <2>2, <3>2
      <3> QED BY <3>1, <3>2
    <2> QED BY <2>1, <2>4, <2>5, <2>6, RoutesKept
  <1>7. ASSUME NEW c \in commands,
               RunMinionCommand(c) \/ MinionCommandFails(c) \/ DuplicateCommand(c)
        PROVE  RoutesInv'
    <2>1. UNCHANGED <<request, sent, m_map>> /\ commands' \subseteq commands
      BY <1>7 DEF RunMinionCommand, MinionCommandFails, DuplicateCommand, kernelVars, taskVars
    <2>2. PICK result, data : answers' = answers \cup {Answer(c, result, data)}
      BY <1>7 DEF RunMinionCommand, MinionCommandFails, DuplicateCommand, MinionReadCommand,
             MinionWriteCommand
    <2>3. \A a \in answers' : a \in answers \/
               \E d \in commands : a.uid = d.uid /\ a.minion = d.minion /\ a.tag = d.tag
      BY <2>2 DEF Answer
    <2> QED BY <1>3, <2>1, <2>3, RoutesKept
  <1>8. ASSUME NEW a \in answers, OnMinionFDWakeUp(a) \/ DuplicateAnswer(a) PROVE RoutesInv'
    <2>1. UNCHANGED <<request, sent, commands>> /\ answers' \subseteq answers /\ HandleAnswer(a)
      BY <1>8 DEF OnMinionFDWakeUp, DuplicateAnswer
    <2>2. m_map' = m_map \/ m_map' = [m_map EXCEPT ![a.minion][a.uid] = NoCallback]
      BY <2>1 DEF HandleAnswer
    <2>3. \A m \in Minions, u \in Uids : m_map'[m][u] \in {m_map[m][u], NoCallback}
      BY <1>1, <2>2 DEF Datagrams
    <2> QED BY <1>3, <2>1, <2>3, RoutesKept
  <1>9. CASE LoseDatagram \/ (\E m \in Minions : RestartMinion(m)) \/ UNCHANGED vars
    <2>1. /\ UNCHANGED <<request, sent, m_map>>
          /\ commands' \subseteq commands /\ answers' \subseteq answers
      BY <1>9 DEF LoseDatagram, RestartMinion, kernelVars, taskVars, vars
    <2> QED BY <1>3, <2>1, RoutesKept
  <1> QED BY <1>4, <1>5, <1>6, <1>7, <1>8, <1>9
          DEF Next, Worker, Minion, ManagerReactor

\* Every command and every answer under way goes back to a call its request has made, and
\* every callback to a call of its request, for every geometry and any number of faults.
THEOREM RoutesInvariant == Spec => [](TablesInv /\ RoutesInv)
  BY InitEstablishesTablesInv, InitEstablishesRoutesInv, NextPreservesTablesInv,
     NextPreservesRoutesInv, PTL DEF Spec

-------------------------------------------------------------------------------
(* The layout of a request. *)

\* A later unit lies in the same chunk or in a later one.
LEMMA DivMonotone ==
    ASSUME NEW a \in Nat, NEW b \in Nat, NEW c \in Nat \ {0}, a <= b
    PROVE  a \div c <= b \div c
  <1> DEFINE p == a \div c
             q == b \div c
  <1>1. /\ p \in Nat /\ a % c \in Nat /\ a = p * c + (a % c)
        /\ q \in Nat /\ b % c \in Nat /\ b % c < c /\ b = q * c + (b % c)
    BY DivMod
  <1> HIDE DEF p, q
  <1>2. SUFFICES ASSUME q + 1 <= p PROVE FALSE
    BY <1>1 DEF p, q
  <1>3. (q + 1) * c <= p * c
    BY <1>1, <1>2, TimesMonotone
  <1>4. (q + 1) * c = q * c + c /\ q * c \in Nat /\ p * c \in Nat
    BY <1>1
  <1> QED BY <1>1, <1>3, <1>4

\* The first unit of a chunk.
LEMMA StartOfChunk ==
    ASSUME NEW q \in Nat, NEW c \in Nat \ {0}
    PROVE  (q * c) \div c = q /\ (q * c) % c = 0
  <1>1. ASSUME NEW r \in Nat, r < c
        PROVE  (q * c + r) \div c = q /\ (q * c + r) % c = r
    BY <1>1, DivModUnique
  <1>2. 0 \in Nat /\ 0 < c /\ q * c + 0 = q * c
    OBVIOUS
  <1>3. (q * c + 0) \div c = q /\ (q * c + 0) % c = 0
    BY <1>1, <1>2, Zenon
  <1> QED BY <1>2, <1>3

\* Where segment i of a request begins, and what it consists of.
LEMMA SegmentAt ==
    ASSUME NEW o \in Nat, NEW l \in Nat \ {0}, o + l <= DriveSize,
           NEW i \in 1..NumSegments(o, l)
    PROVE  LET s == SegmentStart(o, i)
               p == (o \div ChunkSize) + i - 1
           IN /\ s \in Nat /\ o <= s /\ s < o + l
              /\ p \in Nat /\ s \div ChunkSize = p
              /\ s % ChunkSize \in Nat /\ s % ChunkSize < ChunkSize
              /\ s = p * ChunkSize + (s % ChunkSize) /\ p * ChunkSize \in Nat
              /\ s = o \/ s % ChunkSize = 0
              /\ Split(o, l)[i] =
                     [localOffset        |-> s % ChunkSize,
                      length             |-> IF o + l - s <= ChunkSize - (s % ChunkSize)
                                             THEN o + l - s ELSE ChunkSize - (s % ChunkSize),
                      bufferOffset       |-> s - o,
                      primaryMinionIndex |-> p,
                      backupMinionIndex  |-> GetBackupIndex(p)]
  <1> DEFINE first == o \div ChunkSize
             last == (o + l - 1) \div ChunkSize
             s == SegmentStart(o, i)
             p == first + i - 1
  <1>1. /\ first \in Nat /\ o % ChunkSize \in Nat /\ o % ChunkSize < ChunkSize
        /\ o = first * ChunkSize + (o % ChunkSize)
        /\ last \in Nat /\ (o + l - 1) % ChunkSize \in Nat
        /\ o + l - 1 = last * ChunkSize + ((o + l - 1) % ChunkSize)
        /\ ChunkSize \in Nat \ {0}
    BY DivMod, StripingAssumption
  <1>2. NumSegments(o, l) = last - first + 1
    BY DEF NumSegments, GetPrimaryIndex
  <1>3. first <= last
    BY DivMonotone, StripingAssumption
  <1> HIDE DEF first, last
  <1>4. i \in Nat /\ 1 <= i /\ p \in Nat /\ first <= p /\ p <= last
    BY <1>1, <1>2, <1>3
  <1>5. /\ first * ChunkSize \in Nat /\ p * ChunkSize \in Nat /\ last * ChunkSize \in Nat
        /\ p * ChunkSize <= last * ChunkSize
    BY <1>1, <1>4, TimesMonotone
  <1>6. /\ s \in Nat /\ o <= s /\ s < o + l /\ s \div ChunkSize = p
        /\ s = o \/ s % ChunkSize = 0
    <2>1. CASE i = 1
      <3>1. s = o /\ p = first
        BY <1>1, <2>1 DEF SegmentStart
      <3>2. o < o + l
        OBVIOUS
      <3> QED BY <3>1, <3>2 DEF first
    <2>2. CASE i # 1
      <3>1. s = p * ChunkSize
        BY <2>2 DEF SegmentStart, GetPrimaryIndex, first
      <3>3. s \div ChunkSize = p /\ s % ChunkSize = 0
        <4> HIDE DEF s, p
        <4> QED BY <1>1, <1>4, <3>1, StartOfChunk
      <3>4. first + 1 <= p
        BY <1>1, <1>4, <2>2
      <3>5. (first + 1) * ChunkSize <= p * ChunkSize
        BY <1>1, <1>4, <3>4, TimesMonotone
      <3>6. (first + 1) * ChunkSize = first * ChunkSize + ChunkSize
        BY <1>1
      <3> HIDE DEF s, p
      <3>7. o <= s
        BY <1>1, <1>5, <3>1, <3>5, <3>6
      <3>8. s < o + l
        <4>1. s <= last * ChunkSize /\ last * ChunkSize <= o + l - 1
          BY <1>1, <1>5, <3>1
        <4>2. s \in Nat
          BY <1>5, <3>1
        <4> QED BY <1>5, <4>1, <4>2
      <3> QED BY <1>5, <3>1, <3>3, <3>7, <3>8
    <2> QED BY <2>1, <2>2
  <1>7. /\ s % ChunkSize \in Nat /\ s % ChunkSize < ChunkSize
        /\ s = p * ChunkSize + (s % ChunkSize)
    <2> HIDE DEF s, p
    <2> QED BY <1>1, <1>6, DivMod
  <1>8. Split(o, l)[i] = Segment(s, o + l - s, s - o)
    BY DEF Split
  <1>9. Segment(s, o + l - s, s - o) =
            [localOffset        |-> s % ChunkSize,
             length             |-> IF o + l - s <= ChunkSize - (s % ChunkSize)
                                    THEN o + l - s ELSE ChunkSize - (s % ChunkSize),
             bufferOffset       |-> s - o,
             primaryMinionIndex |-> p,
             backupMinionIndex  |-> GetBackupIndex(p)]
    <2> HIDE DEF s, p
    <2> QED BY <1>6 DEF Segment, GetPrimaryIndex
  <1> HIDE DEF s, p
  <1> QED BY <1>4, <1>5, <1>6, <1>7, <1>8, <1>9 DEF s, p, first

\* A segment carries units of the request, which its primary and backup keep at
\* consecutive places.
LEMMA SegmentUnits ==
    ASSUME NEW o \in Nat, NEW l \in Nat \ {0}, o + l <= DriveSize,
           NEW i \in 1..NumSegments(o, l)
    PROVE  LET seg == Split(o, l)[i]
           IN /\ seg.localOffset \in Nat /\ seg.length \in Nat \ {0} /\ seg.bufferOffset \in Nat
              /\ seg.localOffset + seg.length <= ChunkSize
              /\ seg.bufferOffset + seg.length <= l
              /\ seg.backupMinionIndex = GetBackupIndex(seg.primaryMinionIndex)
              /\ \A k \in 0..(seg.length - 1) :
                     /\ o + seg.bufferOffset + k \in Nat
                     /\ GetPrimaryIndex(o + seg.bufferOffset + k) = seg.primaryMinionIndex
                     /\ PlaceOf(o + seg.bufferOffset + k) = seg.localOffset + k
  <1> DEFINE s == SegmentStart(o, i)
             p == (o \div ChunkSize) + i - 1
             r == s % ChunkSize
             seg == Split(o, l)[i]
  <1>1. /\ s \in Nat /\ o <= s /\ s < o + l
        /\ p \in Nat /\ r \in Nat /\ r < ChunkSize
        /\ s = p * ChunkSize + r /\ p * ChunkSize \in Nat
        /\ seg = [localOffset        |-> r,
                  length             |-> IF o + l - s <= ChunkSize - r
                                         THEN o + l - s ELSE ChunkSize - r,
                  bufferOffset       |-> s - o,
                  primaryMinionIndex |-> p,
                  backupMinionIndex  |-> GetBackupIndex(p)]
    BY SegmentAt
  <1>2. ChunkSize \in Nat \ {0}
    BY StripingAssumption
  <1> HIDE DEF s, p, r, seg
  <1>3. /\ seg.localOffset = r /\ seg.bufferOffset = s - o
        /\ seg.length = IF o + l - s <= ChunkSize - r THEN o + l - s ELSE ChunkSize - r
        /\ seg.primaryMinionIndex = p /\ seg.backupMinionIndex = GetBackupIndex(p)
    BY <1>1
  <1>4. /\ seg.length \in Nat \ {0} /\ r + seg.length <= ChunkSize
        /\ (s - o) + seg.length <= l /\ s - o \in Nat
    BY <1>1, <1>2, <1>3
  <1>5. ASSUME NEW k \in 0..(seg.length - 1)
        PROVE  /\ o + seg.bufferOffset + k \in Nat
               /\ GetPrimaryIndex(o + seg.bufferOffset + k) = p
               /\ PlaceOf(o + seg.bufferOffset + k) = r + k
    <2>1. k \in Nat /\ r + k \in Nat /\ r + k < ChunkSize
      BY <1>1, <1>2, <1>4
    <2>2. o + (s - o) + k = p * ChunkSize + (r + k)
      BY <1>1, <2>1
    <2>3. /\ (p * ChunkSize + (r + k)) \div ChunkSize = p
          /\ (p * ChunkSize + (r + k)) % ChunkSize = r + k
      BY <1>1, <1>2, <2>1, DivModUnique
    <2> QED BY <1>1, <1>3, <2>1, <2>2, <2>3 DEF GetPrimaryIndex, PlaceOf
  <1> QED BY <1>1, <1>3, <1>4, <1>5 DEF seg

\* Every unit of a request is in one of its segments.
LEMMA SegmentsCover ==
    ASSUME NEW o \in Nat, NEW l \in Nat \ {0}, o + l <= DriveSize, NEW k \in 0..(l - 1)
    PROVE  \E i \in 1..NumSegments(o, l) :
               /\ Split(o, l)[i].bufferOffset <= k
               /\ k < Split(o, l)[i].bufferOffset + Split(o, l)[i].length
  <1> DEFINE first == o \div ChunkSize
             last == (o + l - 1) \div ChunkSize
             a == o + k
             q == a \div ChunkSize
             i == q - first + 1
             s == SegmentStart(o, i)
             r == s % ChunkSize
             seg == Split(o, l)[i]
  <1>1. ChunkSize \in Nat \ {0} /\ a \in Nat /\ o + l - 1 \in Nat
        /\ o <= a /\ a <= o + l - 1 /\ k \in Nat
    BY StripingAssumption
  <1>2. first \in Nat /\ last \in Nat /\ q \in Nat /\ first <= q /\ q <= last
    BY <1>1, DivMod, DivMonotone
  <1>3. a % ChunkSize \in Nat /\ a % ChunkSize < ChunkSize
        /\ a = q * ChunkSize + (a % ChunkSize) /\ q * ChunkSize \in Nat
    BY <1>1, <1>2, DivMod
  <1>4. NumSegments(o, l) = last - first + 1
    BY DEF NumSegments, GetPrimaryIndex
  <1> HIDE DEF first, last, q, a
  <1>5. i \in 1..NumSegments(o, l) /\ first + i - 1 = q
    BY <1>2, <1>4
  <1> HIDE DEF i
  <1>6. /\ s \in Nat /\ o <= s
        /\ r \in Nat /\ r < ChunkSize /\ s = q * ChunkSize + r
        /\ s = o \/ r = 0
        /\ seg.bufferOffset = s - o
        /\ seg.length = IF o + l - s <= ChunkSize - r THEN o + l - s ELSE ChunkSize - r
    <2>1. /\ s \in Nat /\ o <= s
          /\ r \in Nat /\ r < ChunkSize /\ s = (first + i - 1) * ChunkSize + r
          /\ s = o \/ r = 0
          /\ seg = [localOffset        |-> r,
                    length             |-> IF o + l - s <= ChunkSize - r
                                           THEN o + l - s ELSE ChunkSize - r,
                    bufferOffset       |-> s - o,
                    primaryMinionIndex |-> first + i - 1,
                    backupMinionIndex  |-> GetBackupIndex(first + i - 1)]
      BY <1>5, SegmentAt DEF first
    <2> HIDE DEF s, r, seg
    <2> QED BY <1>5, <2>1
  <1> HIDE DEF s, r, seg
  <1>7. s <= a
    BY <1>1, <1>3, <1>6
  <1>8. a < s + seg.length
    BY <1>1, <1>3, <1>6
  <1>9. seg.bufferOffset <= k /\ k < seg.bufferOffset + seg.length
    <2>1. seg.length \in Nat
      BY <1>1, <1>3, <1>6, <1>7
    <2> QED BY <1>1, <1>6, <1>7, <1>8, <2>1 DEF a
  <1> QED BY <1>5, <1>9 DEF seg

-------------------------------------------------------------------------------
(* The calls of a request. *)

Call(role) == IF role = "primary" THEN 0 ELSE 1

\* The number of the call that a tag names.
CallNo(tag) == 2 * (tag.segment - 1) + Call(tag.role)

\* A call and its tag name each other.
LEMMA TagNamesCall ==
    ASSUME NEW n \in Nat
    PROVE  /\ TagOf(n).segment = SegmentOf(n) /\ SegmentOf(n) \in Nat \ {0}
           /\ TagOf(n).role = RoleOf(n) /\ RoleOf(n) \in Roles
           /\ CallNo(TagOf(n)) = n
  <1>1. TagOf(n).segment = SegmentOf(n) /\ TagOf(n).role = RoleOf(n)
    BY DEF TagOf
  <1>2. SegmentOf(n) \in Nat \ {0} /\ RoleOf(n) \in Roles
    BY DEF SegmentOf, RoleOf, Roles
  <1>3. 2 * (SegmentOf(n) - 1) + Call(RoleOf(n)) = n
    <2>1. CASE n % 2 = 0
      BY <2>1 DEF SegmentOf, RoleOf, Call
    <2>2. CASE n % 2 # 0
      BY <2>2 DEF SegmentOf, RoleOf, Call
    <2> QED BY <2>1, <2>2
  <1> QED BY <1>1, <1>2, <1>3 DEF CallNo

\* The mirrors of the segments of a request are its calls.
LEMMA MirrorIsCall ==
    ASSUME NEW u, NEW i \in 1..Len(Segments(u)), NEW role \in Roles, Len(Segments(u)) \in Nat
    PROVE  LET n == 2 * (i - 1) + Call(role)
           IN n \in Calls(u) /\ SegmentOf(n) = i /\ RoleOf(n) = role
              /\ TagOf(n) = [segment |-> i, role |-> role]
  <1> DEFINE n == 2 * (i - 1) + Call(role)
  <1>1. role \in {"primary", "backup"}
    BY DEF Roles
  <1>2. n \in Calls(u) /\ SegmentOf(n) = i /\ RoleOf(n) = role
    <2>1. CASE role = "primary"
      BY <2>1 DEF Call, Calls, SegmentOf, RoleOf
    <2>2. CASE role = "backup"
      BY <2>2 DEF Call, Calls, SegmentOf, RoleOf
    <2> QED BY <1>1, <2>1, <2>2
  <1> HIDE DEF n
  <1> QED BY <1>2 DEF TagOf, n

\* What the command of a call consists of.
LEMMA CommandFields ==
    ASSUME NEW u \in Uids, request[u] \in Workload, NEW n \in Calls(u)
    PROVE  LET c == Command(u, n)
               seg == Segments(u)[SegmentOf(n)]
           IN /\ n \in Nat /\ SegmentOf(n) \in 1..Len(Segments(u)) /\ RoleOf(n) \in Roles
              /\ Len(Segments(u)) \in Nat \ {0} /\ DOMAIN Segments(u) = 1..Len(Segments(u))
              /\ c.uid = u /\ c.op = request[u].op /\ c.tag = TagOf(n)
              /\ c.minion \in Minions /\ c.minion = MinionOf(seg, RoleOf(n))
              /\ c.offset = seg.localOffset /\ c.length = seg.length
              /\ c.offset \in Nat /\ c.length \in Nat \ {0}
              /\ c.offset + c.length <= ChunkSize
              /\ c.op = "write" => c.data = WriteSlice(u, seg)
  <1> DEFINE o == request[u].offset
             l == request[u].length
             c == Command(u, n)
             seg == Segments(u)[SegmentOf(n)]
  <1>1. o \in Nat /\ l \in Nat \ {0} /\ o + l <= DriveSize
    BY RequestFits
  <1>2. /\ Len(Segments(u)) = NumSegments(o, l) /\ NumSegments(o, l) \in Nat \ {0}
        /\ DOMAIN Segments(u) = 1..NumSegments(o, l)
        /\ \A i \in 1..NumSegments(o, l) :
               /\ Segments(u)[i].primaryMinionIndex \in Minions
               /\ Segments(u)[i].backupMinionIndex \in Minions
    BY <1>1, SegmentsHaveMinions DEF Segments
  <1>3. n \in Nat /\ SegmentOf(n) \in 1..NumSegments(o, l)
    BY <1>2 DEF Calls, SegmentOf
  <1>4. RoleOf(n) \in Roles
    BY <1>3, TagNamesCall
  <1>5. /\ seg.localOffset \in Nat /\ seg.length \in Nat \ {0}
        /\ seg.localOffset + seg.length <= ChunkSize
    BY <1>1, <1>3, SegmentUnits DEF Segments
  <1>6. MinionOf(seg, RoleOf(n)) \in Minions
    BY <1>2, <1>3 DEF MinionOf
  <1> HIDE DEF seg
  <1>7. /\ c.uid = u /\ c.op = request[u].op /\ c.tag = TagOf(n)
        /\ c.minion = MinionOf(seg, RoleOf(n))
        /\ c.offset = seg.localOffset /\ c.length = seg.length
        /\ c.data = IF request[u].op = "write" THEN WriteSlice(u, seg) ELSE << >>
    BY DEF Command, seg
  <1> HIDE DEF c
  <1>8. /\ c.minion \in Minions /\ c.offset \in Nat /\ c.length \in Nat \ {0}
        /\ c.offset + c.length <= ChunkSize
        /\ c.op = "write" => c.data = WriteSlice(u, seg)
    BY <1>5, <1>6, <1>7
  <1> QED BY <1>2, <1>3, <1>4, <1>7, <1>8 DEF c, seg

\* The units of a request are units of the drive, and used ones.
LEMMA UnitsOfRequest ==
    ASSUME NEW r \in Workload, NEW a \in Kernel!Range(r)
    PROVE  a \in Units /\ a \in UsedUnits /\ a \in Nat
  <1>1. a \in Units
    BY RequestFits, StripingAssumption DEF Kernel!Range, Units, DriveSize
  <1>2. DriveSize \in Nat
    BY StripingAssumption DEF DriveSize
  <1> QED BY <1>1, <1>2 DEF UsedUnits, Units

\* A command is about places where its minion keeps units of the request, and a write
\* carries their values there.
LEMMA CommandUnits ==
    ASSUME NEW u \in Uids, request[u] \in Workload, NEW n \in Calls(u),
           NEW k \in 0..(Command(u, n).length - 1)
    PROVE  LET c == Command(u, n)
               a == request[u].offset + Segments(u)[SegmentOf(n)].bufferOffset + k
           IN /\ a \in Kernel!Range(request[u]) /\ a \in Units
              /\ c.minion \in Keepers(a)
              /\ PlaceOf(a) = c.offset + k
              /\ c.op = "write" => c.data[k] = Kernel!Stamp(u, a)
  <1> DEFINE o == request[u].offset
             l == request[u].length
             c == Command(u, n)
             i == SegmentOf(n)
             seg == Segments(u)[i]
             a == o + seg.bufferOffset + k
  <1>1. o \in Nat /\ l \in Nat \ {0} /\ o + l <= DriveSize
    BY RequestFits
  <1>2. /\ i \in 1..Len(Segments(u)) /\ RoleOf(n) \in Roles
        /\ c.minion = MinionOf(seg, RoleOf(n))
        /\ c.offset = seg.localOffset /\ c.length = seg.length
        /\ c.op = "write" => c.data = WriteSlice(u, seg)
    BY CommandFields
  <1>3. i \in 1..NumSegments(o, l)
    BY <1>1, <1>2, SegmentsHaveMinions DEF Segments
  <1>4. k \in 0..(seg.length - 1)
    BY <1>2
  <1>5. /\ seg.length \in Nat \ {0} /\ seg.bufferOffset \in Nat
        /\ seg.bufferOffset + seg.length <= l
        /\ seg.backupMinionIndex = GetBackupIndex(seg.primaryMinionIndex)
        /\ GetPrimaryIndex(a) = seg.primaryMinionIndex
        /\ PlaceOf(a) = seg.localOffset + k
    <2>1. Segments(u) = Split(o, l)
      BY DEF Segments
    <2> HIDE DEF i, o, l
    <2> QED BY <1>1, <1>3, <1>4, <2>1, SegmentUnits
  <1> HIDE DEF seg, c, i
  <1>6. a \in o..(o + l - 1)
    BY <1>1, <1>4, <1>5
  <1>7. a \in Kernel!Range(request[u]) /\ a \in Units
    BY <1>6, UnitsOfRequest DEF Kernel!Range
  <1>8. c.minion \in Keepers(a)
    BY <1>2, <1>5 DEF Keepers, MinionOf
  <1>9. c.op = "write" => c.data[k] = Kernel!Stamp(u, a)
    BY <1>2, <1>4 DEF WriteSlice
  <1> QED BY <1>2, <1>5, <1>7, <1>8, <1>9 DEF c, seg, i

\* A promised request has two calls, each to another minion, about all of its units.
LEMMA PromisedCalls ==
    ASSUME NEW u \in Uids, request[u] \in Promised
    PROVE  /\ request[u] \in Workload
           /\ Len(Segments(u)) = 1 /\ DOMAIN Segments(u) = {1} /\ Calls(u) = {0, 1}
           /\ Segments(u)[1].bufferOffset = 0 /\ Segments(u)[1].length = request[u].length
           /\ Command(u, 0).minion # Command(u, 1).minion
           /\ \A n \in {0, 1} :
                  /\ SegmentOf(n) = 1 /\ Command(u, n).length = request[u].length
                  /\ Command(u, n).offset = Segments(u)[1].localOffset
           /\ \A a \in Kernel!Range(request[u]) :
                  /\ Keepers(a) = {Command(u, 0).minion, Command(u, 1).minion}
                  /\ a - request[u].offset \in 0..(request[u].length - 1)
                  /\ PlaceOf(a) = Segments(u)[1].localOffset + (a - request[u].offset)
                  /\ \A n \in {0, 1} : Command(u, n).op = "write" =>
                         Command(u, n).data[a - request[u].offset] = Kernel!Stamp(u, a)
  <1> DEFINE o == request[u].offset
             l == request[u].length
             seg == Segments(u)[1]
  <1>0. /\ request[u] \in Workload /\ NumMinions > 1
        /\ GetPrimaryIndex(o) = GetPrimaryIndex(o + l - 1)
    BY DEF Promised
  <1>1. o \in Nat /\ l \in Nat \ {0} /\ o + l <= DriveSize
    BY <1>0, RequestFits
  <1>2. NumSegments(o, l) = 1
    <2>1. GetPrimaryIndex(o) \in Nat
      BY <1>1, DivMod, StripingAssumption DEF GetPrimaryIndex
    <2> QED BY <1>0, <1>1, <2>1 DEF NumSegments
  <1>3. Len(Segments(u)) = 1 /\ DOMAIN Segments(u) = {1}
    <2>1. Len(Segments(u)) = 1 /\ DOMAIN Segments(u) = 1..1
      BY <1>1, <1>2, SegmentsHaveMinions DEF Segments
    <2> QED BY <2>1
  <1>4. Calls(u) = {0, 1}
    BY <1>3 DEF Calls
  <1>5. /\ seg.bufferOffset = 0 /\ seg.length \in Nat /\ seg.length <= l
        /\ seg.primaryMinionIndex \in Minions
        /\ seg.backupMinionIndex = GetBackupIndex(seg.primaryMinionIndex)
    <2>1. 1 \in 1..NumSegments(o, l)
      BY <1>2
    <2>2. /\ seg.length \in Nat \ {0} /\ seg.bufferOffset \in Nat
          /\ seg.bufferOffset + seg.length <= l
          /\ seg.backupMinionIndex = GetBackupIndex(seg.primaryMinionIndex)
          /\ seg.primaryMinionIndex \in Minions
      BY <1>1, <2>1, SegmentUnits, SegmentsHaveMinions DEF Segments
    <2>3. seg.bufferOffset = SegmentStart(o, 1) - o
      <3> DEFINE s == SegmentStart(o, 1)
                 p == (o \div ChunkSize) + 1 - 1
      <3>1. Split(o, l)[1] =
                [localOffset        |-> s % ChunkSize,
                 length             |-> IF o + l - s <= ChunkSize - (s % ChunkSize)
                                        THEN o + l - s ELSE ChunkSize - (s % ChunkSize),
                 bufferOffset       |-> s - o,
                 primaryMinionIndex |-> p,
                 backupMinionIndex  |-> GetBackupIndex(p)]
        <4> HIDE DEF o, l
        <4> QED BY <1>1, <2>1, SegmentAt
      <3> HIDE DEF s, p
      <3>2. Split(o, l)[1].bufferOffset = s - o
        BY <3>1
      <3> QED BY <3>2 DEF Segments, s
    <2>4. seg.bufferOffset = 0
      BY <1>1, <2>3 DEF SegmentStart
    <2> HIDE DEF seg
    <2> QED BY <1>1, <2>2, <2>4
  <1>6. seg.length = l
    <2>1. l - 1 \in 0..(l - 1)
      BY <1>1
    <2>2. \E i \in 1..NumSegments(o, l) :
              /\ Segments(u)[i].bufferOffset <= l - 1
              /\ l - 1 < Segments(u)[i].bufferOffset + Segments(u)[i].length
      BY <1>1, <2>1, SegmentsCover DEF Segments
    <2>3. l - 1 < seg.bufferOffset + seg.length
      <3>1. \A i \in 1..NumSegments(o, l) : i = 1
        BY <1>2
      <3> QED BY <2>2, <3>1
    <2> HIDE DEF seg
    <2> QED BY <1>1, <1>5, <2>3
  <1>7. ASSUME NEW n \in {0, 1}
        PROVE  /\ SegmentOf(n) = 1 /\ Command(u, n).length = l
               /\ Command(u, n).offset = seg.localOffset
               /\ Command(u, n).minion = MinionOf(seg, RoleOf(n))
    <2>1. SegmentOf(n) = 1
      BY DEF SegmentOf
    <2> QED BY <1>0, <1>4, <1>6, <2>1, CommandFields
  <1>8. /\ Command(u, 0).minion = seg.primaryMinionIndex
        /\ Command(u, 1).minion = seg.backupMinionIndex
    BY <1>7 DEF RoleOf, MinionOf
  <1>9. Command(u, 0).minion # Command(u, 1).minion
    BY <1>0, <1>5, <1>8, BackupIsMinion
  <1>10. ASSUME NEW a \in Kernel!Range(request[u]), NEW n \in {0, 1}
         PROVE  /\ Keepers(a) = {Command(u, 0).minion, Command(u, 1).minion}
                /\ a - o \in 0..(l - 1)
                /\ PlaceOf(a) = seg.localOffset + (a - o)
                /\ Command(u, n).op = "write" => Command(u, n).data[a - o] = Kernel!Stamp(u, a)
    <2> DEFINE k == a - o
    <2>1. a \in o..(o + l - 1)
      BY DEF Kernel!Range
    <2>2. k \in 0..(l - 1) /\ o + 0 + k = a
      BY <1>1, <2>1
    <2> HIDE DEF k
    <2>3. k \in 0..(Command(u, n).length - 1) /\ k \in 0..(seg.length - 1)
      BY <1>6, <1>7, <2>2
    <2>4. /\ PlaceOf(a) = Command(u, n).offset + k
          /\ Command(u, n).op = "write" => Command(u, n).data[k] = Kernel!Stamp(u, a)
      <3> DEFINE b == o + Segments(u)[SegmentOf(n)].bufferOffset + k
      <3>1. b = a
        BY <1>5, <1>7, <2>2
      <3>2. n \in Calls(u)
        BY <1>4
      <3>3. /\ PlaceOf(b) = Command(u, n).offset + k
            /\ Command(u, n).op = "write" => Command(u, n).data[k] = Kernel!Stamp(u, b)
        BY <1>0, <2>3, <3>2, CommandUnits
      <3> HIDE DEF b
      <3> QED BY <3>1, <3>3
    <2>5. GetPrimaryIndex(a) = seg.primaryMinionIndex
      <3>1. 1 \in 1..NumSegments(o, l)
        BY <1>2
      <3> QED BY <1>1, <1>5, <2>2, <2>3, <3>1, SegmentUnits DEF Segments
    <2>6. Keepers(a) = {Command(u, 0).minion, Command(u, 1).minion}
      BY <1>5, <1>8, <2>5 DEF Keepers
    <2> QED BY <1>7, <2>2, <2>4, <2>6 DEF k
  <1> QED BY <1>0, <1>3, <1>4, <1>5, <1>6, <1>7, <1>9, <1>10

-------------------------------------------------------------------------------
(* Which callback a response finds. *)

\* The call a datagram was sent for.
LEMMA DatagramMade ==
    ASSUME TablesInv, RoutesInv, NEW d \in Datagrams
    PROVE  /\ d.uid \in Uids /\ d.minion \in Minions
           /\ request[d.uid] \in Workload
           /\ tickets[d.uid] # << >> /\ task[d.uid] \in {"sending", "ended"}
           /\ CallNo(d.tag) \in Calls(d.uid) /\ CallNo(d.tag) < sent[d.uid]
           /\ d.tag = TagOf(CallNo(d.tag))
           /\ d.minion = Command(d.uid, CallNo(d.tag)).minion
  <1>1. d.uid \in Uids /\ d.minion \in Minions /\ sent[d.uid] \in Nat
        /\ request[d.uid] \in Workload \cup {NoRequest}
        /\ task[d.uid] \in {"none", "queued", "sending", "ended"}
    BY DEF TablesInv, TablesAgree, TypeOK
  <1>2. PICK n \in 0..(sent[d.uid] - 1) : MadeBy(d.minion, d.tag, d.uid, n)
    BY DEF RoutesInv, Datagrams, MadeBy
  <1>3. request[d.uid] # NoRequest /\ tickets[d.uid] # << >> /\ task[d.uid] \in {"sending", "ended"}
    BY <1>1, <1>2 DEF TablesInv, Progress
  <1>4. sent[d.uid] <= 2 * Len(Segments(d.uid))
    BY <1>1, <1>3 DEF RoutesInv
  <1>5. Len(Segments(d.uid)) \in Nat
    BY <1>1, <1>3, RequestFits, SegmentsHaveMinions DEF Segments
  <1>6. n \in Calls(d.uid) /\ n < sent[d.uid] /\ n \in Nat
    BY <1>1, <1>2, <1>4, <1>5 DEF Calls
  <1>7. d.tag = TagOf(n) /\ d.minion = Command(d.uid, n).minion
    BY <1>1, <1>2, <1>3, <1>6, CommandFields DEF MadeBy
  <1>8. CallNo(d.tag) = n
    BY <1>6, <1>7, TagNamesCall
  <1> QED BY <1>1, <1>3, <1>6, <1>7, <1>8

\* The call a callback was registered for.
LEMMA CallbackMade ==
    ASSUME TablesInv, RoutesInv, NEW m \in Minions, NEW u \in Uids, m_map[m][u] # NoCallback
    PROVE  /\ request[u] \in Workload /\ tickets[u] # << >>
           /\ CallNo(m_map[m][u]) \in Calls(u)
           /\ m_map[m][u] = TagOf(CallNo(m_map[m][u]))
           /\ m = Command(u, CallNo(m_map[m][u])).minion
  <1>1. PICK n \in Calls(u) : MadeBy(m, m_map[m][u], u, n)
    BY DEF RoutesInv
  <1>2. tickets[u] # << >> /\ request[u] \in Workload
    BY DEF TablesInv, TablesAgree, TypeOK, Progress
  <1>3. m_map[m][u] = TagOf(n) /\ m = Command(u, n).minion /\ n \in Nat
    BY <1>1, <1>2, CommandFields DEF MadeBy
  <1>4. CallNo(m_map[m][u]) = n
    BY <1>3, TagNamesCall
  <1> QED BY <1>1, <1>2, <1>3, <1>4

\* A datagram never finds the callback of an earlier call of its request; the callbacks
\* are those of calls already made, and of one that failed.
OrderInv ==
    /\ \A d \in Datagrams : m_map[d.minion][d.uid] # NoCallback =>
           CallNo(d.tag) <= CallNo(m_map[d.minion][d.uid])
    /\ \A m \in Minions, u \in Uids : m_map[m][u] # NoCallback /\ task[u] = "sending" =>
           CallNo(m_map[m][u]) < sent[u]

\* What a step may do to the order.
LEMMA OrderKept ==
    ASSUME TablesInv, OrderInv,
           \A d \in Datagrams' : \E c \in Datagrams :
               d.uid = c.uid /\ d.minion = c.minion /\ d.tag = c.tag,
           \A m \in Minions, u \in Uids : m_map'[m][u] \in {m_map[m][u], NoCallback},
           \A u \in Uids : task'[u] = "sending" => task[u] = "sending" /\ sent'[u] = sent[u]
    PROVE  OrderInv'
  <1>1. \A d \in Datagrams : d.minion \in Minions /\ d.uid \in Uids
    BY DEF TablesInv, TablesAgree, TypeOK
  <1>2. ASSUME NEW d \in Datagrams', m_map'[d.minion][d.uid] # NoCallback
        PROVE  CallNo(d.tag) <= CallNo(m_map'[d.minion][d.uid])
    <2>1. PICK c \in Datagrams : d.uid = c.uid /\ d.minion = c.minion /\ d.tag = c.tag
      OBVIOUS
    <2>2. m_map'[d.minion][d.uid] = m_map[c.minion][c.uid]
      BY <1>1, <1>2, <2>1
    <2>3. CallNo(c.tag) <= CallNo(m_map[c.minion][c.uid])
      BY <1>2, <2>2 DEF OrderInv
    <2> QED BY <2>1, <2>2, <2>3
  <1>3. ASSUME NEW m \in Minions, NEW u \in Uids, m_map'[m][u] # NoCallback, task'[u] = "sending"
        PROVE  CallNo(m_map'[m][u]) < sent'[u]
    <2>1. m_map'[m][u] = m_map[m][u] /\ task[u] = "sending" /\ sent'[u] = sent[u]
      BY <1>3
    <2> QED BY <1>3, <2>1 DEF OrderInv
  <1>4. \A d : CallNo(d.tag)' = CallNo(d.tag)
    BY DEF CallNo, Call
  <1> QED BY <1>2, <1>3, <1>4 DEF OrderInv, CallNo, Call

\* Nothing is registered at first.
LEMMA InitEstablishesOrderInv == Init => OrderInv
  BY DEF Init, OrderInv, Datagrams

\* A minion's step: an answer for its command, beside it or in its place.
LEMMA MinionAnswers ==
    ASSUME NEW c \in commands,
           RunMinionCommand(c) \/ MinionCommandFails(c) \/ DuplicateCommand(c)
    PROVE  /\ UNCHANGED <<request, replies, allowed, before, tableVars, taskVars, m_map>>
           /\ commands' \subseteq commands
           /\ \E result, data : answers' = answers \cup {Answer(c, result, data)}
  <1>1. /\ UNCHANGED <<request, replies, allowed, before, tableVars, taskVars, m_map>>
        /\ commands' \subseteq commands
    BY DEF RunMinionCommand, MinionCommandFails, DuplicateCommand
  <1>2. \E result, data : answers' = answers \cup {Answer(c, result, data)}
    BY DEF RunMinionCommand, MinionCommandFails, DuplicateCommand, MinionReadCommand,
           MinionWriteCommand
  <1> QED BY <1>1, <1>2

\* What taking a response leaves alone.
LEMMA AnswerTaken ==
    ASSUME TablesInv, NEW a \in answers, OnMinionFDWakeUp(a) \/ DuplicateAnswer(a)
    PROVE  /\ UNCHANGED <<request, before, task, sent, commands, minionVars>>
           /\ HandleAnswer(a)
           /\ answers' \subseteq answers
           /\ m_map'[a.minion][a.uid] = NoCallback
           /\ \A m \in Minions, u \in Uids :
                  ~(m = a.minion /\ u = a.uid) => m_map'[m][u] = m_map[m][u]
  <1>1. /\ UNCHANGED <<request, before, task, sent, commands, minionVars>>
        /\ HandleAnswer(a)
        /\ answers' \subseteq answers
    BY DEF OnMinionFDWakeUp, DuplicateAnswer
  <1>2. /\ a.minion \in Minions /\ a.uid \in Uids
        /\ DOMAIN m_map = Minions /\ \A m \in Minions : DOMAIN m_map[m] = Uids
    BY DEF TablesInv, TablesAgree, TypeOK, Datagrams
  <1>3. \/ m_map[a.minion][a.uid] = NoCallback /\ m_map' = m_map
        \/ m_map' = [m_map EXCEPT ![a.minion][a.uid] = NoCallback]
    BY <1>1 DEF HandleAnswer
  <1>4. /\ m_map'[a.minion][a.uid] = NoCallback
        /\ \A m \in Minions, u \in Uids :
               ~(m = a.minion /\ u = a.uid) => m_map'[m][u] = m_map[m][u]
    BY <1>2, <1>3
  <1> QED BY <1>1, <1>4

\* A send registers the callback of the next call, the greatest so far.
LEMMA OrderAfterSend ==
    ASSUME TablesInv, RoutesInv, OrderInv, NEW u \in Uids, SendMirror(u) \/ SendMirrorFails(u)
    PROVE  OrderInv'
  <1> DEFINE n == sent[u]
             c == Command(u, n)
  <1>1. /\ task[u] = "sending" /\ m_map' = [m_map EXCEPT ![c.minion][u] = c.tag]
        /\ answers' = answers
        /\ \/ commands' = commands \cup {c} /\ sent' = [sent EXCEPT ![u] = n + 1]
           \/ commands' = commands /\ sent' = sent /\ task' = [task EXCEPT ![u] = "ended"]
        /\ \E t : task' = [task EXCEPT ![u] = t]
    BY DEF SendMirror, SendMirrorFails, RegisterCallback
  <1>2. /\ DOMAIN task = Uids /\ sent \in [Uids -> Nat]
        /\ DOMAIN m_map = Minions /\ \A m \in Minions : DOMAIN m_map[m] = Uids
    BY DEF TablesInv, TablesAgree, TypeOK
  <1>3. /\ n \in Nat /\ request[u] \in Workload /\ c.minion \in Minions /\ c.uid = u
        /\ n < 2 * Len(Segments(u)) /\ Len(Segments(u)) \in Nat
    BY <1>1, NextCommand DEF TablesInv, Progress
  <1>4. c.tag = TagOf(n) /\ CallNo(c.tag) = n
    <2>1. n \in Calls(u)
      BY <1>3 DEF Calls
    <2>2. c.tag = TagOf(n)
      BY <1>3, <2>1, CommandFields
    <2> HIDE DEF c, n
    <2> QED BY <1>3, <2>2, TagNamesCall
  <1> HIDE DEF c, n
  <1>5. /\ m_map'[c.minion][u] = c.tag
        /\ \A m \in Minions, v \in Uids : ~(m = c.minion /\ v = u) => m_map'[m][v] = m_map[m][v]
    BY <1>1, <1>2, <1>3
  <1>6. ASSUME NEW d \in Datagrams', m_map'[d.minion][d.uid] # NoCallback
        PROVE  CallNo(d.tag) <= CallNo(m_map'[d.minion][d.uid])
    <2>1. CASE d = c
      BY <1>3, <1>4, <1>5, <2>1
    <2>2. CASE d # c
      <3>1. d \in Datagrams
        BY <1>1, <2>2 DEF Datagrams
      <3>2. /\ d.uid \in Uids /\ d.minion \in Minions
            /\ CallNo(d.tag) \in Calls(d.uid) /\ CallNo(d.tag) < sent[d.uid]
        BY <3>1, DatagramMade
      <3>3. CASE d.minion = c.minion /\ d.uid = u
        <4>1. CallNo(d.tag) <= n
          BY <1>3, <3>2, <3>3 DEF Calls, n
        <4> QED BY <1>4, <1>5, <3>3, <4>1
      <3>4. CASE ~(d.minion = c.minion /\ d.uid = u)
        <4>1. m_map'[d.minion][d.uid] = m_map[d.minion][d.uid]
          BY <1>5, <3>2, <3>4
        <4> QED BY <1>6, <3>1, <4>1 DEF OrderInv
      <3> QED BY <3>3, <3>4
    <2> QED BY <2>1, <2>2
  <1>7. ASSUME NEW m \in Minions, NEW v \in Uids, m_map'[m][v] # NoCallback, task'[v] = "sending"
        PROVE  CallNo(m_map'[m][v]) < sent'[v]
    <2>1. CASE v = u
      <3>1. task'[u] = "sending" => sent'[u] = n + 1
        BY <1>1, <1>2, <1>3
      <3>2. sent'[u] = n + 1
        BY <1>7, <2>1, <3>1
      <3>3. CASE m = c.minion
        BY <1>3, <1>4, <1>5, <2>1, <3>2, <3>3
      <3>4. CASE m # c.minion
        <4>1. m_map'[m][u] = m_map[m][u]
          BY <1>5, <3>4
        <4>2. CallNo(m_map[m][u]) < n /\ CallNo(m_map[m][u]) \in Nat
          <5>1. CallNo(m_map[m][u]) \in Calls(u)
            BY <1>7, <2>1, <4>1, CallbackMade
          <5> QED BY <1>1, <1>7, <2>1, <4>1, <5>1 DEF OrderInv, n, Calls
        <4> QED BY <1>3, <2>1, <3>2, <4>1, <4>2
      <3> QED BY <3>3, <3>4
    <2>2. CASE v # u
      <3>1. m_map'[m][v] = m_map[m][v] /\ task'[v] = task[v] /\ sent'[v] = sent[v]
        BY <1>1, <1>2, <1>5, <2>2
      <3> QED BY <1>7, <3>1 DEF OrderInv
    <2> QED BY <2>1, <2>2
  <1> QED BY <1>6, <1>7 DEF OrderInv, CallNo, Call

\* Every step keeps the order of the calls.
LEMMA NextPreservesOrderInv ==
    ASSUME TablesInv, RoutesInv, OrderInv, [Next]_vars
    PROVE  OrderInv'
  <1>1. /\ DOMAIN task = Uids /\ sent \in [Uids -> Nat]
        /\ \A d \in Datagrams : d.minion \in Minions /\ d.uid \in Uids
        /\ \A u \in Uids : Progress(u)
    BY DEF TablesInv, TablesAgree, TypeOK
  <1>2. ASSUME commands' \subseteq commands, answers' \subseteq answers, UNCHANGED <<m_map, sent>>,
               \A u \in Uids : task'[u] = "sending" => task[u] = "sending"
        PROVE  OrderInv'
    BY <1>2, OrderKept DEF Datagrams
  <1>3. ASSUME NEW u \in Uids, NEW r \in Workload, GetTaskArgs(u, r) PROVE OrderInv'
    <2>1. task' = [task EXCEPT ![u] = "queued"] /\ UNCHANGED <<sent, m_map, commands, answers>>
      BY <1>3 DEF GetTaskArgs, EnqueueTask
    <2> QED BY <1>1, <1>2, <2>1
  <1>4. ASSUME NEW u \in Uids, AddTask(u) PROVE OrderInv'
    <2>1. /\ task[u] = "queued" /\ UNCHANGED <<sent, m_map, commands, answers>>
          /\ \E t : task' = [task EXCEPT ![u] = t]
      BY <1>4 DEF AddTask
    <2>2. \A m \in Minions : m_map[m][u] = NoCallback
      BY <1>1, <2>1 DEF Progress
    <2>3. ASSUME NEW m \in Minions, NEW v \in Uids, m_map'[m][v] # NoCallback,
                 task'[v] = "sending"
          PROVE  CallNo(m_map'[m][v]) < sent'[v]
      <3>1. v # u
        BY <2>1, <2>2, <2>3
      <3>2. task'[v] = task[v]
        BY <1>1, <2>1, <3>1
      <3> QED BY <2>1, <2>3, <3>2 DEF OrderInv
    <2> QED BY <2>1, <2>3 DEF OrderInv, Datagrams, CallNo, Call
  <1>5. ASSUME NEW u \in Uids, SendMirror(u) \/ SendMirrorFails(u) PROVE OrderInv'
    BY <1>5, OrderAfterSend
  <1>6. ASSUME NEW c \in commands,
               RunMinionCommand(c) \/ MinionCommandFails(c) \/ DuplicateCommand(c)
        PROVE  OrderInv'
    <2>1. PICK result, data : answers' = answers \cup {Answer(c, result, data)}
      BY <1>6, MinionAnswers
    <2>2. UNCHANGED <<task, sent, m_map>> /\ commands' \subseteq commands
      BY <1>6, MinionAnswers DEF taskVars
    <2>3. ASSUME NEW d \in Datagrams'
          PROVE  \E b \in Datagrams : d.uid = b.uid /\ d.minion = b.minion /\ d.tag = b.tag
      BY <2>1, <2>2 DEF Datagrams, Answer
    <2> QED BY <2>2, <2>3, OrderKept
  <1>7. ASSUME NEW a \in answers, OnMinionFDWakeUp(a) \/ DuplicateAnswer(a) PROVE OrderInv'
    <2>1. /\ UNCHANGED <<task, sent, commands>> /\ answers' \subseteq answers
          /\ \A m \in Minions, u \in Uids : m_map'[m][u] \in {m_map[m][u], NoCallback}
      BY <1>7, AnswerTaken
    <2> QED BY <2>1, OrderKept DEF Datagrams
  <1>8. CASE LoseDatagram \/ (\E m \in Minions : RestartMinion(m)) \/ UNCHANGED vars
    <2>1. /\ UNCHANGED <<task, sent, m_map>>
          /\ commands' \subseteq commands /\ answers' \subseteq answers
      BY <1>8 DEF LoseDatagram, RestartMinion, taskVars, vars
    <2> QED BY <1>2, <2>1
  <1> QED BY <1>3, <1>4, <1>5, <1>6, <1>7, <1>8 DEF Next, Worker, Minion, ManagerReactor

\* A response finds the callback of its own call, or of a later one to the same minion.
LEMMA OrderMatches ==
    ASSUME TablesInv, RoutesInv, OrderInv
    PROVE  ResponseMatchesCallback
  <1> SUFFICES ASSUME NEW d \in Datagrams, m_map[d.minion][d.uid] \notin {NoCallback, d.tag}
               PROVE  /\ request[d.uid] \notin Promised
                      /\ \E k, n \in Calls(d.uid) :
                             /\ k < n /\ d.tag = TagOf(k) /\ m_map[d.minion][d.uid] = TagOf(n)
                             /\ Command(d.uid, n).minion = d.minion
    BY DEF ResponseMatchesCallback
  <1> DEFINE u == d.uid
             callback == m_map[d.minion][u]
             k == CallNo(d.tag)
             n == CallNo(callback)
  <1>1. /\ u \in Uids /\ d.minion \in Minions /\ k \in Calls(u) /\ d.tag = TagOf(k)
        /\ d.minion = Command(u, k).minion
    BY DatagramMade
  <1>2. n \in Calls(u) /\ callback = TagOf(n) /\ d.minion = Command(u, n).minion
    BY <1>1, CallbackMade
  <1>3. k <= n
    BY DEF OrderInv
  <1> HIDE DEF k, n
  <1>4. k # n
    BY <1>1, <1>2
  <1>5. k < n
    BY <1>1, <1>2, <1>3, <1>4 DEF Calls
  <1>6. request[u] \notin Promised
    <2> SUFFICES ASSUME request[u] \in Promised PROVE FALSE
      OBVIOUS
    <2>1. Calls(u) = {0, 1} /\ Command(u, 0).minion # Command(u, 1).minion
      BY <1>1, PromisedCalls
    <2>2. k = 0 /\ n = 1
      BY <1>1, <1>2, <1>5, <2>1
    <2> QED BY <1>1, <1>2, <2>1, <2>2
  <1> QED BY <1>1, <1>2, <1>5, <1>6

\* The tables, the routes and the order in which callbacks are registered.
THEOREM CallbacksInvariant == Spec => [](TablesInv /\ RoutesInv /\ OrderInv)
  <1>1. Init => TablesInv /\ RoutesInv /\ OrderInv
    BY InitEstablishesTablesInv, InitEstablishesRoutesInv, InitEstablishesOrderInv
  <1>2. TablesInv /\ RoutesInv /\ OrderInv /\ [Next]_vars => (TablesInv /\ RoutesInv /\ OrderInv)'
    BY NextPreservesTablesInv, NextPreservesRoutesInv, NextPreservesOrderInv
  <1> QED BY <1>1, <1>2, PTL DEF Spec

\* A response finds the callback of the mirror it was sent for, or none, whatever is
\* lost, comes twice, fails or restarts and however requests overlap; only where its
\* request has two calls to one minion may it find that of the later of the two, because
\* MinionProxy keeps the callbacks under the uid alone.
THEOREM ResponsesAlwaysMatch == Spec => []ResponseMatchesCallback
  <1>1. TablesInv /\ RoutesInv /\ OrderInv => ResponseMatchesCallback
    BY OrderMatches
  <1> QED BY <1>1, CallbacksInvariant, PTL

-------------------------------------------------------------------------------
(* Tickets. *)

SegmentFields == {"length", "bufferOffset", "msg"}

\* t is a ticket for the segments of request u.
TicketShape(u, t) ==
    /\ DOMAIN t = TicketFields
    /\ t.op = request[u].op
    /\ t.completed \in BOOLEAN
    /\ DOMAIN t.segments = DOMAIN Segments(u)
    /\ \A i \in DOMAIN Segments(u) :
           /\ DOMAIN t.segments[i] = SegmentFields
           /\ t.segments[i].length = Segments(u)[i].length
           /\ DOMAIN t.segments[i].msg = Roles

\* What ticket t has recorded as the response to call n.
MsgOf(t, n) == t.segments[SegmentOf(n)].msg[RoleOf(n)]

\* A ticket records only what has been called for, and is complete when the kernel has
\* its reply.
TicketFits(u) ==
    /\ TicketShape(u, tickets[u])
    /\ tickets[u].completed <=> replies[u] # NoReply
    /\ tickets[u].completed => IsResolved(tickets[u])
    /\ \A n \in Calls(u) :
           MsgOf(tickets[u], n) # NoMsg /\ task[u] = "sending" => n < sent[u]

TicketsInv == \A u \in Uids : tickets[u] # << >> => TicketFits(u)

\* t has become after by recording msg as the response to call n of request u.
Recorded(u, t, n, msg, after) ==
    /\ TicketShape(u, after)
    /\ after.completed <=> IsResolved(after)
    /\ \A k \in Calls(u) : MsgOf(after, k) = IF k = n THEN msg ELSE MsgOf(t, k)

\* What a response does to a ticket.
LEMMA ResponseRecorded ==
    ASSUME NEW u \in Uids, request[u] \in Workload, NEW t, TicketShape(u, t),
           NEW n \in Calls(u), NEW msg
    PROVE  LET after == OnMirrorResponse(t, SegmentOf(n), RoleOf(n), msg)
           IN /\ t.completed => after = [ticket |-> t, notified |-> << >>]
              /\ ~t.completed =>
                  /\ Recorded(u, t, n, msg, after.ticket)
                  /\ after.notified # << >> <=> after.ticket.completed
                  /\ after.notified # << >> => after.notified[1] = TaskResult(after.ticket)
  <1> DEFINE i == SegmentOf(n)
             role == RoleOf(n)
             w == RecordResponse(t, i, role, msg)
             done == [w EXCEPT !.completed = TRUE]
             after == OnMirrorResponse(t, i, role, msg)
  <1>1. /\ i \in DOMAIN Segments(u) /\ role \in Roles
        /\ \A k \in Calls(u) : /\ k \in Nat /\ SegmentOf(k) \in DOMAIN Segments(u)
                               /\ RoleOf(k) \in Roles
    BY CommandFields
  <1>2. CASE t.completed
    BY <1>2 DEF OnMirrorResponse
  <1>3. CASE ~t.completed
    <2> USE DEF TicketShape
    <2>1. /\ DOMAIN w = TicketFields /\ w.op = t.op /\ w.completed = FALSE /\ w.uid = t.uid
          /\ DOMAIN w.segments = DOMAIN t.segments
          /\ \A j \in DOMAIN t.segments : j # i => w.segments[j] = t.segments[j]
          /\ DOMAIN w.segments[i] = SegmentFields
          /\ w.segments[i].length = t.segments[i].length
          /\ w.segments[i].msg = [t.segments[i].msg EXCEPT ![role] = msg]
      <3> HIDE DEF i, role
      <3> QED BY <1>1, <1>3 DEF RecordResponse, TicketFields, SegmentFields
    <2>2. after = IF IsResolved(w) THEN [ticket |-> done, notified |-> <<TaskResult(w)>>]
                  ELSE [ticket |-> w, notified |-> << >>]
      BY <1>1, <1>3 DEF OnMirrorResponse
    <2> HIDE DEF w, i, role
    <2>3. /\ DOMAIN done = TicketFields /\ done.op = w.op /\ done.completed = TRUE
          /\ done.segments = w.segments /\ done.uid = w.uid
      BY <2>1 DEF TicketFields
    <2>4. TicketShape(u, w)
      <3>1. ASSUME NEW j \in DOMAIN Segments(u)
            PROVE  /\ DOMAIN w.segments[j] = SegmentFields
                   /\ w.segments[j].length = Segments(u)[j].length
                   /\ DOMAIN w.segments[j].msg = Roles
        <4>1. CASE j = i
          BY <1>1, <2>1, <4>1
        <4>2. CASE j # i
          BY <2>1, <4>2
        <4> QED BY <4>1, <4>2
      <3> QED BY <2>1, <3>1
    <2>5. ASSUME NEW k \in Calls(u)
          PROVE  MsgOf(w, k) = IF k = n THEN msg ELSE MsgOf(t, k)
      <3>1. CASE SegmentOf(k) # i
        <4>1. k # n
          BY <3>1 DEF i
        <4> QED BY <1>1, <2>1, <3>1, <4>1 DEF MsgOf
      <3>2. CASE SegmentOf(k) = i /\ RoleOf(k) # role
        <4>1. k # n
          BY <3>2 DEF role
        <4>2. w.segments[i].msg[RoleOf(k)] = t.segments[i].msg[RoleOf(k)]
          BY <1>1, <2>1, <3>2
        <4> QED BY <3>2, <4>1, <4>2 DEF MsgOf
      <3>3. CASE SegmentOf(k) = i /\ RoleOf(k) = role
        <4>1. TagOf(k) = TagOf(n)
          BY <3>3 DEF TagOf, i, role
        <4>2. k = n
          <5>1. CallNo(TagOf(k)) = k /\ CallNo(TagOf(n)) = n
            BY <1>1, TagNamesCall
          <5> QED BY <4>1, <5>1
        <4>3. w.segments[i].msg[role] = msg
          BY <1>1, <2>1
        <4> QED BY <3>3, <4>2, <4>3 DEF MsgOf
      <3> QED BY <3>1, <3>2, <3>3
    <2> HIDE DEF TicketShape, done, after
    <2>6. CASE IsResolved(w)
      <3>1. after.ticket = done /\ after.notified = <<TaskResult(w)>>
        BY <2>2, <2>6
      <3>2. after.notified # << >> /\ after.notified[1] = TaskResult(w)
        BY <3>1
      <3>3. TaskResult(done) = TaskResult(w) /\ (IsResolved(done) <=> IsResolved(w))
        BY <2>3 DEF TaskResult, IsResolved
      <3>4. TicketShape(u, done)
        BY <2>3, <2>4 DEF TicketShape
      <3>5. \A k \in Calls(u) : MsgOf(done, k) = MsgOf(w, k)
        BY <2>3 DEF MsgOf
      <3>6. Recorded(u, t, n, msg, done)
        BY <2>3, <2>5, <2>6, <3>3, <3>4, <3>5 DEF Recorded
      <3> QED BY <1>3, <2>3, <3>1, <3>2, <3>3, <3>6 DEF after, i, role
    <2>7. CASE ~IsResolved(w)
      <3>1. after.ticket = w /\ after.notified = << >>
        BY <2>2, <2>7
      <3>2. Recorded(u, t, n, msg, w)
        BY <2>1, <2>4, <2>5, <2>7 DEF Recorded
      <3> QED BY <1>3, <2>1, <3>1, <3>2 DEF after, i, role
    <2> QED BY <2>6, <2>7
  <1> QED BY <1>2, <1>3

MessageOf(a) == [result |-> a.result, data |-> a.data]

\* The kernel is answered with the result of ticket t of request u.
RepliesWith(u, t) ==
    /\ replies' = [replies EXCEPT ![u] = ReplyOf(u, TaskResult(t))]
    /\ allowed' = Kernel!AllowedOnReply(u, ~TaskResult(t).result)
    /\ damaged' = Kernel!DamagedOnReply(u, ~TaskResult(t).result)

\* A response that finds a callback is recorded for the callback's call; once the ticket
\* is resolved the kernel is answered; nothing happens to a ticket that is complete.
LEMMA AnswerRecorded ==
    ASSUME TablesInv, RoutesInv, TicketsInv,
           NEW a \in answers, HandleAnswer(a), m_map[a.minion][a.uid] # NoCallback
    PROVE  LET u == a.uid
               n == CallNo(m_map[a.minion][u])
           IN /\ u \in Uids /\ request[u] \in Workload /\ tickets[u] # << >> /\ n \in Calls(u)
              /\ DOMAIN tickets' = Uids
              /\ \A v \in Uids : v # u => tickets'[v] = tickets[v]
              /\ DOMAIN tickets'[u] = TicketFields
              /\ ~Outstanding(u) =>
                     tickets'[u] = tickets[u] /\ UNCHANGED <<tableVars, replies, allowed, damaged>>
              /\ Outstanding(u) =>
                  /\ Recorded(u, tickets[u], n, MessageOf(a), tickets'[u])
                  /\ ~tickets'[u].completed => UNCHANGED <<tableVars, replies, allowed, damaged>>
                  /\ tickets'[u].completed => RepliesWith(u, tickets'[u])
  <1> DEFINE u == a.uid
             callback == m_map[a.minion][u]
             n == CallNo(callback)
             t == tickets[u]
             after == AfterAnswer(a)
  <1>0. a \in Datagrams
    BY DEF Datagrams
  <1>1. u \in Uids /\ request[u] \in Workload /\ t # << >> /\ a.minion \in Minions
    BY <1>0, DatagramMade
  <1>2. n \in Calls(u) /\ callback = TagOf(n)
    BY <1>1, CallbackMade
  <1>3. n \in Nat
    BY <1>1, <1>2, CommandFields
  <1>4. after = OnMirrorResponse(t, SegmentOf(n), RoleOf(n), MessageOf(a))
    <2> HIDE DEF n
    <2>1. callback.segment = SegmentOf(n) /\ callback.role = RoleOf(n)
      BY <1>2, <1>3, TagNamesCall
    <2> QED BY <2>1 DEF AfterAnswer, MessageOf
  <1>5. /\ DOMAIN t = TicketFields /\ tickets' = [tickets EXCEPT ![u] = after.ticket]
        /\ DOMAIN after.ticket = TicketFields
        /\ \/ /\ UNCHANGED <<tableVars, replies, allowed, damaged>>
              /\ after.notified = << >> \/ ~Outstanding(u)
           \/ /\ after.notified # << >>
              /\ Outstanding(u)
              /\ replies' = [replies EXCEPT ![u] = ReplyOf(u, after.notified[1])]
              /\ allowed' = Kernel!AllowedOnReply(u, ~after.notified[1].result)
              /\ damaged' = Kernel!DamagedOnReply(u, ~after.notified[1].result)
    BY <1>1, AnswerEffect
  <1>6. DOMAIN tickets = Uids
    BY DEF TablesInv
  <1>7. /\ tickets'[u] = after.ticket /\ \A v \in Uids : v # u => tickets'[v] = tickets[v]
        /\ DOMAIN tickets' = Uids
    BY <1>1, <1>5, <1>6
  <1>8. TicketFits(u)
    BY <1>1 DEF TicketsInv
  <1>9. TicketShape(u, t) /\ t.completed \in BOOLEAN /\ (t.completed <=> ~Outstanding(u))
    BY <1>1, <1>8, RequestFits DEF TicketFits, TicketShape, Outstanding, Kernel!Outstanding
  <1> HIDE DEF after, t, n
  <1>10. CASE ~Outstanding(u)
    <2>1. after.ticket = t /\ after.notified = << >>
      <3>1. after = [ticket |-> t, notified |-> << >>]
        BY <1>1, <1>2, <1>4, <1>9, <1>10, ResponseRecorded
      <3> QED BY <3>1
    <2> QED BY <1>1, <1>2, <1>5, <1>7, <1>10, <2>1 DEF t, n
  <1>11. CASE Outstanding(u)
    <2>1. /\ Recorded(u, t, n, MessageOf(a), after.ticket)
          /\ after.notified # << >> <=> after.ticket.completed
          /\ after.notified # << >> => after.notified[1] = TaskResult(after.ticket)
      BY <1>1, <1>2, <1>4, <1>9, <1>11, ResponseRecorded
    <2>2. /\ ~after.ticket.completed => UNCHANGED <<tableVars, replies, allowed, damaged>>
          /\ after.ticket.completed => RepliesWith(u, after.ticket)
      <3>1. CASE after.notified = << >>
        BY <1>5, <2>1, <3>1
      <3>2. CASE after.notified # << >>
        BY <1>5, <1>11, <2>1, <3>2 DEF RepliesWith
      <3> QED BY <3>1, <3>2
    <2> QED BY <1>1, <1>2, <1>5, <1>7, <1>11, <2>1, <2>2 DEF t, n
  <1> QED BY <1>10, <1>11

\* There are no tickets at first.
LEMMA InitEstablishesTicketsInv == Init => TicketsInv
  BY DEF Init, TicketsInv

\* A ticket that a step leaves alone.
LEMMA TicketKept ==
    ASSUME NEW u \in Uids, TicketFits(u), tickets'[u] = tickets[u], request'[u] = request[u],
           replies'[u] = replies[u], sent[u] \in Nat, sent'[u] \in Nat, sent[u] <= sent'[u],
           request[u] \in Workload,
           task'[u] = "sending" => task[u] = "sending"
    PROVE  TicketFits(u)'
  <1>1. Segments(u)' = Segments(u) /\ Calls(u)' = Calls(u)
    BY CallsFixed
  <1>2. TicketShape(u, tickets[u])'
    BY <1>1 DEF TicketFits, TicketShape
  <1>3. ASSUME NEW n \in Calls(u), MsgOf(tickets'[u], n) # NoMsg, task'[u] = "sending"
        PROVE  n < sent'[u]
    <2>1. n < sent[u] /\ n \in Nat
      BY <1>3, CommandFields DEF TicketFits
    <2> QED BY <2>1
  <1>4. IsResolved(tickets[u])' <=> IsResolved(tickets[u])
    BY DEF IsResolved
  <1> QED BY <1>1, <1>2, <1>3, <1>4 DEF TicketFits

\* Every step keeps each ticket's records in step with what has been called.
LEMMA NextPreservesTicketsInv ==
    ASSUME TablesInv, RoutesInv, OrderInv, TicketsInv, [Next]_vars
    PROVE  TicketsInv'
  <1>1. /\ sent \in [Uids -> Nat] /\ request \in [Uids -> Workload \cup {NoRequest}]
        /\ DOMAIN tickets = Uids /\ DOMAIN replies = Uids /\ DOMAIN task = Uids
        /\ \A u \in Uids : Progress(u)
    BY DEF TablesInv, TablesAgree, TypeOK
  <1> SUFFICES ASSUME NEW u \in Uids, tickets'[u] # << >> PROVE TicketFits(u)'
    BY DEF TicketsInv
  <1>2. tickets[u] # << >> => TicketFits(u) /\ request[u] \in Workload
    BY <1>1 DEF TicketsInv, Progress
  <1>3. ASSUME UNCHANGED <<request, replies, tickets, sent, task>> PROVE TicketFits(u)'
    BY <1>1, <1>2, <1>3, TicketKept
  <1>4. ASSUME NEW v \in Uids, NEW r \in Workload, GetTaskArgs(v, r) PROVE TicketFits(u)'
    <2>1. /\ request[v] = NoRequest /\ request' = [request EXCEPT ![v] = r]
          /\ task' = [task EXCEPT ![v] = "queued"]
          /\ UNCHANGED <<replies, sent, tickets>>
      BY <1>4 DEF GetTaskArgs, EnqueueTask, Kernel!Issue, Kernel!MayIssue
    <2>2. u # v
      BY <1>1, <2>1 DEF Progress
    <2>3. request'[u] = request[u] /\ task'[u] = task[u]
      BY <1>1, <2>1, <2>2
    <2> QED BY <1>1, <1>2, <2>1, <2>3, TicketKept
  <1>5. ASSUME NEW v \in Uids, AddTask(v) PROVE TicketFits(u)'
    <2>1. UNCHANGED <<request, replies, sent>>
      BY <1>5 DEF AddTask, kernelVars
    <2>2. CASE u # v
      <3>1. tickets'[u] = tickets[u] /\ task'[u] = task[u]
        <4>1. /\ \/ tickets' = tickets
                 \/ tickets' = [tickets EXCEPT ![v] = NewTicket(v, request[v].op, Segments(v))]
              /\ \E s : task' = [task EXCEPT ![v] = s]
          BY <1>5 DEF AddTask
        <4> QED BY <1>1, <2>2, <4>1
      <3> QED BY <1>1, <1>2, <2>1, <3>1, TicketKept
    <2>3. CASE u = v
      <3>1. task[u] = "queued" /\ replies[u] = NoReply /\ request[u] \in Workload
        BY <1>1, <1>5, <2>3 DEF AddTask, Progress
      <3>2. ValidateRange(request[u].offset, request[u].length)
        BY <3>1, RequestFits DEF ValidateRange
      <3>3. tickets'[u] = NewTicket(u, request[u].op, Segments(u))
        BY <1>1, <1>5, <2>3, <3>2 DEF AddTask
      <3> DEFINE segs == [i \in DOMAIN Segments(u) |-> SegmentState(Segments(u)[i])]
      <3>4. /\ DOMAIN tickets'[u] = TicketFields
            /\ tickets'[u].op = request[u].op /\ tickets'[u].completed = FALSE
            /\ tickets'[u].segments = segs
        BY <3>3 DEF NewTicket, TicketFields
      <3>5. ASSUME NEW i \in DOMAIN Segments(u)
            PROVE  /\ DOMAIN segs[i] = SegmentFields
                   /\ segs[i].length = Segments(u)[i].length
                   /\ segs[i].msg = [role \in Roles |-> NoMsg]
        BY DEF SegmentState, SegmentFields
      <3>6. DOMAIN segs = DOMAIN Segments(u)
        OBVIOUS
      <3> HIDE DEF segs
      <3>7. Segments(u)' = Segments(u) /\ Calls(u)' = Calls(u)
        BY <2>1, CallsFixed
      <3>8. TicketShape(u, tickets[u])'
        BY <2>1, <3>4, <3>5, <3>6, <3>7 DEF TicketShape
      <3>9. ASSUME NEW n \in Calls(u) PROVE MsgOf(tickets'[u], n) = NoMsg
        <4>1. SegmentOf(n) \in DOMAIN Segments(u) /\ RoleOf(n) \in Roles
          BY <3>1, CommandFields
        <4> QED BY <3>4, <3>5, <4>1 DEF MsgOf
      <3> QED BY <2>1, <3>1, <3>4, <3>7, <3>8, <3>9 DEF TicketFits
    <2> QED BY <2>2, <2>3
  <1>6. ASSUME NEW v \in Uids, SendMirror(v) \/ SendMirrorFails(v) PROVE TicketFits(u)'
    <2>1. /\ UNCHANGED <<request, replies, tickets>> /\ task[v] = "sending"
          /\ sent' = sent \/ sent' = [sent EXCEPT ![v] = sent[v] + 1]
          /\ \E s : task' = [task EXCEPT ![v] = s]
      BY <1>6 DEF SendMirror, SendMirrorFails, kernelVars
    <2>2. /\ sent'[u] \in Nat /\ sent[u] <= sent'[u] /\ sent[u] \in Nat
          /\ task'[u] = "sending" => task[u] = "sending"
      BY <1>1, <2>1
    <2> QED BY <1>2, <2>1, <2>2, TicketKept
  <1>7. ASSUME NEW a \in answers, OnMinionFDWakeUp(a) \/ DuplicateAnswer(a) PROVE TicketFits(u)'
    <2>1. UNCHANGED <<request, sent, task>> /\ HandleAnswer(a)
      BY <1>7 DEF OnMinionFDWakeUp, DuplicateAnswer
    <2>2. CASE m_map[a.minion][a.uid] = NoCallback
      <3>1. UNCHANGED <<tickets, replies>>
        BY <2>1, <2>2 DEF HandleAnswer
      <3> QED BY <1>3, <2>1, <3>1
    <2>3. CASE m_map[a.minion][a.uid] # NoCallback
      <3> DEFINE v == a.uid
                 n == CallNo(m_map[a.minion][v])
                 r == ReplyOf(v, TaskResult(tickets'[v]))
      <3>1. /\ v \in Uids /\ request[v] \in Workload /\ tickets[v] # << >> /\ n \in Calls(v)
            /\ \A w \in Uids : w # v => tickets'[w] = tickets[w]
            /\ ~Outstanding(v) => tickets'[v] = tickets[v] /\ replies' = replies
            /\ Outstanding(v) =>
                /\ Recorded(v, tickets[v], n, MessageOf(a), tickets'[v])
                /\ ~tickets'[v].completed => replies' = replies
                /\ tickets'[v].completed => replies' = [replies EXCEPT ![v] = r]
        BY <2>1, <2>3, AnswerRecorded DEF RepliesWith
      <3>2. r # NoReply
        BY ReplyIsARecord
      <3>3. task[v] = "sending" => n < sent[v]
        <4>1. a.minion \in Minions
          BY DatagramMade DEF Datagrams
        <4> QED BY <2>3, <3>1, <4>1 DEF OrderInv
      <3> HIDE DEF r, n
      <3>4. CASE u # v
        <4>1. tickets'[u] = tickets[u] /\ replies'[u] = replies[u]
          BY <1>1, <3>1, <3>4
        <4> QED BY <1>1, <1>2, <2>1, <4>1, TicketKept
      <3>5. CASE u = v /\ ~Outstanding(u)
        BY <1>1, <1>2, <2>1, <3>1, <3>5, TicketKept
      <3>6. CASE u = v /\ Outstanding(u)
        <4>1. /\ Recorded(u, tickets[u], n, MessageOf(a), tickets'[u])
              /\ ~tickets'[u].completed => replies' = replies
              /\ tickets'[u].completed => replies' = [replies EXCEPT ![u] = r]
              /\ n \in Calls(u) /\ request[u] \in Workload /\ tickets[u] # << >>
          BY <3>1, <3>6
        <4>2. Segments(u)' = Segments(u) /\ Calls(u)' = Calls(u)
          BY <2>1, CallsFixed
        <4>3. TicketShape(u, tickets[u])' /\ tickets'[u].completed \in BOOLEAN
          BY <2>1, <4>1, <4>2 DEF Recorded, TicketShape
        <4>4. tickets'[u].completed <=> replies'[u] # NoReply
          <5>1. replies[u] = NoReply
            BY <3>6 DEF Outstanding, Kernel!Outstanding
          <5> QED BY <1>1, <3>2, <4>1, <4>3, <5>1
        <4>5. ASSUME NEW k \in Calls(u), MsgOf(tickets'[u], k) # NoMsg, task[u] = "sending"
              PROVE  k < sent[u]
          <5>1. CASE k = n
            BY <3>3, <3>6, <4>5, <5>1
          <5>2. CASE k # n
            <6>1. MsgOf(tickets[u], k) # NoMsg
              BY <4>1, <4>5, <5>2 DEF Recorded
            <6> QED BY <1>2, <4>1, <4>5, <6>1 DEF TicketFits
          <5> QED BY <5>1, <5>2
        <4>6. tickets'[u].completed => IsResolved(tickets'[u])
          BY <4>1 DEF Recorded
        <4> QED BY <2>1, <4>2, <4>3, <4>4, <4>5, <4>6 DEF TicketFits
      <3> QED BY <3>4, <3>5, <3>6
    <2> QED BY <2>2, <2>3
  <1>8. CASE \/ \E c \in commands : \/ RunMinionCommand(c) \/ MinionCommandFails(c)
                                    \/ DuplicateCommand(c)
             \/ LoseDatagram \/ (\E m \in Minions : RestartMinion(m)) \/ UNCHANGED vars
    <2>1. UNCHANGED <<request, replies, tickets, sent, task>>
      BY <1>8 DEF RunMinionCommand, MinionCommandFails, DuplicateCommand, LoseDatagram,
                  RestartMinion, vars, kernelVars, taskVars
    <2> QED BY <1>3, <2>1
  <1> QED BY <1>4, <1>5, <1>6, <1>7, <1>8
          DEF Next, Worker, Minion, ManagerReactor

\* A write that has been answered has a record for each of its calls.
LEMMA AnsweredInFull ==
    ASSUME TicketsInv, NEW u \in Uids, request[u] \in Workload, request[u].op = "write",
           tickets[u] # << >>, ~Outstanding(u), NEW n \in Calls(u)
    PROVE  MsgOf(tickets[u], n) # NoMsg
  <1>1. TicketFits(u) /\ replies[u] # NoReply
    BY RequestFits DEF TicketsInv, Outstanding, Kernel!Outstanding
  <1>2. /\ IsResolved(tickets[u]) /\ tickets[u].op = "write"
        /\ DOMAIN tickets[u].segments = DOMAIN Segments(u)
    BY <1>1 DEF TicketFits, TicketShape
  <1>3. SegmentOf(n) \in DOMAIN Segments(u) /\ RoleOf(n) \in Roles
    BY CommandFields
  <1>4. IsSegmentResolved("write", tickets[u].segments[SegmentOf(n)])
    BY <1>2, <1>3 DEF IsResolved
  <1> QED BY <1>3, <1>4 DEF IsSegmentResolved, Done, MsgOf, Roles

-------------------------------------------------------------------------------
(* The kernel's side. *)

\* Outstanding requests do not conflict, a write in flight may already be what the device
\* holds wherever it may show up, and a request is not over before one that it answers.
KernelInv ==
    /\ allowed = [a \in Units |-> allowed[a]]
    /\ damaged = [m \in Minions |-> [a \in Units |-> damaged[m][a]]]
    /\ DOMAIN before = Uids
    /\ \A u \in Uids : before[u] \subseteq Kernel!Replied
    /\ \A u, v \in Uids : u # v /\ Outstanding(u) /\ Outstanding(v) =>
           ~Kernel!Conflict(request[u], request[v])
    /\ \A u \in Uids, a \in Units : Outstanding(u) =>
           Kernel!Brings(u, request[u], a) \subseteq allowed[a]
    /\ Kernel!Issued = {} => \A a \in Units : allowed[a] = {Blank}

\* At first every unit may hold only what it was created with.
LEMMA InitEstablishesKernelInv == Init => KernelInv
  <1> SUFFICES ASSUME Init PROVE KernelInv
    OBVIOUS
  <1>1. /\ request = [u \in Uids |-> NoRequest] /\ replies = [u \in Uids |-> NoReply]
        /\ allowed = [a \in Units |-> {Blank}] /\ before = [u \in Uids |-> {}]
        /\ damaged = [p \in Minions |-> [a \in Units |-> {}]]
    BY DEF Init, Kernel!Init
  <1>2. \A u \in Uids : ~Outstanding(u)
    BY <1>1 DEF Outstanding, Kernel!Outstanding
  <1> QED BY <1>1, <1>2 DEF KernelInv

\* A step that leaves the kernel's requests and what they may read alone.
LEMMA KernelKept ==
    ASSUME KernelInv, UNCHANGED <<request, replies, allowed, before>>,
           damaged' = [m \in Minions |-> [a \in Units |-> damaged'[m][a]]]
    PROVE  KernelInv'
  <1>1. /\ Kernel!Replied' = Kernel!Replied /\ Kernel!Issued' = Kernel!Issued
        /\ \A u : Outstanding(u)' = Outstanding(u)
        /\ \A r, s : Kernel!Conflict(r, s)' = Kernel!Conflict(r, s)
        /\ \A u, r, a : Kernel!Brings(u, r, a)' = Kernel!Brings(u, r, a)
    BY DEF Kernel!Replied, Kernel!Issued, Outstanding, Kernel!Outstanding, Kernel!Conflict,
           Kernel!Range, Kernel!Brings, Kernel!Stamp
  <1> QED BY <1>1 DEF KernelInv

\* What damage does.
LEMMA HitEffect ==
    ASSUME KernelInv, NEW m \in Minions, NEW S, damaged' = Kernel!DamagedOnHit(m, S)
    PROVE  /\ damaged' = [i \in Minions |-> [a \in Units |-> damaged'[i][a]]]
           /\ \A i \in Minions, a \in Units :
                  damaged'[i][a] = IF i = m /\ a \in S THEN Kernel!Issued ELSE damaged[i][a]
  <1>1. damaged = [i \in Minions |-> [a \in Units |-> damaged[i][a]]]
    BY DEF KernelInv
  <1>2. damaged' = [damaged EXCEPT ![m] =
                        [a \in Units |-> IF a \in S THEN Kernel!Issued ELSE damaged[m][a]]]
    BY DEF Kernel!DamagedOnHit
  <1>3. DOMAIN damaged' = Minions /\ DOMAIN damaged = Minions
    BY <1>1, <1>2
  <1>4. ASSUME NEW i \in Minions
        PROVE  damaged'[i] = [a \in Units |-> IF i = m /\ a \in S THEN Kernel!Issued
                                                                  ELSE damaged[i][a]]
    <2>1. CASE i = m
      BY <1>2, <1>3, <2>1
    <2>2. CASE i # m
      <3>1. damaged'[i] = damaged[i]
        BY <1>2, <1>3, <2>2
      <3>2. damaged[i] = [a \in Units |-> damaged[i][a]]
        BY <1>1
      <3> QED BY <2>2, <3>1, <3>2
    <2> QED BY <2>1, <2>2
  <1>5. damaged' = [i \in Minions |-> damaged'[i]]
    BY <1>2, <1>3
  <1> QED BY <1>4, <1>5

\* A new request only adds to what may be read, and leaves the others as they are.
LEMMA KernelAfterIssue ==
    ASSUME TablesInv, KernelInv, NEW u \in Uids, NEW r \in Workload, Kernel!Issue(u, r)
    PROVE  /\ KernelInv'
           /\ request[u] = NoRequest /\ damaged' = damaged /\ replies' = replies
           /\ \A v \in Uids : v # u =>
                  request'[v] = request[v] /\ before'[v] = before[v]
                  /\ (Outstanding(v)' <=> Outstanding(v))
           /\ \A a \in Units : allowed[a] \subseteq allowed'[a]
  <1>1. /\ request' = [request EXCEPT ![u] = r] /\ replies' = replies
        /\ allowed' = Kernel!AllowedOnIssue(u, r)
        /\ before' = [before EXCEPT ![u] = Kernel!Replied] /\ damaged' = damaged
        /\ \A v \in Uids : Outstanding(v) => ~Kernel!Conflict(r, request[v])
        /\ request[u] = NoRequest
    BY DEF Kernel!Issue, Kernel!MayIssue, Outstanding
  <1>2. request \in [Uids -> Workload \cup {NoRequest}] /\ DOMAIN before = Uids
    BY DEF TablesInv, TablesAgree, TypeOK, KernelInv
  <1>3. /\ request'[u] = r /\ request'[u] # NoRequest
        /\ \A v \in Uids : v # u =>
               request'[v] = request[v] /\ before'[v] = before[v]
               /\ (Outstanding(v)' <=> Outstanding(v))
    BY <1>1, <1>2, RequestFits DEF Outstanding, Kernel!Outstanding
  <1>4. /\ allowed' = [a \in Units |-> allowed'[a]]
        /\ \A a \in Units : allowed'[a] = allowed[a] \cup Kernel!Brings(u, r, a)
    BY <1>1 DEF Kernel!AllowedOnIssue
  <1>5. ASSUME NEW v \in Uids PROVE (before[v] \subseteq Kernel!Replied)'
    <2>1. Kernel!Replied' = Kernel!Replied
      BY <1>1 DEF Kernel!Replied
    <2>2. before'[v] = IF v = u THEN Kernel!Replied ELSE before[v]
      BY <1>1, <1>2
    <2> QED BY <2>1, <2>2 DEF KernelInv
  <1>6. ASSUME NEW v \in Uids, NEW w \in Uids, v # w, Outstanding(v)', Outstanding(w)'
        PROVE  ~Kernel!Conflict(request'[v], request'[w])
    <2>1. CASE v = u
      BY <1>1, <1>3, <1>6, <2>1
    <2>2. CASE w = u
      BY <1>1, <1>3, <1>6, <2>2 DEF Kernel!Conflict
    <2>3. CASE v # u /\ w # u
      BY <1>3, <1>6, <2>3 DEF KernelInv
    <2> QED BY <2>1, <2>2, <2>3
  <1>7. ASSUME NEW v \in Uids, NEW a \in Units, Outstanding(v)'
        PROVE  Kernel!Brings(v, request'[v], a) \subseteq allowed'[a]
    <2>1. CASE v = u
      BY <1>3, <1>4, <2>1
    <2>2. CASE v # u
      BY <1>3, <1>4, <1>7, <2>2 DEF KernelInv
    <2> QED BY <2>1, <2>2
  <1>8. Kernel!Issued' # {}
    BY <1>3 DEF Kernel!Issued
  <1>9. DOMAIN before' = Uids /\ damaged' = [m \in Minions |-> [a \in Units |-> damaged'[m][a]]]
    BY <1>1, <1>2 DEF KernelInv
  <1>10. /\ \A q, s : Kernel!Conflict(q, s)' = Kernel!Conflict(q, s)
         /\ \A v, q, a : Kernel!Brings(v, q, a)' = Kernel!Brings(v, q, a)
    BY DEF Kernel!Conflict, Kernel!Range, Kernel!Brings, Kernel!Stamp
  <1> QED BY <1>1, <1>3, <1>4, <1>5, <1>6, <1>7, <1>8, <1>9, <1>10 DEF KernelInv

\* A step that answers request u, with or without success.
Replies(u, reply, error) ==
    /\ Outstanding(u) /\ reply # NoReply
    /\ UNCHANGED <<request, before>>
    /\ replies' = [replies EXCEPT ![u] = reply]
    /\ allowed' = Kernel!AllowedOnReply(u, error)
    /\ damaged' = Kernel!DamagedOnReply(u, error)

\* A reply to one request does not change what the others may read.
LEMMA KernelAfterReply ==
    ASSUME TablesInv, KernelInv, NEW u \in Uids, NEW reply, NEW e, Replies(u, reply, e)
    PROVE  /\ KernelInv'
           /\ ~Outstanding(u)'
           /\ \A v \in Uids : v # u => (Outstanding(v)' <=> Outstanding(v))
           /\ \A v \in Uids : Outstanding(v)' =>
                  \A a \in Kernel!Range(request[v]) :
                      /\ allowed'[a] = allowed[a]
                      /\ \A m \in Minions : damaged'[m][a] = damaged[m][a]
           /\ \A a \in Units :
                  allowed'[a] = IF ~e /\ a \in Kernel!Acknowledges(u) THEN Kernel!Settled(u, a)
                                ELSE allowed[a]
           /\ \A m \in Minions, a \in Units :
                  damaged'[m][a] = IF ~e /\ a \in Kernel!Acknowledges(u) /\ u \notin damaged[m][a]
                                   THEN {} ELSE damaged[m][a]
  <1>1. /\ Outstanding(u) /\ reply # NoReply /\ request' = request /\ before' = before
        /\ replies' = [replies EXCEPT ![u] = reply]
        /\ allowed' = Kernel!AllowedOnReply(u, e)
        /\ damaged' = Kernel!DamagedOnReply(u, e)
    BY DEF Replies
  <1>2. request \in [Uids -> Workload \cup {NoRequest}] /\ DOMAIN replies = Uids
    BY DEF TablesInv, TablesAgree, TypeOK
  <1>3. ~Outstanding(u)' /\ \A v \in Uids : v # u => (Outstanding(v)' <=> Outstanding(v))
    BY <1>1, <1>2 DEF Outstanding, Kernel!Outstanding
  <1>4. /\ allowed' = [a \in Units |-> allowed'[a]]
        /\ \A a \in Units :
               allowed'[a] = IF ~e /\ a \in Kernel!Acknowledges(u) THEN Kernel!Settled(u, a)
                             ELSE allowed[a]
    BY <1>1 DEF Kernel!AllowedOnReply
  <1>5. /\ damaged' = [m \in Minions |-> [a \in Units |-> damaged'[m][a]]]
        /\ \A m \in Minions, a \in Units :
               damaged'[m][a] = IF ~e /\ a \in Kernel!Acknowledges(u) /\ u \notin damaged[m][a]
                                THEN {} ELSE damaged[m][a]
    BY <1>1 DEF Kernel!DamagedOnReply
  <1>6. ASSUME NEW v \in Uids, v # u, Outstanding(v), NEW a \in Kernel!Range(request[v])
        PROVE  a \in Units /\ a \notin Kernel!Acknowledges(u)
    <2>1. request[v] \in Workload /\ ~Kernel!Conflict(request[u], request[v])
      BY <1>1, <1>2, <1>6 DEF KernelInv, Outstanding, Kernel!Outstanding
    <2> QED BY <1>6, <2>1, UnitsOfRequest DEF Kernel!Conflict, Kernel!Acknowledges
  <1>7. ASSUME NEW v \in Uids, Outstanding(v)', NEW a \in Kernel!Range(request[v])
        PROVE  allowed'[a] = allowed[a] /\ \A m \in Minions : damaged'[m][a] = damaged[m][a]
    BY <1>3, <1>4, <1>5, <1>6, <1>7
  <1>8. ASSUME NEW v \in Uids, NEW a \in Units, Outstanding(v)'
        PROVE  Kernel!Brings(v, request'[v], a) \subseteq allowed'[a]
    <2>1. v # u /\ Outstanding(v) /\ v \notin before[u]
      BY <1>3, <1>8 DEF KernelInv, Kernel!Replied, Outstanding, Kernel!Outstanding
    <2>2. Kernel!Brings(v, request[v], a) \subseteq allowed[a]
      BY <2>1 DEF KernelInv
    <2>3. CASE ~e /\ a \in Kernel!Acknowledges(u)
      <3>1. a \notin Kernel!Range(request[v])
        BY <1>6, <2>1, <2>3
      <3>2. ASSUME NEW x \in Kernel!Brings(v, request[v], a) PROVE x \in Kernel!Settled(u, a)
        <4>1. PICK b \in Sharing[a] : x = Kernel!Stamp(v, b)
          BY <3>1, <3>2 DEF Kernel!Brings
        <4> QED BY <2>1, <2>2, <4>1 DEF Kernel!Settled
      <3> QED BY <1>1, <1>4, <2>3, <3>2
    <2>4. CASE ~(~e /\ a \in Kernel!Acknowledges(u))
      BY <1>1, <1>4, <2>2, <2>4
    <2> QED BY <2>3, <2>4
  <1>9. ASSUME NEW v \in Uids, NEW w \in Uids, v # w, Outstanding(v)', Outstanding(w)'
        PROVE  ~Kernel!Conflict(request'[v], request'[w])
    BY <1>1, <1>3, <1>9 DEF KernelInv
  <1>10. Kernel!Issued' # {}
    BY <1>1 DEF Kernel!Issued, Outstanding, Kernel!Outstanding
  <1>11. Kernel!Replied \subseteq Kernel!Replied'
    BY <1>1, <1>2 DEF Kernel!Replied
  <1>12. /\ \A q, s : Kernel!Conflict(q, s)' = Kernel!Conflict(q, s)
         /\ \A v, q, a : Kernel!Brings(v, q, a)' = Kernel!Brings(v, q, a)
    BY DEF Kernel!Conflict, Kernel!Range, Kernel!Brings, Kernel!Stamp
  <1>13. DOMAIN before' = Uids /\ \A v \in Uids : before'[v] \subseteq Kernel!Replied'
    BY <1>1, <1>11 DEF KernelInv
  <1>14. KernelInv'
    BY <1>4, <1>5, <1>8, <1>9, <1>10, <1>12, <1>13 DEF KernelInv
  <1> QED BY <1>3, <1>4, <1>5, <1>7, <1>14

-------------------------------------------------------------------------------
(* What a minion does to its file. *)

\* The units a command is about, at the places it names.
LEMMA CommandPlaces ==
    ASSUME TablesInv, RoutesInv, NEW c \in commands
    PROVE  /\ c.uid \in Uids /\ request[c.uid] \in Workload /\ c.op = request[c.uid].op
           /\ c.minion \in Minions /\ c.offset \in Nat /\ c.length \in Nat \ {0}
           /\ Place(c) \subseteq 0..(ChunkSize - 1)
           /\ \A l \in Place(c) : \E x \in Kernel!Range(request[c.uid]) :
                  /\ x \in Units /\ c.minion \in Keepers(x) /\ PlaceOf(x) = l
                  /\ c.op = "write" => c.data[l - c.offset] = Kernel!Stamp(c.uid, x)
  <1> DEFINE u == c.uid
  <1>1. c \in Datagrams
    BY DEF Datagrams
  <1>2. u \in Uids /\ request[u] \in Workload /\ Len(Segments(u)) \in Nat
    BY <1>1, DatagramMade, RequestFits, SegmentsHaveMinions DEF Segments
  <1>3. PICK n \in 0..(sent[u] - 1) : c = Command(u, n)
    BY DEF RoutesInv
  <1>4. n \in Calls(u)
    <2>1. sent[u] \in Nat /\ sent[u] <= 2 * Len(Segments(u))
      BY <1>2, RequestFits DEF RoutesInv, TablesInv, TablesAgree, TypeOK
    <2> QED BY <1>2, <1>3, <2>1 DEF Calls
  <1>5. /\ c.op = request[u].op /\ c.minion \in Minions /\ c.offset \in Nat
        /\ c.length \in Nat \ {0} /\ c.offset + c.length <= ChunkSize
    BY <1>2, <1>3, <1>4, CommandFields
  <1>6. Place(c) \subseteq 0..(ChunkSize - 1)
    BY <1>5, StripingAssumption DEF Place
  <1>7. ASSUME NEW l \in Place(c)
        PROVE  \E x \in Kernel!Range(request[u]) :
                  /\ x \in Units /\ c.minion \in Keepers(x) /\ PlaceOf(x) = l
                  /\ c.op = "write" => c.data[l - c.offset] = Kernel!Stamp(u, x)
    <2> DEFINE k == l - c.offset
               x == request[u].offset + Segments(u)[SegmentOf(n)].bufferOffset + k
    <2>1. k \in 0..(c.length - 1) /\ c.offset + k = l
      BY <1>5 DEF Place
    <2> HIDE DEF k
    <2>2. /\ x \in Kernel!Range(request[u]) /\ x \in Units
          /\ c.minion \in Keepers(x) /\ PlaceOf(x) = c.offset + k
          /\ c.op = "write" => c.data[k] = Kernel!Stamp(u, x)
      BY <1>2, <1>3, <1>4, <2>1, CommandUnits
    <2> HIDE DEF x
    <2> QED BY <2>1, <2>2 DEF k
  <1> QED BY <1>2, <1>5, <1>6, <1>7

\* The units of c at the places written have reached the file.
HasWritten(c, written) ==
    /\ \A m \in Minions, l \in 0..(ChunkSize - 1) :
           file'[m][l] = IF m = c.minion /\ l \in written THEN c.data[l - c.offset] ELSE file[m][l]
    /\ damaged' = [m \in Minions |-> [a \in Units |-> damaged'[m][a]]]
    /\ \A m \in Minions, a \in Units :
           damaged'[m][a] =
               IF ~Outstanding(c.uid) /\ m = c.minion /\ a \in KeptAt(m, written)
               THEN Kernel!Issued ELSE damaged[m][a]

\* What the minion answers to c: what its file holds, or nothing of use.
Answers(c, written, result, data) ==
    /\ answers' = answers \cup {Answer(c, result, data)}
    /\ c.op = "read" =>
           /\ written = {}
           /\ DOMAIN data = 0..(c.length - 1)
           /\ \A k \in 0..(c.length - 1) :
                  data[k] = IF result THEN file[c.minion][c.offset + k] ELSE Garbage
    /\ c.op = "write" => data = << >> /\ (result => written = Place(c))

\* A step that writes nothing, and one that does.
LEMMA NothingWritten ==
    ASSUME KernelInv, NEW c, UNCHANGED <<file, damaged>>
    PROVE  HasWritten(c, {})
  <1>1. \A m \in Minions, a \in Units : a \notin KeptAt(m, {})
    BY DEF KeptAt
  <1> QED BY <1>1 DEF HasWritten, KernelInv

LEMMA SomethingWritten ==
    ASSUME TypeOK, KernelInv, NEW c, NEW written, c.minion \in Minions, Overwrite(c, written)
    PROVE  HasWritten(c, written)
  <1>1. \A m \in Minions, l \in 0..(ChunkSize - 1) :
            file'[m][l] = IF m = c.minion /\ l \in written THEN c.data[l - c.offset] ELSE file[m][l]
    <2>1. DOMAIN file = Minions /\ \A m \in Minions : DOMAIN file[m] = 0..(ChunkSize - 1)
      BY DEF TypeOK
    <2> QED BY <2>1 DEF Overwrite, Written
  <1>2. CASE Outstanding(c.uid)
    <2>1. damaged' = damaged
      BY <1>2 DEF Overwrite
    <2> QED BY <1>1, <1>2, <2>1 DEF HasWritten, KernelInv
  <1>3. CASE ~Outstanding(c.uid)
    <2>1. damaged' = Kernel!DamagedOnHit(c.minion, KeptAt(c.minion, written))
      BY <1>3 DEF Overwrite
    <2>2. /\ damaged' = [i \in Minions |-> [a \in Units |-> damaged'[i][a]]]
          /\ \A i \in Minions, a \in Units :
                 damaged'[i][a] = IF i = c.minion /\ a \in KeptAt(c.minion, written)
                                  THEN Kernel!Issued ELSE damaged[i][a]
      BY <2>1, HitEffect
    <2> QED BY <1>1, <1>3, <2>2 DEF HasWritten
  <1> QED BY <1>2, <1>3

\* Every way in which a minion may deal with a command.
LEMMA MinionStep ==
    ASSUME TablesInv, RoutesInv, KernelInv, NEW c \in commands,
           RunMinionCommand(c) \/ MinionCommandFails(c) \/ DuplicateCommand(c)
    PROVE  \E written, result, data :
               /\ written \in SUBSET Place(c) /\ result \in BOOLEAN
               /\ HasWritten(c, written) /\ Answers(c, written, result, data)
  <1>1. c.minion \in Minions /\ c.op \in {"read", "write"} /\ TypeOK
    BY CommandPlaces, RequestFits DEF TablesInv, TablesAgree
  <1>2. good[c.minion] \in BOOLEAN
    BY <1>1 DEF TypeOK
  <1>3. CASE MinionReadCommand(c)
    <2>1. /\ c.op = "read" /\ UNCHANGED <<file, damaged>>
          /\ answers' = answers \cup {Answer(c, good[c.minion], ReadFromFile(c))}
      BY <1>3 DEF MinionReadCommand, minionVars
    <2>2. HasWritten(c, {})
      BY <2>1, NothingWritten
    <2>3. Answers(c, {}, good[c.minion], ReadFromFile(c))
      BY <2>1 DEF Answers, ReadFromFile
    <2> QED BY <1>2, <2>2, <2>3
  <1>4. CASE MinionWriteCommand(c)
    <2>1. /\ c.op = "write"
          /\ answers' = answers \cup {Answer(c, good[c.minion], << >>)}
          /\ IF good[c.minion] THEN Overwrite(c, Place(c)) ELSE UNCHANGED <<file, damaged>>
      BY <1>4 DEF MinionWriteCommand
    <2>2. CASE good[c.minion]
      <3>1. HasWritten(c, Place(c))
        BY <1>1, <2>1, <2>2, SomethingWritten
      <3>2. Answers(c, Place(c), good[c.minion], << >>)
        BY <2>1 DEF Answers
      <3> QED BY <1>2, <3>1, <3>2
    <2>3. CASE ~good[c.minion]
      <3>1. HasWritten(c, {})
        BY <2>1, <2>3, NothingWritten
      <3>2. Answers(c, {}, good[c.minion], << >>)
        BY <2>1, <2>3 DEF Answers
      <3> QED BY <1>2, <3>1, <3>2
    <2> QED BY <2>2, <2>3
  <1>5. CASE MinionCommandFails(c)
    <2> DEFINE garbage == [k \in 0..(c.length - 1) |-> Garbage]
    <2>1. CASE c.op = "read"
      <3>1. /\ UNCHANGED <<file, damaged>>
            /\ answers' = answers \cup {Answer(c, FALSE, garbage)}
        BY <1>5, <2>1 DEF MinionCommandFails
      <3>2. HasWritten(c, {})
        BY <3>1, NothingWritten
      <3>3. Answers(c, {}, FALSE, garbage)
        BY <2>1, <3>1 DEF Answers
      <3> QED BY <3>2, <3>3
    <2>2. CASE c.op = "write"
      <3>1. /\ \E written \in SUBSET Place(c) : Overwrite(c, written)
            /\ answers' = answers \cup {Answer(c, FALSE, << >>)}
        BY <1>5, <2>2 DEF MinionCommandFails
      <3>2. PICK written \in SUBSET Place(c) : Overwrite(c, written)
        BY <3>1
      <3>3. HasWritten(c, written)
        BY <1>1, <3>2, SomethingWritten
      <3>4. Answers(c, written, FALSE, << >>)
        BY <2>2, <3>1 DEF Answers
      <3> QED BY <3>3, <3>4
    <2> QED BY <1>1, <2>1, <2>2
  <1> QED BY <1>3, <1>4, <1>5 DEF RunMinionCommand, DuplicateCommand

\* A minion that starts again has a blank file.
LEMMA RestartStep ==
    ASSUME TablesInv, KernelInv, NEW i \in Minions, RestartMinion(i)
    PROVE  /\ \A m \in Minions, l \in 0..(ChunkSize - 1) :
                  file'[m][l] = IF m = i THEN Blank ELSE file[m][l]
           /\ damaged' = [m \in Minions |-> [a \in Units |-> damaged'[m][a]]]
           /\ \A m \in Minions, a \in Units :
                  damaged'[m][a] = IF m = i /\ i \in Keepers(a) THEN Kernel!Issued
                                   ELSE damaged[m][a]
  <1>1. DOMAIN file = Minions /\ \A m \in Minions : DOMAIN file[m] = 0..(ChunkSize - 1)
    BY DEF TablesInv, TablesAgree, TypeOK
  <1>2. \A m \in Minions, l \in 0..(ChunkSize - 1) :
            file'[m][l] = IF m = i THEN Blank ELSE file[m][l]
    BY <1>1 DEF RestartMinion
  <1>3. damaged' = Kernel!DamagedOnHit(i, KeptAt(i, 0..(ChunkSize - 1)))
    BY DEF RestartMinion
  <1>4. ASSUME NEW a \in Units PROVE a \in KeptAt(i, 0..(ChunkSize - 1)) <=> i \in Keepers(a)
    <2>1. a \in Nat /\ a < DriveSize
      BY StripingAssumption DEF Units, DriveSize
    <2>2. PlaceOf(a) \in 0..(ChunkSize - 1)
      BY <2>1, UnitHasMinion DEF PlaceOf
    <2> QED BY <2>2 DEF KeptAt
  <1> QED BY <1>2, <1>3, <1>4, HitEffect

\* Every step keeps the kernel's side.
LEMMA NextPreservesKernelInv ==
    ASSUME TablesInv, RoutesInv, TicketsInv, KernelInv, [Next]_vars
    PROVE  KernelInv'
  <1>1. damaged = [m \in Minions |-> [a \in Units |-> damaged[m][a]]]
    BY DEF KernelInv
  <1>2. ASSUME NEW u \in Uids, NEW r \in Workload, GetTaskArgs(u, r) PROVE KernelInv'
    BY <1>2, KernelAfterIssue DEF GetTaskArgs
  <1>3. ASSUME NEW c \in commands,
               RunMinionCommand(c) \/ MinionCommandFails(c) \/ DuplicateCommand(c)
        PROVE  KernelInv'
    BY <1>3, MinionAnswers, MinionStep, KernelKept DEF HasWritten
  <1>4. ASSUME NEW a \in answers, OnMinionFDWakeUp(a) \/ DuplicateAnswer(a) PROVE KernelInv'
    <2>1. UNCHANGED <<request, before>> /\ HandleAnswer(a)
      BY <1>4 DEF OnMinionFDWakeUp, DuplicateAnswer
    <2>2. CASE UNCHANGED <<replies, allowed, damaged>>
      BY <1>1, <2>1, <2>2, KernelKept
    <2>3. CASE ~ UNCHANGED <<replies, allowed, damaged>>
      <3> DEFINE u == a.uid
                 t == tickets'[u]
      <3>1. m_map[a.minion][a.uid] # NoCallback
        BY <2>1, <2>3 DEF HandleAnswer
      <3>2. u \in Uids /\ Outstanding(u) /\ RepliesWith(u, t)
        BY <2>1, <2>3, <3>1, AnswerRecorded
      <3>3. Replies(u, ReplyOf(u, TaskResult(t)), ~TaskResult(t).result)
        BY <2>1, <3>2, ReplyIsARecord DEF Replies, RepliesWith
      <3> QED BY <3>2, <3>3, KernelAfterReply
    <2> QED BY <2>2, <2>3
  <1>5. ASSUME NEW m \in Minions, RestartMinion(m) PROVE KernelInv'
    BY <1>5, RestartStep, KernelKept DEF RestartMinion
  <1>6. ASSUME NEW u \in Uids, Worker(u) PROVE KernelInv'
    <2>1. UNCHANGED kernelVars
      BY <1>6 DEF Worker, AddTask, SendMirror, SendMirrorFails
    <2> QED BY <1>1, <2>1, KernelKept DEF kernelVars
  <1>7. CASE LoseDatagram \/ UNCHANGED vars
    <2>1. UNCHANGED kernelVars
      BY <1>7 DEF LoseDatagram, vars
    <2> QED BY <1>1, <2>1, KernelKept DEF kernelVars
  <1> QED BY <1>2, <1>3, <1>4, <1>5, <1>6, <1>7 DEF Next, Minion, ManagerReactor

-------------------------------------------------------------------------------
(* The bytes that are about. *)

\* Every byte belongs to a write or to none.
KnownBytes(data) == \A k \in DOMAIN data : data[k] \in Kernel!Values

DataInv ==
    /\ \A m \in Minions, l \in 0..(ChunkSize - 1) : file[m][l] \in Kernel!Values
    /\ \A d \in answers : KnownBytes(d.data)
    /\ \A u \in Uids : tickets[u] # << >> =>
           \A n \in Calls(u) :
               MsgOf(tickets[u], n) # NoMsg => KnownBytes(MsgOf(tickets[u], n).data)

\* A new ticket has no records.
LEMMA NewTicketEmpty ==
    ASSUME NEW u \in Uids, request[u] \in Workload, NEW n \in Calls(u)
    PROVE  MsgOf(NewTicket(u, request[u].op, Segments(u)), n) = NoMsg
  <1>1. SegmentOf(n) \in DOMAIN Segments(u) /\ RoleOf(n) \in Roles
    BY CommandFields
  <1> QED BY <1>1 DEF MsgOf, NewTicket, SegmentState

\* What creating a ticket does.
LEMMA TicketCreated ==
    ASSUME TablesInv, NEW u \in Uids, AddTask(u)
    PROVE  /\ request[u] \in Workload /\ tickets[u] = << >> /\ task[u] = "queued"
           /\ UNCHANGED <<kernelVars, m_map, sent, commands, answers, minionVars, faults>>
           /\ tickets'[u] = NewTicket(u, request[u].op, Segments(u))
           /\ \A v \in Uids : v # u => tickets'[v] = tickets[v]
  <1>1. request[u] \in Workload /\ tickets[u] = << >> /\ DOMAIN tickets = Uids /\ task[u] = "queued"
    BY DEF AddTask, TablesInv, TablesAgree, TypeOK, Progress
  <1>2. ValidateRange(request[u].offset, request[u].length)
    BY <1>1, RequestFits DEF ValidateRange
  <1>3. /\ tickets' = [tickets EXCEPT ![u] = NewTicket(u, request[u].op, Segments(u))]
        /\ UNCHANGED <<kernelVars, m_map, sent, commands, answers, minionVars, faults>>
    BY <1>2 DEF AddTask
  <1> QED BY <1>1, <1>3

\* What the values are.
LEMMA ValuesAre ==
    /\ Blank \in Kernel!Values /\ Garbage \in Kernel!Values
    /\ \A u \in Uids, a \in Units : Kernel!Stamp(u, a) \in Kernel!Values
  BY DEF Kernel!Values

\* The files start blank.
LEMMA InitEstablishesDataInv == Init => DataInv
  BY ValuesAre DEF Init, DataInv

\* Every step keeps the bytes known.
LEMMA NextPreservesDataInv ==
    ASSUME TablesInv, RoutesInv, TicketsInv, KernelInv, DataInv, [Next]_vars
    PROVE  DataInv'
  <1>0. Kernel!Values' = Kernel!Values
    BY DEF Kernel!Values, Kernel!Stamp
  <1>1. /\ request \in [Uids -> Workload \cup {NoRequest}] /\ \A u \in Uids : Progress(u)
    BY DEF TablesInv, TablesAgree, TypeOK
  <1>2. \A u \in Uids : tickets[u] # << >> => request[u] \in Workload
    BY <1>1 DEF Progress
  <1>3. ASSUME NEW u \in Uids, tickets[u] # << >>, tickets'[u] = tickets[u],
               request'[u] = request[u], NEW n \in Calls(u)', MsgOf(tickets'[u], n) # NoMsg
        PROVE  KnownBytes(MsgOf(tickets'[u], n).data)
    BY <1>3, CallsFixed DEF DataInv
  <1>4. ASSUME NEW u \in Uids, NEW r \in Workload, GetTaskArgs(u, r) PROVE DataInv'
    <2>1. /\ request[u] = NoRequest /\ request' = [request EXCEPT ![u] = r]
          /\ UNCHANGED <<tickets, answers, file>>
      BY <1>4 DEF GetTaskArgs, Kernel!Issue, Kernel!MayIssue, minionVars
    <2>2. \A v \in Uids : tickets[v] # << >> => request'[v] = request[v]
      BY <1>1, <1>2, <2>1, RequestFits
    <2> QED BY <1>0, <1>3, <2>1, <2>2 DEF DataInv, KnownBytes
  <1>5. ASSUME NEW u \in Uids, AddTask(u) PROVE DataInv'
    <2>1. /\ UNCHANGED <<request, answers, file>> /\ request[u] \in Workload
          /\ tickets'[u] = NewTicket(u, request[u].op, Segments(u))
          /\ \A v \in Uids : v # u => tickets'[v] = tickets[v]
      BY <1>5, TicketCreated DEF kernelVars, minionVars
    <2>2. ASSUME NEW n \in Calls(u)' PROVE MsgOf(tickets'[u], n) = NoMsg
      BY <2>1, <2>2, CallsFixed, NewTicketEmpty
    <2>3. ASSUME NEW v \in Uids, tickets'[v] # << >>, NEW n \in Calls(v)',
                 MsgOf(tickets'[v], n) # NoMsg
          PROVE  KnownBytes(MsgOf(tickets'[v], n).data)
      BY <1>3, <2>1, <2>2, <2>3
    <2> QED BY <1>0, <2>1, <2>3 DEF DataInv, KnownBytes
  <1>6. ASSUME NEW c \in commands,
               RunMinionCommand(c) \/ MinionCommandFails(c) \/ DuplicateCommand(c)
        PROVE  DataInv'
    <2>1. UNCHANGED <<request, tickets>>
      BY <1>6, MinionAnswers DEF taskVars
    <2>2. PICK written, result, data :
              /\ written \in SUBSET Place(c) /\ result \in BOOLEAN
              /\ HasWritten(c, written) /\ Answers(c, written, result, data)
      BY <1>6, MinionStep
    <2>3. /\ c.uid \in Uids /\ request[c.uid] \in Workload /\ c.op \in {"read", "write"}
          /\ c.op = "write" => \A l \in Place(c) : c.data[l - c.offset] \in Kernel!Values
      BY CommandPlaces, RequestFits, ValuesAre
    <2>4. c.op = "read" => \A k \in 0..(c.length - 1) : c.offset + k \in 0..(ChunkSize - 1)
      <3>1. c.offset \in Nat /\ c.length \in Nat /\ Place(c) \subseteq 0..(ChunkSize - 1)
        BY CommandPlaces
      <3>2. ASSUME NEW k \in 0..(c.length - 1) PROVE c.offset + k \in Place(c)
        BY <3>1 DEF Place
      <3> QED BY <3>1, <3>2
    <2>5. ASSUME NEW m \in Minions, NEW l \in 0..(ChunkSize - 1)
          PROVE  file'[m][l] \in Kernel!Values
      <3>1. c.op = "read" => written = {}
        BY <2>2 DEF Answers
      <3> QED BY <2>2, <2>3, <3>1 DEF HasWritten, DataInv
    <2>6. KnownBytes(data)
      <3>1. CASE c.op = "read"
        <4>1. c.minion \in Minions
          BY CommandPlaces
        <4> QED BY <2>2, <2>4, <3>1, <4>1, ValuesAre DEF Answers, KnownBytes, DataInv
      <3>2. CASE c.op = "write"
        <4>1. data = << >>
          BY <2>2, <3>2 DEF Answers
        <4> QED BY <4>1 DEF KnownBytes
      <3> QED BY <2>3, <3>1, <3>2
    <2>7. \A d \in answers' : KnownBytes(d.data)
      <3>1. Answer(c, result, data).data = data /\ answers' = answers \cup {Answer(c, result, data)}
        BY <2>2 DEF Answer, Answers
      <3> QED BY <2>6, <3>1 DEF DataInv
    <2> QED BY <1>0, <1>3, <2>1, <2>5, <2>7 DEF DataInv, KnownBytes
  <1>7. ASSUME NEW a \in answers, OnMinionFDWakeUp(a) \/ DuplicateAnswer(a) PROVE DataInv'
    <2>1. UNCHANGED <<request, file>> /\ answers' \subseteq answers /\ HandleAnswer(a)
      BY <1>7, AnswerTaken DEF minionVars
    <2>2. ASSUME NEW v \in Uids, tickets'[v] # << >>, NEW n \in Calls(v)',
                 MsgOf(tickets'[v], n) # NoMsg
          PROVE  KnownBytes(MsgOf(tickets'[v], n).data)
      <3>1. CASE tickets'[v] = tickets[v]
        BY <1>3, <2>1, <2>2, <3>1
      <3>2. CASE tickets'[v] # tickets[v]
        <4>1. m_map[a.minion][a.uid] # NoCallback
          BY <2>1, <3>2 DEF HandleAnswer
        <4> DEFINE j == CallNo(m_map[a.minion][a.uid])
        <4>2. v = a.uid /\ Recorded(v, tickets[v], j, MessageOf(a), tickets'[v])
              /\ tickets[v] # << >>
          BY <2>1, <3>2, <4>1, AnswerRecorded
        <4> HIDE DEF j
        <4>3. n \in Calls(v)
          BY <2>1, <2>2, CallsFixed
        <4>4. MessageOf(a).data = a.data
          BY DEF MessageOf
        <4>5. CASE n = j
          BY <4>2, <4>3, <4>4, <4>5 DEF Recorded, DataInv
        <4>6. CASE n # j
          BY <2>2, <4>2, <4>3, <4>6 DEF Recorded, DataInv
        <4> QED BY <4>5, <4>6
      <3> QED BY <3>1, <3>2
    <2> QED BY <1>0, <2>1, <2>2 DEF DataInv, KnownBytes
  <1>8. ASSUME NEW m \in Minions, RestartMinion(m) PROVE DataInv'
    <2>1. UNCHANGED <<request, tickets, answers>>
      BY <1>8 DEF RestartMinion, taskVars
    <2>2. \A i \in Minions, l \in 0..(ChunkSize - 1) : file'[i][l] \in Kernel!Values
      BY <1>8, RestartStep, ValuesAre DEF DataInv
    <2> QED BY <1>0, <1>3, <2>1, <2>2 DEF DataInv, KnownBytes
  <1>9. CASE \/ \E u \in Uids : SendMirror(u) \/ SendMirrorFails(u)
             \/ LoseDatagram \/ UNCHANGED vars
    <2>1. UNCHANGED <<request, tickets, file>> /\ answers' \subseteq answers
      BY <1>9 DEF SendMirror, SendMirrorFails, LoseDatagram, vars, kernelVars, taskVars, minionVars
    <2> QED BY <1>0, <1>3, <2>1 DEF DataInv, KnownBytes
  <1> QED BY <1>4, <1>5, <1>6, <1>7, <1>8, <1>9 DEF Next, Worker, Minion, ManagerReactor

-------------------------------------------------------------------------------
(* What the minions hold. *)

\* What a mirror m that has answered request u with success vouches for: it holds what was
\* written, unless it was damaged since, or it has returned what may be read.
Holds(u, m, data) ==
    \A a \in Kernel!Range(request[u]) :
        IF request[u].op = "write"
        THEN u \in damaged[m][a] \/ file[m][PlaceOf(a)] \in Kernel!Settled(u, a)
        ELSE /\ a - request[u].offset \in DOMAIN data
             /\ damaged[m][a] = {} => data[a - request[u].offset] \in allowed[a]

\* The mirrors whose success is recorded in ticket t vouch for it.
VouchedFor(u, t) ==
    \A n \in Calls(u) : MsgOf(t, n) # NoMsg /\ MsgOf(t, n).result =>
        Holds(u, Command(u, n).minion, MsgOf(t, n).data)

Pending(u) == Outstanding(u) /\ request[u] \in Promised

UnitsHold ==
    \A a \in Units : \A m \in Keepers(a) :
        damaged[m][a] = {} => file[m][PlaceOf(a)] \in allowed[a]

HoldsInv ==
    /\ UnitsHold
    /\ \A d \in answers : Pending(d.uid) /\ d.result => Holds(d.uid, d.minion, d.data)
    /\ \A u \in Uids : Pending(u) /\ tickets[u] # << >> => VouchedFor(u, tickets[u])

DriveInv == TablesInv /\ RoutesInv /\ OrderInv /\ TicketsInv /\ KernelInv

\* The files are blank at first, and so is the drive.
LEMMA InitEstablishesHoldsInv == Init => HoldsInv
  <1> SUFFICES ASSUME Init PROVE HoldsInv
    OBVIOUS
  <1>1. /\ request = [u \in Uids |-> NoRequest] /\ answers = {} /\ tickets = [u \in Uids |-> << >>]
        /\ allowed = [a \in Units |-> {Blank}]
        /\ file = [m \in Minions |-> [l \in 0..(ChunkSize - 1) |-> Blank]]
    BY DEF Init, Kernel!Init
  <1>2. ASSUME NEW a \in Units, NEW m \in Keepers(a)
        PROVE  m \in Minions /\ PlaceOf(a) \in 0..(ChunkSize - 1)
    <2>1. a \in Nat /\ a < DriveSize
      BY StripingAssumption DEF Units, DriveSize
    <2> QED BY <2>1, UnitHasMinion, BackupIsMinion DEF Keepers, PlaceOf
  <1>3. UnitsHold
    BY <1>1, <1>2 DEF UnitsHold
  <1> QED BY <1>1, <1>3 DEF HoldsInv

\* A unit is kept by minions of the drive, at a place of their files.
LEMMA KeepersFit ==
    ASSUME NEW a \in Units
    PROVE  Keepers(a) \subseteq Minions /\ PlaceOf(a) \in 0..(ChunkSize - 1)
  <1>1. a \in Nat /\ a < DriveSize
    BY StripingAssumption DEF Units, DriveSize
  <1> QED BY <1>1, UnitHasMinion, BackupIsMinion DEF Keepers, PlaceOf

\* Both mirrors of a promised request keep its units.
LEMMA MirrorKeeps ==
    ASSUME NEW u \in Uids, request[u] \in Promised, NEW n \in Calls(u),
           NEW a \in Kernel!Range(request[u])
    PROVE  /\ a \in Units /\ Command(u, n).minion \in Keepers(a)
           /\ Command(u, n).minion \in Minions /\ PlaceOf(a) \in 0..(ChunkSize - 1)
  <1>1. request[u] \in Workload /\ Calls(u) = {0, 1}
        /\ Keepers(a) = {Command(u, 0).minion, Command(u, 1).minion}
    BY PromisedCalls
  <1>2. a \in Units /\ n \in {0, 1}
    BY <1>1, UnitsOfRequest
  <1>3. Command(u, n).minion \in Keepers(a)
    BY <1>1, <1>2
  <1> QED BY <1>2, <1>3, KeepersFit

\* What a write in flight puts where unit a is kept is a value that a may have, and one
\* that an acknowledgement of another write to a does not rule out.
LEMMA WriteInTime ==
    ASSUME TablesInv, RoutesInv, KernelInv, NEW c \in commands, c.op = "write",
           Outstanding(c.uid), NEW a \in Units, c.minion \in Keepers(a), PlaceOf(a) \in Place(c)
    PROVE  LET value == c.data[PlaceOf(a) - c.offset]
           IN /\ value \in allowed[a]
              /\ \A u \in Uids :
                     /\ Pending(u) /\ request[u].op = "write" /\ a \in Kernel!Range(request[u])
                     => value \in Kernel!Settled(u, a)
  <1> DEFINE v == c.uid
             value == c.data[PlaceOf(a) - c.offset]
  <1>1. PICK x \in Kernel!Range(request[v]) :
            /\ x \in Units /\ c.minion \in Keepers(x) /\ PlaceOf(x) = PlaceOf(a)
            /\ value = Kernel!Stamp(v, x)
    BY CommandPlaces
  <1>2. v \in Uids /\ request[v].op = "write"
    BY CommandPlaces
  <1>3. x = a \/ x \in Sharing[a]
    BY <1>1 DEF Sharing
  <1>4. Kernel!Brings(v, request[v], a) \subseteq allowed[a]
    BY <1>2 DEF KernelInv
  <1>5. value \in allowed[a]
    <2>1. value \in Kernel!Brings(v, request[v], a)
      BY <1>1, <1>2, <1>3 DEF Kernel!Brings
    <2> QED BY <1>4, <2>1
  <1>6. ASSUME NEW u \in Uids, Pending(u), request[u].op = "write", a \in Kernel!Range(request[u])
        PROVE  value \in Kernel!Settled(u, a)
    <2>1. CASE u = v
      <3>1. /\ PlaceOf(a) = Segments(u)[1].localOffset + (a - request[u].offset)
            /\ PlaceOf(x) = Segments(u)[1].localOffset + (x - request[u].offset)
            /\ request[u] \in Workload
        BY <1>1, <1>6, <2>1, PromisedCalls DEF Pending
      <3>2. a \in Nat /\ x \in Nat /\ request[u].offset \in Nat
        BY <1>1, <1>6, <2>1, <3>1, UnitsOfRequest, RequestFits
      <3>3. Segments(u)[1].localOffset \in Nat
        <4>1. 0 \in Calls(u) /\ Command(u, 0).offset = Segments(u)[1].localOffset
          BY <1>6, PromisedCalls DEF Pending
        <4> QED BY <3>1, <4>1, CommandFields
      <3>4. x = a
        BY <1>1, <3>1, <3>2, <3>3
      <3> QED BY <1>1, <2>1, <3>4 DEF Kernel!Settled
    <2>2. CASE u # v
      <3>1. ~Kernel!Conflict(request[u], request[v])
        BY <1>2, <1>6, <2>2 DEF KernelInv, Pending
      <3>2. x # a
        BY <1>1, <1>6, <3>1 DEF Kernel!Conflict
      <3>3. v \in Uids \ before[u]
        BY <1>2 DEF KernelInv, Kernel!Replied, Outstanding, Kernel!Outstanding
      <3> QED BY <1>1, <1>3, <1>5, <3>2, <3>3 DEF Kernel!Settled
    <2> QED BY <2>1, <2>2
  <1> QED BY <1>5, <1>6

\* What a mirror vouches for stays so, as long as its copies are only damaged or
\* overwritten with what the request's acknowledgement does not rule out.
LEMMA HoldsKept ==
    ASSUME NEW u \in Uids, NEW m, NEW data, Holds(u, m, data),
           request'[u] = request[u], before'[u] = before[u],
           \A a \in Kernel!Range(request[u]) :
               /\ allowed[a] \subseteq allowed'[a]
               /\ u \in damaged[m][a] => u \in damaged'[m][a]
               /\ damaged'[m][a] = {} => damaged[m][a] = {}
               /\ request[u].op = "write" =>
                      \/ file'[m][PlaceOf(a)] = file[m][PlaceOf(a)]
                      \/ file'[m][PlaceOf(a)] \in Kernel!Settled(u, a)
                      \/ u \in damaged'[m][a]
    PROVE  Holds(u, m, data)'
  <1>1. \A r : Kernel!Range(r)' = Kernel!Range(r)
    BY DEF Kernel!Range
  <1>2. ASSUME NEW a \in Kernel!Range(request[u])
        PROVE  Kernel!Settled(u, a) \subseteq Kernel!Settled(u, a)'
    BY DEF Kernel!Settled, Kernel!Stamp
  <1>3. ASSUME NEW a \in Kernel!Range(request[u]), request[u].op = "write"
        PROVE  u \in damaged'[m][a] \/ file'[m][PlaceOf(a)] \in Kernel!Settled(u, a)'
    BY <1>2, <1>3 DEF Holds
  <1>4. ASSUME NEW a \in Kernel!Range(request[u]), request[u].op # "write"
        PROVE  /\ a - request[u].offset \in DOMAIN data
               /\ damaged'[m][a] = {} => data[a - request[u].offset] \in allowed'[a]
    BY <1>4 DEF Holds
  <1>5. \A a : PlaceOf(a)' = PlaceOf(a)
    BY DEF PlaceOf
  <1> QED BY <1>1, <1>3, <1>4, <1>5 DEF Holds

\* What a ticket's records vouch for after a step.
LEMMA VouchedAfter ==
    ASSUME NEW u \in Uids, request'[u] = request[u],
           \A n \in Calls(u) : \A m, data :
               /\ MsgOf(tickets'[u], n) # NoMsg /\ MsgOf(tickets'[u], n).result
               /\ m = Command(u, n).minion /\ data = MsgOf(tickets'[u], n).data
               => Holds(u, m, data)'
    PROVE  VouchedFor(u, tickets[u])'
  <1>1. Calls(u)' = Calls(u) /\ \A n : Command(u, n)' = Command(u, n)
    BY CallsFixed
  <1> SUFFICES ASSUME NEW n \in Calls(u)', (MsgOf(tickets[u], n) # NoMsg)',
                      MsgOf(tickets[u], n).result'
               PROVE  Holds(u, Command(u, n).minion, MsgOf(tickets[u], n).data)'
    BY DEF VouchedFor
  <1>2. PICK m, data : m = Command(u, n).minion /\ data = MsgOf(tickets'[u], n).data
    OBVIOUS
  <1>3. Holds(u, m, data)'
    BY <1>1, <1>2
  <1>4. m = Command(u, n)'.minion /\ data = MsgOf(tickets[u], n)'.data
    BY <1>1, <1>2 DEF MsgOf
  <1> QED BY <1>3, <1>4 DEF Holds

\* A step that leaves all of it alone, or loses answers.
LEMMA HoldsInvKept ==
    ASSUME DriveInv, HoldsInv,
           UNCHANGED <<request, replies, allowed, before, damaged, tickets, file>>,
           answers' \subseteq answers
    PROVE  HoldsInv'
  <1>1. ASSUME NEW u \in Uids, NEW m, NEW data PROVE Holds(u, m, data)' = Holds(u, m, data)
    BY DEF Holds, PlaceOf, Kernel!Range, Kernel!Settled, Kernel!Stamp
  <1>2. \A u \in Uids : (Pending(u)' <=> Pending(u)) /\ Calls(u)' = Calls(u)
            /\ \A n : Command(u, n)' = Command(u, n)
    BY CallsFixed DEF Pending, Outstanding, Kernel!Outstanding
  <1>3. \A d \in answers : d.uid \in Uids
    BY DEF DriveInv, TablesInv, TablesAgree, TypeOK, Datagrams
  <1>4. UnitsHold'
    BY DEF HoldsInv, UnitsHold, Keepers, PlaceOf
  <1>5. \A d \in answers' : Pending(d.uid)' /\ d.result => Holds(d.uid, d.minion, d.data)'
    BY <1>1, <1>2, <1>3 DEF HoldsInv
  <1>6. ASSUME NEW u \in Uids, Pending(u)', tickets'[u] # << >> PROVE VouchedFor(u, tickets[u])'
    <2>1. VouchedFor(u, tickets[u])
      BY <1>2, <1>6 DEF HoldsInv
    <2>2. ASSUME NEW n \in Calls(u), NEW m, NEW data,
                 MsgOf(tickets'[u], n) # NoMsg, MsgOf(tickets'[u], n).result,
                 m = Command(u, n).minion, data = MsgOf(tickets'[u], n).data
          PROVE  Holds(u, m, data)'
      BY <1>1, <2>1, <2>2 DEF VouchedFor
    <2> QED BY <2>2, VouchedAfter
  <1> QED BY <1>4, <1>5, <1>6 DEF HoldsInv

\* What is on its way and what is recorded, when a step keeps what mirrors vouch for.
LEMMA HoldsInvFrom ==
    ASSUME DriveInv, HoldsInv, UnitsHold',
           \A u \in Uids : Pending(u)' /\ Pending(u) => request'[u] = request[u],
           \A d \in answers' : d \in answers \/
               (d.uid \in Uids /\ (Pending(d.uid)' /\ d.result => Holds(d.uid, d.minion, d.data)')),
           \A u \in Uids : Pending(u)' =>
               \/ Pending(u) /\ tickets'[u] = tickets[u]
               \/ Pending(u) /\ tickets'[u] # << >> /\ VouchedFor(u, tickets[u])'
               \/ /\ \A d \in answers : d.uid # u
                  /\ tickets'[u] # << >> => VouchedFor(u, tickets[u])',
           \A u \in Uids : Pending(u)' /\ Pending(u) =>
               \A n \in Calls(u) : \A m, data :
                   m = Command(u, n).minion /\ Holds(u, m, data) => Holds(u, m, data)'
    PROVE  HoldsInv'
  <1>1. ASSUME NEW d \in answers, Pending(d.uid)', d.result
        PROVE  Holds(d.uid, d.minion, d.data)'
    <2>1. /\ d.uid \in Uids /\ CallNo(d.tag) \in Calls(d.uid)
          /\ d.minion = Command(d.uid, CallNo(d.tag)).minion
      BY DatagramMade DEF DriveInv, Datagrams
    <2>2. Pending(d.uid)
      BY <1>1, <2>1
    <2>3. Holds(d.uid, d.minion, d.data)
      BY <1>1, <2>2 DEF HoldsInv
    <2> QED BY <1>1, <2>1, <2>2, <2>3
  <1>2. ASSUME NEW u \in Uids, Pending(u)', tickets'[u] # << >> PROVE VouchedFor(u, tickets[u])'
    <2>1. CASE Pending(u) /\ tickets'[u] = tickets[u]
      <3>1. VouchedFor(u, tickets[u]) /\ request'[u] = request[u]
        BY <1>2, <2>1 DEF HoldsInv
      <3>2. ASSUME NEW n \in Calls(u), NEW m, NEW data,
                   MsgOf(tickets'[u], n) # NoMsg, MsgOf(tickets'[u], n).result,
                   m = Command(u, n).minion, data = MsgOf(tickets'[u], n).data
            PROVE  Holds(u, m, data)'
        <4>1. Holds(u, m, data)
          BY <2>1, <3>1, <3>2 DEF VouchedFor
        <4> QED BY <1>2, <2>1, <3>2, <4>1
      <3> QED BY <3>1, <3>2, VouchedAfter
    <2>2. CASE ~(Pending(u) /\ tickets'[u] = tickets[u])
      BY <1>2, <2>2
    <2> QED BY <2>1, <2>2
  <1> QED BY <1>1, <1>2 DEF HoldsInv

\* A new request, of which nothing is on its way, and a new ticket.
LEMMA HoldsAfterIssue ==
    ASSUME DriveInv, HoldsInv, NEW u \in Uids, NEW r \in Workload, GetTaskArgs(u, r)
    PROVE  HoldsInv'
  <1>1. /\ request[u] = NoRequest /\ damaged' = damaged /\ replies' = replies
        /\ \A v \in Uids : v # u =>
               request'[v] = request[v] /\ before'[v] = before[v]
               /\ (Outstanding(v)' <=> Outstanding(v))
        /\ \A a \in Units : allowed[a] \subseteq allowed'[a]
        /\ UNCHANGED <<tickets, answers, file>>
    BY KernelAfterIssue DEF DriveInv, GetTaskArgs, minionVars
  <1>2. tickets[u] = << >> /\ ~Pending(u) /\ \A d \in answers : d.uid # u
    <2>1. \A d \in answers : d.uid # u
      BY <1>1, DatagramMade, RequestFits DEF DriveInv, Datagrams
    <2>2. task[u] = "none" /\ Progress(u)
      BY <1>1 DEF DriveInv, TablesInv, Progress
    <2> QED BY <1>1, <2>1, <2>2 DEF Progress, Pending, Outstanding, Kernel!Outstanding
  <1>3. UnitsHold'
    BY <1>1 DEF HoldsInv, UnitsHold, Keepers, PlaceOf
  <1>4. \A v \in Uids : v # u => (Pending(v)' <=> Pending(v)) /\ tickets'[v] = tickets[v]
    BY <1>1 DEF Pending
  <1>5. ASSUME NEW v \in Uids, Pending(v)', Pending(v), NEW n \in Calls(v), NEW m, NEW data,
               m = Command(v, n).minion, Holds(v, m, data)
        PROVE  Holds(v, m, data)'
    <2>1. v # u
      BY <1>2, <1>5
    <2>2. \A a \in Kernel!Range(request[v]) : a \in Units
      BY <1>5, MirrorKeeps DEF Pending
    <2> QED BY <1>1, <1>5, <2>1, <2>2, HoldsKept
  <1> QED BY <1>1, <1>2, <1>3, <1>4, <1>5, HoldsInvFrom

LEMMA HoldsAfterAddTask ==
    ASSUME DriveInv, HoldsInv, NEW u \in Uids, AddTask(u)
    PROVE  HoldsInv'
  <1>1. /\ UNCHANGED <<request, replies, allowed, before, damaged, answers, file>>
        /\ tickets'[u] = NewTicket(u, request[u].op, Segments(u)) /\ request[u] \in Workload
        /\ \A v \in Uids : v # u => tickets'[v] = tickets[v]
        /\ tickets[u] = << >>
    BY TicketCreated DEF DriveInv, kernelVars, minionVars
  <1>2. \A d \in answers : d.uid # u
    BY <1>1, DatagramMade DEF DriveInv, Datagrams
  <1>3. UnitsHold'
    BY <1>1 DEF HoldsInv, UnitsHold, Keepers, PlaceOf
  <1>4. \A v \in Uids : Pending(v)' <=> Pending(v)
    BY <1>1 DEF Pending, Outstanding, Kernel!Outstanding
  <1>5. VouchedFor(u, tickets[u])'
    <2>1. \A n \in Calls(u) : MsgOf(tickets'[u], n) = NoMsg
      BY <1>1, NewTicketEmpty
    <2> QED BY <1>1, <2>1, VouchedAfter
  <1>6. ASSUME NEW v \in Uids, NEW m, NEW data, Holds(v, m, data)
        PROVE  Holds(v, m, data)'
    BY <1>1, <1>6, HoldsKept
  <1> QED BY <1>1, <1>2, <1>3, <1>4, <1>5, <1>6, HoldsInvFrom

\* A minion's step keeps what every mirror vouches for.
LEMMA HoldsThroughMinion ==
    ASSUME TablesInv, RoutesInv, KernelInv, NEW c \in commands, NEW written \in SUBSET Place(c),
           c.op = "read" => written = {}, HasWritten(c, written),
           UNCHANGED <<request, replies, allowed, before>>,
           NEW u \in Uids, Pending(u), NEW n \in Calls(u), NEW m, m = Command(u, n).minion,
           NEW data, Holds(u, m, data)
    PROVE  Holds(u, m, data)'
  <1>1. u \in Kernel!Issued /\ request[u] \in Promised
    BY DEF Pending, Outstanding, Kernel!Outstanding, Kernel!Issued
  <1>2. c.op = request[c.uid].op /\ c.op \in {"read", "write"}
    BY CommandPlaces, RequestFits
  <1>3. ASSUME NEW a \in Kernel!Range(request[u])
        PROVE  /\ u \in damaged[m][a] => u \in damaged'[m][a]
               /\ damaged'[m][a] = {} => damaged[m][a] = {}
               /\ request[u].op = "write" =>
                      \/ file'[m][PlaceOf(a)] = file[m][PlaceOf(a)]
                      \/ file'[m][PlaceOf(a)] \in Kernel!Settled(u, a)
                      \/ u \in damaged'[m][a]
    <2>1. a \in Units /\ m \in Keepers(a) /\ m \in Minions /\ PlaceOf(a) \in 0..(ChunkSize - 1)
      BY <1>1, MirrorKeeps
    <2>2. /\ damaged'[m][a] = IF ~Outstanding(c.uid) /\ m = c.minion /\ a \in KeptAt(m, written)
                              THEN Kernel!Issued ELSE damaged[m][a]
          /\ file'[m][PlaceOf(a)] = IF m = c.minion /\ PlaceOf(a) \in written
                                    THEN c.data[PlaceOf(a) - c.offset] ELSE file[m][PlaceOf(a)]
      BY <2>1 DEF HasWritten
    <2>3. ASSUME request[u].op = "write", m = c.minion, PlaceOf(a) \in written
          PROVE  file'[m][PlaceOf(a)] \in Kernel!Settled(u, a) \/ u \in damaged'[m][a]
      <3>1. c.op = "write" /\ PlaceOf(a) \in Place(c)
        BY <1>2, <2>3
      <3>2. CASE Outstanding(c.uid)
        BY <2>1, <2>2, <2>3, <3>1, <3>2, WriteInTime
      <3>3. CASE ~Outstanding(c.uid)
        <4>1. a \in KeptAt(m, written)
          BY <2>1, <2>3 DEF KeptAt
        <4> QED BY <1>1, <2>2, <2>3, <3>3, <4>1
      <3> QED BY <3>2, <3>3
    <2> QED BY <1>1, <2>2, <2>3
  <1> QED BY <1>3, HoldsKept

\* A mirror that answers with success vouches for it.
LEMMA AnswerHolds ==
    ASSUME DriveInv, HoldsInv, NEW c \in commands, NEW written, HasWritten(c, written),
           NEW result, NEW data, Answers(c, written, result, data), result, Pending(c.uid),
           UNCHANGED <<request, replies, allowed, before>>
    PROVE  Holds(c.uid, c.minion, data)'
  <1> DEFINE u == c.uid
             m == c.minion
             o == request[u].offset
  <1>1. /\ c \in Datagrams /\ TablesInv /\ RoutesInv
    BY DEF Datagrams, DriveInv
  <1>2. PICK n \in 0..(sent[u] - 1) : c = Command(u, n)
    BY <1>1 DEF RoutesInv
  <1>3. /\ u \in Uids /\ request[u] \in Workload /\ c.op = request[u].op
        /\ c.op \in {"read", "write"} /\ m \in Minions
    BY <1>1, CommandPlaces, RequestFits
  <1>4. n \in Calls(u)
    <2>1. Len(Segments(u)) \in Nat
      BY <1>3, RequestFits, SegmentsHaveMinions DEF Segments
    <2>2. sent[u] \in Nat /\ sent[u] <= 2 * Len(Segments(u))
      BY <1>1, <1>3, RequestFits DEF RoutesInv, TablesInv, TablesAgree, TypeOK
    <2> QED BY <1>2, <2>1, <2>2 DEF Calls
  <1>5. n \in {0, 1} /\ Outstanding(u)
    BY <1>3, <1>4, PromisedCalls DEF Pending
  <1>6. ASSUME NEW a \in Kernel!Range(request[u])
        PROVE  /\ a \in Units /\ m \in Keepers(a) /\ PlaceOf(a) \in 0..(ChunkSize - 1)
               /\ a - o \in 0..(c.length - 1) /\ PlaceOf(a) = c.offset + (a - o)
               /\ damaged'[m][a] = damaged[m][a]
               /\ file'[m][PlaceOf(a)] = IF PlaceOf(a) \in written
                                         THEN c.data[PlaceOf(a) - c.offset]
                                         ELSE file[m][PlaceOf(a)]
               /\ c.op = "write" => c.data[a - o] = Kernel!Stamp(u, a)
    <2>1. /\ a \in Units /\ m \in Keepers(a) /\ PlaceOf(a) \in 0..(ChunkSize - 1)
          /\ a - o \in 0..(c.length - 1) /\ PlaceOf(a) = c.offset + (a - o)
          /\ c.op = "write" => c.data[a - o] = Kernel!Stamp(u, a)
      BY <1>2, <1>3, <1>4, <1>5, PromisedCalls, MirrorKeeps DEF Pending
    <2> QED BY <1>3, <1>5, <2>1 DEF HasWritten
  <1>7. ASSUME NEW a \in Kernel!Range(request[u]), request[u].op = "write"
        PROVE  file'[m][PlaceOf(a)] \in Kernel!Settled(u, a)'
    <2>1. written = Place(c) /\ c.offset \in Nat /\ c.length \in Nat
      BY <1>1, <1>3, <1>7, CommandPlaces DEF Answers
    <2>2. PlaceOf(a) \in written /\ PlaceOf(a) - c.offset = a - o
      BY <1>6, <2>1 DEF Place
    <2>3. file'[m][PlaceOf(a)] = Kernel!Stamp(u, a)
      BY <1>3, <1>6, <1>7, <2>2
    <2>4. Kernel!Stamp(u, a) \in Kernel!Settled(u, a)'
      BY DEF Kernel!Settled, Kernel!Stamp
    <2> QED BY <2>3, <2>4
  <1>8. ASSUME NEW a \in Kernel!Range(request[u]), request[u].op # "write"
        PROVE  /\ a - o \in DOMAIN data
               /\ damaged'[m][a] = {} => data[a - o] \in allowed[a]
    <2>1. c.op = "read"
      BY <1>3, <1>8
    <2>2. a - o \in DOMAIN data /\ data[a - o] = file[m][PlaceOf(a)]
      BY <1>6, <2>1 DEF Answers
    <2> QED BY <1>6, <2>2 DEF HoldsInv, UnitsHold
  <1>9. /\ \A r : Kernel!Range(r)' = Kernel!Range(r)
        /\ \A a : PlaceOf(a)' = PlaceOf(a)
    BY DEF Kernel!Range, PlaceOf
  <1> QED BY <1>7, <1>8, <1>9 DEF Holds

LEMMA HoldsAfterMinion ==
    ASSUME DriveInv, HoldsInv, NEW c \in commands,
           RunMinionCommand(c) \/ MinionCommandFails(c) \/ DuplicateCommand(c)
    PROVE  HoldsInv'
  <1>1. TablesInv /\ RoutesInv /\ KernelInv
    BY DEF DriveInv
  <1>2. UNCHANGED <<request, replies, allowed, before, tickets>>
    BY MinionAnswers DEF taskVars
  <1>3. PICK written, result, data :
            /\ written \in SUBSET Place(c) /\ result \in BOOLEAN
            /\ HasWritten(c, written) /\ Answers(c, written, result, data)
    BY <1>1, MinionStep
  <1>4. /\ c.uid \in Uids /\ request[c.uid] \in Workload /\ c.op \in {"read", "write"}
        /\ c.op = "read" => written = {}
    BY <1>1, <1>3, CommandPlaces, RequestFits DEF Answers
  <1>5. ASSUME NEW a \in Units, NEW m \in Keepers(a), damaged'[m][a] = {}
        PROVE  file'[m][PlaceOf(a)] \in allowed[a]
    <2>1. m \in Minions /\ PlaceOf(a) \in 0..(ChunkSize - 1)
      BY KeepersFit
    <2>2. /\ damaged'[m][a] = IF ~Outstanding(c.uid) /\ m = c.minion /\ a \in KeptAt(m, written)
                              THEN Kernel!Issued ELSE damaged[m][a]
          /\ file'[m][PlaceOf(a)] = IF m = c.minion /\ PlaceOf(a) \in written
                                    THEN c.data[PlaceOf(a) - c.offset] ELSE file[m][PlaceOf(a)]
      BY <1>3, <2>1 DEF HasWritten
    <2>3. Kernel!Issued # {}
      BY <1>4, RequestFits DEF Kernel!Issued
    <2>4. damaged[m][a] = {}
          /\ ~(~Outstanding(c.uid) /\ m = c.minion /\ a \in KeptAt(m, written))
      BY <1>5, <2>2, <2>3
    <2>5. CASE m = c.minion /\ PlaceOf(a) \in written
      <3>1. Outstanding(c.uid) /\ c.op = "write" /\ PlaceOf(a) \in Place(c)
        BY <1>3, <1>4, <2>4, <2>5 DEF KeptAt
      <3> QED BY <1>1, <2>2, <2>5, <3>1, WriteInTime
    <2>6. CASE ~(m = c.minion /\ PlaceOf(a) \in written)
      BY <2>2, <2>4, <2>6 DEF HoldsInv, UnitsHold
    <2> QED BY <2>5, <2>6
  <1>6. UnitsHold'
    BY <1>2, <1>5 DEF UnitsHold, Keepers, PlaceOf
  <1>7. \A u \in Uids : Pending(u)' <=> Pending(u)
    BY <1>2 DEF Pending, Outstanding, Kernel!Outstanding
  <1>8. ASSUME NEW d \in answers', d \notin answers
        PROVE  d.uid \in Uids /\ (Pending(d.uid)' /\ d.result => Holds(d.uid, d.minion, d.data)')
    <2>1. d.uid = c.uid /\ d.minion = c.minion /\ d.result = result /\ d.data = data
      BY <1>3, <1>8 DEF Answers, Answer
    <2>2. ASSUME Pending(d.uid)', d.result PROVE Holds(c.uid, c.minion, data)'
      <3>1. Pending(c.uid) /\ result
        BY <1>4, <1>7, <2>1, <2>2
      <3> QED BY <1>2, <1>3, <3>1, AnswerHolds
    <2> QED BY <1>4, <2>1, <2>2
  <1>9. ASSUME NEW u \in Uids, Pending(u), NEW n \in Calls(u), NEW m, NEW dat,
               m = Command(u, n).minion, Holds(u, m, dat)
        PROVE  Holds(u, m, dat)'
    BY <1>1, <1>2, <1>3, <1>4, <1>9, HoldsThroughMinion
  <1> QED BY <1>2, <1>6, <1>7, <1>8, <1>9, HoldsInvFrom

\* A restart leaves a blank file, all of it damaged.
LEMMA HoldsAfterRestart ==
    ASSUME DriveInv, HoldsInv, NEW i \in Minions, RestartMinion(i)
    PROVE  HoldsInv'
  <1>1. TablesInv /\ KernelInv
    BY DEF DriveInv
  <1>2. UNCHANGED <<request, replies, allowed, before, tickets, answers>>
    BY DEF RestartMinion, taskVars
  <1>3. /\ \A m \in Minions, l \in 0..(ChunkSize - 1) :
               file'[m][l] = IF m = i THEN Blank ELSE file[m][l]
        /\ \A m \in Minions, a \in Units :
               damaged'[m][a] = IF m = i /\ i \in Keepers(a) THEN Kernel!Issued ELSE damaged[m][a]
    BY <1>1, RestartStep
  <1>4. ASSUME NEW a \in Units, NEW m \in Keepers(a), damaged'[m][a] = {}
        PROVE  file'[m][PlaceOf(a)] \in allowed[a]
    <2>1. m \in Minions /\ PlaceOf(a) \in 0..(ChunkSize - 1)
      BY KeepersFit
    <2>2. CASE m = i
      BY <1>1, <1>3, <1>4, <2>1, <2>2 DEF KernelInv
    <2>3. CASE m # i
      BY <1>3, <1>4, <2>1, <2>3 DEF HoldsInv, UnitsHold
    <2> QED BY <2>2, <2>3
  <1>5. UnitsHold'
    BY <1>2, <1>4 DEF UnitsHold, Keepers, PlaceOf
  <1>6. \A u \in Uids : Pending(u)' <=> Pending(u)
    BY <1>2 DEF Pending, Outstanding, Kernel!Outstanding
  <1>7. ASSUME NEW u \in Uids, Pending(u), NEW n \in Calls(u), NEW m, NEW data,
               m = Command(u, n).minion, Holds(u, m, data)
        PROVE  Holds(u, m, data)'
    <2>1. u \in Kernel!Issued
      BY <1>7 DEF Pending, Outstanding, Kernel!Outstanding, Kernel!Issued
    <2>2. ASSUME NEW a \in Kernel!Range(request[u])
          PROVE  /\ u \in damaged[m][a] => u \in damaged'[m][a]
                 /\ damaged'[m][a] = {} => damaged[m][a] = {}
                 /\ file'[m][PlaceOf(a)] = file[m][PlaceOf(a)] \/ u \in damaged'[m][a]
      <3>1. a \in Units /\ m \in Keepers(a) /\ m \in Minions /\ PlaceOf(a) \in 0..(ChunkSize - 1)
        BY <1>7, MirrorKeeps DEF Pending
      <3> QED BY <1>3, <2>1, <3>1
    <2> QED BY <1>2, <1>7, <2>2, HoldsKept
  <1> QED BY <1>2, <1>5, <1>6, <1>7, HoldsInvFrom

\* The records of a ticket are vouched for, the one of the response just taken included.
LEMMA RecordsVouched ==
    ASSUME DriveInv, HoldsInv, NEW a \in answers, HandleAnswer(a),
           m_map[a.minion][a.uid] # NoCallback, Pending(a.uid)
    PROVE  VouchedFor(a.uid, tickets'[a.uid])
  <1> DEFINE u == a.uid
             j == CallNo(m_map[a.minion][u])
  <1>1. TablesInv /\ RoutesInv /\ OrderInv /\ TicketsInv /\ a \in Datagrams
    BY DEF DriveInv, Datagrams
  <1>2. /\ u \in Uids /\ tickets[u] # << >> /\ j \in Calls(u)
        /\ Recorded(u, tickets[u], j, MessageOf(a), tickets'[u])
    BY <1>1, AnswerRecorded DEF Pending
  <1>3. m_map[a.minion][u] = a.tag
    BY <1>1, OrderMatches DEF ResponseMatchesCallback, Pending
  <1>4. a.minion = Command(u, j).minion
    BY <1>1, <1>3, DatagramMade
  <1>5. MessageOf(a).result = a.result /\ MessageOf(a).data = a.data
    BY DEF MessageOf
  <1> HIDE DEF j
  <1>6. VouchedFor(u, tickets[u])
    BY <1>2 DEF HoldsInv
  <1>7. ASSUME NEW n \in Calls(u), MsgOf(tickets'[u], n) # NoMsg, MsgOf(tickets'[u], n).result
        PROVE  Holds(u, Command(u, n).minion, MsgOf(tickets'[u], n).data)
    <2>1. CASE n = j
      BY <1>2, <1>4, <1>5, <1>7, <2>1 DEF Recorded, HoldsInv
    <2>2. CASE n # j
      BY <1>2, <1>6, <1>7, <2>2 DEF Recorded, VouchedFor
    <2> QED BY <2>1, <2>2
  <1> QED BY <1>7 DEF VouchedFor

\* A write is successful when every mirror of every segment is.
LEMMA SuccessfulWrite ==
    ASSUME NEW u \in Uids, request[u] \in Workload, request[u].op = "write",
           NEW t, TicketShape(u, t), TaskResult(t).result, NEW n \in Calls(u)
    PROVE  MsgOf(t, n) # NoMsg /\ MsgOf(t, n).result
  <1>1. SegmentOf(n) \in DOMAIN Segments(u) /\ RoleOf(n) \in Roles
    BY CommandFields
  <1>2. t.op = "write" /\ DOMAIN t.segments = DOMAIN Segments(u)
    BY DEF TicketShape
  <1>3. \A i \in DOMAIN t.segments : IsSegmentSuccessful(t.op, t.segments[i])
    BY DEF TaskResult
  <1>4. IsSegmentSuccessful("write", t.segments[SegmentOf(n)])
    BY <1>1, <1>2, <1>3
  <1> QED BY <1>1, <1>4 DEF IsSegmentSuccessful, Answered, Done, MsgOf, Roles

\* A response: a record more, and perhaps the reply.  An acknowledged write is what both
\* minions hold.
LEMMA HoldsAfterAnswer ==
    ASSUME DriveInv, HoldsInv, NEW a \in answers, OnMinionFDWakeUp(a) \/ DuplicateAnswer(a)
    PROVE  HoldsInv'
  <1> DEFINE u == a.uid
             t == tickets'[u]
  <1>1. TablesInv /\ RoutesInv /\ OrderInv /\ TicketsInv /\ KernelInv
    BY DEF DriveInv
  <1>2. UNCHANGED <<request, before, file>> /\ HandleAnswer(a) /\ answers' \subseteq answers
    BY <1>1, AnswerTaken DEF minionVars
  <1>3. CASE m_map[a.minion][u] = NoCallback
    <2>1. UNCHANGED <<tickets, replies, allowed, damaged>>
      BY <1>2, <1>3 DEF HandleAnswer
    <2> QED BY <1>2, <2>1, HoldsInvKept
  <1>4. CASE m_map[a.minion][u] # NoCallback
    <2>1. /\ u \in Uids /\ request[u] \in Workload /\ tickets[u] # << >>
          /\ \A v \in Uids : v # u => tickets'[v] = tickets[v]
          /\ ~Outstanding(u) =>
                 tickets'[u] = tickets[u] /\ UNCHANGED <<tableVars, replies, allowed, damaged>>
          /\ Outstanding(u) =>
                 /\ TicketShape(u, t)
                 /\ ~t.completed => UNCHANGED <<tableVars, replies, allowed, damaged>>
                 /\ t.completed => RepliesWith(u, t)
      BY <1>1, <1>2, <1>4, AnswerRecorded DEF Recorded
    <2>2. Pending(u) => VouchedFor(u, t)
      BY <1>2, <1>4, RecordsVouched
    <2>3. CASE UNCHANGED <<replies, allowed, damaged>>
      <3>1. UnitsHold'
        BY <1>2, <2>3 DEF HoldsInv, UnitsHold, Keepers, PlaceOf
      <3>2. \A v \in Uids : Pending(v)' <=> Pending(v)
        BY <1>2, <2>3 DEF Pending, Outstanding, Kernel!Outstanding
      <3>3. ASSUME NEW v \in Uids, NEW m, NEW data, Holds(v, m, data) PROVE Holds(v, m, data)'
        BY <1>2, <2>3, <3>3, HoldsKept
      <3>4. Pending(u) => VouchedFor(u, tickets[u])'
        <4> SUFFICES ASSUME Pending(u) PROVE VouchedFor(u, tickets[u])'
          OBVIOUS
        <4>1. ASSUME NEW n \in Calls(u), NEW m, NEW data,
                     MsgOf(tickets'[u], n) # NoMsg, MsgOf(tickets'[u], n).result,
                     m = Command(u, n).minion, data = MsgOf(tickets'[u], n).data
              PROVE  Holds(u, m, data)'
          BY <2>1, <2>2, <3>3, <4>1 DEF VouchedFor
        <4> QED BY <1>2, <2>1, <4>1, VouchedAfter
      <3>5. tickets'[u] # << >>
        <4>1. Outstanding(u) => DOMAIN t = TicketFields
          BY <2>1 DEF TicketShape
        <4>2. t # << >>
          BY <2>1, <4>1 DEF TicketFields
        <4> QED BY <4>2
      <3>6. \A v \in Uids : Pending(v)' =>
                \/ Pending(v) /\ tickets'[v] = tickets[v]
                \/ Pending(v) /\ tickets'[v] # << >> /\ VouchedFor(v, tickets[v])'
        BY <2>1, <3>2, <3>4, <3>5
      <3> QED BY <1>2, <3>1, <3>2, <3>3, <3>6, HoldsInvFrom
    <2>4. CASE ~ UNCHANGED <<replies, allowed, damaged>>
      <3> DEFINE e == ~TaskResult(t).result
      <3>1. Outstanding(u) /\ TicketShape(u, t) /\ RepliesWith(u, t)
        BY <2>1, <2>4
      <3>2. Replies(u, ReplyOf(u, TaskResult(t)), e)
        BY <1>2, <3>1, ReplyIsARecord DEF Replies, RepliesWith
      <3> HIDE DEF e
      <3>3. /\ ~Outstanding(u)'
            /\ \A v \in Uids : v # u => (Outstanding(v)' <=> Outstanding(v))
            /\ \A v \in Uids : Outstanding(v)' =>
                   \A b \in Kernel!Range(request[v]) :
                       /\ allowed'[b] = allowed[b]
                       /\ \A m \in Minions : damaged'[m][b] = damaged[m][b]
            /\ \A b \in Units :
                   allowed'[b] = IF ~e /\ b \in Kernel!Acknowledges(u) THEN Kernel!Settled(u, b)
                                 ELSE allowed[b]
            /\ \A m \in Minions, b \in Units :
                   damaged'[m][b] = IF ~e /\ b \in Kernel!Acknowledges(u) /\ u \notin damaged[m][b]
                                    THEN {} ELSE damaged[m][b]
        BY <1>1, <2>1, <3>2, KernelAfterReply
      <3>4. ASSUME NEW b \in Units, NEW m \in Keepers(b), damaged'[m][b] = {}
            PROVE  file[m][PlaceOf(b)] \in allowed'[b]
        <4>0. m \in Minions
          BY KeepersFit
        <4>1. CASE ~e /\ b \in Kernel!Acknowledges(u)
          <5>1. /\ request[u].op = "write" /\ request[u] \in Promised
                /\ b \in Kernel!Range(request[u]) /\ TaskResult(t).result
            BY <4>1 DEF Kernel!Acknowledges, e
          <5>2. u \notin damaged[m][b] /\ allowed'[b] = Kernel!Settled(u, b)
            BY <3>3, <3>4, <4>0, <4>1
          <5>3. PICK n \in Calls(u) : m = Command(u, n).minion
            BY <2>1, <5>1, PromisedCalls
          <5>4. MsgOf(t, n) # NoMsg /\ MsgOf(t, n).result
            BY <2>1, <3>1, <5>1, SuccessfulWrite
          <5>5. Holds(u, m, MsgOf(t, n).data)
            BY <2>2, <3>1, <5>1, <5>3, <5>4 DEF VouchedFor, Pending
          <5> QED BY <5>1, <5>2, <5>5 DEF Holds
        <4>2. CASE ~(~e /\ b \in Kernel!Acknowledges(u))
          BY <3>3, <3>4, <4>0, <4>2 DEF HoldsInv, UnitsHold
        <4> QED BY <4>1, <4>2
      <3>5. UnitsHold'
        BY <1>2, <3>4 DEF UnitsHold, Keepers, PlaceOf
      <3>6. \A v \in Uids : Pending(v)' => Pending(v) /\ v # u
        BY <1>2, <3>3 DEF Pending
      <3>7. ASSUME NEW v \in Uids, Pending(v)', NEW n \in Calls(v), NEW m, NEW data,
                   m = Command(v, n).minion, Holds(v, m, data)
            PROVE  Holds(v, m, data)'
        <4>1. request[v] \in Promised /\ Outstanding(v)'
          BY <1>2, <3>7 DEF Pending
        <4>2. \A b \in Kernel!Range(request[v]) :
                  /\ allowed'[b] = allowed[b] /\ damaged'[m][b] = damaged[m][b]
          BY <3>3, <3>7, <4>1, MirrorKeeps
        <4> QED BY <1>2, <3>7, <4>2, HoldsKept
      <3> QED BY <1>2, <2>1, <3>5, <3>6, <3>7, HoldsInvFrom
    <2> QED BY <2>3, <2>4
  <1> QED BY <1>3, <1>4

\* Every step keeps what the minions hold in line with what may be read.
LEMMA NextPreservesHoldsInv ==
    ASSUME DriveInv, HoldsInv, [Next]_vars
    PROVE  HoldsInv'
  <1>1. CASE \/ \E u \in Uids : SendMirror(u) \/ SendMirrorFails(u)
             \/ LoseDatagram \/ UNCHANGED vars
    <2>1. /\ UNCHANGED <<request, replies, allowed, before, damaged, tickets, file>>
          /\ answers' \subseteq answers
      BY <1>1 DEF SendMirror, SendMirrorFails, LoseDatagram, vars, kernelVars, taskVars, minionVars
    <2> QED BY <2>1, HoldsInvKept
  <1> QED BY <1>1, HoldsAfterIssue, HoldsAfterAddTask, HoldsAfterMinion, HoldsAfterAnswer,
             HoldsAfterRestart
          DEF Next, Worker, Minion, ManagerReactor

-------------------------------------------------------------------------------
(* The minions that can be relied on. *)

\* The request of datagram d still waits for its minion: there is no record for d's call,
\* or for an earlier one to the same minion whose callback is gone.
Fresh(d) ==
    \E k \in Calls(d.uid) :
        /\ k <= CallNo(d.tag) /\ Command(d.uid, k).minion = d.minion
        /\ MsgOf(tickets[d.uid], k) = NoMsg
        /\ \/ k = CallNo(d.tag)
           \/ m_map[d.minion][d.uid] \notin {TagOf(k)} \ {NoCallback}

\* Nothing that concerns minion m is on its way twice.
OnceOnly(m) ==
    /\ \A c \in commands, a \in answers : a.minion = m => ~(c.uid = a.uid /\ c.tag = a.tag)
    /\ \A a, b \in answers : a.minion = m /\ a.uid = b.uid /\ a.tag = b.tag => a = b

Reliable(m) ==
    /\ \A a \in Units : damaged[m][a] = {}
    /\ \A d \in Datagrams : d.minion = m => Fresh(d)
    /\ OnceOnly(m)

\* What takes a minion's reliability: a restart, and a datagram that comes twice.
Incidents == faults["restart"] + faults["duplicated"]

SurvivalInv ==
    /\ Incidents = 0 => \A m \in Minions : Reliable(m)
    /\ Incidents = 1 => \E hurt \in Minions : \A m \in Minions \ {hurt} : Reliable(m)

\* All minions are reliable at first.
LEMMA InitEstablishesSurvivalInv == Init => SurvivalInv
  BY DEF Init, Kernel!Init, SurvivalInv, Reliable, OnceOnly, Datagrams, Incidents, FaultKinds

\* A fresh write has not been answered.
LEMMA FreshWriteInTime ==
    ASSUME DriveInv, NEW c \in commands, Fresh(c), c.op = "write"
    PROVE  Outstanding(c.uid)
  <1>1. TablesInv /\ RoutesInv /\ TicketsInv /\ c \in Datagrams
    BY DEF DriveInv, Datagrams
  <1>2. /\ c.uid \in Uids /\ request[c.uid] \in Workload /\ request[c.uid].op = "write"
        /\ tickets[c.uid] # << >>
    BY <1>1, CommandPlaces, DatagramMade
  <1>3. PICK k \in Calls(c.uid) : MsgOf(tickets[c.uid], k) = NoMsg
    BY DEF Fresh
  <1> QED BY <1>1, <1>2, <1>3, AnsweredInFull

\* The commands of a call are the same.
LEMMA CommandsAlike ==
    ASSUME DriveInv, NEW c \in commands, NEW d \in commands, c.uid = d.uid, c.tag = d.tag
    PROVE  c = d
  <1>1. TablesInv /\ RoutesInv /\ c \in Datagrams
    BY DEF DriveInv, Datagrams
  <1> DEFINE u == c.uid
  <1>2. u \in Uids /\ request[u] \in Workload
    BY <1>1, DatagramMade
  <1>3. Len(Segments(u)) \in Nat /\ sent[u] \in Nat /\ sent[u] <= 2 * Len(Segments(u))
    <2>1. Len(Segments(u)) \in Nat
      BY <1>2, RequestFits, SegmentsHaveMinions DEF Segments
    <2> QED BY <1>1, <1>2, <2>1, RequestFits DEF RoutesInv, TablesInv, TablesAgree, TypeOK
  <1>4. PICK n \in 0..(sent[u] - 1) : c = Command(u, n)
    BY <1>1 DEF RoutesInv
  <1>5. PICK k \in 0..(sent[u] - 1) : d = Command(u, k)
    BY <1>1 DEF RoutesInv
  <1>6. n \in Calls(u) /\ k \in Calls(u)
    BY <1>3, <1>4, <1>5 DEF Calls
  <1>7. c.tag = TagOf(n) /\ d.tag = TagOf(k) /\ n \in Nat /\ k \in Nat
    BY <1>2, <1>4, <1>5, <1>6, CommandFields
  <1>8. n = k
    BY <1>7, TagNamesCall
  <1> QED BY <1>4, <1>5, <1>8

\* A datagram stays fresh, and so does the answer that takes its place, while the record
\* it waits for is not made.
LEMMA FreshKept ==
    ASSUME NEW c, NEW d, Fresh(c), d.uid = c.uid, d.minion = c.minion, d.tag = c.tag,
           request'[d.uid] = request[d.uid],
           m_map'[d.minion][d.uid] \in {m_map[d.minion][d.uid], NoCallback},
           \A k \in Calls(d.uid) :
               Command(d.uid, k).minion = d.minion /\ MsgOf(tickets[d.uid], k) = NoMsg =>
                   MsgOf(tickets'[d.uid], k) = NoMsg
    PROVE  Fresh(d)'
  <1>1. PICK k \in Calls(d.uid) :
            /\ k <= CallNo(d.tag) /\ Command(d.uid, k).minion = d.minion
            /\ MsgOf(tickets[d.uid], k) = NoMsg
            /\ \/ k = CallNo(d.tag)
               \/ m_map[d.minion][d.uid] \notin {TagOf(k)} \ {NoCallback}
    BY DEF Fresh
  <1>2. Calls(d.uid)' = Calls(d.uid) /\ Command(d.uid, k)' = Command(d.uid, k)
    BY CallsFixed
  <1>3. /\ CallNo(d.tag)' = CallNo(d.tag) /\ TagOf(k)' = TagOf(k)
        /\ MsgOf(tickets[d.uid], k)' = NoMsg
    <2>1. MsgOf(tickets'[d.uid], k) = NoMsg
      BY <1>1
    <2> QED BY <2>1 DEF CallNo, Call, TagOf, MsgOf, SegmentOf, RoleOf
  <1> QED BY <1>1, <1>2, <1>3 DEF Fresh

\* The records a response leaves alone.
LEMMA RecordsKept ==
    ASSUME DriveInv, NEW a \in answers, HandleAnswer(a), NEW u \in Uids, NEW k \in Calls(u),
           MsgOf(tickets[u], k) = NoMsg,
           ~(/\ u = a.uid /\ m_map[a.minion][a.uid] # NoCallback
             /\ k = CallNo(m_map[a.minion][a.uid]))
    PROVE  MsgOf(tickets'[u], k) = NoMsg
  <1>1. TablesInv /\ RoutesInv /\ TicketsInv
    BY DEF DriveInv
  <1>2. CASE m_map[a.minion][a.uid] = NoCallback
    BY <1>2 DEF HandleAnswer
  <1>3. CASE m_map[a.minion][a.uid] # NoCallback
    <2> DEFINE j == CallNo(m_map[a.minion][a.uid])
    <2>1. /\ \A v \in Uids : v # a.uid => tickets'[v] = tickets[v]
          /\ \/ tickets'[a.uid] = tickets[a.uid]
             \/ Recorded(a.uid, tickets[a.uid], j, MessageOf(a), tickets'[a.uid])
      BY <1>1, <1>3, AnswerRecorded
    <2> HIDE DEF j
    <2>2. CASE u = a.uid /\ Recorded(u, tickets[u], j, MessageOf(a), tickets'[u])
      <3>1. k # j
        BY <1>3, <2>2 DEF j
      <3> QED BY <2>2, <3>1 DEF Recorded
    <2> QED BY <2>1, <2>2
  <1> QED BY <1>2, <1>3

\* Where no callback waits, a missing record is enough.
LEMMA FreshWithout ==
    ASSUME NEW d, NEW k \in Calls(d.uid), k <= CallNo(d.tag), Command(d.uid, k).minion = d.minion,
           MsgOf(tickets'[d.uid], k) = NoMsg, request'[d.uid] = request[d.uid],
           m_map'[d.minion][d.uid] = NoCallback
    PROVE  Fresh(d)'
  <1>1. Calls(d.uid)' = Calls(d.uid) /\ Command(d.uid, k)' = Command(d.uid, k)
    BY CallsFixed
  <1>2. /\ CallNo(d.tag)' = CallNo(d.tag) /\ TagOf(k)' = TagOf(k)
        /\ MsgOf(tickets[d.uid], k)' = NoMsg
    BY DEF CallNo, Call, TagOf, MsgOf, SegmentOf, RoleOf
  <1> QED BY <1>1, <1>2 DEF Fresh

\* A response taken once, or twice but of another minion.
LEMMA ReliableAfterAnswer ==
    ASSUME DriveInv, NEW m \in Minions, Reliable(m), NEW a \in answers,
           OnMinionFDWakeUp(a) \/ (DuplicateAnswer(a) /\ a.minion # m)
    PROVE  Reliable(m)'
  <1> DEFINE v == a.uid
             j == CallNo(m_map[a.minion][v])
  <1>1. TablesInv /\ RoutesInv /\ OrderInv /\ TicketsInv /\ KernelInv
    BY DEF DriveInv
  <1>2. /\ UNCHANGED <<request, before, commands>> /\ HandleAnswer(a) /\ answers' \subseteq answers
        /\ m_map'[a.minion][v] = NoCallback
        /\ \A i \in Minions, u \in Uids :
               ~(i = a.minion /\ u = v) => m_map'[i][u] = m_map[i][u]
    BY <1>1, AnswerTaken
  <1>3. /\ v \in Uids /\ a.minion \in Minions /\ a \in Datagrams
        /\ CallNo(a.tag) \in Calls(v) /\ a.tag = TagOf(CallNo(a.tag))
    BY <1>1, DatagramMade DEF Datagrams
  <1>4. m_map[a.minion][v] # NoCallback =>
            /\ j \in Calls(v) /\ m_map[a.minion][v] = TagOf(j) /\ a.minion = Command(v, j).minion
            /\ CallNo(a.tag) <= j /\ request[v] \in Workload
    BY <1>1, <1>3, CallbackMade DEF OrderInv
  <1>5. ASSUME NEW b \in Units PROVE damaged'[m][b] = {}
    <2>1. CASE UNCHANGED <<replies, allowed, damaged>>
      BY <2>1 DEF Reliable
    <2>2. CASE ~ UNCHANGED <<replies, allowed, damaged>>
      <3> DEFINE t == tickets'[v]
                 e == ~TaskResult(t).result
      <3>1. m_map[a.minion][v] # NoCallback
        BY <1>2, <2>2 DEF HandleAnswer
      <3>2. Outstanding(v) /\ RepliesWith(v, t)
        BY <1>1, <1>2, <2>2, <3>1, AnswerRecorded
      <3>3. Replies(v, ReplyOf(v, TaskResult(t)), e)
        BY <1>2, <3>2, ReplyIsARecord DEF Replies, RepliesWith
      <3> HIDE DEF e
      <3>4. damaged'[m][b] \in {{}, damaged[m][b]}
        BY <1>1, <1>3, <3>3, KernelAfterReply
      <3> QED BY <3>4 DEF Reliable
    <2> QED BY <2>1, <2>2
  <1>6. ASSUME NEW d \in Datagrams', d.minion = m PROVE Fresh(d)'
    <2>1. d \in Datagrams /\ Fresh(d)
      BY <1>2, <1>6 DEF Datagrams, Reliable
    <2>2. /\ d.uid \in Uids /\ CallNo(d.tag) \in Calls(d.uid) /\ d.tag = TagOf(CallNo(d.tag))
          /\ request[d.uid] \in Workload
      BY <1>1, <2>1, DatagramMade
    <2>3. CASE ~(d.uid = v /\ a.minion = m /\ m_map[a.minion][v] # NoCallback)
      <3>1. ASSUME NEW k \in Calls(d.uid), Command(d.uid, k).minion = m,
                   MsgOf(tickets[d.uid], k) = NoMsg
            PROVE  MsgOf(tickets'[d.uid], k) = NoMsg
        <4>1. ~(d.uid = v /\ m_map[a.minion][v] # NoCallback /\ k = j)
          BY <1>4, <2>3, <3>1
        <4> HIDE DEF j
        <4> QED BY <1>2, <2>2, <3>1, <4>1, RecordsKept DEF j
      <3>2. m_map'[m][d.uid] \in {m_map[m][d.uid], NoCallback}
        BY <1>2, <2>2
      <3> QED BY <1>2, <1>6, <2>1, <3>1, <3>2, FreshKept
    <2>4. CASE d.uid = v /\ a.minion = m /\ m_map[a.minion][v] # NoCallback
      <3> HIDE DEF j
      <3>1. ASSUME NEW k \in Calls(v), k # j, k <= CallNo(d.tag), Command(v, k).minion = m,
                   MsgOf(tickets[v], k) = NoMsg
            PROVE  Fresh(d)'
        <4>1. MsgOf(tickets'[v], k) = NoMsg
          BY <1>2, <1>3, <3>1, RecordsKept DEF j
        <4> QED BY <1>2, <1>6, <2>4, <3>1, <4>1, FreshWithout
      <3>2. PICK k \in Calls(v) :
                /\ k <= CallNo(d.tag) /\ Command(v, k).minion = m
                /\ MsgOf(tickets[v], k) = NoMsg
                /\ \/ k = CallNo(d.tag)
                   \/ m_map[m][v] \notin {TagOf(k)} \ {NoCallback}
        BY <1>6, <2>1, <2>4 DEF Fresh
      <3>3. CASE k # j
        BY <3>1, <3>2, <3>3
      <3>4. CASE k = j
        <4>1. CallNo(d.tag) = j
          BY <1>4, <2>4, <3>2, <3>4
        <4>2. CallNo(a.tag) # j
          <5> SUFFICES ASSUME CallNo(a.tag) = j PROVE FALSE
            OBVIOUS
          <5>1. a.tag = d.tag
            BY <1>3, <2>2, <4>1
          <5>2. answers' = answers \ {a}
            BY <2>4 DEF OnMinionFDWakeUp
          <5>3. (d \in commands \/ (d \in answers /\ d # a))
            BY <1>2, <1>6, <5>2 DEF Datagrams
          <5> QED BY <2>4, <5>1, <5>3 DEF Reliable, OnceOnly
        <4>3. PICK n \in Calls(v) :
                  /\ n <= CallNo(a.tag) /\ Command(v, n).minion = m /\ MsgOf(tickets[v], n) = NoMsg
          BY <1>3, <2>4 DEF Reliable, Fresh
        <4>4. n # j /\ n <= CallNo(d.tag)
          BY <1>3, <1>4, <2>4, <4>1, <4>2, <4>3 DEF Calls
        <4> QED BY <3>1, <4>3, <4>4
      <3> QED BY <3>3, <3>4
    <2> QED BY <2>3, <2>4
  <1>7. OnceOnly(m)'
    BY <1>2 DEF Reliable, OnceOnly
  <1> QED BY <1>5, <1>6, <1>7 DEF Reliable

\* A step that keeps the records, the callbacks and the copies of minion m.
LEMMA ReliableKept ==
    ASSUME DriveInv, NEW m \in Minions, Reliable(m), OnceOnly(m)',
           \A a \in Units : damaged'[m][a] = damaged[m][a],
           \A d \in Datagrams' : d.minion = m => \E c \in Datagrams :
               d.uid = c.uid /\ d.minion = c.minion /\ d.tag = c.tag,
           \A u \in Uids : tickets[u] # << >> =>
               /\ request'[u] = request[u] /\ tickets'[u] = tickets[u]
               /\ m_map'[m][u] = m_map[m][u]
    PROVE  Reliable(m)'
  <1>1. ASSUME NEW d \in Datagrams', d.minion = m PROVE Fresh(d)'
    <2>1. PICK c \in Datagrams : d.uid = c.uid /\ d.minion = c.minion /\ d.tag = c.tag
      BY <1>1
    <2>2. c.uid \in Uids /\ tickets[c.uid] # << >>
      BY DatagramMade DEF DriveInv
    <2>3. Fresh(c)
      BY <1>1, <2>1 DEF Reliable
    <2> QED BY <1>1, <2>1, <2>2, <2>3, FreshKept
  <1> QED BY <1>1 DEF Reliable

\* A command dealt with once, or twice but by another minion.
LEMMA ReliableAfterMinion ==
    ASSUME DriveInv, NEW m \in Minions, Reliable(m), NEW c \in commands,
           \/ RunMinionCommand(c) \/ MinionCommandFails(c)
           \/ DuplicateCommand(c) /\ c.minion # m
    PROVE  Reliable(m)'
  <1>1. TablesInv /\ RoutesInv /\ KernelInv /\ c \in Datagrams
    BY DEF DriveInv, Datagrams
  <1>2. UNCHANGED <<request, tickets, m_map>> /\ commands' \subseteq commands
    BY MinionAnswers DEF taskVars
  <1>3. PICK written, result, data :
            /\ written \in SUBSET Place(c) /\ result \in BOOLEAN
            /\ HasWritten(c, written) /\ Answers(c, written, result, data)
    BY <1>1, MinionStep
  <1> DEFINE b == Answer(c, result, data)
  <1>4. /\ answers' = answers \cup {b}
        /\ b.uid = c.uid /\ b.minion = c.minion /\ b.tag = c.tag
    BY <1>3 DEF Answers, Answer
  <1> HIDE DEF b
  <1>5. ASSUME NEW a \in Units PROVE damaged'[m][a] = damaged[m][a]
    <2>1. damaged'[m][a] = IF ~Outstanding(c.uid) /\ m = c.minion /\ a \in KeptAt(m, written)
                           THEN Kernel!Issued ELSE damaged[m][a]
      BY <1>3 DEF HasWritten
    <2>2. CASE m = c.minion
      <3>1. Fresh(c)
        BY <1>1, <2>2 DEF Reliable
      <3>2. c.op = "write" => Outstanding(c.uid)
        BY <3>1, FreshWriteInTime
      <3>3. c.op = "read" => a \notin KeptAt(m, written)
        BY <1>3 DEF Answers, KeptAt
      <3>4. c.op \in {"read", "write"}
        BY <1>1, CommandPlaces, RequestFits
      <3> QED BY <2>1, <3>2, <3>3, <3>4
    <2> QED BY <2>1, <2>2
  <1>6. ASSUME NEW d \in Datagrams'
        PROVE  \E x \in Datagrams : d.uid = x.uid /\ d.minion = x.minion /\ d.tag = x.tag
    BY <1>1, <1>2, <1>4 DEF Datagrams
  <1>7. OnceOnly(m)'
    <2>1. CASE c.minion # m
      <3>1. ASSUME NEW d \in Datagrams, d.uid = c.uid, d.tag = c.tag PROVE d.minion # m
        <4>1. d.minion = c.minion
          BY <1>1, <3>1, DatagramMade
        <4> QED BY <2>1, <4>1
      <3>2. ASSUME NEW d \in commands', NEW a \in answers', a.minion = m, d.uid = a.uid, d.tag = a.tag
            PROVE  FALSE
        BY <1>2, <1>4, <2>1, <3>2 DEF Reliable, OnceOnly
      <3>3. ASSUME NEW a \in answers', NEW d \in answers', a.minion = m, a.uid = d.uid, a.tag = d.tag
            PROVE  a = d
        <4>1. a \in answers
          BY <1>4, <2>1, <3>3
        <4>2. CASE d \in answers
          BY <3>3, <4>1, <4>2 DEF Reliable, OnceOnly
        <4>3. CASE d = b
          BY <1>4, <3>1, <3>3, <4>1, <4>3 DEF Datagrams
        <4> QED BY <1>4, <4>2, <4>3
      <3> QED BY <3>2, <3>3 DEF OnceOnly
    <2>2. CASE c.minion = m
      <3>1. commands' = commands \ {c}
        BY <2>2 DEF RunMinionCommand, MinionCommandFails
      <3>2. \A a \in answers : a.minion = m => ~(c.uid = a.uid /\ c.tag = a.tag)
        BY DEF Reliable, OnceOnly
      <3>3. ASSUME NEW a \in answers, a.uid = c.uid, a.tag = c.tag PROVE FALSE
        <4>1. a \in Datagrams
          BY DEF Datagrams
        <4>2. a.minion = c.minion
          BY <1>1, <3>3, <4>1, DatagramMade
        <4> QED BY <2>2, <3>2, <3>3, <4>2
      <3>4. ASSUME NEW d \in commands', NEW a \in answers', a.minion = m, d.uid = a.uid, d.tag = a.tag
            PROVE  FALSE
        <4>1. CASE a \in answers
          BY <3>1, <3>4, <4>1 DEF Reliable, OnceOnly
        <4>2. CASE a = b
          <5>1. d \in commands /\ d # c /\ d.uid = c.uid /\ d.tag = c.tag
            BY <1>4, <3>1, <3>4, <4>2
          <5> QED BY <5>1, CommandsAlike
        <4> QED BY <1>4, <4>1, <4>2
      <3>5. ASSUME NEW a \in answers', NEW d \in answers', a.minion = m, a.uid = d.uid, a.tag = d.tag
            PROVE  a = d
        BY <1>4, <3>3, <3>5 DEF Reliable, OnceOnly
      <3> QED BY <3>4, <3>5 DEF OnceOnly
    <2> QED BY <2>1, <2>2
  <1> QED BY <1>2, <1>5, <1>6, <1>7, ReliableKept

\* A send takes the minion's callback for the latest call, so that what is on its way
\* still waits for a record of its own.
LEMMA ReliableAfterSend ==
    ASSUME DriveInv, NEW m \in Minions, Reliable(m), NEW u \in Uids,
           SendMirror(u) \/ SendMirrorFails(u)
    PROVE  Reliable(m)'
  <1>0. PICK n, c : n = sent[u] /\ c = Command(u, n)
    OBVIOUS
  <1>1. TablesInv /\ RoutesInv /\ TicketsInv
    BY DEF DriveInv
  <1>2. /\ task[u] = "sending" /\ m_map' = [m_map EXCEPT ![c.minion][u] = c.tag]
        /\ answers' = answers /\ commands' \subseteq commands \cup {c}
        /\ UNCHANGED <<request, tickets, damaged>>
    BY <1>0 DEF SendMirror, SendMirrorFails, RegisterCallback, kernelVars
  <1>3. /\ n \in Nat /\ request[u] \in Workload /\ tickets[u] # << >>
        /\ n < 2 * Len(Segments(u)) /\ Len(Segments(u)) \in Nat
    BY <1>0, <1>1, <1>2, NextCommand DEF TablesInv, Progress
  <1>4. n \in Calls(u)
    BY <1>3 DEF Calls
  <1>5. c.tag = TagOf(n) /\ CallNo(c.tag) = n /\ c.uid = u /\ c.minion \in Minions
    BY <1>0, <1>3, <1>4, CommandFields, TagNamesCall
  <1>6. MsgOf(tickets[u], n) = NoMsg
    <2>1. MsgOf(tickets[u], n) # NoMsg => n < sent[u]
      BY <1>0, <1>1, <1>2, <1>3, <1>4 DEF TicketsInv, TicketFits
    <2> QED BY <1>0, <1>3, <2>1
  <1>7. /\ m_map'[c.minion][u] = c.tag
        /\ \A i \in Minions, v \in Uids : ~(i = c.minion /\ v = u) => m_map'[i][v] = m_map[i][v]
    <2>1. DOMAIN m_map = Minions /\ \A i \in Minions : DOMAIN m_map[i] = Uids
      BY <1>1 DEF TablesInv, TablesAgree, TypeOK
    <2> QED BY <1>2, <1>5, <2>1
  <1>8. ASSUME NEW d \in Datagrams, d.uid = u
        PROVE  CallNo(d.tag) \in Nat /\ CallNo(d.tag) < n
    <2>1. CallNo(d.tag) \in Calls(u) /\ CallNo(d.tag) < n
      BY <1>0, <1>1, <1>8, DatagramMade
    <2> QED BY <1>3, <2>1 DEF Calls
  <1>9. ASSUME NEW d \in Datagrams, d.minion = m PROVE Fresh(d)'
    <2>1. Fresh(d) /\ d.uid \in Uids
      BY <1>1, <1>9, DatagramMade DEF Reliable
    <2>2. CASE ~(m = c.minion /\ d.uid = u)
      <3>1. m_map'[m][d.uid] = m_map[m][d.uid]
        BY <1>7, <2>1, <2>2
      <3> QED BY <1>2, <1>9, <2>1, <3>1, FreshKept
    <2>3. CASE m = c.minion /\ d.uid = u
      <3>1. PICK k \in Calls(u) :
                /\ k <= CallNo(d.tag) /\ Command(u, k).minion = m
                /\ MsgOf(tickets[u], k) = NoMsg
        BY <1>9, <2>1, <2>3 DEF Fresh
      <3>2. k \in Nat /\ k # n
        BY <1>3, <1>8, <2>3, <3>1 DEF Calls
      <3>3. TagOf(k) # c.tag
        BY <1>5, <3>2, TagNamesCall
      <3>4. Calls(u)' = Calls(u) /\ Command(u, k)' = Command(u, k)
        BY <1>2, CallsFixed
      <3>5. /\ CallNo(d.tag)' = CallNo(d.tag) /\ TagOf(k)' = TagOf(k)
            /\ MsgOf(tickets[u], k)' = MsgOf(tickets[u], k)
        BY <1>2 DEF CallNo, Call, TagOf, MsgOf, SegmentOf, RoleOf
      <3>6. m_map'[m][u] \notin {TagOf(k)} \ {NoCallback}
        BY <1>7, <2>3, <3>3
      <3> QED BY <1>9, <2>3, <3>1, <3>4, <3>5, <3>6 DEF Fresh
    <2> QED BY <2>2, <2>3
  <1>10. Fresh(c)'
    <2>1. Calls(u)' = Calls(u) /\ Command(u, n)' = Command(u, n)
      BY <1>2, CallsFixed
    <2>2. CallNo(c.tag)' = CallNo(c.tag) /\ MsgOf(tickets[u], n)' = MsgOf(tickets[u], n)
      BY <1>2 DEF CallNo, Call, MsgOf, SegmentOf, RoleOf
    <2>3. \E k \in Calls(u)' :
              /\ k <= CallNo(c.tag)' /\ Command(u, k)'.minion = c.minion
              /\ MsgOf(tickets[u], k)' = NoMsg
              /\ k = CallNo(c.tag)'
      <3>1. Command(u, n)'.minion = c.minion
        BY <1>0, <2>1
      <3> QED BY <1>3, <1>4, <1>5, <1>6, <2>1, <2>2, <3>1
    <2> QED BY <1>5, <2>3 DEF Fresh
  <1>11. OnceOnly(m)'
    <2>1. ASSUME NEW a \in answers PROVE ~(c.uid = a.uid /\ c.tag = a.tag)
      <3>1. a \in Datagrams
        BY DEF Datagrams
      <3> QED BY <1>3, <1>5, <1>8, <3>1
    <2> QED BY <1>2, <2>1 DEF Reliable, OnceOnly
  <1>12. \A a \in Units : damaged'[m][a] = {}
    BY <1>2 DEF Reliable
  <1>13. \A d \in Datagrams' : d.minion = m => Fresh(d)'
    <2>1. \A d \in Datagrams' : d \in Datagrams \/ d = c
      BY <1>2 DEF Datagrams
    <2> QED BY <1>9, <1>10, <2>1
  <1> QED BY <1>11, <1>12, <1>13 DEF Reliable

\* What happens elsewhere does not concern minion m.
LEMMA ReliableElsewhere ==
    ASSUME DriveInv, NEW m \in Minions, Reliable(m),
           \/ \E u \in Uids, r \in Workload : GetTaskArgs(u, r)
           \/ \E u \in Uids : AddTask(u)
           \/ LoseDatagram \/ UNCHANGED vars
           \/ \E i \in Minions \ {m} : RestartMinion(i)
    PROVE  Reliable(m)'
  <1>1. TablesInv /\ KernelInv
    BY DEF DriveInv
  <1>2. commands' \subseteq commands /\ answers' \subseteq answers /\ UNCHANGED m_map
    BY DEF GetTaskArgs, AddTask, LoseDatagram, vars, RestartMinion
  <1>3. ASSUME NEW d \in Datagrams'
        PROVE  \E c \in Datagrams : d.uid = c.uid /\ d.minion = c.minion /\ d.tag = c.tag
    BY <1>2 DEF Datagrams
  <1>4. OnceOnly(m)'
    BY <1>2 DEF Reliable, OnceOnly
  <1>5. \A a \in Units : damaged'[m][a] = damaged[m][a]
    <2>1. CASE \E i \in Minions \ {m} : RestartMinion(i)
      BY <1>1, <2>1, RestartStep
    <2>2. CASE \E u \in Uids, r \in Workload : GetTaskArgs(u, r)
      BY <1>1, <2>2, KernelAfterIssue DEF GetTaskArgs
    <2>3. CASE (\E u \in Uids : AddTask(u)) \/ LoseDatagram \/ UNCHANGED vars
      BY <2>3 DEF AddTask, LoseDatagram, vars, kernelVars
    <2> QED BY <2>1, <2>2, <2>3
  <1>6. ASSUME NEW u \in Uids, tickets[u] # << >>
        PROVE  request'[u] = request[u] /\ tickets'[u] = tickets[u]
    <2>1. request[u] \in Workload
      BY <1>1, <1>6 DEF TablesInv, TablesAgree, TypeOK, Progress
    <2>2. ASSUME NEW v \in Uids, NEW r \in Workload, GetTaskArgs(v, r)
          PROVE  request'[u] = request[u] /\ tickets'[u] = tickets[u]
      <3>1. UNCHANGED tickets /\ Kernel!Issue(v, r)
        BY <2>2 DEF GetTaskArgs
      <3> QED BY <1>1, <2>1, <3>1, KernelAfterIssue, RequestFits
    <2>3. ASSUME NEW v \in Uids, AddTask(v)
          PROVE  request'[u] = request[u] /\ tickets'[u] = tickets[u]
      BY <1>1, <1>6, <2>3, TicketCreated DEF kernelVars
    <2>4. CASE LoseDatagram \/ UNCHANGED vars \/ \E i \in Minions \ {m} : RestartMinion(i)
      BY <2>4 DEF LoseDatagram, vars, RestartMinion, kernelVars, taskVars
    <2> QED BY <2>2, <2>3, <2>4
  <1> QED BY <1>2, <1>3, <1>4, <1>5, <1>6, ReliableKept

\* Every step keeps all minions reliable but the one it hurts.
LEMMA NextPreservesSurvivalInv ==
    ASSUME DriveInv, SurvivalInv, [Next]_vars
    PROVE  SurvivalInv'
  <1>1. faults \in [FaultKinds -> Nat] /\ {"restart", "duplicated"} \subseteq FaultKinds
    BY DEF DriveInv, TablesInv, TablesAgree, TypeOK, FaultKinds
  <1>2. Incidents \in Nat
    BY <1>1 DEF Incidents
  <1>3. ASSUME NEW hurt \in Minions, Incidents' = Incidents + 1,
               \A m \in Minions \ {hurt} : Reliable(m) => Reliable(m)'
        PROVE  SurvivalInv'
    <2>1. Incidents' = 1 => Incidents = 0
      BY <1>2, <1>3
    <2>2. Incidents' # 0
      BY <1>2, <1>3
    <2> QED BY <1>3, <2>1, <2>2 DEF SurvivalInv
  <1>4. ASSUME Incidents' = Incidents, \A m \in Minions : Reliable(m) => Reliable(m)'
        PROVE  SurvivalInv'
    BY <1>4 DEF SurvivalInv
  <1>5. ASSUME NEW c \in commands, DuplicateCommand(c) PROVE SurvivalInv'
    <2>1. Incidents' = Incidents + 1
      BY <1>1, <1>5 DEF DuplicateCommand, Happens, Incidents
    <2>2. c.minion \in Minions
      BY DEF DriveInv, TablesInv, TablesAgree, TypeOK, Datagrams
    <2> QED BY <1>3, <1>5, <2>1, <2>2, ReliableAfterMinion
  <1>6. ASSUME NEW a \in answers, DuplicateAnswer(a) PROVE SurvivalInv'
    <2>1. Incidents' = Incidents + 1
      BY <1>1, <1>6 DEF DuplicateAnswer, Happens, Incidents
    <2>2. a.minion \in Minions
      BY DEF DriveInv, TablesInv, TablesAgree, TypeOK, Datagrams
    <2> QED BY <1>3, <1>6, <2>1, <2>2, ReliableAfterAnswer
  <1>7. ASSUME NEW i \in Minions, RestartMinion(i) PROVE SurvivalInv'
    <2>1. Incidents' = Incidents + 1
      BY <1>1, <1>7 DEF RestartMinion, Happens, Incidents
    <2>2. ASSUME NEW m \in Minions \ {i}, Reliable(m) PROVE Reliable(m)'
      BY <1>7, <2>2, ReliableElsewhere
    <2> QED BY <1>3, <2>1, <2>2
  <1>8. ASSUME NEW u \in Uids, NEW r \in Workload, GetTaskArgs(u, r) PROVE SurvivalInv'
    <2>1. Incidents' = Incidents
      BY <1>8 DEF GetTaskArgs, Incidents
    <2> QED BY <1>4, <1>8, <2>1, ReliableElsewhere
  <1>9. ASSUME NEW u \in Uids, Worker(u) PROVE SurvivalInv'
    <2>1. Incidents' = Incidents
      BY <1>1, <1>9 DEF Worker, AddTask, SendMirror, SendMirrorFails, Happens, Incidents
    <2> QED BY <1>4, <1>9, <2>1, ReliableElsewhere, ReliableAfterSend DEF Worker
  <1>10. ASSUME NEW c \in commands, RunMinionCommand(c) \/ MinionCommandFails(c)
         PROVE  SurvivalInv'
    <2>1. Incidents' = Incidents
      BY <1>1, <1>10 DEF RunMinionCommand, MinionCommandFails, Happens, Incidents
    <2> QED BY <1>4, <1>10, <2>1, ReliableAfterMinion
  <1>11. ASSUME NEW a \in answers, OnMinionFDWakeUp(a) PROVE SurvivalInv'
    <2>1. Incidents' = Incidents
      BY <1>11 DEF OnMinionFDWakeUp, Incidents
    <2> QED BY <1>4, <1>11, <2>1, ReliableAfterAnswer
  <1>12. CASE LoseDatagram \/ UNCHANGED vars
    <2>1. Incidents' = Incidents
      BY <1>1, <1>12 DEF LoseDatagram, Happens, Incidents, vars
    <2> QED BY <1>4, <1>12, <2>1, ReliableElsewhere
  <1> QED BY <1>5, <1>6, <1>7, <1>8, <1>9, <1>10, <1>11, <1>12
          DEF Next, Minion, ManagerReactor

-------------------------------------------------------------------------------
(* The drive's promises. *)

\* What the drive's promises rest on, in every reachable state: requests, tickets,
\* datagrams and callbacks belong together; every intact copy, and every success that a
\* minion has answered with, agrees with what the kernel may read; and damage needs
\* restarts or repeated datagrams, one minion at a time.
THEOREM DriveInvariant == Spec => [](DriveInv /\ DataInv /\ HoldsInv /\ SurvivalInv)
  <1>1. Init => DriveInv /\ DataInv /\ HoldsInv /\ SurvivalInv
    BY InitEstablishesTablesInv, InitEstablishesRoutesInv, InitEstablishesOrderInv,
       InitEstablishesTicketsInv, InitEstablishesKernelInv, InitEstablishesDataInv,
       InitEstablishesHoldsInv, InitEstablishesSurvivalInv DEF DriveInv
  <1>2. ASSUME DriveInv, DataInv, HoldsInv, SurvivalInv, [Next]_vars
        PROVE  DriveInv' /\ DataInv' /\ HoldsInv' /\ SurvivalInv'
    <2>1. TablesInv /\ RoutesInv /\ OrderInv /\ TicketsInv /\ KernelInv
      BY <1>2 DEF DriveInv
    <2>2. DriveInv'
      BY <1>2, <2>1, NextPreservesTablesInv, NextPreservesRoutesInv, NextPreservesOrderInv,
         NextPreservesTicketsInv, NextPreservesKernelInv DEF DriveInv
    <2> QED BY <1>2, <2>1, <2>2, NextPreservesDataInv, NextPreservesHoldsInv,
               NextPreservesSurvivalInv
  <1> QED BY <1>1, <1>2, PTL DEF Spec

\* The units the workload is about are units of the drive.
LEMMA UsedUnitsAreUnits == UsedUnits \subseteq Units
  BY UnitsOfRequest DEF UsedUnits

\* SettledUnitsAreMirrored for every size of the drive, every workload, crossing requests
\* included, and any number of faults: every copy that a restart or a datagram that came
\* twice has not touched holds what may be read of its unit, and without those two no copy
\* is ever damaged, whatever is lost, fails or arrives in another order.
THEOREM UnitsStayMirrored == Spec => []SettledUnitsAreMirrored
  <1>1. ASSUME DriveInv, HoldsInv, SurvivalInv PROVE SettledUnitsAreMirrored
    <2>1. \A a \in UsedUnits : \A m \in Keepers(a) :
              damaged[m][a] = {} => file[m][PlaceOf(a)] \in allowed[a]
      BY <1>1, UsedUnitsAreUnits DEF HoldsInv, UnitsHold
    <2> QED BY <1>1, <2>1 DEF SettledUnitsAreMirrored, SurvivalInv, Incidents, Reliable
  <1> QED BY <1>1, DriveInvariant, PTL

\* AckedDataSurvives for every drive of more than one minion and every workload: one
\* restart, or one datagram that comes twice, leaves one of a unit's two minions with a
\* value that may be read of it.  With one minion there is no second copy.
THEOREM DataSurvives ==
    ASSUME NumMinions > 1
    PROVE  Spec => []AckedDataSurvives
  <1>1. ASSUME DriveInv, HoldsInv, SurvivalInv PROVE AckedDataSurvives
    <2> SUFFICES ASSUME NEW a \in UsedUnits, Incidents <= 1
                 PROVE  \E m \in Keepers(a) : file[m][PlaceOf(a)] \in allowed[a]
      BY DEF AckedDataSurvives, Incidents
    <2> DEFINE p == GetPrimaryIndex(a)
    <2>1. a \in Units /\ a \in Nat /\ a < DriveSize
      BY UsedUnitsAreUnits, StripingAssumption DEF Units, DriveSize
    <2>2. p \in Minions /\ GetBackupIndex(p) \in Minions /\ GetBackupIndex(p) # p
      BY <2>1, UnitHasMinion, BackupIsMinion
    <2>3. Incidents \in {0, 1}
      <3>1. faults \in [FaultKinds -> Nat] /\ {"restart", "duplicated"} \subseteq FaultKinds
        BY <1>1 DEF DriveInv, TablesInv, TablesAgree, TypeOK, FaultKinds
      <3>2. Incidents \in Nat
        BY <3>1 DEF Incidents
      <3> QED BY <3>2
    <2>4. PICK m \in Keepers(a) : m \in Minions /\ Reliable(m)
      <3>1. PICK hurt : \A i \in Minions \ {hurt} : Reliable(i)
        BY <1>1, <2>3 DEF SurvivalInv
      <3> QED BY <2>2, <3>1 DEF Keepers
    <2>5. damaged[m][a] = {}
      BY <2>1, <2>4 DEF Reliable
    <2> QED BY <1>1, <2>1, <2>4, <2>5 DEF HoldsInv, UnitsHold
  <1> QED BY <1>1, DriveInvariant, PTL

-------------------------------------------------------------------------------
(* The drive is a block device. *)

\* A read is successful when for each segment the response of one of its mirrors is.
LEMMA SuccessfulRead ==
    ASSUME NEW u \in Uids, request[u] \in Workload, request[u].op = "read",
           NEW t, TicketShape(u, t), TaskResult(t).result, NEW i \in DOMAIN Segments(u)
    PROVE  \E n \in Calls(u) :
               /\ SegmentOf(n) = i
               /\ SelectSegmentMessage(t.segments[i]) = MsgOf(t, n)
               /\ MsgOf(t, n) # NoMsg /\ MsgOf(t, n).result
  <1>1. Len(Segments(u)) \in Nat /\ i \in 1..Len(Segments(u))
    BY RequestFits, SegmentsHaveMinions DEF Segments
  <1>2. t.op = "read" /\ DOMAIN t.segments = DOMAIN Segments(u)
    BY DEF TicketShape
  <1>3. \A j \in DOMAIN t.segments : IsSegmentSuccessful(t.op, t.segments[j])
    BY DEF TaskResult
  <1>4. IsSegmentSuccessful("read", t.segments[i])
    BY <1>2, <1>3
  <1>5. SelectSegmentMessage(t.segments[i]) # NoMsg /\ SelectSegmentMessage(t.segments[i]).result
    BY <1>4 DEF IsSegmentSuccessful
  <1>6. PICK role \in Roles : SelectSegmentMessage(t.segments[i]) = t.segments[i].msg[role]
    BY DEF SelectSegmentMessage, Roles
  <1> DEFINE n == 2 * (i - 1) + Call(role)
  <1>7. n \in Calls(u) /\ SegmentOf(n) = i /\ RoleOf(n) = role
    BY <1>1, MirrorIsCall
  <1> HIDE DEF n
  <1>8. MsgOf(t, n) = SelectSegmentMessage(t.segments[i])
    BY <1>6, <1>7 DEF MsgOf
  <1> QED BY <1>5, <1>7, <1>8

\* The buffer of a successful read.
LEMMA ReadReply ==
    ASSUME TablesInv, NEW u \in Uids, request[u] \in Workload, request[u].op = "read",
           NEW t, TicketShape(u, t), TaskResult(t).result,
           \A n \in Calls(u) : MsgOf(t, n) # NoMsg => KnownBytes(MsgOf(t, n).data),
           request[u] \in Promised => VouchedFor(u, t)
    PROVE  \E buffer \in [0..(request[u].length - 1) -> Kernel!Values] :
               /\ ReplyOf(u, TaskResult(t)) = [error |-> FALSE, buffer |-> buffer]
               /\ request[u] \in Promised =>
                      \A k \in DOMAIN buffer :
                          Kernel!Intact(request[u].offset + k) =>
                              buffer[k] \in allowed[request[u].offset + k]
  <1> DEFINE o == request[u].offset
             l == request[u].length
             segs == Segments(u)
             slices == [i \in DOMAIN t.segments |->
                           Slice(t.segments[i], SelectSegmentMessage(t.segments[i]))]
             At(k) == CHOOSE i \in DOMAIN segs :
                          /\ segs[i].bufferOffset <= k
                          /\ k < segs[i].bufferOffset + segs[i].length
             buffer == [k \in 0..(l - 1) |-> slices[At(k)][k - segs[At(k)].bufferOffset]]
  <1>1. o \in Nat /\ l \in Nat \ {0} /\ o + l <= DriveSize
    BY RequestFits
  <1>2. /\ t.op = "read" /\ DOMAIN t.segments = DOMAIN segs
        /\ \A i \in DOMAIN segs : t.segments[i].length = segs[i].length
    BY DEF TicketShape
  <1>3. DOMAIN segs = 1..NumSegments(o, l) /\ NumSegments(o, l) \in Nat \ {0}
    BY <1>1, SegmentsHaveMinions DEF Segments
  <1>4. TaskResult(t).buffer = slices
    BY <1>2 DEF TaskResult
  <1>5. slices # << >>
    <2>1. 1 \in DOMAIN slices
      BY <1>2, <1>3
    <2> HIDE DEF slices
    <2> QED BY <2>1
  <1>6. Assembled(u, slices) = buffer
    BY DEF Assembled
  <1>7. ReplyOf(u, TaskResult(t)) = [error |-> FALSE, buffer |-> buffer]
    <2> HIDE DEF slices, buffer
    <2> QED BY <1>4, <1>5, <1>6 DEF ReplyOf
  <1>8. ASSUME NEW k \in 0..(l - 1)
        PROVE  \E n \in Calls(u) :
                   LET data == MsgOf(t, n).data
                       j == k - segs[SegmentOf(n)].bufferOffset
                   IN /\ MsgOf(t, n) # NoMsg /\ MsgOf(t, n).result
                      /\ SegmentOf(n) \in DOMAIN segs
                      /\ buffer[k] = IF j \in DOMAIN data THEN data[j] ELSE Garbage
    <2> DEFINE i == At(k)
    <2>1. \E j \in DOMAIN segs : /\ segs[j].bufferOffset <= k
                                 /\ k < segs[j].bufferOffset + segs[j].length
      BY <1>1, <1>3, <1>8, SegmentsCover DEF Segments
    <2>2. /\ i \in DOMAIN segs /\ segs[i].bufferOffset <= k
          /\ k < segs[i].bufferOffset + segs[i].length
      BY <2>1
    <2> HIDE DEF At
    <2>3. segs[i].bufferOffset \in Nat /\ segs[i].length \in Nat
      BY <1>1, <1>3, <2>2, SegmentUnits DEF Segments
    <2>4. k - segs[i].bufferOffset \in 0..(t.segments[i].length - 1)
      BY <1>2, <1>8, <2>2, <2>3
    <2>5. PICK n \in Calls(u) :
              /\ SegmentOf(n) = i
              /\ SelectSegmentMessage(t.segments[i]) = MsgOf(t, n)
              /\ MsgOf(t, n) # NoMsg /\ MsgOf(t, n).result
      BY <2>2, SuccessfulRead
    <2>6. buffer[k] = Slice(t.segments[i], MsgOf(t, n))[k - segs[i].bufferOffset]
      BY <1>2, <1>8, <2>2, <2>5
    <2> HIDE DEF buffer, segs
    <2>7. buffer[k] = IF k - segs[i].bufferOffset \in DOMAIN MsgOf(t, n).data
                      THEN MsgOf(t, n).data[k - segs[i].bufferOffset] ELSE Garbage
      BY <2>4, <2>6 DEF Slice
    <2> QED BY <2>2, <2>5, <2>7
  <1>9. ASSUME NEW k \in 0..(l - 1) PROVE buffer[k] \in Kernel!Values
    <2> HIDE DEF buffer, segs
    <2> QED BY <1>8, ValuesAre DEF KnownBytes
  <1>10. ASSUME request[u] \in Promised, NEW k \in 0..(l - 1), Kernel!Intact(o + k)
         PROVE  buffer[k] \in allowed[o + k]
    <2>1. DOMAIN segs = {1} /\ segs[1].bufferOffset = 0
      BY <1>10, PromisedCalls
    <2> HIDE DEF buffer
    <2>2. PICK n \in Calls(u) :
              /\ MsgOf(t, n) # NoMsg /\ MsgOf(t, n).result
              /\ buffer[k] = IF k \in DOMAIN MsgOf(t, n).data THEN MsgOf(t, n).data[k] ELSE Garbage
      <3>1. k - 0 = k
        BY <1>10
      <3> HIDE DEF segs
      <3> QED BY <1>8, <2>1, <3>1
    <2>3. Holds(u, Command(u, n).minion, MsgOf(t, n).data)
      BY <1>10, <2>2 DEF VouchedFor
    <2>4. o + k \in Kernel!Range(request[u]) /\ (o + k) - o = k
      BY <1>1, <1>10 DEF Kernel!Range
    <2>5. k \in DOMAIN MsgOf(t, n).data
          /\ (damaged[Command(u, n).minion][o + k] = {} => MsgOf(t, n).data[k] \in allowed[o + k])
      BY <2>3, <2>4 DEF Holds
    <2>6. damaged[Command(u, n).minion][o + k] = {}
      BY <1>10, CommandFields DEF Kernel!Intact
    <2> QED BY <2>2, <2>5, <2>6
  <1>11. buffer \in [0..(l - 1) -> Kernel!Values]
    BY <1>9
  <1>12. DOMAIN buffer = 0..(l - 1)
    OBVIOUS
  <1> HIDE DEF buffer
  <1> QED BY <1>7, <1>10, <1>11, <1>12

\* A response that answers the kernel is one of the block device's replies.
LEMMA ReplyIsKernelStep ==
    ASSUME DriveInv, DataInv', HoldsInv, NEW a \in answers,
           OnMinionFDWakeUp(a) \/ DuplicateAnswer(a)
    PROVE  [Kernel!Next]_(Kernel!vars)
  <1> DEFINE u == a.uid
             t == tickets'[u]
             reply == ReplyOf(u, TaskResult(t))
  <1>1. TablesInv /\ RoutesInv /\ OrderInv /\ TicketsInv /\ KernelInv
    BY DEF DriveInv
  <1>2. UNCHANGED <<request, before>> /\ HandleAnswer(a)
    BY <1>1, AnswerTaken
  <1>3. CASE UNCHANGED <<replies, allowed, damaged>>
    BY <1>2, <1>3 DEF Kernel!vars
  <1>4. CASE ~ UNCHANGED <<replies, allowed, damaged>>
    <2>1. m_map[a.minion][u] # NoCallback
      BY <1>2, <1>4 DEF HandleAnswer
    <2>2. /\ u \in Uids /\ request[u] \in Workload /\ Outstanding(u) /\ TicketShape(u, t)
          /\ DOMAIN t = TicketFields /\ RepliesWith(u, t)
      BY <1>1, <1>2, <1>4, <2>1, AnswerRecorded DEF Recorded
    <2>3. t # << >>
      BY <2>2 DEF TicketFields
    <2>4. request[u].op \in {"read", "write"}
      BY <2>2, RequestFits
    <2>5. allowed = [x \in Units |-> allowed[x]]
          /\ damaged = [m \in Minions |-> [x \in Units |-> damaged[m][x]]]
      BY <1>1 DEF KernelInv
    <2>6. TaskResult(t).result \in BOOLEAN
      BY DEF TaskResult
    <2>7. CASE ~TaskResult(t).result
      <3>1. TaskResult(t).buffer = << >>
        BY <2>7 DEF TaskResult
      <3>2. reply = [error |-> TRUE, buffer |-> << >>]
        BY <2>6, <2>7, <3>1 DEF ReplyOf
      <3>3. allowed' = allowed /\ damaged' = damaged
        BY <2>2, <2>5, <2>7 DEF RepliesWith, Kernel!AllowedOnReply, Kernel!DamagedOnReply
      <3>4. Kernel!ReplyError(u)
        BY <1>2, <2>2, <3>2, <3>3 DEF Kernel!ReplyError, RepliesWith, Outstanding
      <3> QED BY <2>2, <3>4 DEF Kernel!Next
    <2>8. CASE TaskResult(t).result /\ request[u].op = "write"
      <3>1. TaskResult(t).buffer = << >>
        BY <2>2, <2>8 DEF TaskResult, TicketShape
      <3>2. reply = [error |-> FALSE, buffer |-> << >>]
        BY <2>6, <2>8, <3>1 DEF ReplyOf
      <3>3. allowed' = Kernel!AllowedOnReply(u, FALSE) /\ damaged' = Kernel!DamagedOnReply(u, FALSE)
        BY <2>2, <2>6, <2>8 DEF RepliesWith, Kernel!AllowedOnReply, Kernel!DamagedOnReply
      <3>4. Kernel!ReplyWrite(u)
        BY <1>2, <2>2, <2>8, <3>2, <3>3 DEF Kernel!ReplyWrite, RepliesWith, Outstanding
      <3> QED BY <2>2, <3>4 DEF Kernel!Next
    <2>9. CASE TaskResult(t).result /\ request[u].op = "read"
      <3>1. Kernel!Acknowledges(u) = {}
        BY <2>9 DEF Kernel!Acknowledges
      <3>2. allowed' = allowed /\ damaged' = damaged
        BY <2>2, <2>5, <3>1 DEF RepliesWith, Kernel!AllowedOnReply, Kernel!DamagedOnReply
      <3>3. ASSUME NEW n \in Calls(u), MsgOf(t, n) # NoMsg PROVE KnownBytes(MsgOf(t, n).data)
        <4>1. Calls(u)' = Calls(u)
          BY <1>2, CallsFixed
        <4>2. Kernel!Values' = Kernel!Values
          BY DEF Kernel!Values, Kernel!Stamp
        <4>3. KnownBytes(MsgOf(tickets[u], n).data)' /\ MsgOf(tickets[u], n)' = MsgOf(t, n)
          BY <2>2, <2>3, <3>3, <4>1 DEF DataInv, MsgOf, SegmentOf, RoleOf
        <4> QED BY <4>2, <4>3 DEF KnownBytes
      <3>4. request[u] \in Promised => VouchedFor(u, t)
        BY <1>2, <2>1, <2>2, RecordsVouched DEF Pending
      <3>5. PICK buffer \in [0..(request[u].length - 1) -> Kernel!Values] :
                /\ reply = [error |-> FALSE, buffer |-> buffer]
                /\ request[u] \in Promised =>
                       \A k \in DOMAIN buffer :
                           Kernel!Intact(request[u].offset + k) =>
                               buffer[k] \in allowed[request[u].offset + k]
        BY <1>1, <2>2, <2>9, <3>3, <3>4, ReadReply
      <3> HIDE DEF reply, t
      <3>6. replies' = [replies EXCEPT ![u] = reply]
        BY <2>2 DEF RepliesWith, reply
      <3>7. Kernel!ReplyRead(u)
        BY <1>2, <2>2, <2>9, <3>2, <3>5, <3>6 DEF Kernel!ReplyRead, Outstanding
      <3> QED BY <2>2, <3>7 DEF Kernel!Next
    <2> QED BY <2>4, <2>7, <2>8, <2>9
  <1> QED BY <1>3, <1>4

\* What a minion does to its file late, or in a restart, is damage to its units.
LEMMA HitIsKernelStep ==
    ASSUME NEW m \in Minions, NEW places \in SUBSET (0..(ChunkSize - 1)),
           damaged' = Kernel!DamagedOnHit(m, KeptAt(m, places)),
           UNCHANGED <<request, replies, allowed, before>>
    PROVE  Kernel!Next
  <1>1. KeptAt(m, places) \in SUBSET KeptAt(m, 0..(ChunkSize - 1))
    BY DEF KeptAt
  <1>2. Kernel!Damage(m, KeptAt(m, places))
    BY DEF Kernel!Damage
  <1> QED BY <1>1, <1>2 DEF Kernel!Next

\* Every step is a step of the block device, or one it does not see.
LEMMA StepIsKernelStep ==
    ASSUME DriveInv, DataInv', HoldsInv, [Next]_vars
    PROVE  [Kernel!Next]_(Kernel!vars)
  <1>1. TablesInv /\ RoutesInv
    BY DEF DriveInv
  <1>2. ASSUME NEW u \in Uids, NEW r \in Workload, GetTaskArgs(u, r)
        PROVE  [Kernel!Next]_(Kernel!vars)
    BY <1>2 DEF GetTaskArgs, Kernel!Next
  <1>3. ASSUME NEW c \in commands,
               RunMinionCommand(c) \/ MinionCommandFails(c) \/ DuplicateCommand(c)
        PROVE  [Kernel!Next]_(Kernel!vars)
    <2>1. UNCHANGED <<request, replies, allowed, before>>
      BY <1>3, MinionAnswers
    <2>2. c.minion \in Minions /\ Place(c) \subseteq 0..(ChunkSize - 1)
      BY <1>1, CommandPlaces
    <2>3. \/ UNCHANGED damaged
          \/ \E written \in SUBSET Place(c) : Overwrite(c, written)
      BY <1>3 DEF RunMinionCommand, MinionCommandFails, DuplicateCommand, MinionReadCommand,
                  MinionWriteCommand
    <2>4. CASE UNCHANGED damaged
      BY <2>1, <2>4 DEF Kernel!vars
    <2>5. ASSUME NEW written \in SUBSET Place(c), Overwrite(c, written), damaged' # damaged
          PROVE  Kernel!Next
      <3>1. damaged' = Kernel!DamagedOnHit(c.minion, KeptAt(c.minion, written))
        BY <2>5 DEF Overwrite
      <3>2. written \in SUBSET (0..(ChunkSize - 1))
        BY <2>2
      <3> QED BY <2>1, <2>2, <3>1, <3>2, HitIsKernelStep
    <2> QED BY <2>3, <2>4, <2>5
  <1>4. ASSUME NEW m \in Minions, RestartMinion(m) PROVE Kernel!Next
    <2>1. /\ damaged' = Kernel!DamagedOnHit(m, KeptAt(m, 0..(ChunkSize - 1)))
          /\ UNCHANGED <<request, replies, allowed, before>>
      BY <1>4 DEF RestartMinion
    <2> QED BY <2>1, HitIsKernelStep
  <1>5. CASE (\E u \in Uids : Worker(u)) \/ LoseDatagram \/ UNCHANGED vars
    <2>1. UNCHANGED kernelVars
      BY <1>5 DEF Worker, AddTask, SendMirror, SendMirrorFails, LoseDatagram, vars
    <2> QED BY <2>1 DEF kernelVars, Kernel!vars
  <1>6. ASSUME NEW a \in answers, OnMinionFDWakeUp(a) \/ DuplicateAnswer(a)
        PROVE  [Kernel!Next]_(Kernel!vars)
    BY <1>6, ReplyIsKernelStep
  <1> QED BY <1>2, <1>3, <1>4, <1>5, <1>6 DEF Next, Minion, ManagerReactor

\* The drive implements BlockDevice, for every size of the drive, every workload and any
\* number of faults: I/O errors, throwing SendTo calls, lost and repeated datagrams and
\* restarts.  Where chunks share a place a read may return what was written to the other
\* chunk, and no more; what a restart or a repeated write damages is not vouched for until
\* it is written anew; and of a request that crosses into another chunk nothing is promised
\* but that it is answered at most once.
THEOREM DriveIsABlockDevice == Spec => ImplementsBlockDevice
  <1>1. Init => Kernel!Init
    BY DEF Init
  <1>2. DriveInv /\ DataInv' /\ HoldsInv /\ [Next]_vars => [Kernel!Next]_(Kernel!vars)
    BY StepIsKernelStep
  <1> QED BY <1>1, <1>2, DriveInvariant, PTL DEF Spec, ImplementsBlockDevice, Kernel!Spec
===============================================================================
