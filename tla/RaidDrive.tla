------------------------------- MODULE RaidDrive -------------------------------
(***************************************************************************)
(* The drive end to end: the kernel's requests, NBDProxy, ResponseManager, *)
(* the worker threads that run ReadCommand / WriteCommand, MinionManager,  *)
(* one MinionProxy per minion, the UDP network, and the minions with their *)
(* FileManager.  Every action is one critical section or one datagram.     *)
(***************************************************************************)
EXTENDS Striping, TicketOps, FiniteSets

CONSTANTS Uids, Workload, NoRequest, NoCallback,
          MaxIoErrors,      \* bounds on the faults of one behaviour
          MaxSendErrors, MaxLost, MaxDuplicated, MaxRestarts,
          Duplicable        \* what it duplicates: commands ("read", "write"), "answer"s

Units == 0..(DriveSize - 1)

Blank == <<0, 0>>           \* a zero byte; uids start at 1

NoReply == << >>            \* a request that has not been answered

ASSUME RaidAssumption ==
    /\ Uids = 1..Cardinality(Uids)
    /\ Workload \subseteq [op : {"read", "write"}, offset : Nat, length : Nat \ {0}]
    /\ \A r \in Workload : r.offset + r.length <= DriveSize
    /\ NoRequest \notin Workload
    /\ Duplicable \subseteq {"read", "write", "answer"}
    /\ {MaxIoErrors, MaxSendErrors, MaxLost, MaxDuplicated, MaxRestarts} \subseteq Nat

VARIABLES
    request, replies, allowed, before, damaged,     \* the kernel's side, see BlockDevice
    m_responses,    \* NBDProxy: uids with a reply prepared
    m_requests,     \* ResponseManager: uids with a Response object
    m_tickets,      \* ResponseManager: uids with a ticket
    task,           \* [Uids -> "none", "queued" in the pool, "sending" or "ended"]
    sent,           \* [Uids -> mirrors the worker has handed to a MinionProxy]
    tickets,        \* [Uids -> the Ticket object, << >> before it exists]
    m_map,          \* [Minions -> [Uids -> the callback MinionProxy keeps]]
    commands, answers,      \* datagrams on their way to and from the minions
    file,           \* [Minions -> contents of its backing file]
    good,           \* [Minions -> m_stream.good()]
    faults          \* how often each kind of fault has happened

kernelVars == <<request, replies, allowed, before, damaged>>
tableVars == <<m_responses, m_requests, m_tickets>>
taskVars == <<task, sent, tickets>>
minionVars == <<file, good>>
vars == <<kernelVars, tableVars, taskVars, m_map, commands, answers, minionVars, faults>>

\* Where a unit of the drive is kept: on two minions, at the same place.
Keepers(a) == {GetPrimaryIndex(a), GetBackupIndex(GetPrimaryIndex(a))}
PlaceOf(a) == a % ChunkSize

\* The units of the drive that minion m keeps at one of the places of its file.
KeptAt(m, places) == {a \in Units : m \in Keepers(a) /\ PlaceOf(a) \in places}

\* A chunk and the chunk before it meet at the same places of a minion.
Sharing ==
    [a \in Units |->
        {b \in Units \ {a} : PlaceOf(b) = PlaceOf(a) /\ Keepers(b) \cap Keepers(a) # {}}]

\* Requests that send at most one command to a minion.  A request that crosses into
\* the next chunk sends two to the minion in the middle, and both wait under one uid.
Promised ==
    {r \in Workload : /\ NumMinions > 1
                      /\ GetPrimaryIndex(r.offset) = GetPrimaryIndex(r.offset + r.length - 1)}

\* The block device this drive is, over the kernel's side of the state.
Kernel == INSTANCE BlockDevice
          WITH Uids <- Uids, Workload <- Workload, Promised <- Promised, Units <- Units,
               Blank <- Blank, Garbage <- Garbage, Sharing <- Sharing, Parts <- Minions,
               Held <- [m \in Minions |-> KeptAt(m, 0..(ChunkSize - 1))],
               NoRequest <- NoRequest, NoReply <- NoReply,
               request <- request, replies <- replies, allowed <- allowed,
               before <- before, damaged <- damaged

FaultKinds == {"io", "send", "lost", "duplicated", "restart"}

Happens(kind, bound) ==
    /\ faults[kind] < bound
    /\ faults' = [faults EXCEPT ![kind] = @ + 1]

Init ==
    /\ Kernel!Init
    /\ m_responses = {} /\ m_requests = {} /\ m_tickets = {}
    /\ task = [u \in Uids |-> "none"]
    /\ sent = [u \in Uids |-> 0]
    /\ tickets = [u \in Uids |-> << >>]
    /\ m_map = [m \in Minions |-> [u \in Uids |-> NoCallback]]
    /\ commands = {} /\ answers = {}
    /\ file = [m \in Minions |-> [l \in 0..(ChunkSize - 1) |-> Blank]]
    /\ good = [m \in Minions |-> TRUE]
    /\ faults = [k \in FaultKinds |-> 0]

-------------------------------------------------------------------------------
(* The master: from the NBD socket to the minion proxies. *)

\* ResponseManager is told of the request.
OnNewTask(u) == m_requests' = m_requests \cup {u}

\* The framework puts the task of the request into the pool's queue.
EnqueueTask(u) == task' = [task EXCEPT ![u] = "queued"]

\* The reactor thread: NBDProxy reads a request, prepares its reply and notifies
\* ResponseManager; the framework's callback then enqueues the task.
GetTaskArgs(u, r) ==
    /\ Kernel!Issue(u, r)
    /\ m_responses' = m_responses \cup {u}
    /\ OnNewTask(u)
    /\ EnqueueTask(u)
    /\ UNCHANGED <<m_tickets, sent, tickets, m_map, commands, answers, minionVars, faults>>

Segments(u) == Split(request[u].offset, request[u].length)

\* ResponseManager stores the ticket and registers for its result.
OnTicketCreate(u) == m_tickets' = m_tickets \cup {u}

\* A worker runs the command as far as the ticket; a range beyond the drive
\* throws, and the command ends there without an answer.
AddTask(u) ==
    /\ task[u] = "queued"
    /\ IF ValidateRange(request[u].offset, request[u].length)
       THEN /\ task' = [task EXCEPT ![u] = "sending"]
            /\ tickets' = [tickets EXCEPT ![u] = NewTicket(u, request[u].op, Segments(u))]
            /\ OnTicketCreate(u)
       ELSE /\ task' = [task EXCEPT ![u] = "ended"]
            /\ UNCHANGED <<tickets, m_tickets>>
    /\ UNCHANGED <<kernelVars, m_responses, m_requests, sent, m_map, commands, answers,
                   minionVars, faults>>

\* The loop over the segments sends to the primary, then to the backup: the
\* n-th call goes to this segment and role.
SegmentOf(n) == (n \div 2) + 1
RoleOf(n) == IF n % 2 = 0 THEN "primary" ELSE "backup"
TagOf(n) == [segment |-> SegmentOf(n), role |-> RoleOf(n)]

MinionOf(seg, role) ==
    IF role = "primary" THEN seg.primaryMinionIndex ELSE seg.backupMinionIndex

Calls(u) == 0..(2 * Len(Segments(u)) - 1)

\* The slice of the kernel's buffer that segment seg of write u carries.
WriteSlice(u, seg) ==
    [k \in 0..(seg.length - 1) |->
        Kernel!Stamp(u, request[u].offset + seg.bufferOffset + k)]

\* The datagram for call n of request u.  tag says which mirror it was sent for;
\* it is not in the datagram, only in the properties.
Command(u, n) ==
    LET seg == Segments(u)[SegmentOf(n)]
    IN [minion |-> MinionOf(seg, RoleOf(n)),
        uid    |-> u,
        op     |-> request[u].op,
        offset |-> seg.localOffset,
        length |-> seg.length,
        data   |-> IF request[u].op = "write" THEN WriteSlice(u, seg) ELSE << >>,
        tag    |-> TagOf(n)]

\* A slip: the primary's callback copied to the backup's call.
RegisterPrimaryCallback(u, n) ==
    m_map' = [m_map EXCEPT ![Command(u, n).minion][u] =
                  [segment |-> SegmentOf(n), role |-> "primary"]]

\* MinionProxy::AddReadTask / AddWriteTask under its mutex: the callback is put
\* under the uid, then the datagram is sent.
RegisterCallback(u, n) ==
    m_map' = [m_map EXCEPT ![Command(u, n).minion][u] = Command(u, n).tag]

SendMirror(u) ==
    LET n == sent[u]
    IN /\ task[u] = "sending"
       /\ n \in Calls(u)
       /\ RegisterCallback(u, n)
       /\ commands' = commands \cup {Command(u, n)}
       /\ sent' = [sent EXCEPT ![u] = n + 1]
       /\ task' = [task EXCEPT ![u] = IF n + 1 = 2 * Len(Segments(u)) THEN "ended" ELSE @]
       /\ UNCHANGED <<kernelVars, tableVars, tickets, answers, minionVars, faults>>

\* SendTo throws; the command's handler logs it and the loop is abandoned.
SendMirrorFails(u) ==
    /\ task[u] = "sending"
    /\ Happens("send", MaxSendErrors)
    /\ RegisterCallback(u, sent[u])
    /\ task' = [task EXCEPT ![u] = "ended"]
    /\ UNCHANGED <<kernelVars, tableVars, sent, tickets, commands, answers, minionVars>>

-------------------------------------------------------------------------------
(* A minion: receive, run the command on the file, send the response. *)

Answer(c, result, data) ==
    [minion |-> c.minion, uid |-> c.uid, result |-> result, data |-> data, tag |-> c.tag]

\* What the stream reads at c's place; after an error the buffer of the response
\* is left uninitialised.
ReadFromFile(c) ==
    [k \in 0..(c.length - 1) |->
        IF good[c.minion] THEN file[c.minion][c.offset + k] ELSE Garbage]

Place(c) == c.offset..(c.offset + c.length - 1)

\* The file of c's minion after the units of c at the places written reached it.
Written(c, written) ==
    [file EXCEPT ![c.minion] =
        [l \in DOMAIN @ |-> IF l \in written THEN c.data[l - c.offset] ELSE @[l]]]

Outstanding(u) == Kernel!Outstanding(u)

\* The units of c at the places written reach the file.  For the kernel a write that
\* has been answered is over: one that comes later damages what it overwrites.
Overwrite(c, written) ==
    /\ file' = Written(c, written)
    /\ damaged' = IF Outstanding(c.uid) THEN damaged
                  ELSE Kernel!DamagedOnHit(c.minion, KeptAt(c.minion, written))

MinionReadCommand(c) ==
    /\ c.op = "read"
    /\ answers' = answers \cup {Answer(c, good[c.minion], ReadFromFile(c))}
    /\ UNCHANGED <<minionVars, damaged>>

MinionWriteCommand(c) ==
    /\ c.op = "write"
    /\ IF good[c.minion] THEN Overwrite(c, Place(c)) ELSE UNCHANGED <<file, damaged>>
    /\ answers' = answers \cup {Answer(c, good[c.minion], << >>)}
    /\ UNCHANGED good

\* MasterProxy::GetTaskArgs and the minion's worker thread.
RunMinionCommand(c) ==
    /\ c \in commands
    /\ commands' = commands \ {c}
    /\ MinionReadCommand(c) \/ MinionWriteCommand(c)
    /\ UNCHANGED <<request, replies, allowed, before, tableVars, taskVars, m_map, faults>>

\* The operation fails; the stream's error state is never cleared.  A write may
\* have reached the file in part.
MinionCommandFails(c) ==
    /\ c \in commands /\ good[c.minion]
    /\ Happens("io", MaxIoErrors)
    /\ commands' = commands \ {c}
    /\ good' = [good EXCEPT ![c.minion] = FALSE]
    /\ IF c.op = "read"
       THEN /\ UNCHANGED <<file, damaged>>
            /\ answers' = answers \cup
                   {Answer(c, FALSE, [k \in 0..(c.length - 1) |-> Garbage])}
       ELSE /\ \E written \in SUBSET Place(c) : Overwrite(c, written)
            /\ answers' = answers \cup {Answer(c, FALSE, << >>)}
    /\ UNCHANGED <<request, replies, allowed, before, tableVars, taskVars, m_map>>

-------------------------------------------------------------------------------
(* The master: from a minion's response to the NBD socket. *)

\* The units of the result buffer, assembled from the slices of the segments.
Assembled(u, slices) ==
    LET segs == Segments(u)
        At(k) == CHOOSE i \in DOMAIN segs :
                     /\ segs[i].bufferOffset <= k
                     /\ k < segs[i].bufferOffset + segs[i].length
    IN [k \in 0..(request[u].length - 1) |-> slices[At(k)][k - segs[At(k)].bufferOffset]]

\* A slip: the error field keeps the 0 it was prepared with.
OnNBDResponseNoError(r) ==
    IF r.uid \in m_responses
    THEN /\ m_responses' = m_responses \ {r.uid}
         /\ replies' = [replies EXCEPT ![r.uid] =
                [error  |-> FALSE,
                 buffer |-> IF r.buffer = << >> THEN << >> ELSE Assembled(r.uid, r.buffer)]]
         /\ allowed' = Kernel!AllowedOnReply(r.uid, FALSE)
         /\ damaged' = Kernel!DamagedOnReply(r.uid, FALSE)
    ELSE UNCHANGED <<m_responses, replies, allowed, damaged>>

\* NBDProxy::OnNBDResponse: the prepared reply is sent once.
OnNBDResponse(r) ==
    IF r.uid \in m_responses
    THEN /\ m_responses' = m_responses \ {r.uid}
         /\ replies' = [replies EXCEPT ![r.uid] =
                [error  |-> ~r.result,
                 buffer |-> IF r.buffer = << >> THEN << >> ELSE Assembled(r.uid, r.buffer)]]
         /\ allowed' = Kernel!AllowedOnReply(r.uid, ~r.result)
         /\ damaged' = Kernel!DamagedOnReply(r.uid, ~r.result)
    ELSE UNCHANGED <<m_responses, replies, allowed, damaged>>

\* A slip: the ticket is kept.
OnTicketDoneKept(r) ==
    IF r.uid \in m_requests
    THEN /\ m_requests' = m_requests \ {r.uid}
         /\ OnNBDResponse(r)
         /\ UNCHANGED m_tickets
    ELSE UNCHANGED <<tableVars, replies, allowed, damaged>>

\* ResponseManager::OnTicketDone.
OnTicketDone(r) ==
    IF r.uid \in m_requests
    THEN /\ m_tickets' = m_tickets \ {r.uid}
         /\ m_requests' = m_requests \ {r.uid}
         /\ OnNBDResponse(r)
    ELSE UNCHANGED <<tableVars, replies, allowed, damaged>>

\* MinionManager's reactor thread: MinionProxy looks the uid up, runs the
\* callback under its mutex as far as the reply to the kernel, and erases it.
HandleAnswer(a) ==
    LET callback == m_map[a.minion][a.uid]
        after == OnMirrorResponse(tickets[a.uid], callback.segment, callback.role,
                                  [result |-> a.result, data |-> a.data])
    IN IF callback = NoCallback
       THEN UNCHANGED <<tickets, m_map, tableVars, replies, allowed, damaged>>
       ELSE /\ tickets' = [tickets EXCEPT ![a.uid] = after.ticket]
            /\ m_map' = [m_map EXCEPT ![a.minion][a.uid] = NoCallback]
            /\ IF after.notified = << >>
               THEN UNCHANGED <<tableVars, replies, allowed, damaged>>
               ELSE \E r \in {after.notified[1]} : OnTicketDone(r)

OnMinionFDWakeUp(a) ==
    /\ a \in answers
    /\ answers' = answers \ {a}
    /\ HandleAnswer(a)
    /\ UNCHANGED <<request, before, task, sent, commands, minionVars, faults>>

-------------------------------------------------------------------------------
(* The network and the minions' processes. *)

LoseDatagram ==
    /\ Happens("lost", MaxLost)
    /\ \/ \E c \in commands : commands' = commands \ {c} /\ UNCHANGED answers
       \/ \E a \in answers : answers' = answers \ {a} /\ UNCHANGED commands
    /\ UNCHANGED <<kernelVars, tableVars, taskVars, m_map, minionVars>>

\* UDP delivers a datagram that it will deliver again.
DuplicateAnswer(a) ==
    /\ a \in answers /\ "answer" \in Duplicable
    /\ Happens("duplicated", MaxDuplicated)
    /\ HandleAnswer(a)
    /\ UNCHANGED <<request, before, task, sent, commands, answers, minionVars>>

DuplicateCommand(c) ==
    /\ c \in commands /\ c.op \in Duplicable
    /\ Happens("duplicated", MaxDuplicated)
    /\ MinionReadCommand(c) \/ MinionWriteCommand(c)
    /\ UNCHANGED <<request, replies, allowed, before, tableVars, taskVars, m_map, commands>>

\* A minion's process is started again.  The commands it had received, in its socket's
\* buffer or its pool's queue, die with it, the ones still on the network do not; and
\* FileManager::Init truncates its file.
RestartMinion(m) ==
    /\ Happens("restart", MaxRestarts)
    /\ \E received \in SUBSET {c \in commands : c.minion = m} :
           commands' = commands \ received
    /\ file' = [file EXCEPT ![m] = [l \in DOMAIN @ |-> Blank]]
    /\ good' = [good EXCEPT ![m] = TRUE]
    /\ damaged' = Kernel!DamagedOnHit(m, KeptAt(m, 0..(ChunkSize - 1)))
    /\ UNCHANGED <<request, replies, allowed, before, tableVars, taskVars, m_map, answers>>

-------------------------------------------------------------------------------
Worker(u) == AddTask(u) \/ SendMirror(u) \/ SendMirrorFails(u)

Minion(m) ==
    \E c \in commands :
        /\ c.minion = m
        /\ RunMinionCommand(c) \/ MinionCommandFails(c)

ManagerReactor == \E a \in answers : OnMinionFDWakeUp(a)

Next ==
    \/ \E u \in Uids, r \in Workload : GetTaskArgs(u, r)
    \/ \E u \in Uids : Worker(u)
    \/ \E m \in Minions : Minion(m)
    \/ ManagerReactor
    \/ LoseDatagram
    \/ \E a \in answers : DuplicateAnswer(a)
    \/ \E c \in commands : DuplicateCommand(c)
    \/ \E m \in Minions : RestartMinion(m)

\* Worker threads, minions and the manager's reactor keep running; the kernel may
\* stop issuing requests and no fault has to happen.
Fairness ==
    /\ \A u \in Uids : WF_vars(Worker(u))
    /\ \A m \in Minions : WF_vars(Minion(m))
    /\ WF_vars(ManagerReactor)

Spec == Init /\ [][Next]_vars /\ Fairness

-------------------------------------------------------------------------------
Datagrams == commands \cup answers

TypeOK ==
    /\ request \in [Uids -> Workload \cup {NoRequest}]
    /\ m_responses \subseteq Uids /\ m_requests \subseteq Uids /\ m_tickets \subseteq Uids
    /\ task \in [Uids -> {"none", "queued", "sending", "ended"}]
    /\ sent \in [Uids -> Nat]
    /\ DOMAIN m_map = Minions /\ \A m \in Minions : DOMAIN m_map[m] = Uids
    /\ \A d \in Datagrams : d.minion \in Minions /\ d.uid \in Uids
    /\ DOMAIN file = Minions /\ \A m \in Minions : DOMAIN file[m] = 0..(ChunkSize - 1)
    /\ good \in [Minions -> BOOLEAN]
    /\ faults \in [FaultKinds -> Nat]

\* Every callback MinionProxy keeps waits for a datagram that is on its way.
CallbacksAwaited ==
    \A m \in Minions, u \in Uids :
        m_map[m][u] # NoCallback => \E d \in Datagrams : d.minion = m /\ d.uid = u

\* The tables of the master agree: until the kernel is answered a request has its
\* prepared reply, its Response and (once its command has run) its ticket, and
\* afterwards none of them is left behind; nor is a callback in a MinionProxy, as
\* long as no datagram is lost, on the network or with a minion, and every SendTo
\* succeeds.
TablesAgree ==
    /\ TypeOK
    /\ m_responses = {u \in Uids : Outstanding(u)}
    /\ m_requests = m_responses
    /\ m_tickets = {u \in m_responses : tickets[u] # << >>}
    /\ faults["lost"] + faults["send"] + faults["restart"] = 0 => CallbacksAwaited

\* A response that comes finds, under its uid, the callback of the mirror it was sent
\* for, or none.  The one exception: the two commands that a crossing request sends to
\* one minion wait in one entry, which the later call has taken; so a response may be
\* taken for that of a later call of its request to its minion, never of an earlier.
ResponseMatchesCallback ==
    \A d \in Datagrams :
        LET callback == m_map[d.minion][d.uid]
        IN \/ callback \in {NoCallback, d.tag}
           \/ /\ request[d.uid] \notin Promised
              /\ \E k, n \in Calls(d.uid) :
                     /\ k < n /\ d.tag = TagOf(k) /\ callback = TagOf(n)
                     /\ Command(d.uid, n).minion = d.minion

UsedUnits == UNION {Kernel!Range(r) : r \in Workload}

\* Every intact copy of a unit holds a value that a read of the unit may return: once
\* a write to it is acknowledged, and no other in flight or failed, both of its minions
\* have that value, so either can be lost.  Copies are damaged by restarts and by
\* datagrams that come twice, and by nothing else: above all, no write is answered
\* while one of its commands has still to run.
SettledUnitsAreMirrored ==
    /\ \A a \in UsedUnits : \A m \in Keepers(a) :
           damaged[m][a] = {} => file[m][PlaceOf(a)] \in allowed[a]
    /\ faults["restart"] + faults["duplicated"] = 0 =>
           \A m \in Minions, a \in Units : damaged[m][a] = {}

\* What mirroring is for: when a minion restarts, which truncates its file, or a
\* datagram comes twice, and a write runs again after later ones, one of a unit's two
\* minions still holds a value that a read of it may return.
AckedDataSurvives ==
    \A a \in UsedUnits :
        faults["restart"] + faults["duplicated"] <= 1 =>
            \E m \in Keepers(a) : file[m][PlaceOf(a)] \in allowed[a]

\* A step that answers a read with success returns, for every unit, the value of a
\* write to that unit, the last one or one in flight or failed since.
ReadsLastWrite ==
    [][\A u \in Uids :
           /\ replies[u] = NoReply /\ replies'[u] # NoReply
           /\ request[u].op = "read" /\ ~replies'[u].error
           => \A k \in DOMAIN replies'[u].buffer :
                  LET a == request[u].offset + k
                      value == replies'[u].buffer[k]
                  IN value \in allowed[a] /\ (value = Blank \/ value[2] = a)]_vars

\* The drive is a block device: every step of the components is a step of
\* BlockDevice or leaves the kernel's view alone.
ImplementsBlockDevice == Kernel!Spec

\* Nothing is ever sent twice, so a write is answered unless one of its datagrams is
\* lost, with a restarted minion or on the network, or a SendTo throws.  A read asks
\* both mirrors at once and is answered all the same, unless the other mirror's file
\* operation fails or its datagram is lost too.
EveryRequestAnswered ==
    \A u \in Uids :
        Outstanding(u) ~>
            LET lost == faults["lost"] + faults["restart"]
            IN \/ ~Outstanding(u)
               \/ faults["send"] > 0
               \/ lost > 0 /\ (request[u].op = "write" \/ lost + faults["io"] > 1)
===============================================================================
