------------------------------ MODULE NBDSession -------------------------------
(***************************************************************************)
(* The session with the kernel's block device: NBD's constructor, the      *)
(* child process that runs the device, the signal handler and the          *)
(* destructor; the socket, from which TCPClient::Receive takes whatever    *)
(* has arrived; NBDProxy, which reads requests from it and answers them;   *)
(* and the counter that uids are taken from.                               *)
(* Parts of a message are numbered tokens: the socket carries              *)
(* [handle, part], and where a request ends is only known by counting.     *)
(* The rest of the drive is a set of requests being worked on; RaidDrive   *)
(* has it in detail.                                                       *)
(***************************************************************************)
EXTENDS Integers, Sequences, FiniteSets

CONSTANTS NumRequests,      \* how many requests the kernel sends
          Disc,             \* the handle of NBD_CMD_DISC
          HeaderLen,        \* tokens of an nbd_request
          DataLen,          \* tokens of the data of a write
          MaxSignals,
          NoUid

ASSUME SessionAssumption ==
    /\ NumRequests \in Nat /\ Disc \notin Nat
    /\ HeaderLen \in Nat \ {0} /\ DataLen \in Nat \ {0}
    /\ MaxSignals \in Nat
    /\ NoUid \notin Nat

\* The handles of the kernel's requests, in the order it sends them.
Handles == 1..NumRequests

VARIABLES
    \* the kernel
    op,             \* [Handles -> "none", "read" or "write"]
    outgoing,       \* tokens the kernel has still to put into the socket
    replies,        \* replies it has got: [handle, of], of being the request served
    \* the socket and the reactor's thread
    socket,         \* tokens that have arrived
    reactor,        \* "select", "header", "data", "count", "store", "table";
                    \* "threw" over a bad request; "failed": select or recv did
    buffer,         \* what Receive has got so far
    seen,           \* the counter as the reactor's thread has read it
    m_responses,    \* set of [uid, handle], a map from uids
    working,        \* the drive: set of [uid, of]
    \* the thread that finishes tickets
    answering,      \* the request it answers, << >> if none
    seenToo,        \* the counter as this thread has read it
    s_counter,
    \* processes
    child,          \* "forked", "doit" or "ended"
    parent,         \* "forked", "ready", "waiting" in waitpid, "gone" or "killed"
    device,         \* s_nbdDevToDisconnect: "unset" or "open"
    signals,        \* signals so far
    \* history, for the properties
    rolledBack,     \* a late store has put s_counter back
    refused,        \* NBD_DISCONNECT has failed
    usedClosed      \* NBD_DISCONNECT was tried on a closed descriptor

kernelVars == <<op, outgoing, replies>>
reactorVars == <<socket, reactor, buffer, seen, m_responses, working>>
answerVars == <<answering, seenToo>>
uidVars == <<s_counter, rolledBack>>
processVars == <<child, parent, device, signals, refused, usedClosed>>
vars == <<kernelVars, reactorVars, answerVars, uidVars, processVars>>

Init ==
    /\ op = [h \in Handles |-> "none"]
    /\ outgoing = << >> /\ replies = << >>
    /\ socket = << >> /\ reactor = "select" /\ buffer = << >> /\ seen = NoUid
    /\ m_responses = {} /\ working = {}
    /\ answering = << >> /\ seenToo = NoUid
    /\ s_counter = 0 /\ rolledBack = FALSE
    /\ child = "forked" /\ parent = "forked" /\ device = "unset"
    /\ signals = 0 /\ refused = FALSE /\ usedClosed = FALSE

Serving == parent = "ready" /\ reactor \notin {"threw", "failed"}

-------------------------------------------------------------------------------
(* The kernel. *)

\* The length of a request, and its tokens.
Length(h) == IF h \in Handles /\ op[h] = "write" THEN HeaderLen + DataLen ELSE HeaderLen
Message(h, n) == [k \in 1..n |-> [handle |-> h, part |-> k]]

Issue(h, o) ==
    /\ child = "doit"
    /\ op[h] = "none" /\ \A g \in 1..(h - 1) : op[g] # "none"
    /\ op' = [op EXCEPT ![h] = o]
    /\ outgoing' = outgoing \o Message(h, Length(h)')
    /\ UNCHANGED <<replies, reactorVars, answerVars, uidVars, processVars>>

\* Tokens arrive one by one, as the socket's buffers have it, while the device runs.
Deliver ==
    /\ child = "doit" /\ outgoing # << >>
    /\ socket' = Append(socket, Head(outgoing))
    /\ outgoing' = Tail(outgoing)
    /\ UNCHANGED <<op, replies, reactor, buffer, seen, m_responses, working, answerVars,
                   uidVars, processVars>>

-------------------------------------------------------------------------------
(* NBDProxy::GetTaskArgs, on the reactor's thread. *)

\* select reports the socket; Receive begins, with m_mtx held.
WakeUp ==
    /\ Serving /\ reactor = "select" /\ socket # << >>
    /\ reactor' = "header"
    /\ buffer' = << >>
    /\ UNCHANGED <<kernelVars, socket, seen, m_responses, working, answerVars, uidVars,
                   processVars>>

\* The header in buf is that of one request; in any other the magic is wrong.
MagicOf(buf) ==
    Len(buf) >= HeaderLen /\ SubSeq(buf, 1, HeaderLen) = Message(buf[1].handle, HeaderLen)

\* A slip: the case of NBD_CMD_DISC falls through to that of a write.
SwitchFallsThrough(h) ==
    IF h = Disc \/ op[h] = "write" THEN "data" ELSE "count"

\* The switch on a request's type: a write's data follow, and what is neither a read
\* nor a write gives no task.
Switch(h) ==
    IF h = Disc THEN "select" ELSE IF op[h] = "write" THEN "data" ELSE "count"

AfterReceive(buf) ==
    IF ~MagicOf(buf) THEN "threw"
    ELSE IF reactor = "data" THEN "count" ELSE Switch(buf[1].handle)

Missing == (IF reactor = "header" THEN HeaderLen ELSE HeaderLen + DataLen) - Len(buffer)

Recv(k) ==
    /\ Serving /\ reactor \in {"header", "data"}
    /\ k <= Missing /\ k <= Len(socket)
    /\ buffer' = buffer \o SubSeq(socket, 1, k)
    /\ socket' = SubSeq(socket, k + 1, Len(socket))
    /\ UNCHANGED <<kernelVars, seen, m_responses, working, answerVars, uidVars, processVars>>

\* A slip: Receive returns after the first recv.
ReceiveOnce ==
    \E k \in 1..Len(socket) :
        /\ Recv(k)
        /\ reactor' = AfterReceive(buffer')

\* TCPClient::Receive: recv takes some of what has arrived, until nothing is missing.
Receive ==
    \E k \in 1..Len(socket) :
        /\ Recv(k)
        /\ reactor' = IF k = Missing THEN AfterReceive(buffer') ELSE reactor

\* When the device no longer runs, the kernel may shut the socket: select reports it, and
\* recv returns 0 or an error.  Receive throws, out of Run; what it has got is lost.
ReceiveThrows ==
    /\ Serving /\ reactor \in {"select", "header", "data"}
    /\ child = "ended"
    /\ reactor' = "failed"
    /\ UNCHANGED <<kernelVars, socket, buffer, seen, m_responses, working, answerVars, uidVars,
                   processVars>>

\* The new ATaskArgs takes a uid: s_counter++ reads ...
ReadCounter ==
    /\ Serving /\ reactor = "count"
    /\ seen' = s_counter
    /\ reactor' = "store"
    /\ UNCHANGED <<kernelVars, socket, buffer, m_responses, working, answerVars, uidVars,
                   processVars>>

\* A slip: the counter is not advanced.
StoreNothing ==
    /\ Serving /\ reactor = "store"
    /\ reactor' = "table"
    /\ UNCHANGED <<kernelVars, socket, buffer, seen, m_responses, working, answerVars,
                   uidVars, processVars>>

\* ... and writes, without a lock.
StoreCounter ==
    /\ Serving /\ reactor = "store"
    /\ s_counter' = seen + 1
    /\ reactor' = "table"
    /\ UNCHANGED <<kernelVars, socket, buffer, seen, m_responses, working, answerVars,
                   rolledBack, processVars>>

\* The reply is prepared under the uid (emplace keeps one that is there), and the
\* task goes to the pool.
PrepareReply ==
    /\ Serving /\ reactor = "table"
    /\ LET h == buffer[1].handle
       IN /\ m_responses' = IF \E r \in m_responses : r.uid = seen THEN m_responses
                            ELSE m_responses \cup {[uid |-> seen, handle |-> h]}
          /\ working' = working \cup {[uid |-> seen, of |-> h]}
    /\ reactor' = "select"
    /\ seen' = NoUid
    /\ UNCHANGED <<kernelVars, socket, buffer, answerVars, uidVars, processVars>>

-------------------------------------------------------------------------------
(* Ticket::TryComplete and NBDProxy::OnNBDResponse, on the manager's thread. *)

\* A ticket is done; the TaskResult it makes takes a uid too, although the ticket's
\* is then stored over it.
ResultReadsCounter(w) ==
    /\ parent = "ready" /\ answering = << >>
    /\ answering' = <<w>>
    /\ seenToo' = s_counter
    /\ working' = working \ {w}
    /\ UNCHANGED <<kernelVars, socket, reactor, buffer, seen, m_responses, uidVars, processVars>>

ResultStoresCounter ==
    /\ parent = "ready" /\ seenToo # NoUid
    /\ s_counter' = seenToo + 1
    /\ rolledBack' = (rolledBack \/ s_counter > seenToo + 1)
    /\ seenToo' = NoUid
    /\ UNCHANGED <<kernelVars, reactorVars, answering, processVars>>

\* With m_mtx, which a Receive that waits for more holds: the reply prepared under
\* the uid is sent, and forgotten.
OnNBDResponse ==
    /\ parent = "ready" /\ answering # << >> /\ seenToo = NoUid
    /\ reactor \notin {"header", "data"}
    /\ LET found == {r \in m_responses : r.uid = answering[1].uid}
       IN /\ replies' = IF found = {} THEN replies
                        ELSE Append(replies, [handle |-> (CHOOSE r \in found : TRUE).handle,
                                              of |-> answering[1].of])
          /\ m_responses' = m_responses \ found
    /\ answering' = << >>
    /\ UNCHANGED <<op, outgoing, socket, reactor, buffer, seen, working, seenToo, uidVars,
                   processVars>>

-------------------------------------------------------------------------------
(* Processes and signals. *)

\* RunClient: NBD_SET_SOCK, then NBD_DO_IT, which does not return while the socket
\* is open.
RunClient ==
    /\ child = "forked"
    /\ child' = "doit"
    /\ UNCHANGED <<kernelVars, reactorVars, answerVars, uidVars, parent, device, signals,
                   refused, usedClosed>>

\* An ioctl fails, or the child is killed.
ChildEnds ==
    /\ child # "ended"
    /\ child' = "ended"
    /\ UNCHANGED <<kernelVars, reactorVars, answerVars, uidVars, parent, device, signals,
                   refused, usedClosed>>

\* The rest of the constructor: the descriptor is published, the handler installed.
InstallHandler ==
    /\ parent = "forked"
    /\ parent' = "ready"
    /\ device' = "open"
    /\ UNCHANGED <<kernelVars, reactorVars, answerVars, uidVars, child, signals, refused,
                   usedClosed>>

\* A slip: the descriptor is kept after a successful request.
DisconnectAgain ==
    /\ UNCHANGED device
    /\ usedClosed' = (usedClosed \/ (device = "open" /\ parent = "gone"))
    /\ IF device = "open" /\ parent # "gone" /\ child = "doit"
       THEN outgoing' = outgoing \o Message(Disc, HeaderLen) /\ UNCHANGED refused
       ELSE UNCHANGED outgoing /\ refused' = (refused \/ (device = "open" /\ parent # "gone"))

\* DisconnectNBD: the kernel refuses NBD_DISCONNECT while it has no socket; otherwise
\* it sends NBD_CMD_DISC, and the descriptor is forgotten.
DisconnectNBD ==
    /\ usedClosed' = (usedClosed \/ (device = "open" /\ parent = "gone"))
    /\ IF device = "open" /\ parent # "gone" /\ child = "doit"
       THEN /\ outgoing' = outgoing \o Message(Disc, HeaderLen)
            /\ device' = "unset"
            /\ UNCHANGED refused
       ELSE /\ refused' = (refused \/ (device = "open" /\ parent # "gone"))
            /\ UNCHANGED <<outgoing, device>>

\* SIGINT or SIGTERM.  Before the handler is installed it kills the process.  A thread
\* that handles it in select leaves Run, for SA_RESTART does not apply to select.
Signal ==
    /\ signals < MaxSignals
    /\ signals' = signals + 1
    /\ \/ /\ parent = "forked"
          /\ parent' = "killed"
          /\ UNCHANGED <<outgoing, device, refused, usedClosed, reactor>>
       \/ /\ parent \in {"ready", "waiting", "gone"}
          /\ DisconnectNBD
          /\ \/ UNCHANGED reactor
             \/ Serving /\ reactor = "select" /\ reactor' = "failed"
          /\ UNCHANGED parent
    /\ UNCHANGED <<op, replies, socket, buffer, seen, m_responses, working, answerVars,
                   uidVars, child>>

\* ~NBD, when an exception has left Run and the owner's scope: disconnect ...
DestroyBegin ==
    /\ parent = "ready" /\ ~Serving
    /\ DisconnectNBD
    /\ parent' = "waiting"
    /\ UNCHANGED <<op, replies, reactorVars, answerVars, uidVars, child, signals>>

\* ... wait for the child, and close the descriptors.
DestroyEnd ==
    /\ parent = "waiting" /\ child = "ended"
    /\ parent' = "gone"
    /\ UNCHANGED <<kernelVars, reactorVars, answerVars, uidVars, child, device, signals,
                   refused, usedClosed>>

-------------------------------------------------------------------------------
Next ==
    \/ \E h \in Handles, o \in {"read", "write"} : Issue(h, o)
    \/ Deliver \/ WakeUp \/ Receive \/ ReceiveThrows
    \/ ReadCounter \/ StoreCounter \/ PrepareReply
    \/ \E w \in working : ResultReadsCounter(w)
    \/ ResultStoresCounter \/ OnNBDResponse
    \/ RunClient \/ ChildEnds \/ InstallHandler \/ Signal
    \/ DestroyBegin \/ DestroyEnd

\* The kernel sends what it has begun to, the two threads go on, and the drive
\* finishes what it works on.
Fairness ==
    /\ WF_vars(Deliver) /\ WF_vars(WakeUp) /\ WF_vars(Receive)
    /\ WF_vars(ReadCounter) /\ WF_vars(StoreCounter) /\ WF_vars(PrepareReply)
    /\ WF_vars(\E w \in working : ResultReadsCounter(w))
    /\ WF_vars(ResultStoresCounter) /\ WF_vars(OnNBDResponse)

Spec == Init /\ [][Next]_vars /\ Fairness

-------------------------------------------------------------------------------
Tokens == [handle : Handles \cup {Disc}, part : 1..(HeaderLen + DataLen)]

TypeOK ==
    /\ op \in [Handles -> {"none", "read", "write"}]
    /\ outgoing \in Seq(Tokens) /\ socket \in Seq(Tokens) /\ buffer \in Seq(Tokens)
    /\ replies \in Seq([handle : Handles, of : Handles])
    /\ reactor \in {"select", "header", "data", "count", "store", "table", "threw", "failed"}
    /\ {seen, seenToo} \subseteq Nat \cup {NoUid} /\ s_counter \in Nat
    /\ m_responses \subseteq [uid : Nat, handle : Handles]
    /\ working \subseteq [uid : Nat, of : Handles]
    /\ child \in {"forked", "doit", "ended"}
    /\ parent \in {"forked", "ready", "waiting", "gone", "killed"}
    /\ device \in {"unset", "open"}
    /\ signals \in 0..MaxSignals
    /\ {rolledBack, refused, usedClosed} \subseteq BOOLEAN

\* However the bytes arrive and wherever a disconnect request falls between them,
\* Receive hands over exactly one request, header and data, and NBDProxy never throws
\* over a wrong magic.
RequestsFramed ==
    /\ TypeOK
    /\ reactor # "threw"
    /\ reactor \in {"count", "store", "table"} =>
           LET h == buffer[1].handle IN h # Disc /\ buffer = Message(h, Length(h))

\* Every reply carries the handle of the request it answers, and no request gets two,
\* although the uids that pair them come from a counter two threads advance without a
\* lock: as long as a late store by the thread that finishes tickets does not put the
\* counter back below uids that have been given out.
RepliesMatch ==
    rolledBack \/
        /\ \A k \in 1..Len(replies) : replies[k].handle = replies[k].of
        /\ \A k, j \in 1..Len(replies) : replies[k].of = replies[j].of => k = j

\* Every request is answered, also after a disconnect request (which NBDProxy reads
\* and ignores) and although Receive keeps m_mtx while it waits for the rest of a
\* request, as long as the device is up, no signal finds the reactor in select, and
\* the counter is not put back.
RequestsAnswered ==
    \A h \in Handles :
        op[h] # "none" ~>
            \/ \E k \in 1..Len(replies) : replies[k].handle = h
            \/ ~Serving \/ child = "ended" \/ rolledBack

\* The handler stays installed when the NBD is gone, but never uses its closed
\* descriptor, unless the kernel has refused to disconnect the device: then
\* s_nbdDevToDisconnect is kept.
HandlerUsesOpenDevice == usedClosed => refused
===============================================================================
