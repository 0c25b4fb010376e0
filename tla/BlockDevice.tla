----------------------------- MODULE BlockDevice ------------------------------
(***************************************************************************)
(* The block device the kernel sees behind /dev/nbdX: requests in any      *)
(* order, each answered at most once.  A read returns for every unit the   *)
(* last value written there, or, while a write to it is in flight or after *)
(* one failed, that write's value or the one before.                       *)
(*                                                                         *)
(* Two things keep it from being a plain disk.  Units may be stored at the *)
(* same place, so a write to one of them also appears in the others; and   *)
(* a part of the device may be damaged: what it holds of some units is no  *)
(* longer vouched for, until they are written anew.                        *)
(***************************************************************************)
EXTENDS Integers

CONSTANTS Uids,         \* identities of the requests, handed out in order from 1
          Workload,     \* the [op, offset, length] requests the kernel may issue
          Promised,     \* the ones among them that the device serves faithfully
          Units,        \* the addresses of the drive
          Blank,        \* what a unit of a new drive holds
          Garbage,      \* bytes from outside the drive
          Sharing,      \* [Units -> the other units stored at one of its places]
          Parts,        \* what may be damaged at a time
          Held,         \* [Parts -> the units a part stores]
          NoRequest, NoReply

VARIABLES request,      \* [Uids -> request issued under that identity]
          replies,      \* [Uids -> [error, buffer] sent to the kernel]
          allowed,      \* [Units -> set of values a read may return]
          before,       \* [Uids -> the requests answered when it was issued]
          damaged       \* [Parts -> [Units -> the requests issued when the part's
                        \*   copy of the unit was damaged; {} while it is intact]]

vars == <<request, replies, allowed, before, damaged>>

Range(r) == r.offset..(r.offset + r.length - 1)

\* The value write u leaves at address a.
Stamp(u, a) == <<u, a>>

Values == {Blank, Garbage} \cup {Stamp(u, a) : u \in Uids, a \in Units}

Issued == {v \in Uids : request[v] # NoRequest}
Replied == {v \in Uids : replies[v] # NoReply}

Outstanding(u) == request[u] # NoRequest /\ replies[u] = NoReply

\* The kernel does not issue a request that overlaps one in flight when either
\* of the two is a write.
Conflict(r, s) ==
    /\ "write" \in {r.op, s.op}
    /\ Range(r) \cap Range(s) # {}

MayIssue(u, r) ==
    /\ request[u] = NoRequest
    /\ \A v \in Uids : v < u => request[v] # NoRequest
    /\ \A v \in Uids : Outstanding(v) => ~Conflict(r, request[v])

\* What write u may bring to unit a: its own value there, or that of a unit a shares
\* a place with.
Brings(u, r, a) ==
    IF r.op = "write" THEN {Stamp(u, b) : b \in (Sharing[a] \cup {a}) \cap Range(r)} ELSE {}

AllowedOnIssue(u, r) == [a \in Units |-> allowed[a] \cup Brings(u, r, a)]

\* What stays allowed in unit a once write u is acknowledged: its value, and those of
\* writes to units that share a place with a and were not over when u was issued.
Settled(u, a) ==
    {Stamp(u, a)} \cup
    (allowed[a] \cap {Stamp(w, b) : w \in Uids \ before[u], b \in Sharing[a]})

\* The units an acknowledgement of request u settles.
Acknowledges(u) ==
    IF request[u].op = "write" /\ request[u] \in Promised THEN Range(request[u]) ELSE {}

\* A failed write leaves both values.
AllowedOnReply(u, error) ==
    [a \in Units |-> IF ~error /\ a \in Acknowledges(u) THEN Settled(u, a) ELSE allowed[a]]

\* An acknowledged write restores the copies of its units, except those damaged since
\* it was issued.
DamagedOnReply(u, error) ==
    [p \in Parts |-> [a \in Units |->
        IF ~error /\ a \in Acknowledges(u) /\ u \notin damaged[p][a] THEN {} ELSE damaged[p][a]]]

\* The copies that part p holds of the units in S are damaged.
DamagedOnHit(p, S) ==
    [damaged EXCEPT ![p] = [a \in Units |-> IF a \in S THEN Issued ELSE @[a]]]

Intact(a) == \A p \in Parts : damaged[p][a] = {}

Init ==
    /\ request = [u \in Uids |-> NoRequest]
    /\ replies = [u \in Uids |-> NoReply]
    /\ allowed = [a \in Units |-> {Blank}]
    /\ before = [u \in Uids |-> {}]
    /\ damaged = [p \in Parts |-> [a \in Units |-> {}]]

Issue(u, r) ==
    /\ MayIssue(u, r)
    /\ request' = [request EXCEPT ![u] = r]
    /\ allowed' = AllowedOnIssue(u, r)
    /\ before' = [before EXCEPT ![u] = Replied]
    /\ UNCHANGED <<replies, damaged>>

ReplyRead(u) ==
    /\ Outstanding(u)
    /\ request[u].op = "read"
    /\ \E buffer \in [0..(request[u].length - 1) -> Values] :
           /\ request[u] \in Promised =>
                  \A k \in DOMAIN buffer :
                      Intact(request[u].offset + k) => buffer[k] \in allowed[request[u].offset + k]
           /\ replies' = [replies EXCEPT ![u] = [error |-> FALSE, buffer |-> buffer]]
    /\ UNCHANGED <<request, allowed, before, damaged>>

ReplyWrite(u) ==
    /\ Outstanding(u)
    /\ request[u].op = "write"
    /\ replies' = [replies EXCEPT ![u] = [error |-> FALSE, buffer |-> << >>]]
    /\ allowed' = AllowedOnReply(u, FALSE)
    /\ damaged' = DamagedOnReply(u, FALSE)
    /\ UNCHANGED <<request, before>>

ReplyError(u) ==
    /\ Outstanding(u)
    /\ replies' = [replies EXCEPT ![u] = [error |-> TRUE, buffer |-> << >>]]
    /\ UNCHANGED <<request, allowed, before, damaged>>

Damage(p, S) ==
    /\ damaged' = DamagedOnHit(p, S)
    /\ UNCHANGED <<request, replies, allowed, before>>

Next ==
    \/ \E u \in Uids :
           \/ \E r \in Workload : Issue(u, r)
           \/ ReplyRead(u)
           \/ ReplyWrite(u)
           \/ ReplyError(u)
    \/ \E p \in Parts : \E S \in SUBSET Held[p] : Damage(p, S)

Spec == Init /\ [][Next]_vars
===============================================================================
