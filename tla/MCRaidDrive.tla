------------------------------ MODULE MCRaidDrive -----------------------------
\* Workloads for a drive of three minions with two units each.
EXTENDS RaidDrive

Ops == {"read", "write"}

Request(op, offset, length) == [op |-> op, offset |-> offset, length |-> length]

\* Two units kept at the same place of minion 2, and a write that crosses from the
\* chunk of the one into the chunk of the other.
MixedWorkload ==
    {Request("read", 3, 1), Request("write", 3, 1), Request("write", 5, 1),
     Request("write", 3, 2)}

\* One unit of the chunk in the middle.
UnitWorkload == {Request(op, 3, 1) : op \in Ops}

\* The unit of chunk 1 that lies where chunk 0's backup is kept.
AliasedWorkload == {Request(op, a, 1) : op \in Ops, a \in {0, 2}}

\* A request that crosses from chunk 0 to chunk 1.
CrossingWorkload == {Request(op, 1, 2) : op \in Ops}
===============================================================================
