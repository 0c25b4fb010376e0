------------------------------- MODULE MCTicket -------------------------------
\* Two segments of one and two units.  The mirrors of a segment may return
\* different data, and a failed read returns what its buffer happened to hold.
EXTENDS Ticket

MCSegments == <<[length |-> 1, bufferOffset |-> 0], [length |-> 2, bufferOffset |-> 1]>>

MCMessages ==
    {[result |-> TRUE,  data |-> [k \in {0, 1} |-> "a"]],
     [result |-> TRUE,  data |-> [k \in {0, 1} |-> "b"]],
     [result |-> FALSE, data |-> [k \in {0, 1} |-> "c"]]}
===============================================================================
