--------------------------- MODULE MCReplication ----------------------------
(* Small instances of Replication for TLC.                                 *)
EXTENDS Replication, TLC

CONSTANTS n1, n2, w1, w2, e1, e2

\* A JSON object without a usable event_uuid, and one that lacks another member.
Malformed ==
    {[event_uuid |-> Invalid, created_by_node_id |-> <<n2, 2>>, complete |-> TRUE],
     [event_uuid |-> e2, created_by_node_id |-> <<n2, 2>>, complete |-> FALSE]}

\* An event under the node_id of n2, put by somebody else: of their own making if
\* e1 is not in use, or an event of a node under another node_id.
Forged ==
    {[event_uuid |-> e1, created_by_node_id |-> <<n2, 1>>, complete |-> TRUE]}

Foreigners == Malformed \cup Forged

\* n2 restarts, n1 does not; or neither does.
N2Restarts == [n \in Nodes |-> IF n = n2 THEN 2 ELSE 1]
NoRestarts == [n \in Nodes |-> 1]

NoFaults == {}
AllFaults == FaultKinds
=============================================================================
