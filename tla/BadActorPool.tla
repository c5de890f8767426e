---------------------------- MODULE BadActorPool ----------------------------
(***************************************************************************)
(* What a group of SentryPeer nodes promises its users, without threads,   *)
(* databases or a DHT: every node has a set of bad_actor events it knows.  *)
(* An event enters that set at the node whose SIP server saw it, and at    *)
(* another node only after the first one, which keeps it, published it.    *)
(* The pool is open: others may publish events, too.  Nothing known is     *)
(* ever forgotten.                                                         *)
(***************************************************************************)
CONSTANTS Nodes,    \* the SentryPeer nodes
          Events,   \* the event_uuids they can generate
          Nobody    \* not a node: the origin of an event that nobody has
                    \* captured yet

VARIABLES known,      \* known[n]: the events node n can report
          origin,     \* origin[e]: the node that captured e, or Nobody
          published   \* the events that were ever put on the DHT

poolVars == <<known, origin, published>>

PoolTypeOK ==
    /\ known \in [Nodes -> SUBSET Events]
    /\ origin \in [Events -> Nodes \cup {Nobody}]
    /\ published \in SUBSET Events

PoolInit ==
    /\ known = [n \in Nodes |-> {}]
    /\ origin = [e \in Events |-> Nobody]
    /\ published = {}

\* Node n sees a SIP message and gives it the fresh identity e.  The event can
\* still be lost before it is stored.
Capture(n, e) ==
    /\ origin[e] = Nobody
    /\ e \notin published
    /\ origin' = [origin EXCEPT ![e] = n]
    /\ UNCHANGED <<known, published>>

\* The node that captured e stores it.
Store(n, e) ==
    /\ origin[e] = n
    /\ e \notin published
    /\ e \notin known[n]
    /\ known' = [known EXCEPT ![n] = @ \cup {e}]
    /\ UNCHANGED <<origin, published>>

\* The node that captured e, and has it stored, shares it.
Publish(n, e) ==
    /\ origin[e] = n
    /\ e \in known[n]
    /\ published' = published \cup {e}
    /\ UNCHANGED <<known, origin>>

\* Somebody who is not a node publishes an event that no node captured, or one
\* that is public already.
PublishForeign(e) ==
    /\ origin[e] = Nobody \/ e \in published
    /\ published' = published \cup {e}
    /\ UNCHANGED <<known, origin>>

\* Another node stores what was published.
Learn(n, e) ==
    /\ e \in published
    /\ origin[e] # n
    /\ known' = [known EXCEPT ![n] = @ \cup {e}]
    /\ UNCHANGED <<origin, published>>

PoolNext ==
    \E e \in Events :
        \/ PublishForeign(e)
        \/ \E n \in Nodes : Capture(n, e) \/ Store(n, e) \/ Publish(n, e) \/ Learn(n, e)

PoolSpec == PoolInit /\ [][PoolNext]_poolVars
=============================================================================
