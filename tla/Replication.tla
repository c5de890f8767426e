---------------------------- MODULE Replication -----------------------------
(***************************************************************************)
(* How one bad_actor event travels: the SIP server of a node builds it,    *)
(* logs it (the SQLite row is written here) and only then puts it on the   *)
(* OpenDHT key "bad_actors"; the DHT listener of every other node checks   *)
(* the JSON it is handed, asks its own database whether it has the         *)
(* event_uuid and, if not, logs it as well.                                *)
(*                                                                         *)
(*   SIP workers     sip_log_event         (sip_daemon.c)                  *)
(*   DHT listener    dht_value_callback    (peer_to_peer_dht.c)            *)
(*   table honey     db_insert_bad_actor, db_bad_actor_exists (database.c) *)
(*                                                                         *)
(* A node can be killed and started again at any point.  The database file *)
(* survives; the node_id does not, sentrypeer_config_new generates a new   *)
(* one on every start, so a restarted node meets its own earlier events on *)
(* the DHT as if they were somebody else's.                                *)
(***************************************************************************)
EXTENDS Naturals, Sequences, FiniteSets

CONSTANTS
    Nodes,          \* machines that run SentryPeer with p2p_dht_mode on
    Workers,        \* threads of one node that run sip_log_event: one in the
                    \* C daemon, the Tokio worker threads in the Rust server
    Events,         \* the event_uuids that can be generated
    MaxStarts,      \* bound: MaxStarts[n], how often node n may be started
    MaxRows,        \* bound: how many rows one table may get
    MaxForeign,     \* bound: how many different values of others there may be
    Faults,         \* which calls may fail, a subset of FaultKinds
    ForeignValues,  \* values somebody who is not one of Nodes may put on the key,
                    \* forged ones included: nothing on the DHT is signed
    Invalid,        \* a JSON member that is missing or not a UUID
    None            \* "nothing": no event in hand, no value, no creator

\* "log":    bad_actor_log returns EXIT_FAILURE and no row is written (the JSON
\*           log or any SQLite call up to sqlite3_step failed)
\* "close":  the row is written, but closing the database afterwards fails and
\*           bad_actor_log returns EXIT_FAILURE
\* "exists": an SQLite error inside db_bad_actor_exists, which answers "false"
\* "put":    peer_to_peer_dht_save cannot make JSON or a DHT value of the event
FaultKinds == {"log", "close", "exists", "put"}

\* The node_id of the k-th start of node n: sentrypeer_config_new generates a
\* UUID.
NodeIds == Nodes \X Nat

\* The JSON object on the DHT, reduced to the members dht_value_callback
\* inspects; "complete" says that every other member json_to_bad_actor
\* requires is there.
Values == [event_uuid: Events \cup {Invalid},
           created_by_node_id: NodeIds \cup {Invalid},
           complete: BOOLEAN]

\* A value the listener can turn into a bad_actor.
WellFormed(v) ==
    /\ v.event_uuid # Invalid
    /\ v.created_by_node_id # Invalid
    /\ v.complete

ASSUME BoundsAssumption ==
    /\ MaxStarts \in [Nodes -> Nat]
    /\ MaxRows \in Nat
    /\ MaxForeign \in Nat

ASSUME ConstantsAssumption ==
    /\ Faults \subseteq FaultKinds
    /\ ForeignValues \subseteq Values
    /\ Invalid \notin Events \cup NodeIds
    /\ None \notin Events \cup NodeIds \cup Values \cup Nodes

\* The columns of a row of table honey that the properties tell apart.
Rows == [event_uuid: Events, created_by_node_id: NodeIds]

\* What a SIP worker has in hand: a bad_actor that is built but not logged, or
\* one that is logged but not yet put on the DHT.
InHand == [stage: {"built", "logged"}, event_uuid: Events]

VARIABLES
    up,        \* up[n]: the process runs
    starts,    \* starts[n]: how often it was started; selects the node_id
    db,        \* db[n]: table honey, in insertion order; survives a crash
    sip,       \* sip[n][w]: what SIP worker w has in hand, or None
    listener,  \* listener[n]: the value the listener found to be new and is
               \* about to log, or None
    inbox,     \* inbox[n]: values OpenDHT has queued for the listener
    dht,       \* values that are on the DHT now
    shared,    \* history: values of nodes that were ever put on the DHT
    foreign,   \* history: values of others that were ever put on the DHT
    creator,   \* history: creator[e], the node_id that generated e, or None
    misled     \* history: <<n, e>> if db_bad_actor_exists of n, because of an
               \* error, ever denied the row of e that was there

nodeVars == <<up, starts, db, sip, listener, misled>>
netVars == <<inbox, dht, shared, foreign>>
vars == <<up, starts, db, sip, listener, inbox, dht, shared, foreign, creator, misled>>

TypeOK ==
    /\ up \in [Nodes -> BOOLEAN]
    /\ starts \in [Nodes -> Nat]
    /\ db \in [Nodes -> Seq(Rows)]
    /\ sip \in [Nodes -> [Workers -> InHand \cup {None}]]
    /\ listener \in [Nodes -> Values \cup {None}]
    /\ inbox \in [Nodes -> SUBSET Values]
    /\ dht \in SUBSET Values
    /\ shared \in SUBSET Values
    /\ foreign \in SUBSET ForeignValues
    /\ creator \in [Events -> NodeIds \cup {None}]
    /\ misled \in SUBSET (Nodes \X Events)

-----------------------------------------------------------------------------
\* config->node_id of the running process.
NodeId(n) == <<n, starts[n]>>

\* The event_uuids of table honey of node n.
Stored(n) == {db[n][i].event_uuid : i \in 1 .. Len(db[n])}

\* bad_actor_to_json of an event of this node.
ToJson(e, id) ==
    [event_uuid |-> e, created_by_node_id |-> id, complete |-> TRUE]

\* Bug variant: the node_id of the JSON is not taken over, the row names the
\* first start of some node.
FromJsonDropsNodeId(v) ==
    [event_uuid |-> v.event_uuid,
     created_by_node_id |-> <<CHOOSE n \in Nodes : TRUE, 1>>]

\* json_to_bad_actor replaces the uuid, timestamp and node_id bad_actor_new has
\* just generated by the ones in the JSON.
FromJson(v) ==
    [event_uuid |-> v.event_uuid, created_by_node_id |-> v.created_by_node_id]

\* db_insert_bad_actor: the row that is appended by one autocommitted INSERT.
Inserted(n, row) ==
    /\ Len(db[n]) < MaxRows
    /\ db' = [db EXCEPT ![n] = Append(@, row)]

\* bad_actor_log with its outcome; success means EXIT_SUCCESS.
bad_actor_log(n, row, success) ==
    \/ success /\ Inserted(n, row)
    \/ ~success /\ "log" \in Faults /\ UNCHANGED db
    \/ ~success /\ "close" \in Faults /\ Inserted(n, row)

\* Bug variant: asks for another column, so nothing is ever found.
ExistsNever(n, e) == FALSE

\* Bug variant: the result of SELECT EXISTS is not read, only that it has a row.
ExistsAlways(n, e) == TRUE

\* The answer of db_bad_actor_exists, if no SQLite call in it fails.
db_bad_actor_exists(n, e) == e \in Stored(n)

-----------------------------------------------------------------------------
Init ==
    /\ up = [n \in Nodes |-> FALSE]
    /\ starts = [n \in Nodes |-> 0]
    /\ db = [n \in Nodes |-> <<>>]
    /\ sip = [n \in Nodes |-> [w \in Workers |-> None]]
    /\ listener = [n \in Nodes |-> None]
    /\ inbox = [n \in Nodes |-> {}]
    /\ dht = {}
    /\ shared = {}
    /\ foreign = {}
    /\ creator = [e \in Events |-> None]
    /\ misled = {}

\* main: a new node_id, then the DHT listener and the SIP server.
Start(n) ==
    /\ ~up[n]
    /\ starts[n] < MaxStarts[n]
    /\ up' = [up EXCEPT ![n] = TRUE]
    /\ starts' = [starts EXCEPT ![n] = @ + 1]
    /\ UNCHANGED <<db, sip, listener, netVars, creator, misled>>

\* The process ends, cleanly or not, wherever its threads happen to be.
Stop(n) ==
    /\ up[n]
    /\ up' = [up EXCEPT ![n] = FALSE]
    /\ sip' = [sip EXCEPT ![n] = [w \in Workers |-> None]]
    /\ listener' = [listener EXCEPT ![n] = None]
    /\ inbox' = [inbox EXCEPT ![n] = {}]
    /\ UNCHANGED <<starts, db, dht, shared, foreign, creator, misled>>

-----------------------------------------------------------------------------
(* sip_log_event, one step per externally visible effect.                  *)

\* bad_actor_new generates the event_uuid, one that is nowhere in use; then the
\* SIP message is parsed.  A message that does not parse is dropped and its uuid
\* with it.
SipBuild(n, w, e) ==
    /\ up[n]
    /\ sip[n][w] = None
    /\ creator[e] = None
    /\ \A v \in foreign : v.event_uuid # e
    /\ creator' = [creator EXCEPT ![e] = NodeId(n)]
    /\ \/ sip' = [sip EXCEPT ![n][w] = [stage |-> "built", event_uuid |-> e]]
       \/ UNCHANGED sip
    /\ UNCHANGED <<up, starts, db, listener, netVars, misled>>

\* What the caller does with the result of bad_actor_log.
\* Bug variant: it carries on to the DHT although bad_actor_log failed.
AfterLogIgnored(hand, success) == [hand EXCEPT !.stage = "logged"]

\* On failure the bad_actor is destroyed, on success it goes to the DHT.
AfterLog(hand, success) ==
    IF success THEN [hand EXCEPT !.stage = "logged"] ELSE None

\* bad_actor_log; on failure the event is destroyed and never shared.
SipLog(n, w) ==
    /\ sip[n][w] # None
    /\ sip[n][w].stage = "built"
    /\ \E success \in BOOLEAN :
         /\ bad_actor_log(n, [event_uuid |-> sip[n][w].event_uuid,
                              created_by_node_id |-> NodeId(n)], success)
         /\ sip' = [sip EXCEPT ![n][w] = AfterLog(@, success)]
    /\ UNCHANGED <<up, starts, listener, netVars, creator, misled>>

\* "Put on DHT last": peer_to_peer_dht_save.
SipPut(n, w) ==
    /\ sip[n][w] # None
    /\ sip[n][w].stage = "logged"
    /\ LET v == ToJson(sip[n][w].event_uuid, NodeId(n))
       IN /\ dht' = dht \cup {v}
          /\ shared' = shared \cup {v}
    /\ sip' = [sip EXCEPT ![n][w] = None]
    /\ UNCHANGED <<up, starts, db, listener, inbox, foreign, creator, misled>>

\* peer_to_peer_dht_save fails: the row stays, the event is not shared.
SipPutFails(n, w) ==
    /\ "put" \in Faults
    /\ sip[n][w] # None
    /\ sip[n][w].stage = "logged"
    /\ sip' = [sip EXCEPT ![n][w] = None]
    /\ UNCHANGED <<up, starts, db, listener, netVars, creator, misled>>

-----------------------------------------------------------------------------
(* OpenDHT, as far as its users can tell.                                  *)

\* A UUID is 122 random bits: it is new, or its user has seen it.
Seen(e) == \E v \in shared : v.event_uuid = e

\* Anybody may put anything on the key: events of their own making, other nodes'
\* events with another node_id, and JSON that is no event.  What nobody can do is
\* to guess an event_uuid before it is on the DHT, or a node_id before it exists.
ForeignPut(v) ==
    /\ v \in ForeignValues \ dht
    /\ v \in foreign \/ Cardinality(foreign) < MaxForeign
    /\ v.event_uuid # Invalid => creator[v.event_uuid] = None \/ Seen(v.event_uuid)
    /\ v.created_by_node_id # Invalid =>
           v.created_by_node_id[2] <= starts[v.created_by_node_id[1]]
    /\ dht' = dht \cup {v}
    /\ foreign' = foreign \cup {v}
    /\ UNCHANGED <<nodeVars, inbox, shared, creator>>

\* A listening node is handed a value, possibly again.
Deliver(n, v) ==
    /\ up[n]
    /\ v \in dht \ inbox[n]
    /\ inbox' = [inbox EXCEPT ![n] = @ \cup {v}]
    /\ UNCHANGED <<nodeVars, dht, shared, foreign, creator>>

\* A value is refreshed only while the process that put it runs.
Expire(v) ==
    /\ v \in dht
    /\ v \in shared => \A n \in Nodes : up[n] => v.created_by_node_id # NodeId(n)
    /\ dht' = dht \ {v}
    /\ UNCHANGED <<nodeVars, inbox, shared, foreign, creator>>

-----------------------------------------------------------------------------
(* dht_value_callback.                                                     *)

\* Bug variant: values we put ourselves are not skipped.
AcceptableFromUs(n, v) ==
    v.created_by_node_id # Invalid /\ v.event_uuid # Invalid

\* Bug variant: the event_uuid is not validated.
AcceptableAnyUuid(n, v) ==
    v.created_by_node_id # Invalid /\ v.created_by_node_id # NodeId(n)

\* The checks up to and including "Check it's not from us".
Acceptable(n, v) ==
    /\ v.created_by_node_id # Invalid
    /\ v.created_by_node_id # NodeId(n)
    /\ v.event_uuid # Invalid

\* The first half: from taking the value to json_to_bad_actor.  It goes on to the
\* second half if the event is new; so it does if the lookup fails, for every
\* error in db_bad_actor_exists is answered "false"; or the value is skipped.
ListenerCheck(n, v) ==
    /\ up[n]
    /\ listener[n] = None
    /\ v \in inbox[n]
    /\ inbox' = [inbox EXCEPT ![n] = @ \ {v}]
    /\ \/ /\ Acceptable(n, v)
          /\ ~db_bad_actor_exists(n, v.event_uuid)
          /\ v.complete
          /\ listener' = [listener EXCEPT ![n] = v]
          /\ UNCHANGED misled
       \/ /\ Acceptable(n, v)
          /\ "exists" \in Faults
          /\ v.complete
          /\ listener' = [listener EXCEPT ![n] = v]
          /\ misled' = misled \cup {<<n, e>> : e \in {v.event_uuid} \cap Stored(n)}
       \/ /\ \/ ~Acceptable(n, v)
             \/ db_bad_actor_exists(n, v.event_uuid)
             \/ ~v.complete
          /\ UNCHANGED <<listener, misled>>
    /\ UNCHANGED <<up, starts, db, sip, dht, shared, foreign, creator>>

\* The second half: bad_actor_log; a failure is only printed.
ListenerLog(n) ==
    /\ listener[n] # None
    /\ \E success \in BOOLEAN : bad_actor_log(n, FromJson(listener[n]), success)
    /\ listener' = [listener EXCEPT ![n] = None]
    /\ UNCHANGED <<up, starts, sip, netVars, creator, misled>>

Next ==
    \/ \E n \in Nodes : Start(n) \/ Stop(n) \/ ListenerLog(n)
    \/ \E n \in Nodes, w \in Workers :
         \/ \E e \in Events : SipBuild(n, w, e)
         \/ SipLog(n, w)
         \/ SipPut(n, w)
         \/ SipPutFails(n, w)
    \/ \E v \in ForeignValues : ForeignPut(v)
    \/ \E v \in dht : Expire(v) \/ (\E n \in Nodes : Deliver(n, v))
    \/ \E n \in Nodes : \E v \in inbox[n] : ListenerCheck(n, v)

Spec == Init /\ [][Next]_vars

\* Every value that can appear on the key within the bound.
PossibleValues ==
    ForeignValues \cup UNION {{ToJson(e, <<n, k>>) : e \in Events, k \in 1 .. MaxStarts[n]} :
                                n \in Nodes}

\* Threads that can run do run, and OpenDHT, which calls the listener for the
\* queued values in turn, neither drops a queued value nor forgets to announce
\* one.  Nothing is assumed about starts, stops, expiry and foreign puts.
Fairness ==
    /\ \A n \in Nodes, w \in Workers : WF_vars(SipLog(n, w)) /\ WF_vars(SipPut(n, w))
    /\ \A n \in Nodes : WF_vars(ListenerLog(n))
    /\ \A n \in Nodes, v \in PossibleValues :
         WF_vars(Deliver(n, v)) /\ SF_vars(ListenerCheck(n, v))

FairSpec == Spec /\ Fairness

-----------------------------------------------------------------------------
(* Safety.                                                                 *)

\* A database holds two rows with the same event_uuid only if the lookup of that
\* event once failed on that node: the lookup of dht_value_callback and the insert
\* after it are two transactions, the SIP workers insert in between, an event
\* comes again and again and comes back to a restarted node as a stranger's, and
\* an insert that reports a failure may have stored its row.
NoDuplicateRows ==
    \A n \in Nodes : \A i, j \in 1 .. Len(db[n]) :
        db[n][i].event_uuid = db[n][j].event_uuid =>
            i = j \/ <<n, db[n][i].event_uuid>> \in misled

\* "Put on DHT last" (sip_log_event): whatever a node ever shared is a row of
\* its own database, over crashes and restarts, so a node can answer for what
\* its peers report about it.
StoreBeforeShare ==
    \A v \in shared : \E n \in Nodes : \E i \in 1 .. Len(db[n]) :
        /\ n = v.created_by_node_id[1]
        /\ db[n][i] = FromJson(v)

\* A row names the node_id that generated its event_uuid, however many hops and
\* restarts lie in between; or else it is, as it stands, what somebody who is not
\* a node put on the DHT.  dht_value_callback takes such a value for a node's (it
\* cannot tell), but it mixes no two values and invents no origin.
TrueOrigin ==
    \A n \in Nodes : \A i \in 1 .. Len(db[n]) :
        \/ db[n][i].created_by_node_id = creator[db[n][i].event_uuid]
        \/ \E v \in foreign : db[n][i] = FromJson(v)

\* Even if db_bad_actor_exists errs, the node_id check keeps a running process
\* from storing an event of its own a second time.
OwnEventOnce ==
    \A n \in Nodes : \A i, j \in 1 .. Len(db[n]) :
        /\ db[n][i] = db[n][j]
        /\ db[n][i].created_by_node_id = NodeId(n)
        => i = j

-----------------------------------------------------------------------------
(* The invariant the theorems of ReplicationProofs rest on.                *)

\* This node_id belongs to a process that was started, or to nobody yet known.
Started(id) == id[2] <= starts[id[1]]

\* An event has been generated by some process that was started, and no row names
\* one that was not.
CreatorsStarted ==
    \A e \in Events : creator[e] # None => Started(creator[e])

RowsStarted ==
    \A n \in Nodes : \A i \in 1 .. Len(db[n]) : Started(db[n][i].created_by_node_id)

\* What a worker has in hand is an event of this process that no other worker
\* holds; before it is logged nobody else can know of it.
HandsOwn ==
    \A n \in Nodes, w \in Workers : sip[n][w] # None =>
        /\ up[n]
        /\ creator[sip[n][w].event_uuid] = NodeId(n)
        /\ \A x \in Workers :
             /\ sip[n][x] # None
             /\ sip[n][x].event_uuid = sip[n][w].event_uuid
             => x = w

HandsUnknown ==
    \A n \in Nodes, w \in Workers :
        /\ sip[n][w] # None
        /\ sip[n][w].stage = "built"
        => /\ \A m \in Nodes : sip[n][w].event_uuid \notin Stored(m)
           /\ \A v \in shared \cup foreign : v.event_uuid # sip[n][w].event_uuid

HandsStored ==
    \A n \in Nodes, w \in Workers :
        /\ sip[n][w] # None
        /\ sip[n][w].stage = "logged"
        => \E i \in 1 .. Len(db[n]) :
             db[n][i] = [event_uuid |-> sip[n][w].event_uuid,
                         created_by_node_id |-> NodeId(n)]

\* Values of nodes are well formed and name their creator; foreign ones use only
\* UUIDs that are known; the DHT hands out nothing but these.
SharedOwn ==
    \A v \in shared :
        /\ WellFormed(v)
        /\ v.created_by_node_id = creator[v.event_uuid]

ForeignGuessesNothing ==
    \A v \in foreign : WellFormed(v) =>
        /\ creator[v.event_uuid] = None \/ Seen(v.event_uuid)
        /\ Started(v.created_by_node_id)

NetworkHonest ==
    /\ dht \subseteq shared \cup foreign
    /\ \A n \in Nodes : inbox[n] \subseteq shared \cup foreign

ListenerHonest ==
    \A n \in Nodes : listener[n] # None =>
        /\ WellFormed(listener[n])
        /\ listener[n] \in shared \cup foreign
        /\ listener[n].created_by_node_id # NodeId(n)

\* What a lookup that did not fail has said stays true until the listener has
\* acted on it.
LookupStillTrue ==
    \A n \in Nodes :
        /\ listener[n] # None
        /\ <<n, listener[n].event_uuid>> \notin misled
        => listener[n].event_uuid \notin Stored(n)

IInv ==
    /\ TypeOK
    /\ CreatorsStarted
    /\ RowsStarted
    /\ HandsOwn
    /\ HandsUnknown
    /\ HandsStored
    /\ SharedOwn
    /\ ForeignGuessesNothing
    /\ NetworkHonest
    /\ ListenerHonest
    /\ LookupStillTrue
    /\ TrueOrigin
    /\ StoreBeforeShare
    /\ OwnEventOnce
    /\ NoDuplicateRows

-----------------------------------------------------------------------------
(* Liveness, under FairSpec and Faults = {}.                               *)

\* An event a SIP worker has built reaches the database of every node that is
\* up, unless that node or the one that saw the event stops first.
Converges ==
    \A n, m \in Nodes : \A w \in Workers, e \in Events :
        (/\ up[n]
         /\ sip[m][w] # None
         /\ sip[m][w].event_uuid = e) ~> (e \in Stored(n) \/ ~up[n] \/ ~up[m])

-----------------------------------------------------------------------------
(* Refinement.                                                             *)

Pool == INSTANCE BadActorPool WITH
    Nobody <- None,
    known <- [n \in Nodes |-> Stored(n)],
    origin <- [e \in Events |-> IF creator[e] = None THEN None ELSE creator[e][1]],
    published <- {v.event_uuid : v \in shared \cup {u \in foreign : WellFormed(u)}}

\* Replication, with every kind of fault, implements the pool of known events:
\* a node knows an event only if it captured it, or the node that captured it has
\* stored and published it, or somebody who is not a node has published it.
ImplementsPool == Pool!PoolSpec
=============================================================================
