-------------------------- MODULE ReplicationProofs -------------------------
(***************************************************************************)
(* Replication keeps its promises for every number of nodes, workers,      *)
(* events, restarts and rows, and whichever calls may fail.                *)
(***************************************************************************)
EXTENDS Replication, TLAPS

\* What bad_actor_log does to table honey of node n: rows are never changed or
\* removed, and the only row that can be new is the one it was called with.
LEMMA LogAppends ==
    ASSUME TypeOK, NEW n \in Nodes, NEW row \in Rows, NEW success \in BOOLEAN,
           bad_actor_log(n, row, success)
    PROVE  /\ db' \in [Nodes -> Seq(Rows)]
           /\ \A m \in Nodes : \A i \in 1 .. Len(db[m]) :
                i \in 1 .. Len(db'[m]) /\ db'[m][i] = db[m][i]
           /\ \A m \in Nodes : \A i \in 1 .. Len(db'[m]) :
                \/ i \in 1 .. Len(db[m]) /\ db'[m][i] = db[m][i]
                \/ m = n /\ i = Len(db[n]) + 1 /\ db'[m][i] = row
<1>1. CASE UNCHANGED db
  BY <1>1 DEF TypeOK
<1>2. CASE Inserted(n, row)
  BY <1>2 DEF TypeOK, Inserted
<1> QED BY <1>1, <1>2 DEF bad_actor_log

\* On success the row is there afterwards.
LEMMA LogStores ==
    ASSUME TypeOK, NEW n \in Nodes, NEW row \in Rows, bad_actor_log(n, row, TRUE)
    PROVE  \E i \in 1 .. Len(db'[n]) : db'[n][i] = row
<1>1. Inserted(n, row)
  BY DEF bad_actor_log
<1>2. /\ Len(db[n]) \in Nat
      /\ db'[n] = Append(db[n], row)
  BY <1>1 DEF Inserted, TypeOK
<1>3. Len(db'[n]) = Len(db[n]) + 1 /\ db'[n][Len(db[n]) + 1] = row
  BY <1>2 DEF TypeOK
<1> QED BY <1>2, <1>3

\* The same, for the set of event_uuids of the table.
LEMMA LogStoredSet ==
    ASSUME TypeOK, NEW n \in Nodes, NEW row \in Rows, NEW success \in BOOLEAN,
           bad_actor_log(n, row, success)
    PROVE  \A m \in Nodes :
             /\ Stored(m) \subseteq Stored(m)'
             /\ \A e \in Stored(m)' : e \in Stored(m) \/ (m = n /\ e = row.event_uuid)
<1>1. /\ \A m \in Nodes : \A i \in 1 .. Len(db[m]) :
           i \in 1 .. Len(db'[m]) /\ db'[m][i] = db[m][i]
      /\ \A m \in Nodes : \A i \in 1 .. Len(db'[m]) :
           \/ i \in 1 .. Len(db[m]) /\ db'[m][i] = db[m][i]
           \/ m = n /\ i = Len(db[n]) + 1 /\ db'[m][i] = row
  BY LogAppends
<1> QED BY <1>1 DEF Stored

\* Rows that stay keep StoreBeforeShare.
LEMMA StoredStays ==
    ASSUME StoreBeforeShare, shared' = shared,
           \A m \in Nodes : \A i \in 1 .. Len(db[m]) :
             i \in 1 .. Len(db'[m]) /\ db'[m][i] = db[m][i]
    PROVE  StoreBeforeShare'
<1> SUFFICES ASSUME NEW v \in shared
             PROVE  \E m \in Nodes : \E i \in 1 .. Len(db'[m]) :
                      m = v.created_by_node_id[1] /\ db'[m][i] = FromJson(v)
  BY DEF StoreBeforeShare, FromJson
<1>1. PICK m \in Nodes : \E i \in 1 .. Len(db[m]) :
        m = v.created_by_node_id[1] /\ db[m][i] = FromJson(v)
  BY DEF StoreBeforeShare
<1>2. PICK i \in 1 .. Len(db[m]) : m = v.created_by_node_id[1] /\ db[m][i] = FromJson(v)
  BY <1>1
<1>3. i \in 1 .. Len(db'[m]) /\ db'[m][i] = db[m][i]
  OBVIOUS
<1> QED BY <1>2, <1>3

\* A step that leaves the tables alone keeps what the rows promise.
LEMMA RowsStay ==
    ASSUME TrueOrigin, OwnEventOnce, NoDuplicateRows,
           db' = db, starts' = starts, creator' = creator,
           foreign \subseteq foreign', misled \subseteq misled'
    PROVE  TrueOrigin' /\ OwnEventOnce' /\ NoDuplicateRows'
<1>1. TrueOrigin'
  BY DEF TrueOrigin, FromJson
<1>2. OwnEventOnce'
  BY DEF OwnEventOnce, NodeId
<1>3. NoDuplicateRows'
  BY DEF NoDuplicateRows
<1> QED BY <1>1, <1>2, <1>3

\* The step gives worker w of node n the hand h.
HandSet(n, w, h) == sip' = [sip EXCEPT ![n][w] = h]

\* Giving worker w of node n a new hand keeps the type of sip and leaves every
\* other worker's hand alone.
LEMMA SetHand ==
    ASSUME TypeOK, NEW n \in Nodes, NEW w \in Workers, NEW h \in InHand \cup {None},
           HandSet(n, w, h)
    PROVE  /\ sip' \in [Nodes -> [Workers -> InHand \cup {None}]]
           /\ sip'[n][w] = h
           /\ \A m \in Nodes, x \in Workers : m # n \/ x # w => sip'[m][x] = sip[m][x]
<1>1. sip[n] \in [Workers -> InHand \cup {None}]
  BY DEF TypeOK
<1>2. [sip[n] EXCEPT ![w] = h] \in [Workers -> InHand \cup {None}]
  BY <1>1
<1>3. sip' = [sip EXCEPT ![n] = [sip[n] EXCEPT ![w] = h]]
  BY DEF HandSet
<1>4. sip' \in [Nodes -> [Workers -> InHand \cup {None}]]
  BY <1>2, <1>3 DEF TypeOK
<1>5. sip'[n] = [sip[n] EXCEPT ![w] = h] /\ \A m \in Nodes : m # n => sip'[m] = sip[m]
  BY <1>3 DEF TypeOK
<1> QED BY <1>1, <1>4, <1>5

LEMMA InitIInv == Init => IInv
<1> SUFFICES ASSUME Init PROVE IInv
  OBVIOUS
<1> USE ConstantsAssumption
<1>1. TypeOK
  BY DEF Init, TypeOK
<1>2. CreatorsStarted /\ RowsStarted /\ HandsOwn /\ HandsUnknown /\ HandsStored
  BY DEF Init, CreatorsStarted, RowsStarted, HandsOwn, HandsUnknown, HandsStored
<1>3. SharedOwn /\ ForeignGuessesNothing /\ NetworkHonest /\ ListenerHonest /\ LookupStillTrue
  BY DEF Init, SharedOwn, ForeignGuessesNothing, NetworkHonest, ListenerHonest, LookupStillTrue
<1>4. TrueOrigin /\ StoreBeforeShare /\ OwnEventOnce /\ NoDuplicateRows
  BY DEF Init, TrueOrigin, StoreBeforeShare, OwnEventOnce, NoDuplicateRows
<1> QED BY <1>1, <1>2, <1>3, <1>4 DEF IInv

\* What the listener has in hand names a process that was started.
LEMMA ListenerStarted ==
    ASSUME IInv, NEW n \in Nodes, listener[n] # None
    PROVE  /\ listener[n] \in Values /\ listener[n].event_uuid \in Events
           /\ listener[n].created_by_node_id \in NodeIds
           /\ Started(listener[n].created_by_node_id)
<1> USE ConstantsAssumption
<1> DEFINE v == listener[n]
<1>1. v \in Values /\ WellFormed(v) /\ v \in shared \cup foreign
  BY DEF IInv, TypeOK, ListenerHonest
<1>2. v.event_uuid \in Events /\ v.created_by_node_id \in NodeIds
  BY <1>1 DEF Values, WellFormed
<1>3. CASE v \in shared
  <2>1. creator[v.event_uuid] = v.created_by_node_id
    BY <1>3 DEF IInv, SharedOwn
  <2> QED BY <1>1, <1>2, <2>1 DEF IInv, CreatorsStarted
<1>4. CASE v \in foreign
  BY <1>1, <1>2, <1>4 DEF IInv, ForeignGuessesNothing
<1> QED BY <1>1, <1>2, <1>3, <1>4

\* A step that starts a process: only its node_id changes, and no row or event
\* in anybody's hand names the new one yet.
LEMMA StartIInv ==
    ASSUME IInv, NEW n \in Nodes, Start(n)
    PROVE  IInv'
<1> USE ConstantsAssumption DEF Start, NodeId, netVars
<1>0. TypeOK
  BY DEF IInv
<1>1. TypeOK'
  BY <1>0 DEF TypeOK
<1>2. Stored(n)' = Stored(n) /\ \A m \in Nodes : Stored(m)' = Stored(m)
  BY DEF Stored
<1>10. \A id \in NodeIds : Started(id) => Started(id)'
  BY <1>0 DEF TypeOK, NodeIds, Started
<1>3. CreatorsStarted' /\ RowsStarted' /\ ForeignGuessesNothing'
  <2>1. CreatorsStarted'
    BY <1>0, <1>10 DEF IInv, TypeOK, CreatorsStarted
  <2>2. RowsStarted'
    <3> SUFFICES ASSUME NEW m \in Nodes, NEW i \in 1 .. Len(db[m])
                 PROVE  db[m][i].created_by_node_id[2] <= starts'[db[m][i].created_by_node_id[1]]
      BY DEF RowsStarted, Started
    <3>0. db[m][i] \in Rows
      BY <1>0 DEF TypeOK
    <3>1. db[m][i].created_by_node_id \in NodeIds
      BY <3>0 DEF Rows
    <3>2. Started(db[m][i].created_by_node_id)
      BY DEF IInv, RowsStarted
    <3> QED BY <1>0, <3>1, <3>2 DEF Started, TypeOK, NodeIds
  <2>3. \A v \in foreign : WellFormed(v) => v.created_by_node_id \in NodeIds
    BY <1>0 DEF TypeOK, WellFormed, Values
  <2>4. ForeignGuessesNothing'
    BY <1>10, <2>3 DEF IInv, ForeignGuessesNothing, Seen, WellFormed
  <2> QED BY <2>1, <2>2, <2>4
<1>4. HandsOwn'
  <2>1. HandsOwn /\ up \in [Nodes -> BOOLEAN] /\ starts \in [Nodes -> Nat]
    BY <1>0 DEF IInv, TypeOK
  <2>2. \A m \in Nodes : up[m] => up'[m] /\ NodeId(m)' = NodeId(m)
    BY <2>1
  <2> HIDE DEF NodeId
  <2> QED BY <2>1, <2>2 DEF HandsOwn
<1>5. HandsUnknown' /\ HandsStored'
  BY <1>0, <1>2 DEF IInv, TypeOK, HandsUnknown, HandsStored, HandsOwn
<1>6. SharedOwn' /\ NetworkHonest' /\ LookupStillTrue'
  BY <1>0, <1>2 DEF IInv, TypeOK, SharedOwn, NetworkHonest, LookupStillTrue, WellFormed
<1>7. ListenerHonest'
  <2> SUFFICES ASSUME NEW m \in Nodes, listener[m] # None
               PROVE  /\ WellFormed(listener[m])
                      /\ listener[m] \in shared \cup foreign
                      /\ listener[m].created_by_node_id # NodeId(m)'
    BY DEF ListenerHonest, WellFormed
  <2>1. /\ WellFormed(listener[m])
        /\ listener[m] \in shared \cup foreign
        /\ listener[m].created_by_node_id # NodeId(m)
    BY DEF IInv, ListenerHonest
  <2>2. /\ listener[m].created_by_node_id \in NodeIds
        /\ Started(listener[m].created_by_node_id)
    BY ListenerStarted
  <2> QED BY <1>0, <2>1, <2>2 DEF TypeOK, NodeIds, Started
<1>8. TrueOrigin' /\ StoreBeforeShare' /\ NoDuplicateRows'
  BY DEF IInv, TrueOrigin, StoreBeforeShare, NoDuplicateRows, FromJson
<1>9. OwnEventOnce'
  <2> SUFFICES ASSUME NEW m \in Nodes, NEW i \in 1 .. Len(db[m]), NEW j \in 1 .. Len(db[m]),
                      db[m][i] = db[m][j], db[m][i].created_by_node_id = NodeId(m)'
               PROVE  i = j
    BY DEF OwnEventOnce
  <2>1. db[m][i] \in Rows
    BY <1>0 DEF TypeOK
  <2>4. db[m][i].created_by_node_id[2] <= starts[db[m][i].created_by_node_id[1]]
    BY DEF IInv, RowsStarted, Started
  <2>5. db[m][i].created_by_node_id[1] = m /\ db[m][i].created_by_node_id[2] = starts'[m]
    OBVIOUS
  <2>6. m # n
    BY <1>0, <2>4, <2>5 DEF TypeOK
  <2> QED BY <1>0, <2>6 DEF IInv, OwnEventOnce, TypeOK
<1> QED BY <1>1, <1>3, <1>4, <1>5, <1>6, <1>7, <1>8, <1>9 DEF IInv

\* A process that ends takes its hands and its listener with it; what is left
\* did not depend on them.
LEMMA StopIInv ==
    ASSUME IInv, NEW n \in Nodes, Stop(n)
    PROVE  IInv'
<1> USE ConstantsAssumption DEF Stop, NodeId
<1>0. TypeOK
  BY DEF IInv
<1>1. TypeOK'
  BY <1>0 DEF TypeOK
<1>2. \A m \in Nodes : Stored(m)' = Stored(m)
  BY DEF Stored
<1>3. \A m \in Nodes, w \in Workers : sip'[m][w] # None => m # n /\ sip'[m][w] = sip[m][w]
  BY <1>0 DEF TypeOK
<1>4. \A m \in Nodes : listener'[m] # None => m # n /\ listener'[m] = listener[m]
  BY <1>0 DEF TypeOK
<1>5. CreatorsStarted' /\ RowsStarted'
  BY DEF IInv, CreatorsStarted, RowsStarted, Started
<1>6. HandsOwn'
  <2>1. \A m \in Nodes : m # n => up'[m] = up[m]
    BY <1>0 DEF TypeOK
  <2> SUFFICES ASSUME NEW m \in Nodes, NEW x \in Workers, sip'[m][x] # None
               PROVE  /\ up'[m]
                      /\ creator'[sip'[m][x].event_uuid] = NodeId(m)'
                      /\ \A y \in Workers :
                           /\ sip'[m][y] # None
                           /\ sip'[m][y].event_uuid = sip'[m][x].event_uuid
                           => y = x
    BY DEF HandsOwn
  <2>2. /\ up[m]
        /\ creator[sip[m][x].event_uuid] = NodeId(m)
        /\ \A y \in Workers :
             sip[m][y] # None /\ sip[m][y].event_uuid = sip[m][x].event_uuid => y = x
    BY <1>3 DEF IInv, HandsOwn
  <2> QED BY <1>3, <2>1, <2>2
<1>7. HandsUnknown' /\ HandsStored'
  BY <1>2, <1>3 DEF IInv, HandsUnknown, HandsStored
<1>8. SharedOwn' /\ NetworkHonest' /\ ForeignGuessesNothing'
  BY <1>0 DEF IInv, TypeOK, SharedOwn, NetworkHonest, WellFormed, ForeignGuessesNothing, Seen,
     Started
<1>9. ListenerHonest' /\ LookupStillTrue'
  BY <1>2, <1>4 DEF IInv, ListenerHonest, LookupStillTrue, WellFormed
<1>10. /\ TrueOrigin' /\ StoreBeforeShare' /\ OwnEventOnce'
       /\ NoDuplicateRows'
  BY RowsStay, StoredStays DEF IInv
<1> QED BY <1>1, <1>5, <1>6, <1>7, <1>8, <1>9, <1>10 DEF IInv

\* An event_uuid nobody generated before is nowhere: not in a row, not in a
\* value of a node and in no worker's hand.
LEMMA FreshEvent ==
    ASSUME IInv, NEW e \in Events, creator[e] = None, \A v \in foreign : v.event_uuid # e
    PROVE  /\ \A m \in Nodes : e \notin Stored(m)
           /\ \A v \in shared : v.event_uuid # e
           /\ \A m \in Nodes, w \in Workers :
                sip[m][w] # None => sip[m][w].event_uuid # e
<1> USE ConstantsAssumption
<1>0. TypeOK
  BY DEF IInv
<1>1. ASSUME NEW m \in Nodes, NEW i \in 1 .. Len(db[m])
      PROVE  db[m][i].event_uuid # e
  <2>1. db[m][i] \in Rows
    BY <1>0 DEF TypeOK
  <2>2. CASE db[m][i].created_by_node_id = creator[db[m][i].event_uuid]
    BY <2>1, <2>2 DEF Rows
  <2>3. CASE \E v \in foreign : db[m][i] = FromJson(v)
    BY <2>3 DEF FromJson
  <2> QED BY <2>2, <2>3 DEF IInv, TrueOrigin
<1>2. \A m \in Nodes : e \notin Stored(m)
  BY <1>1 DEF Stored
<1>3. ASSUME NEW v \in shared
      PROVE  v.event_uuid # e
  <2>1. v \in Values /\ v.created_by_node_id # Invalid
    BY <1>0 DEF TypeOK, IInv, SharedOwn, WellFormed
  <2>2. creator[v.event_uuid] \in NodeIds
    BY <2>1 DEF IInv, SharedOwn, Values
  <2> QED BY <2>2
<1>4. ASSUME NEW m \in Nodes, NEW w \in Workers, sip[m][w] # None
      PROVE  sip[m][w].event_uuid # e
  <2>1. creator[sip[m][w].event_uuid] = NodeId(m)
    BY <1>4 DEF IInv, HandsOwn
  <2>2. NodeId(m) \in NodeIds
    BY <1>0 DEF TypeOK, NodeId, NodeIds
  <2> QED BY <2>1, <2>2
<1> QED BY <1>2, <1>3, <1>4

LEMMA SipBuildIInv ==
    ASSUME IInv, NEW n \in Nodes, NEW w \in Workers, NEW e \in Events, SipBuild(n, w, e)
    PROVE  IInv'
<1> USE ConstantsAssumption DEF SipBuild, NodeId, netVars
<1>0. TypeOK
  BY DEF IInv
<1>1. TypeOK'
  <2>1. NodeId(n) \in NodeIds
    BY <1>0 DEF TypeOK, NodeIds
  <2>2. creator' \in [Events -> NodeIds \cup {None}]
    BY <1>0, <2>1 DEF TypeOK
  <2>3. sip' \in [Nodes -> [Workers -> InHand \cup {None}]]
    <3>1. [stage |-> "built", event_uuid |-> e] \in InHand
      BY DEF InHand
    <3>2. CASE UNCHANGED sip
      BY <1>0, <3>2 DEF TypeOK
    <3>3. CASE sip' = [sip EXCEPT ![n][w] = [stage |-> "built", event_uuid |-> e]]
      BY <1>0, <3>1, <3>3, SetHand DEF HandSet
    <3> QED BY <3>2, <3>3
  <2> QED BY <1>0, <2>2, <2>3 DEF TypeOK
<1>2. \A m \in Nodes : Stored(m)' = Stored(m)
  BY DEF Stored
<1>3. /\ \A m \in Nodes : e \notin Stored(m)
      /\ \A v \in shared : v.event_uuid # e
      /\ \A m \in Nodes, x \in Workers : sip[m][x] # None => sip[m][x].event_uuid # e
  BY FreshEvent
<1>4. \A f \in Events : f # e => creator'[f] = creator[f]
  BY <1>0 DEF TypeOK
<1>5. \A m \in Nodes, x \in Workers : sip'[m][x] # None =>
         \/ sip'[m][x] = sip[m][x]
         \/ m = n /\ x = w /\ sip'[m][x] = [stage |-> "built", event_uuid |-> e]
  BY <1>0 DEF TypeOK
<1>6. CreatorsStarted' /\ RowsStarted'
  BY <1>0, <1>4 DEF IInv, TypeOK, CreatorsStarted, RowsStarted, Started
<1>7. HandsOwn'
  <2> SUFFICES ASSUME NEW m \in Nodes, NEW x \in Workers, sip'[m][x] # None
               PROVE  /\ up[m]
                      /\ creator'[sip'[m][x].event_uuid] = NodeId(m)
                      /\ \A y \in Workers :
                           /\ sip'[m][y] # None
                           /\ sip'[m][y].event_uuid = sip'[m][x].event_uuid
                           => y = x
    BY DEF HandsOwn
  <2>1. CASE sip'[m][x] = sip[m][x]
    <3>1. sip[m][x].event_uuid \in Events
      BY <1>0, <2>1 DEF TypeOK, InHand
    <3>2. sip[m][x].event_uuid # e
      BY <1>3, <2>1
    <3>3. /\ up[m] /\ creator[sip[m][x].event_uuid] = NodeId(m)
          /\ \A y \in Workers :
               sip[m][y] # None /\ sip[m][y].event_uuid = sip[m][x].event_uuid => y = x
      BY <2>1 DEF IInv, HandsOwn
    <3> HIDE DEF SipBuild, NodeId
    <3> QED BY <1>4, <1>5, <2>1, <3>1, <3>2, <3>3
  <2>2. CASE m = n /\ x = w /\ sip'[m][x] = [stage |-> "built", event_uuid |-> e]
    <3>1. creator'[e] = NodeId(n)
      BY <1>0 DEF TypeOK
    <3>2. \A y \in Workers : sip'[n][y] # None /\ sip'[n][y].event_uuid = e => y = w
      BY <1>3, <1>5
    <3> QED BY <2>2, <3>1, <3>2
  <2> QED BY <1>5, <2>1, <2>2
<1>8. HandsUnknown'
  BY <1>2, <1>3, <1>5 DEF IInv, HandsUnknown
<1>9. HandsStored'
  BY <1>5 DEF IInv, HandsStored
<1>10. SharedOwn'
  <2> SUFFICES ASSUME NEW v \in shared
               PROVE  WellFormed(v) /\ v.created_by_node_id = creator'[v.event_uuid]
    BY DEF SharedOwn, WellFormed
  <2>1. WellFormed(v) /\ v \in Values /\ v.event_uuid # e
    BY <1>0, <1>3 DEF IInv, TypeOK, SharedOwn
  <2> QED BY <1>4, <2>1 DEF IInv, SharedOwn, WellFormed, Values
<1>11. NetworkHonest' /\ ListenerHonest' /\ LookupStillTrue'
  BY <1>2 DEF IInv, NetworkHonest, ListenerHonest, LookupStillTrue, WellFormed
<1>14. ForeignGuessesNothing'
  <2> SUFFICES ASSUME NEW v \in foreign, WellFormed(v)
               PROVE  /\ creator'[v.event_uuid] = None \/ Seen(v.event_uuid)
                      /\ Started(v.created_by_node_id)
    BY DEF ForeignGuessesNothing, WellFormed, Seen, Started
  <2>1. v.event_uuid # e /\ v.event_uuid \in Events
    BY <1>0 DEF TypeOK, Values, WellFormed
  <2> QED BY <1>4, <2>1 DEF IInv, ForeignGuessesNothing
<1>12. TrueOrigin'
  <2> SUFFICES ASSUME NEW m \in Nodes, NEW i \in 1 .. Len(db[m])
               PROVE  \/ db[m][i].created_by_node_id = creator'[db[m][i].event_uuid]
                      \/ \E v \in foreign : db[m][i] = FromJson(v)
    BY DEF TrueOrigin, FromJson
  <2>1. db[m][i] \in Rows /\ db[m][i].event_uuid # e
    BY <1>0, <1>3 DEF TypeOK, Stored
  <2> QED BY <1>4, <2>1 DEF IInv, TrueOrigin, Rows
<1>13. /\ StoreBeforeShare' /\ OwnEventOnce'
       /\ NoDuplicateRows'
  BY DEF IInv, StoreBeforeShare, OwnEventOnce, NoDuplicateRows, FromJson
<1> QED BY <1>1, <1>6, <1>7, <1>8, <1>9, <1>10, <1>11, <1>12, <1>13, <1>14 DEF IInv

LEMMA SipLogIInv ==
    ASSUME IInv, NEW n \in Nodes, NEW w \in Workers, SipLog(n, w)
    PROVE  IInv'
<1> USE ConstantsAssumption
<1> DEFINE e == sip[n][w].event_uuid
           row == [event_uuid |-> e, created_by_node_id |-> NodeId(n)]
<1>0. TypeOK
  BY DEF IInv
<1>1. PICK success \in BOOLEAN :
        /\ bad_actor_log(n, row, success)
        /\ sip' = [sip EXCEPT ![n][w] = AfterLog(sip[n][w], success)]
  BY DEF SipLog
<1>2. /\ sip[n][w] # None
      /\ sip[n][w].stage = "built"
      /\ UNCHANGED <<up, starts, listener, inbox, dht, shared, foreign, creator, misled>>
  BY DEF SipLog, netVars
<1>3. /\ sip[n][w] \in InHand
      /\ e \in Events
  BY <1>0, <1>2 DEF TypeOK, InHand
<1>4. row \in Rows
  BY <1>0, <1>3 DEF TypeOK, Rows, NodeId, NodeIds
<1>5. AfterLog(sip[n][w], success) \in {None, [stage |-> "logged", event_uuid |-> e]}
  BY <1>3 DEF AfterLog, InHand
<1>6. [stage |-> "logged", event_uuid |-> e] \in InHand
  BY <1>3 DEF InHand
<1>7. /\ sip' \in [Nodes -> [Workers -> InHand \cup {None}]]
      /\ sip'[n][w] \in {None, [stage |-> "logged", event_uuid |-> e]}
      /\ \A m \in Nodes, x \in Workers : m # n \/ x # w => sip'[m][x] = sip[m][x]
  <2>1. PICK h \in InHand \cup {None} : h = AfterLog(sip[n][w], success)
    BY <1>5, <1>6
  <2>2. HandSet(n, w, h)
    BY <1>1, <2>1 DEF HandSet
  <2>3. /\ sip' \in [Nodes -> [Workers -> InHand \cup {None}]]
        /\ sip'[n][w] = h
        /\ \A m \in Nodes, x \in Workers : m # n \/ x # w => sip'[m][x] = sip[m][x]
    BY <1>0, <2>1, <2>2, SetHand
  <2> QED BY <1>5, <2>1, <2>3
<1>8. /\ db' \in [Nodes -> Seq(Rows)]
      /\ \A m \in Nodes : \A i \in 1 .. Len(db[m]) :
           i \in 1 .. Len(db'[m]) /\ db'[m][i] = db[m][i]
      /\ \A m \in Nodes : \A i \in 1 .. Len(db'[m]) :
           \/ i \in 1 .. Len(db[m]) /\ db'[m][i] = db[m][i]
           \/ m = n /\ i = Len(db[n]) + 1 /\ db'[m][i] = row
  BY <1>0, <1>1, <1>4, LogAppends
<1>9. \A m \in Nodes : \A f \in Stored(m)' : f \in Stored(m) \/ (m = n /\ f = e)
  <2> HIDE DEF e
  <2> QED BY <1>0, <1>1, <1>4, LogStoredSet
\* The event is new to every table and to the DHT.
<1>10. /\ \A m \in Nodes : e \notin Stored(m)
       /\ \A v \in shared \cup foreign : v.event_uuid # e
       /\ creator[e] = NodeId(n)
       /\ up[n]
  BY <1>2 DEF IInv, HandsUnknown, HandsOwn
<1>11. \A m \in Nodes : NodeId(m)' = NodeId(m)
  BY <1>2 DEF NodeId
<1>12. \A m \in Nodes, x \in Workers : sip'[m][x] # None =>
          /\ sip[m][x] # None
          /\ sip'[m][x].event_uuid = sip[m][x].event_uuid
          /\ sip'[m][x].stage = "built" =>
               /\ sip'[m][x] = sip[m][x]
               /\ m # n \/ x # w
  BY <1>2, <1>7
<1> HIDE DEF e, row
<1>13. TypeOK'
  BY <1>0, <1>2, <1>7, <1>8 DEF TypeOK
<1>14. CreatorsStarted' /\ RowsStarted'
  <2>1. Started(row.created_by_node_id)
    BY <1>0 DEF row, NodeId, Started, TypeOK
  <2> QED BY <1>2, <1>8, <2>1 DEF IInv, CreatorsStarted, RowsStarted, Started
<1>15. HandsOwn'
  BY <1>2, <1>11, <1>12 DEF IInv, HandsOwn
<1>16. HandsUnknown'
  <2> SUFFICES ASSUME NEW m \in Nodes, NEW x \in Workers,
                      sip'[m][x] # None, sip'[m][x].stage = "built"
               PROVE  /\ \A k \in Nodes : sip'[m][x].event_uuid \notin Stored(k)'
                      /\ \A v \in shared' \cup foreign' : v.event_uuid # sip'[m][x].event_uuid
    BY DEF HandsUnknown
  <2>1. sip[m][x] # None /\ sip'[m][x] = sip[m][x] /\ (m # n \/ x # w)
    BY <1>12
  <2>2. creator[sip[m][x].event_uuid] = NodeId(m)
    BY <2>1 DEF IInv, HandsOwn
  <2>3. sip[m][x].event_uuid # e
    <3>1. CASE m # n
      BY <1>10, <2>2, <3>1 DEF NodeId
    <3>2. CASE m = n /\ x # w
      BY <1>2, <2>1, <3>2 DEF IInv, HandsOwn, e
    <3> QED BY <2>1, <3>1, <3>2
  <2> QED BY <1>2, <1>9, <2>1, <2>3 DEF IInv, HandsUnknown
<1>17. HandsStored'
  <2> SUFFICES ASSUME NEW m \in Nodes, NEW x \in Workers,
                      sip'[m][x] # None, sip'[m][x].stage = "logged"
               PROVE  \E i \in 1 .. Len(db'[m]) :
                        db'[m][i] = [event_uuid |-> sip'[m][x].event_uuid,
                                     created_by_node_id |-> NodeId(m)]
    BY <1>11 DEF HandsStored
  <2>1. CASE m = n /\ x = w
    <3>1. success = TRUE
      BY <1>0, <1>1, <2>1 DEF TypeOK, AfterLog
    <3>2. \E i \in 1 .. Len(db'[n]) : db'[n][i] = row
      BY <1>0, <1>1, <1>4, <3>1, LogStores
    <3>3. sip'[n][w].event_uuid = e
      BY <1>12, <2>1 DEF e
    <3> QED BY <2>1, <3>2, <3>3 DEF row
  <2>2. CASE m # n \/ x # w
    <3>1. sip'[m][x] = sip[m][x]
      BY <1>7, <2>2
    <3>2. PICK i \in 1 .. Len(db[m]) :
            db[m][i] = [event_uuid |-> sip[m][x].event_uuid,
                        created_by_node_id |-> NodeId(m)]
      BY <3>1 DEF IInv, HandsStored
    <3>3. i \in 1 .. Len(db'[m]) /\ db'[m][i] = db[m][i]
      BY <1>8
    <3> QED BY <3>1, <3>2, <3>3
  <2> QED BY <2>1, <2>2
<1>18. SharedOwn' /\ NetworkHonest' /\ ForeignGuessesNothing'
  BY <1>2 DEF IInv, SharedOwn, NetworkHonest, WellFormed, ForeignGuessesNothing, Seen, Started
<1>19. ListenerHonest'
  BY <1>2, <1>11 DEF IInv, ListenerHonest, WellFormed
<1>20. LookupStillTrue'
  <2> SUFFICES ASSUME NEW m \in Nodes, listener[m] # None,
                      <<m, listener[m].event_uuid>> \notin misled
               PROVE  listener[m].event_uuid \notin Stored(m)'
    BY <1>2 DEF LookupStillTrue
  <2>1. listener[m].event_uuid # e
    BY <1>10 DEF IInv, ListenerHonest
  <2> QED BY <1>9, <2>1 DEF IInv, LookupStillTrue
<1>21. TrueOrigin'
  <2> SUFFICES ASSUME NEW m \in Nodes, NEW i \in 1 .. Len(db'[m])
               PROVE  \/ db'[m][i].created_by_node_id = creator[db'[m][i].event_uuid]
                      \/ \E v \in foreign : db'[m][i] = FromJson(v)
    BY <1>2 DEF TrueOrigin, FromJson
  <2>1. CASE i \in 1 .. Len(db[m]) /\ db'[m][i] = db[m][i]
    BY <2>1 DEF IInv, TrueOrigin
  <2>2. CASE db'[m][i] = row
    BY <1>10, <2>2 DEF row
  <2> QED BY <1>8, <2>1, <2>2
<1>22. StoreBeforeShare'
  BY <1>2, <1>8, StoredStays DEF IInv
<1>23. \A m \in Nodes : \A i, j \in 1 .. Len(db'[m]) :
          db'[m][i].event_uuid = db'[m][j].event_uuid =>
             \/ i = j
             \/ /\ i \in 1 .. Len(db[m]) /\ db'[m][i] = db[m][i]
                /\ j \in 1 .. Len(db[m]) /\ db'[m][j] = db[m][j]
  BY <1>8, <1>10 DEF Stored, row
<1>24. OwnEventOnce'
  <2> SUFFICES ASSUME NEW m \in Nodes, NEW i \in 1 .. Len(db'[m]), NEW j \in 1 .. Len(db'[m]),
                      db'[m][i] = db'[m][j], db'[m][i].created_by_node_id = NodeId(m)
               PROVE  i = j
    BY <1>11 DEF OwnEventOnce
  <2> QED BY <1>23 DEF IInv, OwnEventOnce
<1>25. NoDuplicateRows'
  <2> SUFFICES ASSUME NEW m \in Nodes, NEW i \in 1 .. Len(db'[m]), NEW j \in 1 .. Len(db'[m]),
                      db'[m][i].event_uuid = db'[m][j].event_uuid,
                      <<m, db'[m][i].event_uuid>> \notin misled
               PROVE  i = j
    BY <1>2 DEF NoDuplicateRows
  <2>1. NoDuplicateRows
    BY DEF IInv
  <2> QED BY <1>23, <2>1 DEF NoDuplicateRows
<1> QED BY <1>13, <1>14, <1>15, <1>16, <1>17, <1>18, <1>19, <1>20, <1>21, <1>22, <1>24,
           <1>25 DEF IInv

LEMMA SipPutIInv ==
    ASSUME IInv, NEW n \in Nodes, NEW w \in Workers, SipPut(n, w)
    PROVE  IInv'
<1> USE ConstantsAssumption
<1> DEFINE e == sip[n][w].event_uuid
           val == ToJson(e, NodeId(n))
<1>0. TypeOK
  BY DEF IInv
<1>1. /\ sip[n][w] # None
      /\ sip[n][w].stage = "logged"
      /\ dht' = dht \cup {val}
      /\ shared' = shared \cup {val}
      /\ HandSet(n, w, None)
      /\ UNCHANGED <<up, starts, db, listener, inbox, foreign, creator, misled>>
  BY DEF SipPut, HandSet
<1>2. e \in Events /\ NodeId(n) \in NodeIds /\ creator[e] = NodeId(n)
  BY <1>0, <1>1 DEF IInv, TypeOK, InHand, NodeId, NodeIds, HandsOwn
<1>3. /\ val \in Values
      /\ WellFormed(val)
      /\ val.event_uuid = e
      /\ val.created_by_node_id = NodeId(n)
  BY <1>2 DEF ToJson, Values, WellFormed
<1>4. /\ sip' \in [Nodes -> [Workers -> InHand \cup {None}]]
      /\ sip'[n][w] = None
      /\ \A m \in Nodes, x \in Workers : m # n \/ x # w => sip'[m][x] = sip[m][x]
  BY <1>0, <1>1, SetHand
<1>5. \A m \in Nodes, x \in Workers : sip'[m][x] # None =>
        /\ sip'[m][x] = sip[m][x]
        /\ sip[m][x].event_uuid # e
  <2> SUFFICES ASSUME NEW m \in Nodes, NEW x \in Workers, sip'[m][x] # None
               PROVE  sip'[m][x] = sip[m][x] /\ sip[m][x].event_uuid # e
    OBVIOUS
  <2>1. sip'[m][x] = sip[m][x] /\ (m # n \/ x # w)
    BY <1>4
  <2>2. CASE m # n
    BY <1>1, <1>2, <2>1, <2>2 DEF IInv, HandsOwn, NodeId
  <2>3. CASE m = n /\ x # w
    BY <1>1, <2>1, <2>3 DEF IInv, HandsOwn
  <2> QED BY <2>1, <2>2, <2>3
<1>6. \A m \in Nodes : NodeId(m)' = NodeId(m) /\ Stored(m)' = Stored(m)
  BY <1>1 DEF NodeId, Stored
<1> HIDE DEF e, val
<1>7. TypeOK'
  BY <1>0, <1>1, <1>3, <1>4 DEF TypeOK
<1>8. CreatorsStarted' /\ RowsStarted'
  BY <1>1 DEF IInv, CreatorsStarted, RowsStarted, Started
<1>9. HandsOwn' /\ HandsStored'
  BY <1>1, <1>5, <1>6 DEF IInv, HandsOwn, HandsStored
<1>10. HandsUnknown'
  BY <1>1, <1>3, <1>5, <1>6 DEF IInv, HandsUnknown
<1>11. SharedOwn' /\ ForeignGuessesNothing'
  <2>1. SharedOwn'
    BY <1>1, <1>2, <1>3 DEF IInv, SharedOwn, WellFormed
  <2>2. ForeignGuessesNothing'
    BY <1>1 DEF IInv, ForeignGuessesNothing, WellFormed, Seen, Started
  <2> QED BY <2>1, <2>2
<1>12. NetworkHonest' /\ ListenerHonest' /\ LookupStillTrue'
  BY <1>1, <1>6 DEF IInv, NetworkHonest, ListenerHonest, LookupStillTrue, WellFormed
<1>13. StoreBeforeShare'
  <2> SUFFICES ASSUME NEW v \in shared'
               PROVE  \E m \in Nodes : \E i \in 1 .. Len(db[m]) :
                        m = v.created_by_node_id[1] /\ db[m][i] = FromJson(v)
    BY <1>1 DEF StoreBeforeShare, FromJson
  <2>1. CASE v \in shared
    BY <2>1 DEF IInv, StoreBeforeShare
  <2>2. CASE v = val
    <3>1. FromJson(val) = [event_uuid |-> e, created_by_node_id |-> NodeId(n)]
      BY <1>3 DEF FromJson
    <3>2. PICK i \in 1 .. Len(db[n]) :
            db[n][i] = [event_uuid |-> e, created_by_node_id |-> NodeId(n)]
      BY <1>1 DEF IInv, HandsStored, e
    <3>3. n = val.created_by_node_id[1]
      BY <1>3 DEF NodeId
    <3> QED BY <2>2, <3>1, <3>2, <3>3
  <2> QED BY <1>1, <2>1, <2>2
<1>14. TrueOrigin' /\ OwnEventOnce' /\ NoDuplicateRows'
  BY <1>1, RowsStay DEF IInv
<1> QED BY <1>7, <1>8, <1>9, <1>10, <1>11, <1>12, <1>13, <1>14 DEF IInv

LEMMA SipPutFailsIInv ==
    ASSUME IInv, NEW n \in Nodes, NEW w \in Workers, SipPutFails(n, w)
    PROVE  IInv'
<1> USE ConstantsAssumption
<1>0. TypeOK
  BY DEF IInv
<1>1. /\ HandSet(n, w, None)
      /\ UNCHANGED <<up, starts, db, listener, inbox, dht, shared, foreign, creator, misled>>
  BY DEF SipPutFails, HandSet, netVars
<1>2. /\ sip' \in [Nodes -> [Workers -> InHand \cup {None}]]
      /\ sip'[n][w] = None
      /\ \A m \in Nodes, x \in Workers : m # n \/ x # w => sip'[m][x] = sip[m][x]
  BY <1>0, <1>1, SetHand
<1>3. \A m \in Nodes, x \in Workers : sip'[m][x] # None => sip'[m][x] = sip[m][x]
  BY <1>2
<1>4. \A m \in Nodes : NodeId(m)' = NodeId(m) /\ Stored(m)' = Stored(m)
  BY <1>1 DEF NodeId, Stored
<1>5. TypeOK'
  BY <1>0, <1>1, <1>2 DEF TypeOK
<1>6. CreatorsStarted' /\ RowsStarted' /\ SharedOwn' /\ ForeignGuessesNothing'
  BY <1>1 DEF IInv, CreatorsStarted, RowsStarted, SharedOwn, ForeignGuessesNothing, Seen,
     Started, WellFormed
<1>7. HandsOwn' /\ HandsStored'
  BY <1>1, <1>3, <1>4 DEF IInv, HandsOwn, HandsStored
<1>8. HandsUnknown'
  BY <1>1, <1>3, <1>4 DEF IInv, HandsUnknown
<1>9. NetworkHonest' /\ ListenerHonest' /\ LookupStillTrue'
  BY <1>1, <1>4 DEF IInv, NetworkHonest, ListenerHonest, LookupStillTrue, WellFormed
<1>10. StoreBeforeShare'
  BY <1>0, <1>1, StoredStays DEF IInv
<1>11. TrueOrigin' /\ OwnEventOnce' /\ NoDuplicateRows'
  BY <1>1, RowsStay DEF IInv
<1> QED BY <1>5, <1>6, <1>7, <1>8, <1>9, <1>10, <1>11 DEF IInv

\* HandsOwn depends on nothing else than these four variables.
LEMMA HandsOwnStays ==
    ASSUME HandsOwn, up' = up, starts' = starts, sip' = sip, creator' = creator
    PROVE  HandsOwn'
<1> QED BY DEF HandsOwn, NodeId

\* A step of OpenDHT moves values around and invents none.
LEMMA NetworkIInv ==
    ASSUME IInv, UNCHANGED <<nodeVars, shared, creator>>,
           foreign \subseteq foreign', foreign' \subseteq ForeignValues,
           \A v \in foreign' \ foreign :
             /\ v.event_uuid # Invalid => creator[v.event_uuid] = None \/ Seen(v.event_uuid)
             /\ v.created_by_node_id # Invalid => Started(v.created_by_node_id),
           dht' \subseteq dht \cup foreign',
           inbox' \in [Nodes -> SUBSET Values],
           \A m \in Nodes : inbox'[m] \subseteq inbox[m] \cup dht
    PROVE  IInv'
<1> USE ConstantsAssumption DEF nodeVars, NodeId
<1>1. TypeOK'
  BY DEF IInv, TypeOK
<1>2. \A m \in Nodes : Stored(m)' = Stored(m)
  BY DEF Stored
<1>3. NetworkHonest'
  BY DEF IInv, NetworkHonest
<1>4. CreatorsStarted' /\ RowsStarted' /\ HandsOwn' /\ HandsStored'
  <2>1. CreatorsStarted' /\ RowsStarted'
    BY DEF IInv, CreatorsStarted, RowsStarted, Started
  <2>2. HandsOwn'
    BY HandsOwnStays DEF IInv
  <2>3. HandsStored'
    BY DEF IInv, HandsStored
  <2> QED BY <2>1, <2>2, <2>3
<1>7. ForeignGuessesNothing'
  <2> SUFFICES ASSUME NEW v \in foreign', WellFormed(v)
               PROVE  /\ creator[v.event_uuid] = None \/ Seen(v.event_uuid)
                      /\ Started(v.created_by_node_id)
    BY DEF ForeignGuessesNothing, WellFormed, Seen, Started
  <2>1. CASE v \in foreign
    BY <2>1 DEF IInv, ForeignGuessesNothing
  <2>2. CASE v \in foreign' \ foreign
    BY <2>2 DEF WellFormed
  <2> QED BY <2>1, <2>2
\* A built event is nobody's guess.
<1>8. HandsUnknown'
  <2> SUFFICES ASSUME NEW m \in Nodes, NEW x \in Workers,
                      sip[m][x] # None, sip[m][x].stage = "built",
                      NEW v \in foreign' \ foreign
               PROVE  v.event_uuid # sip[m][x].event_uuid
    BY <1>2 DEF IInv, HandsUnknown
  <2>1. /\ creator[sip[m][x].event_uuid] = NodeId(m)
        /\ ~ Seen(sip[m][x].event_uuid)
        /\ sip[m][x].event_uuid \in Events
    BY DEF IInv, TypeOK, HandsOwn, HandsUnknown, Seen, InHand
  <2>2. NodeId(m) # None
    BY DEF IInv, TypeOK, NodeIds
  <2> QED BY <2>1, <2>2
<1>5. SharedOwn' /\ ListenerHonest' /\ LookupStillTrue'
  BY <1>2 DEF IInv, SharedOwn, ListenerHonest, LookupStillTrue, WellFormed
<1>6. /\ TrueOrigin' /\ StoreBeforeShare' /\ OwnEventOnce'
      /\ NoDuplicateRows'
  BY RowsStay, StoredStays DEF IInv
<1> QED BY <1>1, <1>3, <1>4, <1>5, <1>6, <1>7, <1>8 DEF IInv

LEMMA ListenerCheckIInv ==
    ASSUME IInv, NEW n \in Nodes, NEW v \in inbox[n], ListenerCheck(n, v)
    PROVE  IInv'
<1> USE ConstantsAssumption DEF NodeId
<1>0. TypeOK
  BY DEF IInv
<1>1. /\ UNCHANGED <<up, starts, db, sip, dht, shared, foreign, creator>>
      /\ inbox' = [inbox EXCEPT ![n] = @ \ {v}]
  BY DEF ListenerCheck
<1>2. v \in Values /\ v \in shared \cup foreign
  BY <1>0 DEF IInv, TypeOK, NetworkHonest
\* Only a well-formed value of another node_id becomes the listener's, and
\* only if the lookup said that it is new.
<1>3. \/ UNCHANGED listener
      \/ /\ listener' = [listener EXCEPT ![n] = v]
         /\ WellFormed(v)
         /\ v.created_by_node_id # NodeId(n)
         /\ <<n, v.event_uuid>> \notin misled' => v.event_uuid \notin Stored(n)
  <2>1. CASE UNCHANGED listener
    BY <2>1
  <2>2. CASE /\ Acceptable(n, v)
             /\ v.complete
             /\ listener' = [listener EXCEPT ![n] = v]
             /\ \/ ~db_bad_actor_exists(n, v.event_uuid)
                \/ misled' = misled \cup {<<n, e>> : e \in {v.event_uuid} \cap Stored(n)}
    <3>1. WellFormed(v) /\ v.created_by_node_id # NodeId(n)
      BY <2>2 DEF Acceptable, WellFormed
    <3>3. <<n, v.event_uuid>> \notin misled' => v.event_uuid \notin Stored(n)
      BY <2>2 DEF db_bad_actor_exists
    <3> QED BY <2>2, <3>1, <3>3
  <2> QED BY <2>1, <2>2 DEF ListenerCheck
\* A lookup that fails is remembered.
<1>14. misled \subseteq misled' /\ misled' \in SUBSET (Nodes \X Events)
  <2>1. Stored(n) \subseteq Events
    <3>1. \A i \in 1 .. Len(db[n]) : db[n][i] \in Rows
      BY <1>0 DEF TypeOK
    <3> QED BY <3>1 DEF Stored, Rows
  <2> QED BY <1>0, <2>1 DEF ListenerCheck, TypeOK
<1>4. \A m \in Nodes : listener'[m] # None =>
        \/ listener'[m] = listener[m]
        \/ /\ m = n /\ listener'[m] = v
           /\ WellFormed(v)
           /\ v.created_by_node_id # NodeId(n)
           /\ <<n, v.event_uuid>> \notin misled' => v.event_uuid \notin Stored(n)
  BY <1>0, <1>3 DEF TypeOK
<1>5. \A m \in Nodes : NodeId(m)' = NodeId(m) /\ Stored(m)' = Stored(m)
  BY <1>1 DEF Stored
<1>6. TypeOK'
  <2>1. listener' \in [Nodes -> Values \cup {None}]
    BY <1>0, <1>2, <1>3 DEF TypeOK
  <2>2. inbox' \in [Nodes -> SUBSET Values]
    BY <1>0, <1>1 DEF TypeOK
  <2> QED BY <1>0, <1>1, <1>14, <2>1, <2>2 DEF TypeOK
<1>7. \A m \in Nodes : inbox'[m] \subseteq inbox[m]
  BY <1>0, <1>1 DEF TypeOK
<1>8. NetworkHonest'
  BY <1>1, <1>7 DEF IInv, NetworkHonest
<1>9. ListenerHonest'
  BY <1>1, <1>2, <1>4, <1>5 DEF IInv, ListenerHonest, WellFormed
<1>13. LookupStillTrue'
  <2> SUFFICES ASSUME NEW m \in Nodes, listener'[m] # None,
                      <<m, listener'[m].event_uuid>> \notin misled'
               PROVE  listener'[m].event_uuid \notin Stored(m)
    BY <1>5 DEF LookupStillTrue
  <2> QED BY <1>4, <1>14 DEF IInv, LookupStillTrue
<1>10. CreatorsStarted' /\ RowsStarted' /\ HandsOwn' /\ HandsStored' /\ HandsUnknown'
  <2>1. CreatorsStarted' /\ RowsStarted' /\ HandsOwn' /\ HandsStored'
    <3>1. CreatorsStarted' /\ RowsStarted'
      BY <1>1 DEF IInv, CreatorsStarted, RowsStarted, Started
    <3>2. HandsOwn'
      BY <1>1 DEF IInv, HandsOwn
    <3>3. HandsStored'
      BY <1>1 DEF IInv, HandsStored
    <3> QED BY <3>1, <3>2, <3>3
  <2>2. HandsUnknown'
    BY <1>1, <1>5 DEF IInv, HandsUnknown
  <2> QED BY <2>1, <2>2
<1>11. SharedOwn' /\ ForeignGuessesNothing'
  BY <1>1 DEF IInv, SharedOwn, WellFormed, ForeignGuessesNothing, Seen, Started
<1>12. /\ TrueOrigin' /\ StoreBeforeShare' /\ OwnEventOnce'
       /\ NoDuplicateRows'
  BY <1>1, <1>14, RowsStay, StoredStays DEF IInv
<1> QED BY <1>6, <1>8, <1>9, <1>13, <1>10, <1>11, <1>12 DEF IInv

LEMMA ListenerLogIInv ==
    ASSUME IInv, NEW n \in Nodes, ListenerLog(n)
    PROVE  IInv'
<1> USE ConstantsAssumption
<1> DEFINE v == listener[n]
           row == FromJson(v)
<1>0. TypeOK
  BY DEF IInv
<1>1. PICK success \in BOOLEAN : bad_actor_log(n, row, success)
  BY DEF ListenerLog
<1>2. /\ v # None
      /\ listener' = [listener EXCEPT ![n] = None]
      /\ UNCHANGED <<up, starts, sip, inbox, dht, shared, foreign, creator, misled>>
  BY DEF ListenerLog, netVars
<1>3. /\ v \in shared \cup foreign /\ v.created_by_node_id # NodeId(n)
      /\ WellFormed(v) /\ v \in Values /\ Started(v.created_by_node_id)
  BY <1>0, <1>2, ListenerStarted DEF IInv, ListenerHonest, TypeOK
<1>4. /\ row \in Rows
      /\ row.event_uuid = v.event_uuid
      /\ row.created_by_node_id = v.created_by_node_id
  BY <1>3 DEF FromJson, Rows, Values, WellFormed
<1>5. v.created_by_node_id = creator[v.event_uuid] \/ \E u \in foreign : row = FromJson(u)
  BY <1>3 DEF IInv, SharedOwn
<1> HIDE DEF row
<1>6. /\ db' \in [Nodes -> Seq(Rows)]
      /\ \A m \in Nodes : \A i \in 1 .. Len(db[m]) :
           i \in 1 .. Len(db'[m]) /\ db'[m][i] = db[m][i]
      /\ \A m \in Nodes : \A i \in 1 .. Len(db'[m]) :
           \/ i \in 1 .. Len(db[m]) /\ db'[m][i] = db[m][i]
           \/ m = n /\ i = Len(db[n]) + 1 /\ db'[m][i] = row
  BY <1>0, <1>1, <1>4, LogAppends
<1>7. \A m \in Nodes : \A f \in Stored(m)' :
        f \in Stored(m) \/ (m = n /\ f = row.event_uuid)
  BY <1>0, <1>1, <1>4, LogStoredSet
<1>8. \A m \in Nodes : listener'[m] # None => m # n /\ listener'[m] = listener[m]
  BY <1>0, <1>2 DEF TypeOK
<1>9. \A m \in Nodes : NodeId(m)' = NodeId(m)
  BY <1>2 DEF NodeId
<1> HIDE DEF v
<1>10. TypeOK'
  <2>1. listener' \in [Nodes -> Values \cup {None}]
    BY <1>0, <1>2 DEF TypeOK
  <2> QED BY <1>0, <1>2, <1>6, <2>1 DEF TypeOK
<1>11. CreatorsStarted' /\ RowsStarted' /\ HandsOwn'
  <2>1. CreatorsStarted' /\ HandsOwn'
    BY <1>2, <1>9 DEF IInv, CreatorsStarted, Started, HandsOwn
  <2>2. RowsStarted'
    BY <1>2, <1>3, <1>4, <1>6 DEF IInv, RowsStarted, Started
  <2> QED BY <2>1, <2>2
<1>12. HandsUnknown'
  BY <1>2, <1>3, <1>4, <1>7 DEF IInv, HandsUnknown
<1>13. HandsStored'
  <2> SUFFICES ASSUME NEW m \in Nodes, NEW x \in Workers,
                      sip[m][x] # None, sip[m][x].stage = "logged"
               PROVE  \E i \in 1 .. Len(db'[m]) :
                        db'[m][i] = [event_uuid |-> sip[m][x].event_uuid,
                                     created_by_node_id |-> NodeId(m)]
    BY <1>2, <1>9 DEF HandsStored
  <2>1. PICK i \in 1 .. Len(db[m]) :
          db[m][i] = [event_uuid |-> sip[m][x].event_uuid,
                      created_by_node_id |-> NodeId(m)]
    BY DEF IInv, HandsStored
  <2>2. i \in 1 .. Len(db'[m]) /\ db'[m][i] = db[m][i]
    BY <1>6
  <2> QED BY <2>1, <2>2
<1>14. SharedOwn' /\ NetworkHonest' /\ ForeignGuessesNothing'
  BY <1>2 DEF IInv, SharedOwn, NetworkHonest, WellFormed, ForeignGuessesNothing, Seen, Started
<1>15. ListenerHonest'
  BY <1>2, <1>8, <1>9 DEF IInv, ListenerHonest, WellFormed
<1>16. LookupStillTrue'
  <2> SUFFICES ASSUME NEW m \in Nodes, listener'[m] # None,
                      <<m, listener'[m].event_uuid>> \notin misled
               PROVE  listener'[m].event_uuid \notin Stored(m)'
    BY <1>2 DEF LookupStillTrue
  <2> QED BY <1>7, <1>8 DEF IInv, LookupStillTrue
<1>17. TrueOrigin'
  <2> SUFFICES ASSUME NEW m \in Nodes, NEW i \in 1 .. Len(db'[m])
               PROVE  \/ db'[m][i].created_by_node_id = creator[db'[m][i].event_uuid]
                      \/ \E u \in foreign : db'[m][i] = FromJson(u)
    BY <1>2 DEF TrueOrigin, FromJson
  <2>1. CASE i \in 1 .. Len(db[m]) /\ db'[m][i] = db[m][i]
    BY <2>1 DEF IInv, TrueOrigin
  <2>2. CASE db'[m][i] = row
    BY <1>4, <1>5, <2>2
  <2> QED BY <1>6, <2>1, <2>2
<1>18. StoreBeforeShare'
  BY <1>2, <1>6, StoredStays DEF IInv
\* The new row names another node_id, so it is no duplicate of one of our own.
<1>19. OwnEventOnce'
  <2> SUFFICES ASSUME NEW m \in Nodes, NEW i \in 1 .. Len(db'[m]), NEW j \in 1 .. Len(db'[m]),
                      db'[m][i] = db'[m][j], db'[m][i].created_by_node_id = NodeId(m)
               PROVE  i = j
    BY <1>9 DEF OwnEventOnce
  <2>1. /\ i \in 1 .. Len(db[m]) /\ db'[m][i] = db[m][i]
        /\ j \in 1 .. Len(db[m]) /\ db'[m][j] = db[m][j]
    BY <1>3, <1>4, <1>6
  <2> QED BY <2>1 DEF IInv, OwnEventOnce
<1>20. NoDuplicateRows'
  <2> SUFFICES ASSUME NEW m \in Nodes, NEW i \in 1 .. Len(db'[m]), NEW j \in 1 .. Len(db'[m]),
                      db'[m][i].event_uuid = db'[m][j].event_uuid,
                      <<m, db'[m][i].event_uuid>> \notin misled
               PROVE  i = j
    BY <1>2 DEF NoDuplicateRows
  <2>1. NoDuplicateRows
    BY DEF IInv
  <2>2. <<n, row.event_uuid>> \notin misled =>
           \A k \in 1 .. Len(db[n]) : db[n][k].event_uuid # row.event_uuid
    BY <1>2, <1>4 DEF IInv, LookupStillTrue, Stored, v
  <2>3. m = n /\ (db'[m][i] = row \/ db'[m][j] = row) =>
           \A k \in 1 .. Len(db[n]) : db[n][k].event_uuid # row.event_uuid
    BY <2>2
  <2>4. CASE i \in 1 .. Len(db[m]) /\ db'[m][i] = db[m][i]
    <3>1. j \in 1 .. Len(db[m]) /\ db'[m][j] = db[m][j]
      BY <1>6, <2>3, <2>4
    <3> QED BY <2>1, <2>4, <3>1 DEF NoDuplicateRows
  <2>5. CASE m = n /\ i = Len(db[n]) + 1 /\ db'[m][i] = row
    BY <1>6, <2>3, <2>5
  <2> QED BY <1>6, <2>4, <2>5
<1> QED BY <1>10, <1>11, <1>12, <1>13, <1>14, <1>15, <1>16, <1>17, <1>18, <1>19, <1>20
        DEF IInv

LEMMA StepIInv == IInv /\ [Next]_vars => IInv'
<1> SUFFICES ASSUME IInv, [Next]_vars PROVE IInv'
  OBVIOUS
<1> USE ConstantsAssumption
<1>0. TypeOK
  BY DEF IInv
<1>1. ASSUME NEW n \in Nodes, Start(n) \/ Stop(n) \/ ListenerLog(n) PROVE IInv'
  BY <1>1, StartIInv, StopIInv, ListenerLogIInv
<1>2. ASSUME NEW n \in Nodes, NEW w \in Workers, NEW e \in Events, SipBuild(n, w, e)
      PROVE  IInv'
  BY <1>2, SipBuildIInv
<1>3. ASSUME NEW n \in Nodes, NEW w \in Workers,
             SipLog(n, w) \/ SipPut(n, w) \/ SipPutFails(n, w)
      PROVE  IInv'
  BY <1>3, SipLogIInv, SipPutIInv, SipPutFailsIInv
<1>4. ASSUME NEW v \in ForeignValues, ForeignPut(v) PROVE IInv'
  <2>1. /\ UNCHANGED <<nodeVars, shared, creator>>
        /\ foreign' = foreign \cup {v} /\ foreign' \subseteq ForeignValues
        /\ dht' \subseteq dht \cup foreign'
        /\ inbox' \in [Nodes -> SUBSET Values]
        /\ \A m \in Nodes : inbox'[m] \subseteq inbox[m] \cup dht
    BY <1>0, <1>4 DEF ForeignPut, TypeOK
  <2>2. /\ v.event_uuid # Invalid => creator[v.event_uuid] = None \/ Seen(v.event_uuid)
        /\ v.created_by_node_id # Invalid => Started(v.created_by_node_id)
    BY <1>4 DEF ForeignPut, Started
  <2> QED BY <2>1, <2>2, NetworkIInv
<1>5. ASSUME NEW v \in dht, Expire(v) PROVE IInv'
  <2>1. /\ UNCHANGED <<nodeVars, shared, foreign, creator>> /\ foreign \subseteq ForeignValues
        /\ dht' \subseteq dht \cup foreign'
        /\ inbox' \in [Nodes -> SUBSET Values]
        /\ \A m \in Nodes : inbox'[m] \subseteq inbox[m] \cup dht
    BY <1>0, <1>5 DEF Expire, TypeOK
  <2> QED BY <2>1, NetworkIInv
<1>6. ASSUME NEW v \in dht, NEW n \in Nodes, Deliver(n, v) PROVE IInv'
  <2>1. /\ UNCHANGED <<nodeVars, shared, foreign, creator>> /\ foreign \subseteq ForeignValues
        /\ dht' \subseteq dht \cup foreign'
    BY <1>0, <1>6 DEF Deliver, TypeOK
  <2>2. inbox' \in [Nodes -> SUBSET Values]
    BY <1>0, <1>6 DEF Deliver, TypeOK
  <2>3. \A m \in Nodes : inbox'[m] \subseteq inbox[m] \cup dht
    BY <1>0, <1>6 DEF Deliver, TypeOK
  <2> QED BY <2>1, <2>2, <2>3, NetworkIInv
<1>7. ASSUME NEW n \in Nodes, NEW v \in inbox[n], ListenerCheck(n, v) PROVE IInv'
  BY <1>7, ListenerCheckIInv
<1>8. CASE UNCHANGED vars
  <2>1. /\ UNCHANGED <<nodeVars, shared, foreign, creator>> /\ foreign \subseteq ForeignValues
        /\ dht' \subseteq dht \cup foreign'
        /\ inbox' \in [Nodes -> SUBSET Values]
        /\ \A m \in Nodes : inbox'[m] \subseteq inbox[m] \cup dht
    BY <1>0, <1>8 DEF vars, nodeVars, TypeOK
  <2> QED BY <2>1, NetworkIInv
<1> QED BY <1>1, <1>2, <1>3, <1>4, <1>5, <1>6, <1>7, <1>8 DEF Next

LEMMA InvariantIInv == Spec => []IInv
<1> QED BY InitIInv, StepIInv, PTL DEF Spec

\* Every variable keeps its type in every behaviour.
THEOREM TypeCorrect == Spec => []TypeOK
<1>1. IInv => TypeOK
  BY DEF IInv
<1> QED BY <1>1, InvariantIInv, PTL

\* "Put on DHT last" works: what a node ever put on the DHT is in its own
\* database, whatever fails and however often nodes restart.
THEOREM SharedIsStored == Spec => []StoreBeforeShare
<1>1. IInv => StoreBeforeShare
  BY DEF IInv
<1> QED BY <1>1, InvariantIInv, PTL

\* Every row of every database names the node_id that generated the event, or is
\* as it stands what somebody who is not a node put on the DHT.
THEOREM OriginIsTrue == Spec => []TrueOrigin
<1>1. IInv => TrueOrigin
  BY DEF IInv
<1> QED BY <1>1, InvariantIInv, PTL

\* No table gets an event twice unless db_bad_actor_exists once failed for that
\* event on that node, although lookup and insert are separate transactions.
THEOREM NoDuplicates == Spec => []NoDuplicateRows
<1>1. IInv => NoDuplicateRows
  BY DEF IInv
<1> QED BY <1>1, InvariantIInv, PTL

\* A running process never stores an event of its own twice, even if
\* db_bad_actor_exists errs: the node_id check alone is enough.
THEOREM OwnEventsOnce == Spec => []OwnEventOnce
<1>1. IInv => OwnEventOnce
  BY DEF IInv
<1> QED BY <1>1, InvariantIInv, PTL

-----------------------------------------------------------------------------
(* Replication implements BadActorPool.                                    *)

\* The refinement mapping by name.
PoolKnown == [n \in Nodes |-> Stored(n)]
PoolOrigin == [e \in Events |-> IF creator[e] = None THEN None ELSE creator[e][1]]
PoolPublished == {v.event_uuid : v \in shared \cup {u \in foreign : WellFormed(u)}}

\* A step that leaves rows, values ever put and creators alone is a stutter.
LEMMA PoolStutter ==
    ASSUME UNCHANGED <<db, shared, foreign, creator>>
    PROVE  UNCHANGED Pool!poolVars
<1>1. \A n \in Nodes : Stored(n)' = Stored(n)
  BY DEF Stored
<1>2. PoolKnown' = PoolKnown /\ PoolOrigin' = PoolOrigin /\ PoolPublished' = PoolPublished
  BY <1>1 DEF PoolKnown, PoolOrigin, PoolPublished, WellFormed
<1> QED BY <1>2 DEF Pool!poolVars, PoolKnown, PoolOrigin, PoolPublished

\* Appending a row to table honey of node n adds its event to what n knows.
LEMMA InsertedKnown ==
    ASSUME TypeOK, NEW n \in Nodes, NEW row \in Rows, Inserted(n, row)
    PROVE  PoolKnown' = [PoolKnown EXCEPT ![n] = @ \cup {row.event_uuid}]
<1>1. bad_actor_log(n, row, TRUE)
  BY DEF bad_actor_log
<1>2. \A m \in Nodes :
        /\ Stored(m) \subseteq Stored(m)'
        /\ \A e \in Stored(m)' : e \in Stored(m) \/ (m = n /\ e = row.event_uuid)
  BY <1>1, LogStoredSet
<1>3. row.event_uuid \in Stored(n)'
  BY <1>1, LogStores DEF Stored
<1>4. \A m \in Nodes : Stored(m)' = IF m = n THEN Stored(m) \cup {row.event_uuid} ELSE Stored(m)
  BY <1>2, <1>3
<1> QED BY <1>4 DEF PoolKnown

LEMMA SipBuildCaptures ==
    ASSUME IInv, NEW n \in Nodes, NEW w \in Workers, NEW e \in Events, SipBuild(n, w, e)
    PROVE  Pool!Capture(n, e)
<1> USE ConstantsAssumption
<1>1. TypeOK /\ creator[e] = None /\ creator' = [creator EXCEPT ![e] = NodeId(n)]
      /\ db' = db /\ shared' = shared /\ foreign' = foreign
      /\ \A v \in foreign : v.event_uuid # e
  BY DEF IInv, SipBuild, netVars
<1>2. PoolOrigin[e] = None
  BY <1>1 DEF PoolOrigin
<1>3. NodeId(n) \in NodeIds /\ NodeId(n)[1] = n /\ NodeId(n) # None
  BY <1>1 DEF TypeOK, NodeId, NodeIds
<1>4. PoolOrigin' = [PoolOrigin EXCEPT ![e] = n]
  BY <1>1, <1>3 DEF PoolOrigin, TypeOK
<1>5. \A m \in Nodes : Stored(m)' = Stored(m)
  BY <1>1 DEF Stored
<1>6. PoolKnown' = PoolKnown /\ PoolPublished' = PoolPublished
  BY <1>1, <1>5 DEF PoolKnown, PoolPublished, WellFormed
<1>7. e \notin PoolPublished
  BY <1>1, FreshEvent DEF PoolPublished
<1> QED BY <1>2, <1>4, <1>6, <1>7 DEF Pool!Capture, PoolKnown, PoolOrigin, PoolPublished

LEMMA SipLogStores ==
    ASSUME IInv, NEW n \in Nodes, NEW w \in Workers, SipLog(n, w)
    PROVE  (\E e \in Events : Pool!Store(n, e)) \/ UNCHANGED Pool!poolVars
<1> USE ConstantsAssumption
<1> DEFINE e == sip[n][w].event_uuid
           row == [event_uuid |-> e, created_by_node_id |-> NodeId(n)]
<1>0. TypeOK
  BY DEF IInv
<1>1. /\ sip[n][w] # None
      /\ sip[n][w].stage = "built"
      /\ shared' = shared /\ foreign' = foreign /\ creator' = creator
      /\ db' = db \/ Inserted(n, row)
  BY DEF SipLog, netVars, bad_actor_log
<1>2. e \in Events
  BY <1>0, <1>1 DEF TypeOK, InHand
<1>3. NodeId(n) \in NodeIds /\ NodeId(n)[1] = n /\ NodeId(n) # None
  BY <1>0 DEF TypeOK, NodeId, NodeIds
<1>4. row \in Rows /\ row.event_uuid = e
  BY <1>2, <1>3 DEF Rows
<1>5. /\ e \notin Stored(n)
      /\ \A v \in shared \cup foreign : v.event_uuid # e
      /\ creator[e] = NodeId(n)
  BY <1>1 DEF IInv, HandsUnknown, HandsOwn
<1>6. PoolOrigin[e] = n /\ e \notin PoolPublished /\ e \notin PoolKnown[n]
  BY <1>2, <1>3, <1>5 DEF PoolOrigin, PoolPublished, PoolKnown
<1>7. PoolOrigin' = PoolOrigin /\ PoolPublished' = PoolPublished
  BY <1>1 DEF PoolOrigin, PoolPublished, WellFormed
<1>8. CASE db' = db
  BY <1>1, <1>8, PoolStutter
<1>9. CASE Inserted(n, row)
  <2>1. PoolKnown' = [PoolKnown EXCEPT ![n] = @ \cup {e}]
    <3> HIDE DEF e, row
    <3> QED BY <1>0, <1>4, <1>9, InsertedKnown
  <2>2. Pool!Store(n, e)
    BY <1>6, <1>7, <2>1 DEF Pool!Store, PoolKnown, PoolOrigin, PoolPublished
  <2> QED BY <1>2, <2>2
<1> QED BY <1>1, <1>8, <1>9

LEMMA SipPutPublishes ==
    ASSUME IInv, NEW n \in Nodes, NEW w \in Workers, SipPut(n, w)
    PROVE  \E e \in Events : Pool!Publish(n, e)
<1> USE ConstantsAssumption
<1> DEFINE e == sip[n][w].event_uuid
<1>0. TypeOK
  BY DEF IInv
<1>1. /\ sip[n][w] # None
      /\ sip[n][w].stage = "logged"
      /\ shared' = shared \cup {ToJson(e, NodeId(n))}
      /\ db' = db /\ foreign' = foreign /\ creator' = creator
  BY DEF SipPut
<1>2. e \in Events /\ creator[e] = NodeId(n)
  BY <1>0, <1>1 DEF TypeOK, InHand, IInv, HandsOwn
<1>3. NodeId(n) \in NodeIds /\ NodeId(n)[1] = n /\ NodeId(n) # None
  BY <1>0 DEF TypeOK, NodeId, NodeIds
<1>4. PoolOrigin[e] = n
  BY <1>2, <1>3 DEF PoolOrigin
<1>5. e \in PoolKnown[n]
  <2>1. PICK i \in 1 .. Len(db[n]) :
          db[n][i] = [event_uuid |-> e, created_by_node_id |-> NodeId(n)]
    BY <1>1 DEF IInv, HandsStored
  <2> QED BY <2>1 DEF PoolKnown, Stored
<1>6. ToJson(e, NodeId(n)).event_uuid = e
  BY DEF ToJson
<1>7. PoolPublished' = PoolPublished \cup {e}
  <2> HIDE DEF e
  <2> QED BY <1>1, <1>6 DEF PoolPublished, WellFormed
<1>8. \A m \in Nodes : Stored(m)' = Stored(m)
  BY <1>1 DEF Stored
<1>9. PoolKnown' = PoolKnown /\ PoolOrigin' = PoolOrigin
  BY <1>1, <1>8 DEF PoolKnown, PoolOrigin
<1>10. PICK f \in Events : f = e
  BY <1>2
<1>11. Pool!Publish(n, f)
  BY <1>4, <1>5, <1>7, <1>9, <1>10 DEF Pool!Publish, PoolKnown, PoolOrigin, PoolPublished
<1> QED BY <1>11

LEMMA ListenerLogLearns ==
    ASSUME IInv, NEW n \in Nodes, ListenerLog(n)
    PROVE  (\E e \in Events : Pool!Learn(n, e)) \/ UNCHANGED Pool!poolVars
<1> USE ConstantsAssumption
<1> DEFINE v == listener[n]
           e == v.event_uuid
           row == FromJson(v)
<1>0. TypeOK
  BY DEF IInv
<1>1. /\ v # None
      /\ shared' = shared /\ foreign' = foreign /\ creator' = creator
      /\ db' = db \/ Inserted(n, row)
  BY DEF ListenerLog, netVars, bad_actor_log
<1>2. v \in shared \cup foreign /\ WellFormed(v) /\ v \in Values
  BY <1>0, <1>1 DEF IInv, ListenerHonest, TypeOK
<1>3. row \in Rows /\ row.event_uuid = e /\ e \in Events
  BY <1>2 DEF FromJson, Rows, Values, WellFormed
<1>4. e \in PoolPublished
  BY <1>2 DEF PoolPublished
<1>5. PoolOrigin' = PoolOrigin /\ PoolPublished' = PoolPublished
  BY <1>1 DEF PoolOrigin, PoolPublished, WellFormed
<1>6. CASE db' = db
  BY <1>1, <1>6, PoolStutter
<1>7. CASE Inserted(n, row)
  <2>1. PoolKnown' = [PoolKnown EXCEPT ![n] = @ \cup {e}]
    <3> HIDE DEF e, row
    <3> QED BY <1>0, <1>3, <1>7, InsertedKnown
  <2>2. CASE PoolOrigin[e] # n
    <3>1. Pool!Learn(n, e)
      BY <1>4, <1>5, <2>1, <2>2 DEF Pool!Learn, PoolKnown, PoolOrigin, PoolPublished
    <3> QED BY <1>3, <3>1
  \* An event of an earlier start of this node, or one somebody put on the DHT
  \* again under another node_id: it is in the table already.
  <2>3. CASE PoolOrigin[e] = n
    <3>1. creator[e] # None /\ creator[e][1] = n
      BY <1>3, <2>3 DEF PoolOrigin
    <3>2. PICK u \in shared : u.event_uuid = e
      BY <1>2, <3>1 DEF IInv, ForeignGuessesNothing, Seen
    <3>3. u.created_by_node_id[1] = n
      BY <3>1, <3>2 DEF IInv, SharedOwn
    <3>6. PICK i \in 1 .. Len(db[n]) : db[n][i] = FromJson(u)
      BY <3>2, <3>3 DEF IInv, StoreBeforeShare
    <3>4. e \in Stored(n)
      BY <3>2, <3>6 DEF Stored, FromJson
    <3>5. PoolKnown' = PoolKnown
      BY <2>1, <3>4 DEF PoolKnown
    <3> QED BY <1>5, <3>5 DEF Pool!poolVars, PoolKnown, PoolOrigin, PoolPublished
  <2> QED BY <2>2, <2>3
<1> QED BY <1>1, <1>6, <1>7

LEMMA ForeignPutPublishes ==
    ASSUME IInv, NEW v \in ForeignValues, ForeignPut(v)
    PROVE  (\E e \in Events : Pool!PublishForeign(e)) \/ UNCHANGED Pool!poolVars
<1> USE ConstantsAssumption
<1>0. v \in Values /\ creator \in [Events -> NodeIds \cup {None}]
  BY DEF IInv, TypeOK
<1>1. /\ foreign' = foreign \cup {v}
      /\ db' = db /\ shared' = shared /\ creator' = creator
      /\ v.event_uuid # Invalid => creator[v.event_uuid] = None \/ Seen(v.event_uuid)
  BY DEF ForeignPut, nodeVars
<1>2. \A n \in Nodes : Stored(n)' = Stored(n)
  BY <1>1 DEF Stored
<1>3. PoolKnown' = PoolKnown /\ PoolOrigin' = PoolOrigin
  BY <1>1, <1>2 DEF PoolKnown, PoolOrigin
<1>4. CASE ~ WellFormed(v)
  <2>1. PoolPublished' = PoolPublished
    BY <1>1, <1>4 DEF PoolPublished, WellFormed
  <2> QED BY <1>3, <2>1 DEF Pool!poolVars, PoolKnown, PoolOrigin, PoolPublished
<1>5. CASE WellFormed(v)
  <2>1. PICK e \in Events : e = v.event_uuid
    BY <1>0, <1>5 DEF WellFormed, Values
  <2>2. PoolPublished' = PoolPublished \cup {e}
    BY <1>1, <1>5, <2>1 DEF PoolPublished, WellFormed
  <2>3. PoolOrigin[e] = None \/ e \in PoolPublished
    BY <1>1, <1>5, <2>1 DEF PoolOrigin, PoolPublished, Seen, WellFormed
  <2>4. Pool!PublishForeign(e)
    BY <1>3, <2>2, <2>3 DEF Pool!PublishForeign, PoolKnown, PoolOrigin, PoolPublished
  <2> QED BY <2>4
<1> QED BY <1>4, <1>5

\* Replication implements BadActorPool: an event is known only where it was
\* captured and where it was learned after its owner stored and published it, or
\* after somebody who is not a node published it.
THEOREM PoolRefined == Spec => ImplementsPool
<1> USE ConstantsAssumption
<1>1. Init => Pool!PoolInit
  BY DEF Init, Pool!PoolInit, Stored
<1>2. IInv /\ [Next]_vars => [Pool!PoolNext]_(Pool!poolVars)
  <2> SUFFICES ASSUME IInv, [Next]_vars
               PROVE  Pool!PoolNext \/ UNCHANGED Pool!poolVars
    OBVIOUS
  <2>1. ASSUME NEW n \in Nodes, Start(n) \/ Stop(n) PROVE UNCHANGED Pool!poolVars
    BY <2>1, PoolStutter DEF Start, Stop, netVars
  <2>2. ASSUME NEW n \in Nodes, ListenerLog(n)
        PROVE  Pool!PoolNext \/ UNCHANGED Pool!poolVars
    BY <2>2, ListenerLogLearns DEF Pool!PoolNext
  <2>3. ASSUME NEW n \in Nodes, NEW w \in Workers, NEW e \in Events, SipBuild(n, w, e)
        PROVE  Pool!PoolNext
    BY <2>3, SipBuildCaptures DEF Pool!PoolNext
  <2>4. ASSUME NEW n \in Nodes, NEW w \in Workers, SipLog(n, w)
        PROVE  Pool!PoolNext \/ UNCHANGED Pool!poolVars
    BY <2>4, SipLogStores DEF Pool!PoolNext
  <2>5. ASSUME NEW n \in Nodes, NEW w \in Workers, SipPut(n, w)
        PROVE  Pool!PoolNext
    BY <2>5, SipPutPublishes DEF Pool!PoolNext
  <2>10. ASSUME NEW v \in ForeignValues, ForeignPut(v)
         PROVE  Pool!PoolNext \/ UNCHANGED Pool!poolVars
    BY <2>10, ForeignPutPublishes DEF Pool!PoolNext
  <2>6. ASSUME NEW v, Expire(v) PROVE UNCHANGED Pool!poolVars
    BY <2>6, PoolStutter DEF Expire, nodeVars
  <2>7. ASSUME NEW n \in Nodes, NEW v, Deliver(n, v) \/ ListenerCheck(n, v)
        PROVE  UNCHANGED Pool!poolVars
    BY <2>7, PoolStutter DEF Deliver, ListenerCheck, nodeVars
  <2>8. ASSUME NEW n \in Nodes, NEW w \in Workers, SipPutFails(n, w)
        PROVE  UNCHANGED Pool!poolVars
    BY <2>8, PoolStutter DEF SipPutFails, netVars
  <2>9. CASE UNCHANGED vars
    BY <2>9, PoolStutter DEF vars
  <2> QED BY <2>1, <2>2, <2>3, <2>4, <2>5, <2>6, <2>7, <2>8, <2>9, <2>10 DEF Next
<1> QED BY <1>1, <1>2, InvariantIInv, PTL DEF Spec, ImplementsPool, Pool!PoolSpec

=============================================================================
