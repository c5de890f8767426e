--------------------------- MODULE DatabaseProofs ---------------------------
(***************************************************************************)
(* The calls of database.c, for any number of threads and events: what     *)
(* the list queries may rely on between their two statements, and that     *)
(* the inserts and lookups implement HoneyTable.                           *)
(***************************************************************************)
EXTENDS Database, FiniteSetTheorems, SequenceTheorems, TLAPS

\* Stored and Group, of a table s.
Elements(s) == {s[i] : i \in 1 .. Len(s)}

GroupOf(s, col) == {Column[col][e] : e \in Elements(s)} \ {Unlisted}

EventPlaces ==
    {"insert", "prepared", "reserved", "writing", "inserted", "exists", "existing", "absent"}
WritePlaces == {"reserved", "writing"}
LookupPlaces == {"lookup", "looking"}
ListPlaces == {"count", "counting", "select", "selecting", "listed"}

\* A call keeps the argument it was made with.
ArgFits(t) ==
    /\ at[t] \in EventPlaces => arg[t] \in Events
    /\ at[t] \in LookupPlaces => arg[t] \in Columns \X Texts
    /\ at[t] \in ListPlaces => arg[t] \in Columns \X {None}

\* RESERVED excludes RESERVED and EXCLUSIVE.
OneWriter ==
    \A t, u \in Threads : at[t] \in WritePlaces /\ at[u] \in WritePlaces => t = u

RoomToWrite == \A t \in Threads : at[t] \in WritePlaces => Len(rows) < MaxRows

\* Rows are only written to a table that is there.
CreatedFirst ==
    /\ rows # <<>> => created
    /\ \A t \in Threads :
           at[t] \in {"prepared", "reserved", "writing", "inserted"} => created

\* What was stored when a list was asked for is still stored.
BeforeKept(t) == at[t] \in ListPlaces => before[t] \subseteq GroupOf(rows, arg[t][1])

\* What was counted is between what was stored when the list was asked for and
\* what is stored now.
CountKept(t) ==
    at[t] \in ListPlaces \ {"count"} =>
        /\ Cardinality(before[t]) <= count[t]
        /\ count[t] <= Cardinality(GroupOf(rows, arg[t][1]))

\* What was selected is stored, without repetition, and is no less than was
\* counted.
ListKept(t) ==
    at[t] \in {"selecting", "listed"} =>
        /\ count[t] <= Len(list[t])
        /\ IsInjective(list[t])
        /\ \A i \in 1 .. Len(list[t]) : list[t][i] \in GroupOf(rows, arg[t][1])
        /\ at[t] = "listed" => Len(list[t]) = count[t]

\* What a lookup found is stored.
LookupKept(t) ==
    at[t] = "looking" => \E e \in Elements(rows) : Column[arg[t][1]][e] = arg[t][2]

ThreadInv(t) ==
    ArgFits(t) /\ BeforeKept(t) /\ CountKept(t) /\ ListKept(t) /\ LookupKept(t)

\* The inductive invariant.
IInv ==
    /\ TypeOK
    /\ OneWriter
    /\ RoomToWrite
    /\ CreatedFirst
    /\ \A t \in Threads : ThreadInv(t)

-----------------------------------------------------------------------------
(* What is stored.                                                         *)

LEMMA StoredIsElements == Stored = Elements(rows)
BY DEF Stored, Elements

LEMMA GroupIsGroupOf == \A col : Group(col) = GroupOf(rows, col)
BY StoredIsElements DEF Group, GroupOf

\* A list has no more entries than the table has rows.
LEMMA GroupFinite ==
    ASSUME NEW s \in Seq(Events), NEW col \in Columns
    PROVE  /\ IsFiniteSet(GroupOf(s, col))
           /\ Cardinality(GroupOf(s, col)) \in 0 .. Len(s)
           /\ GroupOf(s, col) \subseteq Texts
<1> DEFINE all == {Column[col][e] : e \in Elements(s)}
           n == Len(s)
           f == [i \in 1 .. n |-> Column[col][s[i]]]
<1>1. n \in Nat /\ s \in [1 .. n -> Events]
  OBVIOUS
<1>2. Elements(s) \subseteq Events
  BY <1>1 DEF Elements
<1>3. all \subseteq Texts
  BY <1>2, ConstantsAssumption
<1>4. f \in Surjection(1 .. n, all)
  <2>1. f \in [1 .. n -> all]
    BY DEF Elements
  <2>2. \A x \in all : \E i \in 1 .. n : f[i] = x
    BY DEF Elements
  <2> QED BY <2>1, <2>2 DEF Surjection
<1> HIDE DEF all, n, f
<1>5. IsFiniteSet(all) /\ Cardinality(all) <= n
  BY <1>1, <1>4, FS_NatSurjection, FS_SurjCardinalityBound DEF ExistsSurjection
<1>6. GroupOf(s, col) \subseteq all
  BY DEF GroupOf, all
<1>7. /\ IsFiniteSet(GroupOf(s, col))
      /\ Cardinality(GroupOf(s, col)) <= Cardinality(all)
  BY <1>5, <1>6, FS_Subset
<1>8. Cardinality(GroupOf(s, col)) \in Nat /\ Cardinality(all) \in Nat
  BY <1>5, <1>7, FS_CardinalityType
<1> QED BY <1>1, <1>3, <1>5, <1>6, <1>7, <1>8 DEF n

\* The rows of a step: the same, or one more.
Grown == rows' = rows \/ \E e \in Events : rows' = Append(rows, e)

LEMMA GrownKeeps ==
    ASSUME rows \in Seq(Events), Grown
    PROVE  /\ rows' \in Seq(Events)
           /\ Elements(rows) \subseteq Elements(rows')
           /\ \A col \in Columns :
                  /\ GroupOf(rows, col) \subseteq GroupOf(rows', col)
                  /\ Cardinality(GroupOf(rows, col)) <= Cardinality(GroupOf(rows', col))
                  /\ Cardinality(GroupOf(rows, col)) \in Nat
                  /\ Cardinality(GroupOf(rows', col)) \in Nat
<1>1. rows' \in Seq(Events) /\ Elements(rows) \subseteq Elements(rows')
  <2>1. CASE rows' = rows
    BY <2>1
  <2>2. ASSUME NEW e \in Events, rows' = Append(rows, e)
        PROVE  rows' \in Seq(Events) /\ Elements(rows) \subseteq Elements(rows')
    <3>1. /\ rows' \in Seq(Events)
          /\ Len(rows') = Len(rows) + 1
          /\ \A i \in 1 .. Len(rows) : rows'[i] = rows[i]
      BY <2>2, AppendProperties
    <3> QED BY <3>1 DEF Elements
  <2> QED BY <2>1, <2>2 DEF Grown
<1>2. ASSUME NEW col \in Columns
      PROVE  /\ GroupOf(rows, col) \subseteq GroupOf(rows', col)
             /\ Cardinality(GroupOf(rows, col)) <= Cardinality(GroupOf(rows', col))
             /\ Cardinality(GroupOf(rows, col)) \in Nat
             /\ Cardinality(GroupOf(rows', col)) \in Nat
  <2>1. GroupOf(rows, col) \subseteq GroupOf(rows', col)
    BY <1>1 DEF GroupOf
  <2>2. IsFiniteSet(GroupOf(rows, col)) /\ IsFiniteSet(GroupOf(rows', col))
    BY <1>1, GroupFinite
  <2> QED BY <2>1, <2>2, FS_Subset, FS_CardinalityType
<1> QED BY <1>1, <1>2

-----------------------------------------------------------------------------
(* One step of one thread.                                                 *)

Step(t) ==
    \/ \E e \in OwnEvents : SipInsert(t, e)
    \/ \E e \in ForeignEvents : ListenerAsks(t, e)
    \/ Schema(t) \/ Reserve(t) \/ Exclude(t) \/ Commit(t) \/ Inserted(t)
    \/ ExistsStep(t) \/ ExistsReturns(t) \/ ListenerInserts(t)
    \/ \E col \in Columns :
           HttpLists(t, col) \/ \E text \in Texts : HttpLooksUp(t, col, text)
    \/ LookupStep(t) \/ LookupReturns(t)
    \/ CountStep(t) \/ CountReturns(t) \/ SelectStep(t)
    \/ SelectReturns(t) \/ ListServed(t)
    \/ InsertFails(t) \/ ExistsFails(t) \/ QueryFails(t)

\* It leaves what the other threads keep alone.
Frame(t) ==
    \A u \in Threads \ {t} :
        /\ at'[u] = at[u]
        /\ arg'[u] = arg[u]
        /\ count'[u] = count[u]
        /\ found'[u] = found[u]
        /\ list'[u] = list[u]
        /\ before'[u] = before[u]

\* What has to be shown of it.
Kept(t) ==
    /\ TypeOK'
    /\ Grown
    /\ Frame(t)
    /\ ThreadInv(t)'
    /\ OneWriter' /\ RoomToWrite' /\ CreatedFirst'

LEMMA Places ==
    DOMAIN LockAt = {"idle"} \cup EventPlaces \cup LookupPlaces \cup ListPlaces
BY DEF LockAt, EventPlaces, LookupPlaces, ListPlaces

LEMMA GoKeeps ==
    ASSUME TypeOK, NEW t \in Threads, NEW place \in DOMAIN LockAt, Go(t, place)
    PROVE  /\ at' \in [Threads -> DOMAIN LockAt]
           /\ lock' = [u \in Threads |-> LockAt[at'[u]]]
           /\ at'[t] = place
           /\ \A u \in Threads \ {t} : at'[u] = at[u]
BY DEF TypeOK, Go

\* The other threads' part of the invariant does not depend on what t does.
LEMMA OthersKeep ==
    ASSUME TypeOK, NEW t \in Threads, NEW u \in Threads \ {t}, ThreadInv(u), Grown, Frame(t)
    PROVE  ThreadInv(u)'
<1>1. /\ at'[u] = at[u] /\ arg'[u] = arg[u] /\ count'[u] = count[u]
      /\ list'[u] = list[u] /\ before'[u] = before[u]
  BY DEF Frame
<1>2. ArgFits(u)'
  BY <1>1 DEF ThreadInv, ArgFits
<1>3. BeforeKept(u)' /\ CountKept(u)' /\ ListKept(u)'
  <2> SUFFICES ASSUME at[u] \in ListPlaces
               PROVE  BeforeKept(u)' /\ CountKept(u)' /\ ListKept(u)'
    BY <1>1 DEF BeforeKept, CountKept, ListKept, ListPlaces
  <2> DEFINE col == arg[u][1]
  <2>1. col \in Columns /\ arg'[u][1] = col
    BY <1>1 DEF ThreadInv, ArgFits
  <2>2. /\ GroupOf(rows, col) \subseteq GroupOf(rows', col)
        /\ Cardinality(GroupOf(rows, col)) <= Cardinality(GroupOf(rows', col))
        /\ Cardinality(GroupOf(rows, col)) \in Nat
        /\ Cardinality(GroupOf(rows', col)) \in Nat
    BY <2>1, GrownKeeps DEF TypeOK
  <2>3. count[u] \in Nat /\ list[u] \in Seq(Texts)
    BY DEF TypeOK
  <2> HIDE DEF col
  <2>4. BeforeKept(u)'
    BY <1>1, <2>1, <2>2 DEF ThreadInv, BeforeKept, col
  <2>5. CountKept(u)'
    BY <1>1, <2>1, <2>2, <2>3 DEF ThreadInv, CountKept, col
  <2>6. ListKept(u)'
    BY <1>1, <2>1, <2>2, <2>3 DEF ThreadInv, ListKept, col
  <2> QED BY <2>4, <2>5, <2>6
<1>4. LookupKept(u)'
  BY <1>1, GrownKeeps DEF ThreadInv, LookupKept, TypeOK
<1> QED BY <1>2, <1>3, <1>4 DEF ThreadInv

\* A step that neither writes nor prepares to.
LEMMA WritersKeep ==
    ASSUME IInv, NEW t \in Threads, UNCHANGED <<rows, created>>,
           at'[t] \notin {"prepared", "reserved", "writing", "inserted"},
           \A u \in Threads \ {t} : at'[u] = at[u]
    PROVE  OneWriter' /\ RoomToWrite' /\ CreatedFirst'
<1>1. OneWriter'
  BY DEF IInv, OneWriter, WritePlaces
<1>2. RoomToWrite'
  BY DEF IInv, RoomToWrite, WritePlaces
<1>3. CreatedFirst'
  BY DEF IInv, CreatedFirst
<1> QED BY <1>1, <1>2, <1>3

\* Outside the lists and lookups the argument is all there is to keep.
LEMMA NotAsking ==
    ASSUME NEW t \in Threads, at'[t] \notin ListPlaces \cup LookupPlaces,
           at'[t] \in EventPlaces => arg'[t] \in Events
    PROVE  ThreadInv(t)'
BY DEF ThreadInv, ArgFits, BeforeKept, CountKept, ListKept, LookupKept, ListPlaces,
       LookupPlaces

LEMMA FailedKeeps ==
    ASSUME IInv, NEW t \in Threads, Failed(t)
    PROVE  Kept(t)
<1>1. Go(t, "idle") /\ "idle" \in DOMAIN LockAt
  BY Places DEF Failed
<1>2. TypeOK'
  BY <1>1, GoKeeps DEF IInv, TypeOK, Failed
<1>3. Grown /\ Frame(t)
  BY <1>1, GoKeeps DEF IInv, TypeOK, Failed, Grown, Frame
<1>4. ThreadInv(t)'
  BY <1>1, GoKeeps, NotAsking DEF IInv, EventPlaces, ListPlaces, LookupPlaces
<1>5. OneWriter' /\ RoomToWrite' /\ CreatedFirst'
  BY <1>1, GoKeeps, WritersKeep DEF IInv, Failed
<1> QED BY <1>2, <1>3, <1>4, <1>5 DEF Kept

LEMMA QueryFailedKeeps ==
    ASSUME IInv, NEW t \in Threads, QueryFailed(t)
    PROVE  Kept(t)
<1>1. Go(t, "idle") /\ "idle" \in DOMAIN LockAt
  BY Places DEF QueryFailed
<1>2. TypeOK'
  BY <1>1, GoKeeps, ConstantsAssumption DEF IInv, TypeOK, QueryFailed
<1>3. Grown /\ Frame(t)
  BY <1>1, GoKeeps DEF IInv, TypeOK, QueryFailed, Grown, Frame
<1>4. ThreadInv(t)'
  BY <1>1, GoKeeps, NotAsking DEF IInv, EventPlaces, ListPlaces, LookupPlaces
<1>5. OneWriter' /\ RoomToWrite' /\ CreatedFirst'
  BY <1>1, GoKeeps, WritersKeep DEF IInv, QueryFailed
<1> QED BY <1>2, <1>3, <1>4, <1>5 DEF Kept

\* The calls of db_insert_bad_actor and db_bad_actor_exists.
LEMMA AskedKeeps ==
    ASSUME IInv, NEW t \in Threads, NEW e \in Events, NEW place \in {"insert", "exists"},
           Go(t, place), arg' = [arg EXCEPT ![t] = e],
           UNCHANGED <<created, rows, count, found, list, answer, before>>
    PROVE  Kept(t)
<1>1. Go(t, place) /\ place \in DOMAIN LockAt
  BY Places DEF EventPlaces
<1>2. TypeOK'
  BY <1>1, GoKeeps DEF IInv, TypeOK
<1>3. Grown /\ Frame(t)
  BY <1>1, GoKeeps DEF IInv, TypeOK, Grown, Frame
<1>4. arg'[t] = e
  BY DEF IInv, TypeOK
<1>5. ThreadInv(t)'
  BY <1>1, <1>4, GoKeeps, NotAsking DEF IInv, EventPlaces, ListPlaces, LookupPlaces
<1>6. OneWriter' /\ RoomToWrite' /\ CreatedFirst'
  BY <1>1, GoKeeps, WritersKeep DEF IInv
<1> QED BY <1>2, <1>3, <1>5, <1>6 DEF Kept

LEMMA SchemaKeeps ==
    ASSUME IInv, NEW t \in Threads, Schema(t)
    PROVE  Kept(t)
<1>1. CASE Failed(t)
  BY <1>1, FailedKeeps
<1>2. CASE ~ Failed(t)
  <2>1. /\ Go(t, "prepared") /\ "prepared" \in DOMAIN LockAt /\ created' = TRUE
        /\ UNCHANGED <<rows, arg, count, found, list, answer, before>>
        /\ at[t] = "insert"
    BY <1>2, Places DEF Schema, EventPlaces
  <2>2. /\ at'[t] = "prepared" /\ arg'[t] \in Events
        /\ \A u \in Threads \ {t} : at'[u] = at[u]
    BY <2>1, GoKeeps DEF IInv, ThreadInv, ArgFits, EventPlaces
  <2>3. TypeOK'
    BY <2>1, GoKeeps DEF IInv, TypeOK
  <2>4. Grown /\ Frame(t)
    BY <2>1, <2>2 DEF Grown, Frame
  <2>5. ThreadInv(t)'
    BY <2>2, NotAsking DEF ListPlaces, LookupPlaces
  <2>6. OneWriter' /\ RoomToWrite' /\ CreatedFirst'
    BY <2>1, <2>2 DEF IInv, OneWriter, RoomToWrite, CreatedFirst, WritePlaces
  <2> QED BY <2>3, <2>4, <2>5, <2>6 DEF Kept
<1> QED BY <1>1, <1>2

\* Nobody else holds RESERVED or EXCLUSIVE, and there is room for a row.
LEMMA ReserveKeeps ==
    ASSUME IInv, NEW t \in Threads, Reserve(t)
    PROVE  Kept(t)
<1>1. CASE Failed(t)
  BY <1>1, FailedKeeps
<1>2. CASE ~ Failed(t)
  <2>1. /\ Go(t, "reserved") /\ "reserved" \in DOMAIN LockAt
        /\ UNCHANGED <<created, rows, arg, count, found, list, answer, before>>
        /\ at[t] = "prepared" /\ CanReserve(t)
        /\ Len(rows) + Cardinality({u \in Threads : lock[u] = "reserved"}) < MaxRows
    BY <1>2, Places DEF Reserve, EventPlaces
  <2>2. /\ at'[t] = "reserved" /\ arg'[t] \in Events
        /\ \A u \in Threads \ {t} : at'[u] = at[u]
    BY <2>1, GoKeeps DEF IInv, ThreadInv, ArgFits, EventPlaces
  <2>3. TypeOK'
    BY <2>1, GoKeeps DEF IInv, TypeOK
  <2>4. Grown /\ Frame(t)
    BY <2>1, <2>2 DEF Grown, Frame
  <2>5. ThreadInv(t)'
    BY <2>2, NotAsking DEF ListPlaces, LookupPlaces
  <2>6. \A u \in Threads : at[u] \notin WritePlaces /\ lock[u] # "reserved"
    BY <2>1 DEF IInv, TypeOK, CanReserve, CanShare, Others, LockAt, WritePlaces
  <2>7. Len(rows) < MaxRows
    <3>1. {u \in Threads : lock[u] = "reserved"} = {}
      BY <2>6
    <3>2. Len(rows) + Cardinality({}) < MaxRows
      BY <2>1, <3>1
    <3>3. Cardinality({}) = 0 /\ Len(rows) \in Nat
      BY FS_EmptySet DEF IInv, TypeOK
    <3> QED BY <3>2, <3>3
  <2>8. OneWriter' /\ RoomToWrite' /\ CreatedFirst'
    <3>1. OneWriter'
      BY <2>2, <2>6 DEF OneWriter
    <3>2. RoomToWrite'
      BY <2>1, <2>7 DEF RoomToWrite
    <3>3. CreatedFirst'
      BY <2>1, <2>2 DEF IInv, CreatedFirst
    <3> QED BY <3>1, <3>2, <3>3
  <2> QED BY <2>3, <2>4, <2>5, <2>8 DEF Kept
<1> QED BY <1>1, <1>2

LEMMA ExcludeKeeps ==
    ASSUME IInv, NEW t \in Threads, Exclude(t)
    PROVE  Kept(t)
<1>1. CASE Failed(t)
  BY <1>1, FailedKeeps
<1>2. CASE ~ Failed(t)
  <2>1. /\ Go(t, "writing") /\ "writing" \in DOMAIN LockAt
        /\ UNCHANGED <<created, rows, arg, count, found, list, answer, before>>
        /\ at[t] = "reserved"
    BY <1>2, Places DEF Exclude, EventPlaces
  <2>2. /\ at'[t] = "writing" /\ arg'[t] \in Events
        /\ \A u \in Threads \ {t} : at'[u] = at[u]
    BY <2>1, GoKeeps DEF IInv, ThreadInv, ArgFits, EventPlaces
  <2>3. TypeOK'
    BY <2>1, GoKeeps DEF IInv, TypeOK
  <2>4. Grown /\ Frame(t)
    BY <2>1, <2>2 DEF Grown, Frame
  <2>5. ThreadInv(t)'
    BY <2>2, NotAsking DEF ListPlaces, LookupPlaces
  <2>6. OneWriter' /\ RoomToWrite' /\ CreatedFirst'
    BY <2>1, <2>2 DEF IInv, OneWriter, RoomToWrite, CreatedFirst, WritePlaces
  <2> QED BY <2>3, <2>4, <2>5, <2>6 DEF Kept
<1> QED BY <1>1, <1>2

\* The one step that changes the table: its writer is the only one.
LEMMA CommitKeeps ==
    ASSUME IInv, NEW t \in Threads, Commit(t)
    PROVE  Kept(t)
<1>1. /\ Go(t, "inserted") /\ "inserted" \in DOMAIN LockAt
      /\ UNCHANGED <<created, arg, count, found, list, answer, before>>
      /\ at[t] = "writing"
      /\ rows' = Append(rows, arg[t])
  BY Places DEF Commit, EventPlaces
<1>2. /\ at'[t] = "inserted" /\ arg'[t] \in Events /\ arg[t] \in Events
      /\ \A u \in Threads \ {t} : at'[u] = at[u]
  BY <1>1, GoKeeps DEF IInv, ThreadInv, ArgFits, EventPlaces
<1>3. rows' \in Seq(Events) /\ Len(rows') = Len(rows) + 1
  BY <1>1, <1>2, AppendProperties DEF IInv, TypeOK
<1>4. Len(rows) < MaxRows /\ \A u \in Threads \ {t} : at[u] \notin WritePlaces
  BY <1>1 DEF IInv, OneWriter, RoomToWrite, WritePlaces
<1>5. TypeOK'
  <2>1. Len(rows') <= MaxRows
    BY <1>3, <1>4, ConstantsAssumption DEF IInv, TypeOK
  <2> QED BY <1>1, <1>3, <2>1, GoKeeps DEF IInv, TypeOK
<1>6. Grown /\ Frame(t)
  BY <1>1, <1>2 DEF Grown, Frame
<1>7. ThreadInv(t)'
  BY <1>2, NotAsking DEF ListPlaces, LookupPlaces
<1>8. OneWriter' /\ RoomToWrite' /\ CreatedFirst'
  BY <1>1, <1>2, <1>4 DEF IInv, OneWriter, RoomToWrite, CreatedFirst, WritePlaces
<1> QED BY <1>5, <1>6, <1>7, <1>8 DEF Kept

LEMMA InsertedKeeps ==
    ASSUME IInv, NEW t \in Threads, Inserted(t)
    PROVE  Kept(t)
<1>1. Go(t, "idle") /\ "idle" \in DOMAIN LockAt
  BY Places DEF Inserted
<1>2. TypeOK'
  BY <1>1, GoKeeps DEF IInv, TypeOK, Inserted
<1>3. Grown /\ Frame(t)
  BY <1>1, GoKeeps DEF IInv, TypeOK, Inserted, Grown, Frame
<1>4. ThreadInv(t)'
  BY <1>1, GoKeeps, NotAsking DEF IInv, EventPlaces, ListPlaces, LookupPlaces
<1>5. OneWriter' /\ RoomToWrite' /\ CreatedFirst'
  BY <1>1, GoKeeps, WritersKeep DEF IInv, Inserted
<1> QED BY <1>2, <1>3, <1>4, <1>5 DEF Kept

\* db_bad_actor_exists, from its step to its return, and the listener's insert.
LEMMA ExistsKeeps ==
    ASSUME IInv, NEW t \in Threads,
           ExistsStep(t) \/ ExistsReturns(t) \/ ListenerInserts(t) \/ ExistsFails(t)
    PROVE  Kept(t)
<1>1. PICK place \in {"idle", "existing", "absent", "insert"} : Go(t, place)
  BY DEF ExistsStep, ToldAbsent, ExistsReturns, ListenerInserts, ExistsFails
<1>2. place \in DOMAIN LockAt
  BY <1>1, Places DEF EventPlaces
<1>3. /\ at'[t] = place
      /\ \A u \in Threads \ {t} : at'[u] = at[u]
      /\ at' \in [Threads -> DOMAIN LockAt]
      /\ lock' = [u \in Threads |-> LockAt[at'[u]]]
  BY <1>1, <1>2, GoKeeps DEF IInv
<1>4. /\ UNCHANGED <<created, rows, count, list, before>>
      /\ at[t] \in {"exists", "existing", "absent"}
      /\ arg' = arg \/ (arg' = [arg EXCEPT ![t] = None] /\ at'[t] = "idle")
  <2>1. CASE ExistsStep(t)
    BY <2>1 DEF ExistsStep, ToldAbsent
  <2>2. CASE ExistsReturns(t)
    <3>1. /\ UNCHANGED <<created, rows, count, list, before>> /\ at[t] = "existing"
          /\ \/ arg' = arg
             \/ arg' = [arg EXCEPT ![t] = None] /\ Go(t, "idle")
      BY <2>2 DEF ExistsReturns
    <3>2. Go(t, "idle") => at'[t] = "idle"
      BY GoKeeps, Places DEF IInv
    <3> QED BY <3>1, <3>2
  <2>3. CASE ListenerInserts(t)
    BY <2>3 DEF ListenerInserts
  <2>4. CASE ExistsFails(t)
    BY <2>4 DEF ExistsFails, ToldAbsent
  <2> QED BY <2>1, <2>2, <2>3, <2>4
<1>5. /\ found' \in [Threads -> BOOLEAN] /\ answer' \in [Threads -> BOOLEAN]
      /\ \A u \in Threads \ {t} : found'[u] = found[u]
  <2>1. found \in [Threads -> BOOLEAN] /\ answer \in [Threads -> BOOLEAN]
    BY DEF IInv, TypeOK
  <2>2. CASE ExistsStep(t)
    <3>1. IsStored(arg[t]) \in BOOLEAN
      BY DEF IsStored
    <3> QED BY <2>1, <2>2, <3>1 DEF ExistsStep, ToldAbsent
  <2>3. CASE ExistsReturns(t)
    BY <2>1, <2>3 DEF ExistsReturns
  <2>4. CASE ListenerInserts(t)
    BY <2>1, <2>4 DEF ListenerInserts
  <2>5. CASE ExistsFails(t)
    BY <2>1, <2>5 DEF ExistsFails, ToldAbsent
  <2> QED BY <2>2, <2>3, <2>4, <2>5
<1>6. arg' \in [Threads -> Events \cup (Columns \X (Texts \cup {None})) \cup {None}]
  BY <1>4 DEF IInv, TypeOK
<1>7. TypeOK'
  BY <1>3, <1>4, <1>5, <1>6 DEF IInv, TypeOK
<1>8. Grown /\ Frame(t)
  BY <1>3, <1>4, <1>5 DEF IInv, TypeOK, Grown, Frame
<1>9. arg[t] \in Events
  BY <1>4 DEF IInv, ThreadInv, ArgFits, EventPlaces
<1>10. ThreadInv(t)'
  BY <1>3, <1>4, <1>9, NotAsking DEF EventPlaces, ListPlaces, LookupPlaces
<1>11. OneWriter' /\ RoomToWrite' /\ CreatedFirst'
  BY <1>3, <1>4, WritersKeep
<1> QED BY <1>7, <1>8, <1>10, <1>11 DEF Kept

LEMMA HttpListsKeeps ==
    ASSUME IInv, NEW t \in Threads, NEW col \in Columns, HttpLists(t, col)
    PROVE  Kept(t)
<1>1. Go(t, "count") /\ "count" \in DOMAIN LockAt
  BY Places DEF HttpLists, ListPlaces
<1>2. Group(col) = GroupOf(rows, col) /\ Group(col) \subseteq Texts
  BY GroupIsGroupOf, GroupFinite DEF IInv, TypeOK
<1>3. TypeOK'
  BY <1>1, <1>2, GoKeeps DEF IInv, TypeOK, HttpLists
<1>4. Grown /\ Frame(t)
  BY <1>1, GoKeeps DEF IInv, TypeOK, HttpLists, Grown, Frame
<1>5. /\ at'[t] = "count" /\ arg'[t] = <<col, None>> /\ before'[t] = GroupOf(rows, col)
      /\ rows' = rows
  BY <1>1, <1>2, GoKeeps DEF IInv, TypeOK, HttpLists
<1>6. ThreadInv(t)'
  <2>1. arg'[t] \in Columns \X {None} /\ arg'[t][1] = col
    BY <1>5
  <2> QED
    BY <1>5, <2>1
    DEF ThreadInv, ArgFits, BeforeKept, CountKept, ListKept, LookupKept, ListPlaces,
        LookupPlaces, EventPlaces
<1>7. OneWriter' /\ RoomToWrite' /\ CreatedFirst'
  BY <1>1, GoKeeps, WritersKeep DEF IInv, HttpLists
<1> QED BY <1>3, <1>4, <1>6, <1>7 DEF Kept

LEMMA HttpLooksUpKeeps ==
    ASSUME IInv, NEW t \in Threads, NEW col \in Columns, NEW text \in Texts,
           HttpLooksUp(t, col, text)
    PROVE  Kept(t)
<1>1. Go(t, "lookup") /\ "lookup" \in DOMAIN LockAt
  BY Places DEF HttpLooksUp, LookupPlaces
<1>2. TypeOK'
  BY <1>1, GoKeeps DEF IInv, TypeOK, HttpLooksUp
<1>3. Grown /\ Frame(t)
  BY <1>1, GoKeeps DEF IInv, TypeOK, HttpLooksUp, Grown, Frame
<1>4. at'[t] = "lookup" /\ arg'[t] = <<col, text>>
  BY <1>1, GoKeeps DEF IInv, TypeOK, HttpLooksUp
<1>5. ThreadInv(t)'
  BY <1>4
  DEF ThreadInv, ArgFits, BeforeKept, CountKept, ListKept, LookupKept, ListPlaces,
      LookupPlaces, EventPlaces
<1>6. OneWriter' /\ RoomToWrite' /\ CreatedFirst'
  BY <1>1, GoKeeps, WritersKeep DEF IInv, HttpLooksUp
<1> QED BY <1>2, <1>3, <1>5, <1>6 DEF Kept

LEMMA LookupStepKeeps ==
    ASSUME IInv, NEW t \in Threads, LookupStep(t)
    PROVE  Kept(t)
<1>1. CASE QueryFailed(t)
  BY <1>1, QueryFailedKeeps
<1>2. CASE ~ QueryFailed(t)
  <2>1. /\ Go(t, "looking") /\ "looking" \in DOMAIN LockAt
        /\ UNCHANGED <<created, rows, arg, count, found, list, answer, before>>
        /\ at[t] = "lookup"
        /\ \E e \in Stored : Column[arg[t][1]][e] = arg[t][2]
    BY <1>2, Places DEF LookupStep, LookupPlaces
  <2>2. /\ at'[t] = "looking" /\ \A u \in Threads \ {t} : at'[u] = at[u]
        /\ arg[t] \in Columns \X Texts
    BY <2>1, GoKeeps DEF IInv, ThreadInv, ArgFits, LookupPlaces
  <2>3. TypeOK'
    BY <2>1, GoKeeps DEF IInv, TypeOK
  <2>4. Grown /\ Frame(t)
    BY <2>1, <2>2 DEF Grown, Frame
  <2>5. ThreadInv(t)'
    BY <2>1, <2>2, StoredIsElements
    DEF ThreadInv, ArgFits, BeforeKept, CountKept, ListKept, LookupKept, ListPlaces,
        LookupPlaces, EventPlaces
  <2>6. OneWriter' /\ RoomToWrite' /\ CreatedFirst'
    BY <2>1, <2>2, WritersKeep
  <2> QED BY <2>3, <2>4, <2>5, <2>6 DEF Kept
<1> QED BY <1>1, <1>2

LEMMA LookupReturnsKeeps ==
    ASSUME IInv, NEW t \in Threads, LookupReturns(t)
    PROVE  Kept(t)
<1>1. Go(t, "idle") /\ "idle" \in DOMAIN LockAt
  BY Places DEF LookupReturns
<1>2. TypeOK'
  BY <1>1, GoKeeps DEF IInv, TypeOK, LookupReturns
<1>3. Grown /\ Frame(t)
  BY <1>1, GoKeeps DEF IInv, TypeOK, LookupReturns, Grown, Frame
<1>4. ThreadInv(t)'
  BY <1>1, GoKeeps, NotAsking DEF IInv, EventPlaces, ListPlaces, LookupPlaces
<1>5. OneWriter' /\ RoomToWrite' /\ CreatedFirst'
  BY <1>1, GoKeeps, WritersKeep DEF IInv, LookupReturns
<1> QED BY <1>2, <1>3, <1>4, <1>5 DEF Kept

LEMMA CountStepKeeps ==
    ASSUME IInv, NEW t \in Threads, CountStep(t)
    PROVE  Kept(t)
<1>1. CASE QueryFailed(t)
  BY <1>1, QueryFailedKeeps
<1>2. CASE ~ QueryFailed(t)
  <2> DEFINE col == arg[t][1]
             n == Cardinality(GroupOf(rows, col))
  <2>1. /\ Go(t, "counting") /\ "counting" \in DOMAIN LockAt
        /\ UNCHANGED <<created, rows, arg, found, list, answer, before>>
        /\ count' = [count EXCEPT ![t] = n]
        /\ at[t] = "count"
    BY <1>2, Places, GroupIsGroupOf DEF CountStep, ListPlaces, CountDistinct
  <2>2. /\ at'[t] = "counting" /\ \A u \in Threads \ {t} : at'[u] = at[u]
        /\ arg[t] \in Columns \X {None} /\ col \in Columns
        /\ before[t] \subseteq GroupOf(rows, col)
    BY <2>1, GoKeeps DEF IInv, ThreadInv, ArgFits, BeforeKept, ListPlaces
  <2>3. n \in 0 .. MaxRows /\ IsFiniteSet(GroupOf(rows, col))
    BY <2>2, GroupFinite, ConstantsAssumption DEF IInv, TypeOK
  <2>4. Cardinality(before[t]) <= n
    BY <2>2, <2>3, FS_Subset
  <2> HIDE DEF n
  <2>5. TypeOK'
    BY <2>1, <2>3, GoKeeps DEF IInv, TypeOK
  <2>6. Grown /\ Frame(t)
    BY <2>1, <2>2 DEF IInv, TypeOK, Grown, Frame
  <2>7. count'[t] = n
    BY <2>1 DEF IInv, TypeOK
  <2>8. CountKept(t)'
    BY <2>1, <2>3, <2>4, <2>7 DEF CountKept, n
  <2>9. ThreadInv(t)'
    BY <2>1, <2>2, <2>8
    DEF ThreadInv, ArgFits, BeforeKept, ListKept, LookupKept, ListPlaces,
        LookupPlaces, EventPlaces
  <2>10. OneWriter' /\ RoomToWrite' /\ CreatedFirst'
    BY <2>1, <2>2, WritersKeep
  <2> QED BY <2>5, <2>6, <2>9, <2>10 DEF Kept
<1> QED BY <1>1, <1>2

LEMMA CountReturnsKeeps ==
    ASSUME IInv, NEW t \in Threads, CountReturns(t)
    PROVE  Kept(t)
<1>1. /\ Go(t, "select") /\ "select" \in DOMAIN LockAt
      /\ UNCHANGED <<created, rows, arg, count, found, list, answer, before>>
      /\ at[t] = "counting"
  BY Places DEF CountReturns, ListPlaces
<1>2. at'[t] = "select" /\ \A u \in Threads \ {t} : at'[u] = at[u]
  BY <1>1, GoKeeps DEF IInv
<1>3. TypeOK'
  BY <1>1, GoKeeps DEF IInv, TypeOK
<1>4. Grown /\ Frame(t)
  BY <1>1, <1>2 DEF Grown, Frame
<1>5. ThreadInv(t)'
  BY <1>1, <1>2
  DEF IInv, ThreadInv, ArgFits, BeforeKept, CountKept, ListKept, LookupKept, ListPlaces,
      LookupPlaces, EventPlaces
<1>6. OneWriter' /\ RoomToWrite' /\ CreatedFirst'
  BY <1>1, <1>2, WritersKeep
<1> QED BY <1>3, <1>4, <1>5, <1>6 DEF Kept

\* GROUP BY gives every group once.
LEMMA GroupedOnce ==
    ASSUME rows \in Seq(Events), NEW col \in Columns, NEW s \in NewestFirst(col)
    PROVE  /\ s \in Seq(Texts)
           /\ Len(s) = Cardinality(GroupOf(rows, col))
           /\ IsInjective(s)
           /\ \A i \in 1 .. Len(s) : s[i] \in GroupOf(rows, col)
<1> DEFINE n == Cardinality(GroupOf(rows, col))
<1>1. /\ s \in [1 .. n -> GroupOf(rows, col)]
      /\ \A i, j \in 1 .. n : i # j => s[i] # s[j]
  BY GroupIsGroupOf DEF NewestFirst, SetToSeqs
<1>2. n \in Nat /\ GroupOf(rows, col) \subseteq Texts
  BY GroupFinite
<1> HIDE DEF n
<1>3. s \in Seq(Texts) /\ Len(s) = n
  BY <1>1, <1>2
<1> QED BY <1>1, <1>3 DEF IsInjective, n

LEMMA SelectStepKeeps ==
    ASSUME IInv, NEW t \in Threads, SelectStep(t)
    PROVE  Kept(t)
<1> DEFINE col == arg[t][1]
<1>1. CASE QueryFailed(t)
  BY <1>1, QueryFailedKeeps
<1>2. CASE ~ QueryFailed(t)
  <2>1. PICK place \in {"selecting", "listed"}, s \in {<<>>} \cup NewestFirst(col) :
            /\ Go(t, place)
            /\ list' = [list EXCEPT ![t] = s]
            /\ \/ place = "listed" /\ count[t] = 0 /\ s = <<>>
               \/ place = "selecting" /\ s \in NewestFirst(col)
    BY <1>2 DEF SelectStep
  <2>2. /\ UNCHANGED <<created, rows, arg, count, found, answer, before>>
        /\ at[t] = "select" /\ place \in DOMAIN LockAt
    BY <1>2, <2>1, Places DEF SelectStep, ListPlaces
  <2>3. /\ at'[t] = place /\ \A u \in Threads \ {t} : at'[u] = at[u]
        /\ arg[t] \in Columns \X {None} /\ col \in Columns
        /\ before[t] \subseteq GroupOf(rows, col)
        /\ CountKept(t)
    BY <2>1, <2>2, GoKeeps DEF IInv, ThreadInv, ArgFits, BeforeKept, ListPlaces
  <2>4. /\ s \in Seq(Texts)
        /\ count[t] <= Len(s)
        /\ IsInjective(s)
        /\ \A i \in 1 .. Len(s) : s[i] \in GroupOf(rows, col)
        /\ place = "listed" => Len(s) = count[t]
    <3>1. CASE place = "listed" /\ count[t] = 0 /\ s = <<>>
      <4>1. s \in Seq(Texts) /\ Len(s) = 0 /\ DOMAIN s = {}
        BY <3>1
      <4> QED BY <3>1, <4>1 DEF IsInjective
    <3>2. CASE place = "selecting" /\ s \in NewestFirst(col)
      <4>1. count[t] <= Cardinality(GroupOf(rows, col))
        BY <2>2, <2>3 DEF CountKept, ListPlaces
      <4> QED BY <2>3, <3>2, <4>1, GroupedOnce DEF IInv, TypeOK
    <3> QED BY <2>1, <3>1, <3>2
  <2>5. list'[t] = s
    BY <2>1 DEF IInv, TypeOK
  <2>6. TypeOK'
    BY <2>1, <2>2, <2>4, GoKeeps DEF IInv, TypeOK
  <2>7. Grown /\ Frame(t)
    BY <2>1, <2>2, <2>3 DEF IInv, TypeOK, Grown, Frame
  <2>8. ListKept(t)'
    BY <2>2, <2>3, <2>4, <2>5 DEF ListKept
  <2>9. CountKept(t)'
    BY <2>2, <2>3 DEF CountKept, ListPlaces
  <2>10. ThreadInv(t)'
    BY <2>2, <2>3, <2>8, <2>9
    DEF ThreadInv, ArgFits, BeforeKept, LookupKept, ListPlaces, LookupPlaces, EventPlaces
  <2>11. OneWriter' /\ RoomToWrite' /\ CreatedFirst'
    BY <2>2, <2>3, WritersKeep
  <2> QED BY <2>6, <2>7, <2>10, <2>11 DEF Kept
<1> QED BY <1>1, <1>2

\* The loop that copies count[t] rows.
LEMMA SelectReturnsKeeps ==
    ASSUME IInv, NEW t \in Threads, SelectReturns(t)
    PROVE  Kept(t)
<1> DEFINE col == arg[t][1]
           s == SubSeq(list[t], 1, count[t])
<1>1. CASE QueryFailed(t)
  BY <1>1, QueryFailedKeeps
<1>2. CASE ~ QueryFailed(t)
  <2>1. /\ Go(t, "listed") /\ "listed" \in DOMAIN LockAt
        /\ count[t] <= Len(list[t])
        /\ list' = [list EXCEPT ![t] = s]
        /\ UNCHANGED <<created, rows, arg, count, found, answer, before>>
        /\ at[t] = "selecting"
    BY <1>2, Places DEF SelectReturns, ListPlaces, IInv, TypeOK
  <2>2. /\ at'[t] = "listed" /\ \A u \in Threads \ {t} : at'[u] = at[u]
        /\ ThreadInv(t)
    BY <2>1, GoKeeps DEF IInv
  <2>3. count[t] \in Nat /\ list[t] \in Seq(Texts)
    BY DEF IInv, TypeOK
  <2>4. /\ s \in Seq(Texts)
        /\ Len(s) = count[t]
        /\ \A i \in 1 .. Len(s) : s[i] = list[t][i]
        /\ DOMAIN s = 1 .. count[t]
        /\ DOMAIN list[t] = 1 .. Len(list[t])
        /\ 1 .. count[t] \subseteq 1 .. Len(list[t])
    BY <2>1, <2>3
  <2> HIDE DEF s
  <2>5. /\ IsInjective(list[t])
        /\ \A i \in 1 .. Len(list[t]) : list[t][i] \in GroupOf(rows, col)
    BY <2>1, <2>2 DEF ThreadInv, ListKept
  <2>6. IsInjective(s) /\ \A i \in 1 .. Len(s) : s[i] \in GroupOf(rows, col)
    BY <2>4, <2>5 DEF IsInjective
  <2>7. list'[t] = s
    BY <2>1 DEF IInv, TypeOK
  <2>8. TypeOK'
    BY <2>1, <2>4, GoKeeps DEF IInv, TypeOK
  <2>9. Grown /\ Frame(t)
    BY <2>1, <2>2 DEF IInv, TypeOK, Grown, Frame
  <2>10. ListKept(t)'
    BY <2>1, <2>2, <2>3, <2>4, <2>6, <2>7 DEF ListKept
  <2>11. CountKept(t)'
    BY <2>1, <2>2 DEF ThreadInv, CountKept, ListPlaces
  <2>12. ThreadInv(t)'
    BY <2>1, <2>2, <2>10, <2>11
    DEF ThreadInv, ArgFits, BeforeKept, LookupKept, ListPlaces, LookupPlaces, EventPlaces
  <2>13. OneWriter' /\ RoomToWrite' /\ CreatedFirst'
    BY <2>1, <2>2, WritersKeep
  <2> QED BY <2>8, <2>9, <2>12, <2>13 DEF Kept
<1> QED BY <1>1, <1>2

LEMMA ListServedKeeps ==
    ASSUME IInv, NEW t \in Threads, ListServed(t)
    PROVE  Kept(t)
<1>1. Go(t, "idle") /\ "idle" \in DOMAIN LockAt
  BY Places DEF ListServed
<1>2. TypeOK'
  BY <1>1, GoKeeps, ConstantsAssumption DEF IInv, TypeOK, ListServed
<1>3. Grown /\ Frame(t)
  BY <1>1, GoKeeps DEF IInv, TypeOK, ListServed, Grown, Frame
<1>4. ThreadInv(t)'
  BY <1>1, GoKeeps, NotAsking DEF IInv, EventPlaces, ListPlaces, LookupPlaces
<1>5. OneWriter' /\ RoomToWrite' /\ CreatedFirst'
  BY <1>1, GoKeeps, WritersKeep DEF IInv, ListServed
<1> QED BY <1>2, <1>3, <1>4, <1>5 DEF Kept

-----------------------------------------------------------------------------
LEMMA InitIInv == Init => IInv
<1> SUFFICES ASSUME Init PROVE IInv
  OBVIOUS
<1>1. TypeOK
  <2>1. "idle" \in DOMAIN LockAt /\ LockAt["idle"] = "none"
    BY Places DEF LockAt
  <2>2. created \in BOOLEAN /\ rows \in Seq(Events) /\ Len(rows) <= MaxRows
    <3>1. rows = <<>> /\ created = FALSE /\ <<>> \in Seq(Events) /\ Len(<<>>) = 0
      BY DEF Init
    <3>2. 0 <= MaxRows
      BY ConstantsAssumption
    <3> QED BY <3>1, <3>2
  <2>3. at \in [Threads -> DOMAIN LockAt] /\ lock = [t \in Threads |-> LockAt[at[t]]]
    BY <2>1 DEF Init
  <2>4. /\ count \in [Threads -> 0 .. MaxRows]
        /\ list \in [Threads -> Seq(Texts)]
        /\ before \in [Threads -> SUBSET Texts]
    BY ConstantsAssumption DEF Init
  <2>5. found \in [Threads -> BOOLEAN] /\ answer \in [Threads -> BOOLEAN]
    BY DEF Init
  <2> QED BY <2>2, <2>3, <2>4, <2>5 DEF Init, TypeOK
<1>2. OneWriter /\ RoomToWrite /\ CreatedFirst
  BY DEF Init, OneWriter, RoomToWrite, CreatedFirst, WritePlaces
<1>3. \A t \in Threads : ThreadInv(t)
  BY DEF Init, ThreadInv, ArgFits, BeforeKept, CountKept, ListKept, LookupKept, ListPlaces,
         LookupPlaces, EventPlaces
<1> QED BY <1>1, <1>2, <1>3 DEF IInv

LEMMA StepKeeps ==
    ASSUME IInv, NEW t \in Threads, Step(t)
    PROVE  Kept(t)
<1>1. ASSUME NEW e \in OwnEvents, SipInsert(t, e) PROVE Kept(t)
  BY <1>1, AskedKeeps DEF SipInsert, Events
<1>2. ASSUME NEW e \in ForeignEvents, ListenerAsks(t, e) PROVE Kept(t)
  BY <1>2, AskedKeeps DEF ListenerAsks, Events
<1>3. CASE InsertFails(t) \/ QueryFails(t)
  BY <1>3, FailedKeeps, QueryFailedKeeps DEF InsertFails, QueryFails
<1> QED
  BY <1>1, <1>2, <1>3, SchemaKeeps, ReserveKeeps, ExcludeKeeps, CommitKeeps, InsertedKeeps,
     ExistsKeeps, HttpListsKeeps, HttpLooksUpKeeps, LookupStepKeeps, LookupReturnsKeeps,
     CountStepKeeps, CountReturnsKeeps, SelectStepKeeps, SelectReturnsKeeps,
     ListServedKeeps DEF Step

LEMMA NextIInv == IInv /\ [Next]_vars => IInv'
<1> SUFFICES ASSUME IInv, [Next]_vars PROVE IInv'
  OBVIOUS
<1>1. ASSUME NEW t \in Threads, Step(t) PROVE IInv'
  <2>1. Kept(t)
    BY <1>1, StepKeeps
  <2>2. \A u \in Threads : ThreadInv(u)'
    BY <2>1, OthersKeep DEF IInv, Kept
  <2> QED BY <2>1, <2>2 DEF IInv, Kept
<1>2. CASE UNCHANGED vars
  BY <1>2
  DEF IInv, TypeOK, OneWriter, RoomToWrite, CreatedFirst, ThreadInv, ArgFits, BeforeKept,
      CountKept, ListKept, LookupKept, vars
<1> QED BY <1>1, <1>2 DEF Next, Step

LEMMA Inductive == Spec => []IInv
BY InitIInv, NextIInv, PTL DEF Spec

\* Every variable keeps its type: in particular a thread holds the file lock of
\* the place it is at and no other, and the table never outgrows MaxRows, although
\* the room for a row is looked for before the lock that allows to write it.
THEOREM TypeCorrect == Spec => []TypeOK
<1>1. IInv => TypeOK
  BY DEF IInv
<1> QED BY <1>1, Inductive, PTL

\* When a list query runs out of rows it has copied none ("Nothing in there
\* yet"), with any number of inserts between its count and its select.
THEOREM NothingToLeak == Spec => []NothingInThereYet
<1>1. IInv => NothingInThereYet
  BY DEF IInv, ThreadInv, ListKept, NothingInThereYet
<1> QED BY <1>1, Inductive, PTL

\* A list that is handed to its route has exactly *row_count entries, all
\* different, all stored, and no fewer than were stored when it was asked for.
THEOREM ListsAreLongEnough == Spec => []ListLongEnough
<1>1. IInv => ListLongEnough
  <2> SUFFICES ASSUME IInv, NEW t \in Threads, at[t] = "listed"
               PROVE  /\ Len(list[t]) = count[t]
                      /\ IsInjective(list[t])
                      /\ \A i \in 1 .. Len(list[t]) : list[t][i] \in Group(arg[t][1])
                      /\ Len(list[t]) >= Cardinality(before[t])
    BY DEF ListLongEnough
  <2>1. ListKept(t) /\ CountKept(t)
    BY DEF IInv, ThreadInv
  <2>2. /\ Len(list[t]) = count[t]
        /\ IsInjective(list[t])
        /\ \A i \in 1 .. Len(list[t]) : list[t][i] \in Group(arg[t][1])
    BY <2>1, GroupIsGroupOf DEF ListKept
  <2>3. Cardinality(before[t]) <= count[t]
    BY <2>1 DEF CountKept, ListPlaces
  <2>4. Cardinality(before[t]) \in Nat /\ count[t] \in Nat
    <3>1. /\ before[t] \subseteq GroupOf(rows, arg[t][1]) /\ arg[t][1] \in Columns
          /\ rows \in Seq(Events) /\ count[t] \in Nat
      BY DEF IInv, ThreadInv, ArgFits, BeforeKept, ListPlaces, TypeOK
    <3>2. IsFiniteSet(before[t])
      BY <3>1, GroupFinite, FS_Subset
    <3> QED BY <3>1, <3>2, FS_CardinalityType
  <2> QED BY <2>2, <2>3, <2>4
<1> QED BY <1>1, Inductive, PTL

-----------------------------------------------------------------------------
(* Database implements HoneyTable.                                         *)

\* AbstractCall of one thread, from the place, argument and result of its call.
CallOf(place, a, f) ==
    CASE place \in {"insert", "prepared", "reserved", "writing"} ->
             [op |-> "insert", event |-> a]
      [] place = "inserted" -> [op |-> "return", value |-> TRUE]
      [] place = "exists" -> [op |-> "exists", event |-> a]
      [] place = "existing" -> [op |-> "return", value |-> f]
      [] OTHER -> None

LEMMA CallCases ==
    ASSUME NEW place, NEW a, NEW f
    PROVE  /\ place \in {"insert", "prepared", "reserved", "writing"} =>
                  CallOf(place, a, f) = [op |-> "insert", event |-> a]
           /\ place = "inserted" => CallOf(place, a, f) = [op |-> "return", value |-> TRUE]
           /\ place = "exists" => CallOf(place, a, f) = [op |-> "exists", event |-> a]
           /\ place = "existing" => CallOf(place, a, f) = [op |-> "return", value |-> f]
           /\ place \in {"idle", "absent"} \cup LookupPlaces \cup ListPlaces =>
                  CallOf(place, a, f) = None
BY DEF CallOf, LookupPlaces, ListPlaces

LEMMA InsertedCall ==
    ASSUME NEW a, NEW f
    PROVE  CallOf("inserted", a, f) = [op |-> "return", value |-> TRUE]
BY CallCases

\* A step changes the call of its own thread only.
LEMMA OwnCall ==
    ASSUME NEW t \in Threads, Frame(t)
    PROVE  /\ AbstractCall[t] = CallOf(at[t], arg[t], found[t])
           /\ AbstractCall' =
                  [AbstractCall EXCEPT ![t] = CallOf(at'[t], arg'[t], found'[t])]
<1>1. AbstractCall = [u \in Threads |-> CallOf(at[u], arg[u], found[u])]
  BY DEF AbstractCall, CallOf
<1>2. AbstractCall' = [u \in Threads |-> CallOf(at'[u], arg'[u], found'[u])]
  BY DEF AbstractCall, CallOf
<1> QED BY <1>1, <1>2 DEF Frame

LEMMA InitTable == Init => Table!TableInit
<1> SUFFICES ASSUME Init PROVE Table!TableInit
  OBVIOUS
<1>1. AbstractCall = [t \in Threads |-> CallOf(at[t], arg[t], found[t])]
  BY DEF AbstractCall, CallOf
<1>2. ASSUME NEW t \in Threads PROVE CallOf(at[t], arg[t], found[t]) = None
  <2>1. at[t] \in {"idle", "absent"} \cup LookupPlaces \cup ListPlaces
    BY DEF Init
  <2> QED BY <2>1, CallCases
<1> QED BY <1>1, <1>2 DEF Init, Table!TableInit

\* None is not a call in progress.
LEMMA CallsAreNotNone ==
    /\ \A op \in {"insert", "exists"}, e \in Events : [op |-> op, event |-> e] # None
    /\ \A v \in BOOLEAN : [op |-> "return", value |-> v] # None
BY NoneAssumption DEF Table!Calls

LEMMA CallTable ==
    ASSUME NEW t \in Threads, Frame(t), NEW e \in Events, NEW place \in {"insert", "exists"},
           at[t] \in {"idle", "absent"}, at'[t] = place, arg'[t] = e,
           UNCHANGED <<rows, answer>>
    PROVE  Table!TableNext
<1>1. AbstractCall[t] = None
  BY OwnCall, CallCases
<1>2. AbstractCall' = [AbstractCall EXCEPT ![t] = [op |-> place, event |-> e]]
  BY OwnCall, CallCases
<1> QED BY <1>1, <1>2 DEF Table!TableNext, Table!Call

\* The call fails, whether it has taken effect or not.
LEMMA FailTable ==
    ASSUME IInv, NEW t \in Threads, Frame(t),
           at[t] \in {"insert", "prepared", "reserved", "writing", "inserted", "exists",
                      "existing"},
           at'[t] \in {"idle", "absent"},
           answer' = [answer EXCEPT ![t] = FALSE], rows' = rows
    PROVE  Table!TableNext
<1>1. arg[t] \in Events /\ found[t] \in BOOLEAN
  BY DEF IInv, TypeOK, ThreadInv, ArgFits, EventPlaces
<1> DEFINE c == CallOf(at[t], arg[t], found[t])
<1>2. \/ \E op \in {"insert", "exists"} : c = [op |-> op, event |-> arg[t]]
      \/ \E v \in BOOLEAN : c = [op |-> "return", value |-> v]
  <2>1. CASE at[t] \in {"insert", "prepared", "reserved", "writing"}
    <3>1. c = [op |-> "insert", event |-> arg[t]]
      BY <2>1, CallCases
    <3> QED BY <3>1, Zenon
  <2>2. CASE at[t] = "inserted"
    <3>1. CallOf("inserted", arg[t], found[t]) = [op |-> "return", value |-> TRUE]
      BY InsertedCall
    <3>2. c = [op |-> "return", value |-> TRUE]
      BY <2>2, <3>1
    <3>3. TRUE \in BOOLEAN
      OBVIOUS
    <3> HIDE DEF c
    <3> QED BY <3>2, <3>3, Zenon
  <2>3. CASE at[t] = "exists"
    <3>1. c = [op |-> "exists", event |-> arg[t]]
      BY <2>3, CallCases
    <3> QED BY <3>1, Zenon
  <2>4. CASE at[t] = "existing"
    <3>1. c = [op |-> "return", value |-> found[t]]
      BY <2>4, CallCases
    <3> QED BY <1>1, <3>1, Zenon
  <2> QED BY <2>1, <2>2, <2>3, <2>4
<1>3. AbstractCall[t] # None
  <2>1. AbstractCall[t] = c
    BY OwnCall
  <2> HIDE DEF c
  <2> QED BY <1>1, <1>2, <2>1, CallsAreNotNone
<1>4. AbstractCall' = [AbstractCall EXCEPT ![t] = None]
  BY OwnCall, CallCases
<1> QED BY <1>3, <1>4 DEF Table!TableNext, Table!Fail

\* The call moves on without its caller, or anybody, noticing.
LEMMA StutterTable ==
    ASSUME NEW t \in Threads, Frame(t),
           CallOf(at'[t], arg'[t], found'[t]) = CallOf(at[t], arg[t], found[t]),
           UNCHANGED <<rows, answer>>
    PROVE  UNCHANGED Table!tableVars
<1>1. AbstractCall' = [AbstractCall EXCEPT ![t] = AbstractCall[t]]
  BY OwnCall
<1>2. AbstractCall' = AbstractCall
  BY <1>1 DEF AbstractCall
<1> QED BY <1>2 DEF Table!tableVars

\* db_insert_bad_actor.
LEMMA InsertTable ==
    ASSUME IInv, NEW t \in Threads, Frame(t),
           \/ Schema(t) \/ Reserve(t) \/ Exclude(t) \/ Commit(t) \/ Inserted(t)
           \/ InsertFails(t)
    PROVE  Table!TableNext \/ UNCHANGED Table!tableVars
<1>1. CASE /\ Failed(t)
           /\ at[t] \in {"insert", "prepared", "reserved", "writing", "inserted"}
  <2>1. at'[t] = "idle"
    BY <1>1, GoKeeps, Places DEF Failed, IInv
  <2> QED BY <1>1, <2>1, FailTable DEF Failed
<1>2. ASSUME NEW place \in {"prepared", "reserved", "writing"}, Go(t, place),
             at[t] \in {"insert", "prepared", "reserved"},
             UNCHANGED <<rows, arg, found, answer>>
      PROVE  UNCHANGED Table!tableVars
  <2>1. at'[t] = place
    BY <1>2, GoKeeps, Places DEF IInv, EventPlaces
  <2>2. CallOf(at'[t], arg'[t], found'[t]) = CallOf(at[t], arg[t], found[t])
    BY <1>2, <2>1, CallCases
  <2> QED BY <1>2, <2>2, StutterTable
<1>3. CASE Commit(t)
  <2>1. at[t] = "writing" /\ at'[t] = "inserted" /\ arg[t] \in Events
    BY <1>3, GoKeeps, Places DEF Commit, IInv, ThreadInv, ArgFits, EventPlaces
  <2>2. /\ AbstractCall[t] = [op |-> "insert", event |-> arg[t]]
        /\ AbstractCall' = [AbstractCall EXCEPT ![t] = [op |-> "return", value |-> TRUE]]
    BY <2>1, OwnCall, CallCases
  <2>3. AbstractCall[t] # None
    BY <2>1, <2>2, CallsAreNotNone
  <2>4. AbstractCall[t].op = "insert" /\ AbstractCall[t].event = arg[t]
    BY <2>2
  <2>5. Table!Insert(t)
    BY <1>3, <2>2, <2>3, <2>4 DEF Commit, Table!Insert
  <2> QED BY <2>5 DEF Table!TableNext
<1>4. CASE Inserted(t)
  <2>1. at[t] = "inserted" /\ at'[t] = "idle"
    BY <1>4, GoKeeps, Places DEF Inserted, IInv
  <2>2. /\ AbstractCall[t] = [op |-> "return", value |-> TRUE]
        /\ AbstractCall' = [AbstractCall EXCEPT ![t] = None]
    <3>1. CallOf(at[t], arg[t], found[t]) = [op |-> "return", value |-> TRUE]
      <4>1. CallOf("inserted", arg[t], found[t]) = [op |-> "return", value |-> TRUE]
        BY CallCases
      <4> QED BY <2>1, <4>1
    <3>2. CallOf(at'[t], arg'[t], found'[t]) = None
      BY <2>1, CallCases
    <3> QED BY <3>1, <3>2, OwnCall, Zenon
  <2>3. AbstractCall[t] # None
    BY <2>2, CallsAreNotNone
  <2>4. Table!Return(t)
    BY <1>4, <2>2, <2>3 DEF Inserted, Table!Return
  <2> QED BY <2>4 DEF Table!TableNext
<1>5. CASE Schema(t)
  BY <1>1, <1>2, <1>5 DEF Schema
<1>6. CASE Reserve(t)
  BY <1>1, <1>2, <1>6 DEF Reserve
<1>7. CASE Exclude(t)
  BY <1>1, <1>2, <1>7 DEF Exclude
<1>8. CASE InsertFails(t)
  BY <1>1, <1>8 DEF InsertFails
<1> QED BY <1>3, <1>4, <1>5, <1>6, <1>7, <1>8

\* db_bad_actor_exists.
LEMMA ExistsTable ==
    ASSUME IInv, NEW t \in Threads, Frame(t),
           ExistsStep(t) \/ ExistsReturns(t) \/ ListenerInserts(t) \/ ExistsFails(t)
    PROVE  Table!TableNext
<1>1. CASE (ExistsStep(t) \/ ExistsFails(t)) /\ ToldAbsent(t)
  <2>1. at[t] \in {"exists", "existing"} /\ at'[t] = "absent"
    BY <1>1, GoKeeps, Places DEF ExistsStep, ExistsFails, ToldAbsent, IInv, EventPlaces
  <2> QED BY <1>1, <2>1, FailTable DEF ToldAbsent
<1>2. CASE ExistsStep(t) /\ ~ ToldAbsent(t)
  <2>1. /\ at[t] = "exists" /\ Go(t, "existing")
        /\ found' = [found EXCEPT ![t] = IsStored(arg[t])]
        /\ UNCHANGED <<rows, answer>>
    BY <1>2 DEF ExistsStep
  <2>2. at'[t] = "existing" /\ arg[t] \in Events
    BY <2>1, GoKeeps, Places DEF IInv, ThreadInv, ArgFits, EventPlaces
  <2> DEFINE stored == \E i \in 1 .. Len(rows) : rows[i] = arg[t]
  <2>3. found'[t] = stored
    <3>1. found'[t] = IsStored(arg[t])
      BY <2>1 DEF IInv, TypeOK
    <3>2. IsStored(arg[t]) <=> stored
      BY DEF IsStored, Stored
    <3>3. IsStored(arg[t]) \in BOOLEAN /\ stored \in BOOLEAN
      BY DEF IsStored
    <3> HIDE DEF stored
    <3> QED BY <3>1, <3>2, <3>3
  <2> HIDE DEF stored
  <2>4. /\ AbstractCall[t] = [op |-> "exists", event |-> arg[t]]
        /\ AbstractCall' = [AbstractCall EXCEPT ![t] = [op |-> "return", value |-> stored]]
    BY <2>1, <2>2, <2>3, OwnCall, CallCases
  <2>5. AbstractCall[t] # None
    BY <2>2, <2>4, CallsAreNotNone
  <2>6. AbstractCall[t].op = "exists" /\ AbstractCall[t].event = arg[t]
    BY <2>4
  <2>7. Table!Look(t)
    BY <2>1, <2>4, <2>5, <2>6 DEF Table!Look, stored
  <2> QED BY <2>7 DEF Table!TableNext
<1>3. CASE ExistsReturns(t)
  <2>1. at[t] = "existing" /\ at'[t] \in {"idle", "absent"} /\ found[t] \in BOOLEAN
    BY <1>3, GoKeeps, Places DEF ExistsReturns, IInv, TypeOK, EventPlaces
  <2>2. /\ AbstractCall[t] = [op |-> "return", value |-> found[t]]
        /\ AbstractCall' = [AbstractCall EXCEPT ![t] = None]
    BY <2>1, OwnCall, CallCases
  <2>3. AbstractCall[t] # None
    BY <2>1, <2>2, CallsAreNotNone
  <2>4. AbstractCall[t].op = "return" /\ AbstractCall[t].value = found[t]
    BY <2>2
  <2>5. Table!Return(t)
    BY <1>3, <2>2, <2>3, <2>4 DEF ExistsReturns, Table!Return
  <2> QED BY <2>5 DEF Table!TableNext
<1>4. CASE ListenerInserts(t)
  <2>1. /\ at[t] = "absent" /\ at'[t] = "insert" /\ arg[t] \in Events /\ arg'[t] = arg[t]
        /\ UNCHANGED <<rows, answer>>
    BY <1>4, GoKeeps, Places DEF ListenerInserts, IInv, ThreadInv, ArgFits, EventPlaces
  <2> QED BY <2>1, CallTable
<1>5. ExistsFails(t) => ToldAbsent(t)
  BY DEF ExistsFails
<1> QED BY <1>1, <1>2, <1>3, <1>4, <1>5

\* The lists and lookups of the HTTP API are none of the table's calls.
LEMMA QueryTable ==
    ASSUME IInv, NEW t \in Threads, Frame(t),
           NEW place \in {"idle"} \cup LookupPlaces \cup ListPlaces, Go(t, place),
           at[t] \in {"idle"} \cup LookupPlaces \cup ListPlaces,
           UNCHANGED <<rows, answer>>
    PROVE  UNCHANGED Table!tableVars
<1>1. at'[t] = place
  BY GoKeeps, Places DEF IInv
<1>2. CallOf(at'[t], arg'[t], found'[t]) = CallOf(at[t], arg[t], found[t])
  BY <1>1, CallCases
<1> QED BY <1>2, StutterTable

LEMMA StepTable ==
    ASSUME IInv, NEW t \in Threads, Step(t)
    PROVE  Table!TableNext \/ UNCHANGED Table!tableVars
<1>1. Frame(t)
  BY StepKeeps DEF Kept
<1>2. ASSUME NEW e \in OwnEvents, SipInsert(t, e) PROVE Table!TableNext
  <2>1. /\ at[t] = "idle" /\ at'[t] = "insert" /\ arg'[t] = e /\ e \in Events
        /\ UNCHANGED <<rows, answer>>
    BY <1>2, GoKeeps, Places DEF SipInsert, IInv, TypeOK, EventPlaces, Events
  <2> QED BY <1>1, <2>1, CallTable
<1>3. ASSUME NEW e \in ForeignEvents, ListenerAsks(t, e) PROVE Table!TableNext
  <2>1. /\ at[t] = "idle" /\ at'[t] = "exists" /\ arg'[t] = e /\ e \in Events
        /\ UNCHANGED <<rows, answer>>
    BY <1>3, GoKeeps, Places DEF ListenerAsks, IInv, TypeOK, EventPlaces, Events
  <2> QED BY <1>1, <2>1, CallTable
<1>4. CASE \/ Schema(t) \/ Reserve(t) \/ Exclude(t) \/ Commit(t) \/ Inserted(t)
           \/ InsertFails(t)
  BY <1>1, <1>4, InsertTable
<1>5. CASE ExistsStep(t) \/ ExistsReturns(t) \/ ListenerInserts(t) \/ ExistsFails(t)
  BY <1>1, <1>5, ExistsTable
<1>6. ASSUME NEW col \in Columns,
             HttpLists(t, col) \/ \E text \in Texts : HttpLooksUp(t, col, text)
      PROVE  UNCHANGED Table!tableVars
  BY <1>1, <1>6, QueryTable DEF HttpLists, HttpLooksUp, LookupPlaces, ListPlaces
<1>7. CASE LookupStep(t) \/ LookupReturns(t)
  BY <1>1, <1>7, QueryTable
  DEF LookupStep, LookupReturns, QueryFailed, LookupPlaces, ListPlaces
<1>8. CASE \/ CountStep(t) \/ CountReturns(t) \/ SelectStep(t)
           \/ SelectReturns(t) \/ ListServed(t)
  BY <1>1, <1>8, QueryTable
  DEF CountStep, CountReturns, SelectStep, SelectReturns, ListServed, QueryFailed,
      LookupPlaces, ListPlaces
<1>9. CASE QueryFails(t)
  BY <1>1, <1>9, QueryTable DEF QueryFails, QueryFailed, LookupPlaces, ListPlaces
<1> QED BY <1>2, <1>3, <1>4, <1>5, <1>6, <1>7, <1>8, <1>9 DEF Step

\* With any number of threads, and whether a lock or anything else makes a call
\* fail, before or after its effect, the inserts and lookups of database.c are
\* the atomic ones of HoneyTable.
THEOREM TableImplemented == Spec => ImplementsTable
<1>1. Init => Table!TableInit
  BY InitTable
<1>2. IInv /\ [Next]_vars => [Table!TableNext]_(Table!tableVars)
  <2> SUFFICES ASSUME IInv, [Next]_vars
               PROVE  Table!TableNext \/ UNCHANGED Table!tableVars
    OBVIOUS
  <2>1. ASSUME NEW t \in Threads, Step(t)
        PROVE  Table!TableNext \/ UNCHANGED Table!tableVars
    BY <2>1, StepTable
  <2>2. CASE UNCHANGED vars
    BY <2>2 DEF vars, Table!tableVars, AbstractCall
  <2> QED BY <2>1, <2>2 DEF Next, Step
<1> QED BY <1>1, <1>2, Inductive, PTL DEF Spec, ImplementsTable, Table!TableSpec
=============================================================================
