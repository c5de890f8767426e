------------------------------ MODULE Database ------------------------------
(***************************************************************************)
(* database.c over one SQLite file.  Every call opens its own connection;  *)
(* nobody sets a busy handler or a timeout, and the file is in the default *)
(* rollback-journal mode, so a statement that meets another connection's   *)
(* lock returns SQLITE_BUSY at once and the call fails.                    *)
(*                                                                         *)
(*   SIP workers         db_insert_bad_actor of an event of their own      *)
(*   DHT listener        db_bad_actor_exists, then perhaps the insert      *)
(*   HTTP threads        the lists and the lookups                         *)
(*                                                                         *)
(* Any call of SQLite may also fail for another reason (a full disk, no    *)
(* memory), before its statement has taken effect or, in sqlite3_finalize  *)
(* and sqlite3_close, after it.                                            *)
(*                                                                         *)
(* SQLite is external: its locks are modelled as its documentation states  *)
(* them, PENDING counted as EXCLUSIVE.                                     *)
(***************************************************************************)
EXTENDS Naturals, Sequences, FiniteSets, SequencesExt

CONSTANTS
    Sip,            \* SIP workers
    Listeners,      \* the DHT listener, as a set
    Http,           \* threads of libmicrohttpd
    OwnEvents,      \* event_uuids generated by this node
    ForeignEvents,  \* event_uuids that arrive over the DHT
    Texts,          \* what can stand in a column, or be asked for
    Column,         \* Column[col][e]: the text in column col of event e
    Unlisted,       \* a called_number the WHERE clause of the two phone
                    \* number queries does not select
    Timestamp,      \* Timestamp[e]: its event_timestamp
    MaxRows,        \* bound: rows in the table
    SqliteFails,    \* whether calls fail for other reasons than a lock
    None

Threads == Sip \cup Listeners \cup Http
Events == OwnEvents \cup ForeignEvents
Columns == {"source_ip", "called_number"}

ASSUME ConstantsAssumption ==
    /\ Sip \cap Listeners = {}
    /\ Http \cap (Sip \cup Listeners) = {}
    /\ OwnEvents \cap ForeignEvents = {}
    /\ Column \in [Columns -> [Events -> Texts]]
    /\ \A e \in Events : Column["source_ip"][e] # Unlisted
    /\ Timestamp \in [Events -> Nat]
    /\ MaxRows \in Nat
    /\ SqliteFails \in BOOLEAN
    /\ None \notin Events \cup Texts

\* Where a call can stand, and the lock its connection holds there.
LockAt ==
    [idle |-> "none",
     insert |-> "none",       \* db_insert_bad_actor entered
     prepared |-> "none",     \* schema is there, INSERT prepared and bound
     reserved |-> "reserved", \* sqlite3_step has changed pages in its cache
     writing |-> "exclusive", \* ... and is writing them to the file
     inserted |-> "none",     \* committed: finalize, close, EXIT_SUCCESS
     exists |-> "none",       \* db_bad_actor_exists entered
     existing |-> "shared",   \* SELECT EXISTS has returned its row
     absent |-> "none",       \* the listener was told "false"
     lookup |-> "none",       \* db_select_bad_actor_by_ip / _phone_number
     looking |-> "shared",
     count |-> "none",        \* db_select_bad_actors / _called_numbers
     counting |-> "shared",   \* COUNT(DISTINCT ...) has returned its row
     select |-> "none",
     selecting |-> "shared",  \* the SELECT ... GROUP BY has a first row
     listed |-> "none"]       \* list handed to the route

VARIABLES
    created,  \* CREATE TABLE has been committed
    rows,     \* table honey: the event_uuid column, in insertion order
    at,       \* at[t] \in DOMAIN LockAt
    lock,     \* lock[t]: what the connection of t holds on the file
    arg,      \* arg[t]: the event the call is about, or the column of a list or
              \* lookup with the text of a lookup
    count,    \* count[t]: *row_count
    found,    \* found[t]: what SELECT EXISTS returned
    list,     \* list[t]: the array of texts a list query returns
    answer,   \* answer[t]: what the last insert or exists returned
    before    \* history: before[t], the texts a list could show when the
              \* request of t came in

vars == <<created, rows, at, lock, arg, count, found, list, answer, before>>

TypeOK ==
    /\ created \in BOOLEAN
    /\ rows \in Seq(Events)
    /\ Len(rows) <= MaxRows
    /\ at \in [Threads -> DOMAIN LockAt]
    /\ lock = [t \in Threads |-> LockAt[at[t]]]
    /\ arg \in [Threads -> Events \cup (Columns \X (Texts \cup {None})) \cup {None}]
    /\ count \in [Threads -> 0 .. MaxRows]
    /\ found \in [Threads -> BOOLEAN]
    /\ list \in [Threads -> Seq(Texts)]
    /\ answer \in [Threads -> BOOLEAN]
    /\ before \in [Threads -> SUBSET Texts]

Init ==
    /\ created = FALSE
    /\ rows = <<>>
    /\ at = [t \in Threads |-> "idle"]
    /\ lock = [t \in Threads |-> "none"]
    /\ arg = [t \in Threads |-> None]
    /\ count = [t \in Threads |-> 0]
    /\ found = [t \in Threads |-> FALSE]
    /\ list = [t \in Threads |-> <<>>]
    /\ answer = [t \in Threads |-> FALSE]
    /\ before = [t \in Threads |-> {}]

-----------------------------------------------------------------------------
(* SQLite's file locks.                                                    *)

Others(t) == Threads \ {t}

CanShare(t) == \A u \in Others(t) : lock[u] # "exclusive"

CanReserve(t) == CanShare(t) /\ \A u \in Others(t) : lock[u] # "reserved"

CanExclude(t) == \A u \in Others(t) : lock[u] = "none"

\* Bug variant: the statement is not finalized, its connection stays open.
GoKeepingLock(t, place) ==
    /\ at' = [at EXCEPT ![t] = place]
    /\ lock' = IF LockAt[place] = "none" THEN lock
               ELSE [lock EXCEPT ![t] = LockAt[place]]

\* A call moves on; its connection takes or drops the lock of the new place.
Go(t, place) ==
    /\ at' = [at EXCEPT ![t] = place]
    /\ lock' = [lock EXCEPT ![t] = LockAt[place]]

-----------------------------------------------------------------------------
(* db_insert_bad_actor.                                                    *)

Stored == {rows[i] : i \in 1 .. Len(rows)}

\* bad_actor_log of a new event; its event_uuid is fresh.
SipInsert(t, e) ==
    /\ t \in Sip
    /\ at[t] = "idle"
    /\ e \in OwnEvents \ Stored
    /\ \A u \in Others(t) : arg[u] # e
    /\ Go(t, "insert")
    /\ arg' = [arg EXCEPT ![t] = e]
    /\ UNCHANGED <<created, rows, count, found, list, answer, before>>

\* The call returns EXIT_FAILURE, or "false": sqlite3_finalize (where it is
\* called) rolls back what was not committed.
Failed(t) ==
    /\ Go(t, "idle")
    /\ arg' = [arg EXCEPT ![t] = None]
    /\ answer' = [answer EXCEPT ![t] = FALSE]
    /\ UNCHANGED <<created, rows, count, found, list, before>>

\* PRAGMA user_version, CREATE TABLE and the three CREATE INDEX: read the
\* schema, and write it if the table is not there yet.
Schema(t) ==
    /\ at[t] = "insert"
    /\ \/ /\ IF created THEN CanShare(t) ELSE CanExclude(t)
          /\ created' = TRUE
          /\ Go(t, "prepared")
          /\ UNCHANGED <<rows, arg, count, found, list, answer, before>>
       \/ ~ (IF created THEN CanShare(t) ELSE CanExclude(t)) /\ Failed(t)

\* sqlite3_step(insert_bad_actor_stmt): SHARED, then RESERVED.
Reserve(t) ==
    /\ at[t] = "prepared"
    /\ Len(rows) + Cardinality({u \in Threads : lock[u] = "reserved"}) < MaxRows
    /\ \/ /\ CanReserve(t)
          /\ Go(t, "reserved")
          /\ UNCHANGED <<created, rows, arg, count, found, list, answer, before>>
       \/ ~ CanReserve(t) /\ Failed(t)

\* ... then EXCLUSIVE, for the autocommit.
Exclude(t) ==
    /\ at[t] = "reserved"
    /\ \/ /\ CanExclude(t)
          /\ Go(t, "writing")
          /\ UNCHANGED <<created, rows, arg, count, found, list, answer, before>>
       \/ ~ CanExclude(t) /\ Failed(t)

\* The commit point.
Commit(t) ==
    /\ at[t] = "writing"
    /\ rows' = Append(rows, arg[t])
    /\ Go(t, "inserted")
    /\ UNCHANGED <<created, arg, count, found, list, answer, before>>

\* finalize and close succeed as well (else InsertFails): EXIT_SUCCESS.
Inserted(t) ==
    /\ at[t] = "inserted"
    /\ Go(t, "idle")
    /\ arg' = [arg EXCEPT ![t] = None]
    /\ answer' = [answer EXCEPT ![t] = TRUE]
    /\ UNCHANGED <<created, rows, count, found, list, before>>

\* EXIT_FAILURE without a lock: with the row not stored, or, when finalize or
\* close fails after the commit, with the row stored.
InsertFails(t) ==
    /\ SqliteFails
    /\ at[t] \in {"insert", "prepared", "reserved", "writing", "inserted"}
    /\ Failed(t)

-----------------------------------------------------------------------------
(* db_bad_actor_exists, as dht_value_callback uses it.                     *)

ListenerAsks(t, e) ==
    /\ t \in Listeners
    /\ at[t] = "idle"
    /\ Go(t, "exists")
    /\ arg' = [arg EXCEPT ![t] = e]
    /\ UNCHANGED <<created, rows, count, found, list, answer, before>>

\* Bug variant: SELECT EXISTS always has a row, its value is not looked at.
IsStoredAnyRow(e) == TRUE

\* SELECT EXISTS(SELECT 1 FROM honey WHERE event_uuid = ?).
IsStored(e) == e \in Stored

\* The lookup goes wrong: "false", and the listener takes the event for new.
ToldAbsent(t) ==
    /\ Go(t, "absent")
    /\ answer' = [answer EXCEPT ![t] = FALSE]
    /\ UNCHANGED <<created, rows, arg, count, found, list, before>>

\* prepare (fails without a table), bind, step.
ExistsStep(t) ==
    /\ at[t] = "exists"
    /\ \/ /\ created /\ CanShare(t)
          /\ found' = [found EXCEPT ![t] = IsStored(arg[t])]
          /\ Go(t, "existing")
          /\ UNCHANGED <<created, rows, arg, count, list, answer, before>>
       \/ ~ (created /\ CanShare(t)) /\ ToldAbsent(t)

\* finalize and close succeed (else ExistsFails); return found.
ExistsReturns(t) ==
    /\ at[t] = "existing"
    /\ answer' = [answer EXCEPT ![t] = found[t]]
    /\ IF found[t]
       THEN Go(t, "idle") /\ arg' = [arg EXCEPT ![t] = None]
       ELSE Go(t, "absent") /\ UNCHANGED arg
    /\ UNCHANGED <<created, rows, count, found, list, before>>

\* A call fails without a lock: "false", even after a step that found the event.
ExistsFails(t) ==
    /\ SqliteFails
    /\ at[t] \in {"exists", "existing"}
    /\ ToldAbsent(t)

\* json_to_bad_actor and bad_actor_log of the event that seemed to be new.
ListenerInserts(t) ==
    /\ at[t] = "absent"
    /\ Go(t, "insert")
    /\ UNCHANGED <<created, rows, arg, count, found, list, answer, before>>

-----------------------------------------------------------------------------
(* The lookups and lists of the HTTP API.                                  *)

\* The texts of a column over which the two statements of a list aggregate.
Group(col) == {Column[col][e] : e \in Stored} \ {Unlisted}

\* Bug variant: COUNT without DISTINCT.
CountRows(col) == Len(SelectSeq(rows, LAMBDA e : Column[col][e] # Unlisted))

\* Bug variant: both lists run the count query of the called numbers.
CountOtherColumn(col) == Cardinality(Group("called_number"))

\* COUNT(DISTINCT col).
CountDistinct(col) == Cardinality(Group(col))

\* max(event_timestamp) of one group.
SeenLast(col, text) ==
    CHOOSE m \in {Timestamp[e] : e \in Stored} :
        /\ \E e \in Stored : Column[col][e] = text /\ Timestamp[e] = m
        /\ \A e \in Stored : Column[col][e] = text => Timestamp[e] <= m

\* GROUP BY col ORDER BY event_timestamp DESC; groups that tie in any order.
NewestFirst(col) ==
    {s \in SetToSeqs(Group(col)) :
        \A i, j \in 1 .. Len(s) :
            i < j => SeenLast(col, s[i]) >= SeenLast(col, s[j])}

\* db_select_bad_actors, db_select_called_numbers.
HttpLists(t, col) ==
    /\ t \in Http
    /\ at[t] = "idle"
    /\ Go(t, "count")
    /\ arg' = [arg EXCEPT ![t] = <<col, None>>]
    /\ before' = [before EXCEPT ![t] = Group(col)]
    /\ UNCHANGED <<created, rows, count, found, list, answer>>

\* db_select_bad_actor_by_ip, db_select_phone_number.
HttpLooksUp(t, col, text) ==
    /\ t \in Http
    /\ at[t] = "idle"
    /\ Go(t, "lookup")
    /\ arg' = [arg EXCEPT ![t] = <<col, text>>]
    /\ UNCHANGED <<created, rows, count, found, list, answer, before>>

\* EXIT_FAILURE; the route replies 404.
QueryFailed(t) ==
    /\ Go(t, "idle")
    /\ arg' = [arg EXCEPT ![t] = None]
    /\ count' = [count EXCEPT ![t] = 0]
    /\ list' = [list EXCEPT ![t] = <<>>]
    /\ before' = [before EXCEPT ![t] = {}]
    /\ UNCHANGED <<created, rows, found, answer>>

\* SELECT DISTINCT(col) ... WHERE col = ?; no row and an error are both
\* EXIT_FAILURE.
LookupStep(t) ==
    /\ at[t] = "lookup"
    /\ LET row == \E e \in Stored : Column[arg[t][1]][e] = arg[t][2]
       IN \/ /\ created /\ CanShare(t) /\ row
             /\ Go(t, "looking")
             /\ UNCHANGED <<created, rows, arg, count, found, list, answer, before>>
          \/ ~ (created /\ CanShare(t) /\ row) /\ QueryFailed(t)

\* The text is copied; finalize and close.
LookupReturns(t) ==
    /\ at[t] = "looking"
    /\ Go(t, "idle")
    /\ arg' = [arg EXCEPT ![t] = None]
    /\ UNCHANGED <<created, rows, count, found, list, answer, before>>

\* The first statement of a list; an error leaves it unfinalized, but without
\* a lock.
CountStep(t) ==
    /\ at[t] = "count"
    /\ \/ /\ created /\ CanShare(t)
          /\ count' = [count EXCEPT ![t] = CountDistinct(arg[t][1])]
          /\ Go(t, "counting")
          /\ UNCHANGED <<created, rows, arg, found, list, answer, before>>
       \/ ~ (created /\ CanShare(t)) /\ QueryFailed(t)

\* finalize: the lock is dropped although the list is not read yet.
CountReturns(t) ==
    /\ at[t] = "counting"
    /\ Go(t, "select")
    /\ UNCHANGED <<created, rows, arg, count, found, list, answer, before>>

\* The second statement sorts all groups on its first step; the loop steps it
\* row_count times.  With a row_count of 0 it is never stepped.
SelectStep(t) ==
    /\ at[t] = "select"
    /\ \/ /\ count[t] = 0
          /\ list' = [list EXCEPT ![t] = <<>>]
          /\ Go(t, "listed")
          /\ UNCHANGED <<created, rows, arg, count, found, answer, before>>
       \/ /\ count[t] > 0 /\ CanShare(t)
          /\ \E s \in NewestFirst(arg[t][1]) : list' = [list EXCEPT ![t] = s]
          /\ Go(t, "selecting")
          /\ UNCHANGED <<created, rows, arg, count, found, answer, before>>
       \/ count[t] > 0 /\ ~ CanShare(t) /\ QueryFailed(t)

\* row_count rows are copied; SQLITE_DONE before that is an error.  finalize
\* and close.
SelectReturns(t) ==
    /\ at[t] = "selecting"
    /\ \/ /\ count[t] <= Len(list[t])
          /\ list' = [list EXCEPT ![t] = SubSeq(@, 1, count[t])]
          /\ Go(t, "listed")
          /\ UNCHANGED <<created, rows, arg, count, found, answer, before>>
       \/ count[t] > Len(list[t]) /\ QueryFailed(t)

\* The route has built its JSON and freed the list.
ListServed(t) ==
    /\ at[t] = "listed"
    /\ Go(t, "idle")
    /\ arg' = [arg EXCEPT ![t] = None]
    /\ list' = [list EXCEPT ![t] = <<>>]
    /\ count' = [count EXCEPT ![t] = 0]
    /\ before' = [before EXCEPT ![t] = {}]
    /\ UNCHANGED <<created, rows, found, answer>>

\* A call of SQLite fails without a lock, or memory for the JSON runs out: 404.
QueryFails(t) ==
    /\ SqliteFails
    /\ at[t] \in {"lookup", "looking", "count", "counting", "select", "selecting", "listed"}
    /\ QueryFailed(t)

-----------------------------------------------------------------------------
Next ==
    \E t \in Threads :
        \/ \E e \in OwnEvents : SipInsert(t, e)
        \/ \E e \in ForeignEvents : ListenerAsks(t, e)
        \/ Schema(t) \/ Reserve(t) \/ Exclude(t) \/ Commit(t) \/ Inserted(t)
        \/ ExistsStep(t) \/ ExistsReturns(t) \/ ListenerInserts(t)
        \/ InsertFails(t) \/ ExistsFails(t) \/ QueryFails(t)
        \/ \E col \in Columns :
               HttpLists(t, col) \/ \E text \in Texts : HttpLooksUp(t, col, text)
        \/ LookupStep(t) \/ LookupReturns(t)
        \/ CountStep(t) \/ CountReturns(t) \/ SelectStep(t)
        \/ SelectReturns(t) \/ ListServed(t)

Spec == Init /\ [][Next]_vars

-----------------------------------------------------------------------------
(* Safety.                                                                 *)

\* "Nothing in there yet" (db_select_bad_actors, db_select_called_numbers):
\* the loop never runs out of rows after it has copied some that free() would
\* leak.  The number of rows to copy was read by an earlier statement under a
\* lock that has been dropped since, but a table that only grows can no longer
\* have fewer groups than were counted.
NothingInThereYet ==
    \A t \in Threads : at[t] = "selecting" => count[t] <= Len(list[t])

\* A reply has exactly row_count entries, no text twice, every one of them
\* stored, and at least as many as were stored when the request came in,
\* whatever was inserted between its two statements.  They need not be the
\* same ones: a row inserted in between can push the oldest entry out.
ListLongEnough ==
    \A t \in Threads : at[t] = "listed" =>
        /\ Len(list[t]) = count[t]
        /\ IsInjective(list[t])
        /\ \A i \in 1 .. Len(list[t]) : list[t][i] \in Group(arg[t][1])
        /\ Len(list[t]) >= Cardinality(before[t])

\* The call of HoneyTable that thread t is in.
AbstractCall ==
    [t \in Threads |->
        CASE at[t] \in {"insert", "prepared", "reserved", "writing"} ->
                 [op |-> "insert", event |-> arg[t]]
          [] at[t] = "inserted" -> [op |-> "return", value |-> TRUE]
          [] at[t] = "exists" -> [op |-> "exists", event |-> arg[t]]
          [] at[t] = "existing" -> [op |-> "return", value |-> found[t]]
          [] OTHER -> None]

Table == INSTANCE HoneyTable WITH call <- AbstractCall

ASSUME NoneAssumption == None \notin Table!Calls

\* With every interleaving of the connections' locks and whichever call of SQLite
\* fails, inserts and lookups are what Replication takes them for: EXIT_SUCCESS
\* means that the insert appended its row, one row and a whole one; EXIT_FAILURE
\* means that it appended that row or left the table alone; and a stored event
\* is the only one db_bad_actor_exists says "true" of.
ImplementsTable == Table!TableSpec

-----------------------------------------------------------------------------
(* What the repository says and the calls do not do.                       *)

\* "bad_actor event_uuid already exists, not saving" (dht_value_callback): an
\* event that is stored is not stored again.
NoDuplicateRows == IsInjective(rows)
=============================================================================
