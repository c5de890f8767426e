----------------------------- MODULE HoneyTable -----------------------------
(***************************************************************************)
(* What the rest of SentryPeer relies on when it calls database.c: table   *)
(* honey grows by one whole row per successful insert and by one or none   *)
(* per failed one, and db_bad_actor_exists says "true" only of events that *)
(* are stored.  Either call may fail at any time, before it has taken      *)
(* effect or after; a failed lookup is answered "false".  Replication,     *)
(* with its "log", "close" and "exists" faults, makes the same promises.   *)
(***************************************************************************)
EXTENDS Naturals, Sequences

CONSTANTS
    Threads,  \* callers
    Events,   \* event_uuids
    None      \* no call in progress

VARIABLES
    rows,     \* the event_uuid column, in insertion order
    call,     \* call[t]: the call thread t is in, or None
    answer    \* answer[t]: what the last call of t returned; TRUE is
              \* EXIT_SUCCESS for an insert

\* A call that has still to take effect, or only to return.
Calls == [op: {"insert", "exists"}, event: Events] \cup [op: {"return"}, value: BOOLEAN]

tableVars == <<rows, call, answer>>

TableInit ==
    /\ rows = <<>>
    /\ call = [t \in Threads |-> None]
    /\ answer = [t \in Threads |-> FALSE]

Call(t, op, e) ==
    /\ call[t] = None
    /\ call' = [call EXCEPT ![t] = [op |-> op, event |-> e]]
    /\ UNCHANGED <<rows, answer>>

\* The row is there, but the caller does not know yet.
Insert(t) ==
    /\ call[t] # None
    /\ call[t].op = "insert"
    /\ rows' = Append(rows, call[t].event)
    /\ call' = [call EXCEPT ![t] = [op |-> "return", value |-> TRUE]]
    /\ UNCHANGED answer

\* SELECT EXISTS sees the table as it is now.
Look(t) ==
    /\ call[t] # None
    /\ call[t].op = "exists"
    /\ LET stored == \E i \in 1 .. Len(rows) : rows[i] = call[t].event
       IN call' = [call EXCEPT ![t] = [op |-> "return", value |-> stored]]
    /\ UNCHANGED <<rows, answer>>

Return(t) ==
    /\ call[t] # None
    /\ call[t].op = "return"
    /\ answer' = [answer EXCEPT ![t] = call[t].value]
    /\ call' = [call EXCEPT ![t] = None]
    /\ UNCHANGED rows

\* EXIT_FAILURE, or "false": the caller does not learn whether its row is there.
Fail(t) ==
    /\ call[t] # None
    /\ answer' = [answer EXCEPT ![t] = FALSE]
    /\ call' = [call EXCEPT ![t] = None]
    /\ UNCHANGED rows

TableNext ==
    \E t \in Threads :
        \/ \E e \in Events, op \in {"insert", "exists"} : Call(t, op, e)
        \/ Insert(t)
        \/ Look(t)
        \/ Return(t)
        \/ Fail(t)

TableSpec == TableInit /\ [][TableNext]_tableVars
=============================================================================
