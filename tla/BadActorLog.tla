----------------------------- MODULE BadActorLog ----------------------------
(***************************************************************************)
(* bad_actor_log (bad_actor.c): an event is appended to the JSON log,      *)
(* inserted into the database and posted to the WebHook, in this order.    *)
(* SIP threads or tasks and the DHT listener run it at the same time, each *)
(* with an event of its own; the log file and the table are shared.        *)
(*                                                                         *)
(* There are three builds of it: the C one, the Rust one with new_mode on, *)
(* and the Rust one with new_mode off, where the preprocessor has left     *)
(* neither the log nor the WebHook.  What json_http_post_bad_actor does is *)
(* the subject of WebHook, what db_insert_bad_actor does that of Database. *)
(***************************************************************************)
EXTENDS Naturals, Sequences, FiniteSets

CONSTANTS
    Messages,  \* events made of SIP messages this node receives
    Foreign,   \* events the DHT listener takes from the DHT
    Long,      \* events whose line does not fit the writer's buffer
    Variants,  \* the builds to start with: a subset of AllVariants
    Modes,     \* the mode flags to start with: a subset of AllModes
    Faults     \* which calls may fail: a subset of FaultKinds

AllVariants == {"c", "rust", "rust_new_mode_off"}
AllModes == [json_log_mode: BOOLEAN, webhook_mode: BOOLEAN,
             sip_responsive_mode: BOOLEAN]

\* "open": the log file cannot be opened;  "write": a write(2) to it fails;
\* "insert": db_insert_bad_actor fails;  "post": the POST fails or aborts;
\* "accept", "peer", "put", "reply", "loop": see SipServer.
FaultKinds == {"open", "write", "insert", "post", "accept", "peer", "put", "reply", "loop"}

Events == Messages \cup Foreign

ASSUME LogAssumption ==
    /\ Messages \cap Foreign = {}
    /\ Long \subseteq Events
    /\ Variants \subseteq AllVariants
    /\ Modes \subseteq AllModes
    /\ Faults \subseteq FaultKinds

VARIABLES
    variant,  \* which build this is
    mode,     \* the mode flags of config
    stage,    \* stage[e]: where the call for e stands; "out" before and after
    outcome,  \* outcome[e]: what bad_actor_log returned, or "none"
    logfile,  \* the JSON log: the blocks in the order they were appended
    unseen,   \* history: events of which a failed write went unnoticed
    crossed,  \* history: events whose line another one's blocks have come into
    rows,     \* the events in table honey
    posted,   \* the events the WebHook has accepted
    up        \* the process has not aborted

logVars == <<variant, mode, stage, outcome, logfile, unseen, crossed, rows, posted, up>>

\* Block n of the line of an event; 0 is what a failed write has left of one.
Blocks == Events \X {0, 1, 2}

Stages == {"out", "json", "json_rest", "insert", "webhook"}

LogTypeOK ==
    /\ variant \in Variants
    /\ mode \in Modes
    /\ stage \in [Events -> Stages]
    /\ outcome \in [Events -> {"none", "success", "failure"}]
    /\ logfile \in Seq(Blocks)
    /\ unseen \subseteq Events
    /\ crossed \subseteq Events
    /\ rows \subseteq Events
    /\ posted \subseteq Events
    /\ up \in BOOLEAN

LogInit ==
    /\ variant \in Variants
    /\ mode \in Modes
    /\ stage = [e \in Events |-> "out"]
    /\ outcome = [e \in Events |-> "none"]
    /\ logfile = <<>>
    /\ unseen = {}
    /\ crossed = {}
    /\ rows = {}
    /\ posted = {}
    /\ up = TRUE

-----------------------------------------------------------------------------
\* config->new_mode, in a build that has Rust.
NewMode == variant = "rust"

\* The #if blocks: is there a JSON log or a WebHook in what was compiled?
Recorded == variant # "rust_new_mode_off"

LogsJson == Recorded /\ mode.json_log_mode
Posts == Recorded /\ mode.webhook_mode

\* The write(2) calls that put the line of e into the file.  stdio hands a line
\* over in blocks, BufWriter in one go: when it is dropped if the line fits its
\* buffer, past the buffer if not.
Writes(e) == IF ~ NewMode /\ e \in Long THEN {1, 2} ELSE {1}

\* Does bad_actor_log learn that this write failed?  fclose() reports the last
\* one; BufWriter reports what it passes on at once, and is dropped otherwise.
Reported(e, n) == IF NewMode THEN e \in Long ELSE n = 2 \/ Writes(e) = {1}

\* The call returns.
LogReturns(e, result) ==
    /\ stage' = [stage EXCEPT ![e] = "out"]
    /\ outcome' = [outcome EXCEPT ![e] = result]

\* The call goes on to its next part.
LogGoes(e, next) ==
    /\ stage' = [stage EXCEPT ![e] = next]
    /\ UNCHANGED outcome

\* bad_actor_log is called.
LogStarts(e) ==
    /\ up
    /\ outcome[e] = "none"
    /\ stage[e] = "out"
    /\ LogGoes(e, IF LogsJson THEN "json" ELSE "insert")
    /\ UNCHANGED <<variant, mode, logfile, unseen, crossed, rows, posted, up>>

\* fopen or OpenOptions::open fails: return EXIT_FAILURE.
LogOpenFails(e) ==
    /\ up
    /\ "open" \in Faults
    /\ stage[e] = "json"
    /\ LogReturns(e, "failure")
    /\ UNCHANGED <<variant, mode, logfile, unseen, crossed, rows, posted, up>>

\* Block i of the file is the last one of its line: it has the newline.
EndsLine(i) ==
    LET e == logfile[i][1]
        n == logfile[i][2] IN
    n # 0 /\ n + 1 \notin Writes(e)

\* What is appended next begins a line.
AtLineStart == logfile = <<>> \/ EndsLine(Len(logfile))

\* The events whose line is spoiled when the call for e appends block n: those
\* that are in the middle of theirs, and e if the file ends in half a line.
Spoils(e, n) ==
    {d \in Events \ {e} : stage[d] = "json_rest"}
        \cup {d \in {e} : n = 1 /\ ~ AtLineStart}

\* O_APPEND: a block goes to the end of the file as one piece.
AppendBlock(e, n, written) ==
    /\ logfile' = Append(logfile, <<e, written>>)
    /\ crossed' = crossed \cup Spoils(e, n)

\* Bug variant: the result of closing the log file is not looked at.
AfterFailedWriteIgnored(e, n) ==
    /\ LogGoes(e, "insert")
    /\ UNCHANGED unseen

\* A write has failed.  If that is reported, return EXIT_FAILURE.
AfterFailedWrite(e, n) ==
    IF Reported(e, n)
    THEN LogReturns(e, "failure") /\ UNCHANGED unseen
    ELSE /\ LogGoes(e, IF n \in {1} /\ Writes(e) = {1, 2} THEN "json_rest" ELSE "insert")
         /\ unseen' = unseen \cup {e}

\* json_log_bad_actor, json_log_bad_actor_rs: one write(2) of a line.
LogWrite(e) ==
    /\ up
    /\ stage[e] \in {"json", "json_rest"}
    /\ LET n == IF stage[e] = "json" THEN 1 ELSE 2 IN
         \/ /\ AppendBlock(e, n, n)
            /\ LogGoes(e, IF n + 1 \in Writes(e) THEN "json_rest" ELSE "insert")
            /\ UNCHANGED unseen
         \/ /\ "write" \in Faults
            /\ UNCHANGED <<logfile, crossed>> \/ AppendBlock(e, n, 0)
            /\ AfterFailedWrite(e, n)
    /\ UNCHANGED <<variant, mode, rows, posted, up>>

\* db_insert_bad_actor.
LogInsert(e) ==
    /\ up
    /\ stage[e] = "insert"
    /\ rows' = rows \cup {e}
    /\ IF Posts THEN LogGoes(e, "webhook") ELSE LogReturns(e, "success")
    /\ UNCHANGED <<variant, mode, logfile, unseen, crossed, posted, up>>

\* Bug variant: an event that could not be stored is posted all the same.
AfterFailedInsertPosts(e) ==
    IF Posts THEN LogGoes(e, "webhook") ELSE LogReturns(e, "failure")

\* "Saving bad actor to db failed": return EXIT_FAILURE.
AfterFailedInsert(e) == LogReturns(e, "failure")

\* The row is stored all the same if only closing the database failed.
LogInsertFails(e) ==
    /\ up
    /\ "insert" \in Faults
    /\ stage[e] = "insert"
    /\ AfterFailedInsert(e)
    /\ rows' \in {rows, rows \cup {e}}
    /\ UNCHANGED <<variant, mode, logfile, unseen, crossed, posted, up>>

\* json_http_post_bad_actor returns: "Just log failing WebHook POSTs".  How it
\* gets there, and that its retries need not end, is in WebHook.
LogPost(e) ==
    /\ up
    /\ stage[e] = "webhook"
    /\ \/ posted' = posted \cup {e}
       \/ "post" \in Faults /\ UNCHANGED posted
    /\ LogReturns(e, "success")
    /\ UNCHANGED <<variant, mode, logfile, unseen, crossed, rows, up>>

\* Or it ends the process: expect() in a Rust function that C calls, the asserts
\* on the token reply and a double free() in C.
LogPostAborts(e) ==
    /\ up
    /\ "post" \in Faults
    /\ stage[e] = "webhook"
    /\ up' = FALSE
    /\ posted' \in {posted, posted \cup {e}}
    /\ UNCHANGED <<variant, mode, stage, outcome, logfile, unseen, crossed, rows>>

LogStep(e) ==
    \/ LogOpenFails(e)
    \/ LogWrite(e)
    \/ LogInsert(e)
    \/ LogInsertFails(e)

-----------------------------------------------------------------------------
(* Safety.                                                                 *)

\* The line of e is in the file, from the beginning of a line to a newline.
Whole(e) ==
    \E i \in 1 .. Len(logfile) :
        /\ logfile[i] = <<e, 1>>
        /\ i = 1 \/ EndsLine(i - 1)
        /\ 2 \in Writes(e) => i < Len(logfile) /\ logfile[i + 1] = <<e, 2>>

\* What is in the database is in the JSON log, as an unbroken line of its own,
\* whichever open, write or insert failed.  Two things get in the way, and no
\* third: a failed write nobody was told of (all but the last block of a long
\* line in C, a line of usual length in Rust), and a block that another thread
\* appended in the middle of the line, or half a line before it.
LogCoversTable ==
    LogsJson => \A e \in rows \ (unseen \cup crossed) : Whole(e)

\* The WebHook is told only of events that are stored, and a call that failed
\* has not told it.
PostedIsStored ==
    /\ posted \subseteq rows
    /\ \A e \in Events : outcome[e] = "failure" => e \notin posted
=============================================================================
