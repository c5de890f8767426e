------------------------------ MODULE SipServer -----------------------------
(***************************************************************************)
(* The SIP server in Rust (sip.rs, tcp.rs, tls.rs, udp.rs) as the caller   *)
(* of bad_actor_log: a listener task per transport, a task per connection  *)
(* or datagram, and a limited number of Tokio worker threads.  A task that *)
(* awaits occupies no worker; log_sip_packet does not await and occupies   *)
(* one until it returns.  The DHT listener is the other caller.            *)
(*                                                                         *)
(* In the builds that use the C daemon (see SipDaemon for its loop) one    *)
(* thread takes one message at a time, can be blocked in recvmsg() and may *)
(* end.                                                                    *)
(***************************************************************************)
EXTENDS BadActorLog

CONSTANTS
    Transports,    \* functions from Messages to AllTransports to start with
    WorkerThreads  \* number of Tokio worker threads

AllTransports == {"tcp", "udp", "tls"}

ASSUME ServerAssumption ==
    /\ Transports \subseteq [Messages -> AllTransports]
    /\ WorkerThreads \in Nat \ {0}

VARIABLES
    transport,  \* transport[m]: how the peer of m comes in
    listener,   \* listener[x]: "up", or "dead" after a panic of its task
    daemon,     \* the thread of the C daemon
    task,       \* task[m]: where the task of m stands
    sent,       \* the messages their peers have sent
    replied     \* the messages that were answered

serverVars == <<transport, listener, daemon, task, sent, replied>>
vars == <<logVars, serverVars>>

\* "none": the peer is not there;  "waiting": for accept() or recv_from();
\* "handshake", "reading": awaiting the peer;  "ready": has read a message;
\* "logging": in log_sip_packet;  "reply";  "ended";  "panicked".
TaskPlaces == {"none", "waiting", "handshake", "reading", "ready", "logging",
               "reply", "ended", "panicked"}

\* "loop": in select(), or between two messages;  "again": a datagram was read
\* and the bit of its socket is still set in reads;  "blocked": in recvmsg();
\* "ended": sip_daemon has returned.
DaemonPlaces == {"loop", "again", "blocked", "ended"}

TypeOK ==
    /\ LogTypeOK
    /\ transport \in Transports
    /\ listener \in [AllTransports -> {"up", "dead"}]
    /\ daemon \in DaemonPlaces
    /\ task \in [Messages -> TaskPlaces]
    /\ sent \subseteq Messages
    /\ replied \subseteq Messages
    /\ \A m \in Messages : stage[m] # "out" => task[m] = "logging"
    /\ mode.sip_responsive_mode \/ replied = {}

Init ==
    /\ LogInit
    /\ transport \in Transports
    /\ listener = [x \in AllTransports |-> "up"]
    /\ daemon = "loop"
    /\ task = [m \in Messages |-> "none"]
    /\ sent = {}
    /\ replied = {}

-----------------------------------------------------------------------------
Become(m, place) == task' = [task EXCEPT ![m] = place]

Logging == {m \in Messages : task[m] = "logging"}

\* A worker thread can poll a task; the C daemon is one thread, which keeps a
\* message until it has replied.
WorkerFree ==
    /\ up
    /\ IF NewMode THEN Cardinality(Logging) < WorkerThreads
       ELSE \A m \in Messages : task[m] \notin {"ready", "logging", "reply"}

\* A step of the task of m that leaves everything else alone.
TaskGoes(m, place) ==
    /\ Become(m, place)
    /\ UNCHANGED <<logVars, transport, listener, daemon, sent, replied>>

-----------------------------------------------------------------------------
(* The peers.  They may stop at any point.                                 *)

\* A peer connects, or sends its datagram.  The C daemon has no TLS.
Arrive(m) ==
    /\ up
    /\ task[m] = "none"
    /\ NewMode \/ transport[m] # "tls"
    /\ Become(m, "waiting")
    /\ sent' = IF transport[m] = "udp" THEN sent \cup {m} ELSE sent
    /\ UNCHANGED <<logVars, transport, listener, daemon, replied>>

\* A connected peer sends its message.
PeerSends(m) ==
    /\ up
    /\ task[m] \in {"waiting", "handshake", "reading"}
    /\ m \notin sent
    /\ sent' = sent \cup {m}
    /\ UNCHANGED <<logVars, transport, listener, daemon, task, replied>>

-----------------------------------------------------------------------------
(* The listeners and their tasks.                                          *)

\* Bug variant: the accept loop awaits the handler instead of spawning it.
MayAcceptInline(m) ==
    /\ listener[transport[m]] = "up"
    /\ \A n \in Messages : transport[n] = transport[m] =>
           task[n] \in {"none", "waiting", "ended", "panicked"}

\* tokio::spawn: the loop is back at accept() at once.
MayAccept(m) == listener[transport[m]] = "up"

\* accept().await or recv_from().await returns; a task is spawned.
Accept(m) ==
    /\ NewMode
    /\ task[m] = "waiting"
    /\ MayAccept(m)
    /\ WorkerFree
    /\ TaskGoes(m, CASE transport[m] = "tcp" -> "reading"
                     [] transport[m] = "tls" -> "handshake"
                     [] transport[m] = "udp" -> "ready")

\* .unwrap() of an error of accept() or recv_from(): the listener's task
\* panics, and nobody looks at its JoinHandle.
ListenerPanics(x) ==
    /\ "accept" \in Faults
    /\ NewMode
    /\ listener[x] = "up"
    /\ WorkerFree
    /\ listener' = [listener EXCEPT ![x] = "dead"]
    /\ UNCHANGED <<logVars, transport, daemon, task, sent, replied>>

\* acceptor.accept(stream).await
Handshake(m) ==
    /\ task[m] = "handshake"
    /\ m \in sent
    /\ WorkerFree
    /\ TaskGoes(m, "reading")

\* ? of a handshake or a read that failed.
PeerFails(m) ==
    /\ "peer" \in Faults
    /\ task[m] \in {"handshake", "reading"}
    /\ WorkerFree
    /\ TaskGoes(m, "ended")

\* reader.read(&mut buf).await, once per connection.
Read(m) ==
    /\ task[m] = "reading"
    /\ m \in sent
    /\ WorkerFree
    /\ TaskGoes(m, "ready")

\* ... which returns 0 if the peer has closed without sending anything.
ReadNothing(m) ==
    /\ "peer" \in Faults
    /\ task[m] = "reading"
    /\ m \notin sent
    /\ WorkerFree
    /\ TaskGoes(m, "ready")

\* The C daemon takes the next message, in this round of its loop or in a new
\* one; only a datagram helps it out of recvmsg().
DaemonTakes(m) ==
    /\ ~ NewMode
    /\ task[m] = "waiting"
    /\ m \in sent
    /\ WorkerFree
    /\ daemon \in IF transport[m] = "udp" THEN {"loop", "again", "blocked"} ELSE {"loop", "again"}
    /\ daemon' \in IF transport[m] = "udp" THEN {"again"} ELSE {"loop", daemon}
    /\ Become(m, "ready")
    /\ UNCHANGED <<logVars, transport, listener, sent, replied>>

\* Every descriptor's turn tests the bit of the UDP socket and calls recvmsg(),
\* also when the datagram that set it was read in an earlier turn: a TCP peer
\* in the same round is enough.
DaemonBlocks ==
    /\ daemon = "again"
    /\ WorkerFree
    /\ \E m \in Messages : transport[m] = "tcp" /\ task[m] # "none"
    /\ \A m \in Messages : transport[m] = "udp" => task[m] # "waiting"
    /\ daemon' = "blocked"
    /\ UNCHANGED <<logVars, transport, listener, task, sent, replied>>

\* The round is over; back to select().
RoundEnds ==
    /\ daemon = "again"
    /\ WorkerFree
    /\ daemon' = "loop"
    /\ UNCHANGED <<logVars, transport, listener, task, sent, replied>>

\* "select() failed.", "getnameinfo() failed.": sip_daemon returns, and nobody
\* joins its thread before main does.
DaemonEnds ==
    /\ "loop" \in Faults
    /\ ~ NewMode
    /\ daemon # "ended"
    /\ WorkerFree
    /\ daemon' = "ended"
    /\ UNCHANGED <<logVars, transport, listener, task, sent, replied>>

\* assert() on the missing destination of a message: the process aborts.
DaemonAborts ==
    /\ up
    /\ "loop" \in Faults
    /\ ~ NewMode
    /\ daemon # "ended"
    /\ \E m \in Messages : task[m] = "ready"
    /\ up' = FALSE
    /\ UNCHANGED <<variant, mode, stage, outcome, logfile, unseen, crossed, rows, posted,
                   serverVars>>

\* log_sip_packet, sip_log_event: the message parses, or it is empty and is not
\* parsed; bad_actor_log is called.
StartLog(m) ==
    /\ task[m] = "ready"
    /\ NewMode => WorkerFree
    /\ Become(m, "logging")
    /\ LogStarts(m)
    /\ UNCHANGED <<transport, listener, daemon, sent, replied>>

\* Bug variant: the C daemon replies whatever became of the event.
AfterLogAnyway(result) == IF mode.sip_responsive_mode THEN "reply" ELSE "ended"

\* Bug variant: sip_responsive_mode is not asked.
AfterLogUnasked(result) == IF NewMode \/ result = "success" THEN "reply" ELSE "ended"

\* Where a task goes when log_sip_packet or sip_log_event has returned.  The
\* Rust handlers print a failure and go on; the C loop continues with the next
\* descriptor.
AfterLog(result) ==
    IF mode.sip_responsive_mode /\ (NewMode \/ result = "success")
    THEN "reply" ELSE "ended"

\* "Parsing this SIP packet failed."
ParseFails(m) ==
    /\ up
    /\ task[m] = "ready"
    /\ NewMode => WorkerFree
    /\ TaskGoes(m, AfterLog("failure"))

\* CString::new(...).unwrap() of a packet with a NUL byte in it.
TaskPanics(m) ==
    /\ NewMode
    /\ task[m] = "ready"
    /\ WorkerFree
    /\ TaskGoes(m, "panicked")

\* bad_actor_log has returned.  A stored event is put on the DHT then (see
\* Replication), and sip_log_event fails if that does.
EndLog(m) ==
    /\ up
    /\ task[m] = "logging"
    /\ stage[m] = "out"
    /\ \/ TaskGoes(m, AfterLog(outcome[m]))
       \/ "put" \in Faults /\ TaskGoes(m, AfterLog("failure"))

\* gen_sip_reply, send_to, sip_send_reply; the connection is closed.
Reply(m) ==
    /\ up
    /\ task[m] = "reply"
    /\ NewMode => WorkerFree
    /\ \/ /\ Become(m, "ended")
          /\ replied' = replied \cup {m}
       \/ /\ "reply" \in Faults
          /\ Become(m, IF NewMode /\ transport[m] # "udp" THEN "panicked" ELSE "ended")
          /\ UNCHANGED replied
    /\ UNCHANGED <<logVars, transport, listener, daemon, sent>>

-----------------------------------------------------------------------------
\* dht_value_callback: OpenDHT has one thread for it.
CallbackLogs(f) ==
    /\ \A g \in Foreign : stage[g] = "out"
    /\ LogStarts(f)
    /\ UNCHANGED serverVars

Task(m) ==
    \/ Accept(m) \/ Handshake(m) \/ Read(m) \/ DaemonTakes(m)
    \/ StartLog(m) \/ ParseFails(m) \/ TaskPanics(m) \/ EndLog(m) \/ Reply(m)

Log(e) == LogStep(e) /\ UNCHANGED serverVars

Post(e) == (LogPost(e) \/ LogPostAborts(e)) /\ UNCHANGED serverVars

Next ==
    \/ \E m \in Messages :
           Arrive(m) \/ PeerSends(m) \/ PeerFails(m) \/ ReadNothing(m) \/ Task(m)
    \/ \E x \in AllTransports : ListenerPanics(x)
    \/ DaemonBlocks \/ RoundEnds \/ DaemonEnds \/ DaemonAborts
    \/ \E f \in Foreign : CallbackLogs(f)
    \/ \E e \in Events : Log(e) \/ Post(e)

Spec == Init /\ [][Next]_vars

\* Tokio polls every task that can go on, the C daemon's thread is scheduled,
\* and writing and inserting take a while only (there is no busy handler).
\* Nothing is assumed of the peers, and nothing of the WebHook: the function that
\* posts to it may call itself for ever.
FairSpec ==
    /\ Spec
    /\ \A m \in Messages : WF_vars(Task(m))
    /\ \A e \in Events : WF_vars(Log(e))

-----------------------------------------------------------------------------
(* Safety.                                                                 *)

\* With the C daemon, whoever got a reply is on record.  (The Rust handlers
\* reply after a failure, too.)
AnsweredIsStored == ~ NewMode => replied \subseteq rows

-----------------------------------------------------------------------------
(* Liveness, under FairSpec.                                               *)

\* Whoever would take m is gone: the process has aborted, the listener of the
\* transport has panicked, or the C daemon has returned.
ServerGone(m) ==
    \/ ~ up
    \/ NewMode /\ listener[transport[m]] = "dead"
    \/ ~ NewMode /\ daemon = "ended"

\* A message that was sent is dealt with as long as its server is there,
\* whatever the other peers do: one that connects and stays silent, a task that
\* panics or a log that fails keeps nobody else waiting.  Two things do, and are
\* assumed not to last: a POST that is retried over and over keeps its worker,
\* and the C daemon sits in recvmsg() until there is another datagram.
SentIsHandled ==
    (\A e \in Events : []<>(stage[e] # "webhook")) /\ []<>(daemon # "blocked")
        => \A m \in Messages :
               m \in sent ~> task[m] \in {"ended", "panicked"} \/ ServerGone(m)
=============================================================================
