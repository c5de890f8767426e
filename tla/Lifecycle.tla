------------------------------ MODULE Lifecycle -----------------------------
(***************************************************************************)
(* main of sentrypeer.c: the order in which the HTTP daemon, the SIP       *)
(* server and the DHT node are started and stopped, and the sentrypeer_-   *)
(* config all their threads point to.  What the threads do is reduced to   *)
(* where they touch config and config->dht_node.                           *)
(*                                                                         *)
(* The SIP server is the C daemon (one thread, cancelled and joined) or    *)
(* the Rust one (a Tokio runtime, told to stop by a oneshot message).      *)
(***************************************************************************)
EXTENDS Naturals, FiniteSets

CONSTANTS
    Workers,  \* threads that run sip_log_event; the C daemon has one
    Modes     \* the configurations to start with, a subset of AllModes

AllModes == [new_mode: BOOLEAN, sip_mode: BOOLEAN, p2p_dht_mode: BOOLEAN,
             api_mode: BOOLEAN]

ASSUME ModesAssumption == Modes \subseteq AllModes

VARIABLES
    mode,          \* the mode flags of config, set by process_cli
    main,          \* where main stands
    cleanup_flag,  \* the signal handler has run
    config,        \* "live" or "freed"
    dht_node,      \* config->dht_node: "garbage" (malloc), "set", "deleted"
    worker,        \* worker[w]: "none", "waiting" (for input), "logging",
                   \* "saving" (on its way into peer_to_peer_dht_save), "gone"
    cancelled,     \* pthread_cancel has been called on the C daemon's thread
    sip_channel,   \* config->sip_channel: "null", "open", "sent", "received",
                   \* or "dropped" (the receiving end is gone)
    listener,      \* the DHT callback: "off", "idle", "running"
    http           \* the HTTP daemon: "off", "idle", "serving"

vars == <<mode, main, cleanup_flag, config, dht_node, worker, cancelled,
          sip_channel, listener, http>>

MainStages == {"start_http", "start_sip", "start_dht", "bootstrap", "running",
               "stop_http", "stop_sip", "join_sip", "stop_dht", "delete_dht",
               "destroy", "return", "exited", "aborted"}

TypeOK ==
    /\ mode \in Modes
    /\ main \in MainStages
    /\ cleanup_flag \in BOOLEAN
    /\ config \in {"live", "freed"}
    /\ dht_node \in {"garbage", "set", "deleted"}
    /\ worker \in [Workers -> {"none", "waiting", "logging", "saving", "gone"}]
    /\ \A w \in Workers : worker[w] = "saving" => mode.p2p_dht_mode
    /\ cancelled \in BOOLEAN
    /\ sip_channel \in {"null", "open", "sent", "received", "dropped"}
    /\ listener \in {"off", "idle", "running"}
    /\ http \in {"off", "idle", "serving"}

\* sentrypeer_config_new and process_cli are done, the handlers are installed.
Init ==
    /\ mode \in Modes
    /\ main = "start_http"
    /\ cleanup_flag = FALSE
    /\ config = "live"
    /\ dht_node = "garbage"
    /\ worker = [w \in Workers |-> "none"]
    /\ cancelled = FALSE
    /\ sip_channel = "null"
    /\ listener = "off"
    /\ http = "off"

\* SIGINT or SIGTERM: the handler only sets the flag.
Signal ==
    /\ main \notin {"exited", "aborted"}
    /\ cleanup_flag' = TRUE
    /\ UNCHANGED <<mode, main, config, dht_node, worker, cancelled, sip_channel,
                   listener, http>>

-----------------------------------------------------------------------------
(* main, starting.                                                         *)

\* The process is over, and all its threads with it.
ProcessEnds(how) ==
    /\ main' = how
    /\ worker' = [w \in Workers |-> "none"]
    /\ listener' = "off"
    /\ http' = "off"

\* http_daemon_init; exit(EXIT_FAILURE) if the port is taken.
StartHttp ==
    /\ main = "start_http"
    /\ \/ /\ main' = "start_sip"
          /\ http' = IF mode.api_mode THEN "idle" ELSE "off"
          /\ UNCHANGED <<worker, listener>>
       \/ mode.api_mode /\ ProcessEnds("exited")
    /\ UNCHANGED <<mode, cleanup_flag, config, dht_node, cancelled, sip_channel>>

\* sip_daemon_run (pthread_create) or run_sip_server (a runtime and a channel).
StartSip ==
    /\ main = "start_sip"
    /\ \/ /\ main' = "start_dht"
          /\ \E started \in SUBSET Workers :
               /\ CASE ~ mode.sip_mode -> started = {}
                    [] mode.sip_mode /\ mode.new_mode -> started = Workers
                    [] mode.sip_mode /\ ~ mode.new_mode -> Cardinality(started) = 1
               /\ worker' = [w \in Workers |->
                               IF w \in started THEN "waiting" ELSE "none"]
          /\ sip_channel' = IF mode.sip_mode /\ mode.new_mode THEN "open" ELSE "null"
          /\ UNCHANGED <<listener, http>>
       \/ /\ mode.sip_mode /\ ~ mode.new_mode
          /\ ProcessEnds("exited")
          /\ UNCHANGED sip_channel
    /\ UNCHANGED <<mode, cleanup_flag, config, dht_node, cancelled>>

\* peer_to_peer_dht_run up to its sleep: from here on config->dht_node is set.
StartDht ==
    /\ main = "start_dht"
    /\ main' = IF mode.p2p_dht_mode THEN "bootstrap" ELSE "running"
    /\ dht_node' = IF mode.p2p_dht_mode THEN "set" ELSE dht_node
    /\ UNCHANGED <<mode, cleanup_flag, config, worker, cancelled, sip_channel,
                   listener, http>>

\* ... and from its sleep on: dht_runner_listen.
DhtListen ==
    /\ main = "bootstrap"
    /\ main' = "running"
    /\ listener' = "idle"
    /\ UNCHANGED <<mode, cleanup_flag, config, dht_node, worker, cancelled,
                   sip_channel, http>>

-----------------------------------------------------------------------------
(* main, stopping.                                                         *)

\* while (cleanup_flag == 0) sleep(1);
LeaveLoop ==
    /\ main = "running"
    /\ cleanup_flag
    /\ main' = "stop_http"
    /\ UNCHANGED <<mode, cleanup_flag, config, dht_node, worker, cancelled,
                   sip_channel, listener, http>>

\* MHD_stop_daemon joins the connection threads.
StopHttp ==
    /\ main = "stop_http"
    /\ http # "serving"
    /\ http' = "off"
    /\ main' = "stop_sip"
    /\ UNCHANGED <<mode, cleanup_flag, config, dht_node, worker, cancelled,
                   sip_channel, listener>>

\* Bug variant: the thread is detached, not joined.
AfterCancelNoJoin == "stop_dht"

\* After pthread_cancel comes pthread_join.
AfterCancel == "join_sip"

\* sip_daemon_stop of the C daemon; main calls it whether there is a thread or
\* not, and pthread_cancel(0) is not a call it survives.
StopSipC ==
    /\ main = "stop_sip"
    /\ ~ mode.new_mode
    /\ \/ /\ mode.sip_mode
          /\ cancelled' = TRUE
          /\ main' = AfterCancel
          /\ UNCHANGED <<worker, listener, http>>
       \/ /\ ~ mode.sip_mode
          /\ ProcessEnds("aborted")
          /\ UNCHANGED cancelled
    /\ UNCHANGED <<mode, cleanup_flag, config, dht_node, sip_channel>>

\* sip_daemon_stop of the Rust server, shutdown_sip: asserts that there is a
\* channel, sends the message and does not wait for anybody.  If nobody can
\* receive it, main is told EXIT_FAILURE, which it prints.
StopSipRust ==
    /\ main = "stop_sip"
    /\ mode.new_mode
    /\ \/ /\ sip_channel # "null"
          /\ sip_channel' = IF sip_channel = "open" THEN "sent" ELSE sip_channel
          /\ main' = "stop_dht"
          /\ UNCHANGED <<worker, listener, http>>
       \/ /\ sip_channel = "null"
          /\ ProcessEnds("aborted")
          /\ UNCHANGED sip_channel
    /\ UNCHANGED <<mode, cleanup_flag, config, dht_node, cancelled>>

JoinSip ==
    /\ main = "join_sip"
    /\ \A w \in Workers : worker[w] \in {"none", "gone"}
    /\ main' = "stop_dht"
    /\ UNCHANGED <<mode, cleanup_flag, config, dht_node, worker, cancelled,
                   sip_channel, listener, http>>

\* dht_runner_cancel_listen and dht_runner_shutdown.
StopDht ==
    /\ main = "stop_dht"
    /\ main' = IF mode.p2p_dht_mode THEN "delete_dht" ELSE "destroy"
    /\ UNCHANGED <<mode, cleanup_flag, config, dht_node, worker, cancelled,
                   sip_channel, listener, http>>

\* Bug variant: the runner is deleted without waiting for its thread.
CallbackDoneNoWait == TRUE

\* dht_runner_delete joins the thread the callback runs on.
CallbackDone == listener # "running"

DeleteDht ==
    /\ main = "delete_dht"
    /\ CallbackDone
    /\ main' = "destroy"
    /\ listener' = IF listener = "running" THEN "running" ELSE "off"
    /\ dht_node' = "deleted"
    /\ UNCHANGED <<mode, cleanup_flag, config, worker, cancelled, sip_channel, http>>

\* sentrypeer_config_destroy.
Destroy ==
    /\ main = "destroy"
    /\ config' = "freed"
    /\ main' = "return"
    /\ UNCHANGED <<mode, cleanup_flag, dht_node, worker, cancelled, sip_channel,
                   listener, http>>

\* main returns EXIT_SUCCESS.
MainReturns ==
    /\ main = "return"
    /\ ProcessEnds("exited")
    /\ UNCHANGED <<mode, cleanup_flag, config, dht_node, cancelled, sip_channel>>

-----------------------------------------------------------------------------
(* The threads.                                                            *)

\* The Tokio runtime still hands out work.
RuntimeRuns == sip_channel \in {"open", "sent"}

\* A SIP message arrives: sip_daemon_init calls sip_log_event, or a Tokio task
\* calls log_sip_packet.
Receive(w) ==
    /\ worker[w] = "waiting"
    /\ IF mode.new_mode THEN RuntimeRuns ELSE ~ cancelled
    /\ worker' = [worker EXCEPT ![w] = "logging"]
    /\ UNCHANGED <<mode, main, cleanup_flag, config, dht_node, cancelled,
                   sip_channel, listener, http>>

\* Bug variant: the DHT is tried even when p2p_dht_mode is off.
AfterLogAlways == "saving"

\* bad_actor_log succeeded: "Put on DHT last", if that is configured.
AfterLog == IF mode.p2p_dht_mode THEN "saving" ELSE "waiting"

\* bad_actor_log returns; when it failed the event is dropped.
Log(w) ==
    /\ worker[w] = "logging"
    /\ worker' \in {[worker EXCEPT ![w] = AfterLog], [worker EXCEPT ![w] = "waiting"]}
    /\ UNCHANGED <<mode, main, cleanup_flag, config, dht_node, cancelled,
                   sip_channel, listener, http>>

\* peer_to_peer_dht_save: uses config->dht_node.
Save(w) ==
    /\ worker[w] = "saving"
    /\ worker' = [worker EXCEPT ![w] = "waiting"]
    /\ UNCHANGED <<mode, main, cleanup_flag, config, dht_node, cancelled,
                   sip_channel, listener, http>>

\* Bug variant: the thread runs with PTHREAD_CANCEL_DISABLE.
CancellableNever(w) == FALSE

\* Cancellation is deferred: it takes effect where the thread does I/O, which
\* it does in select(), recv() and recvmsg() and inside bad_actor_log.
Cancellable(w) == worker[w] \in {"waiting", "logging"}

CancelTakesEffect(w) ==
    /\ cancelled
    /\ Cancellable(w)
    /\ worker' = [worker EXCEPT ![w] = "gone"]
    /\ UNCHANGED <<mode, main, cleanup_flag, config, dht_node, cancelled,
                   sip_channel, listener, http>>

\* sip_daemon_init returns EXIT_FAILURE; sip_daemon_thread_start ignores it.
DaemonReturns(w) ==
    /\ ~ mode.new_mode
    /\ worker[w] = "waiting"
    /\ worker' = [worker EXCEPT ![w] = "gone"]
    /\ UNCHANGED <<mode, main, cleanup_flag, config, dht_node, cancelled,
                   sip_channel, listener, http>>

\* rx.await returns: rt.shutdown_background() drops the tasks at their next
\* await and waits for none of them.
RuntimeStops ==
    /\ sip_channel = "sent"
    /\ main # "exited"
    /\ sip_channel' = "received"
    /\ UNCHANGED <<mode, main, cleanup_flag, config, dht_node, worker, cancelled,
                   listener, http>>

\* The server thread panics or returns before it waits for the message: a port
\* is taken, or there is no usable certificate.  The runtime goes with it, and
\* nobody tells main.
ServerDies ==
    /\ sip_channel = "open"
    /\ main # "exited"
    /\ sip_channel' = "dropped"
    /\ UNCHANGED <<mode, main, cleanup_flag, config, dht_node, worker, cancelled,
                   listener, http>>

TaskDropped(w) ==
    /\ sip_channel \in {"received", "dropped"}
    /\ worker[w] = "waiting"
    /\ worker' = [worker EXCEPT ![w] = "gone"]
    /\ UNCHANGED <<mode, main, cleanup_flag, config, dht_node, cancelled,
                   sip_channel, listener, http>>

\* dht_value_callback, on OpenDHT's thread, which dht_runner_delete stops.
CallbackStarts ==
    /\ listener = "idle"
    /\ main # "delete_dht"
    /\ listener' = "running"
    /\ UNCHANGED <<mode, main, cleanup_flag, config, dht_node, worker, cancelled,
                   sip_channel, http>>

CallbackReturns ==
    /\ listener = "running"
    /\ listener' = "idle"
    /\ UNCHANGED <<mode, main, cleanup_flag, config, dht_node, worker, cancelled,
                   sip_channel, http>>

\* route_handler, on a thread per connection; MHD_stop_daemon lets no new one
\* in.
RequestStarts ==
    /\ http = "idle"
    /\ main # "stop_http"
    /\ http' = "serving"
    /\ UNCHANGED <<mode, main, cleanup_flag, config, dht_node, worker, cancelled,
                   sip_channel, listener>>

RequestEnds ==
    /\ http = "serving"
    /\ http' = "idle"
    /\ UNCHANGED <<mode, main, cleanup_flag, config, dht_node, worker, cancelled,
                   sip_channel, listener>>

-----------------------------------------------------------------------------
Main ==
    \/ StartHttp \/ StartSip \/ StartDht \/ DhtListen \/ LeaveLoop
    \/ StopHttp \/ StopSipC \/ StopSipRust \/ JoinSip \/ StopDht \/ DeleteDht
    \/ Destroy \/ MainReturns

Worker(w) ==
    \/ Log(w)
    \/ Save(w)
    \/ CancelTakesEffect(w)
    \/ TaskDropped(w)

Next ==
    \/ Main
    \/ Signal
    \/ \E w \in Workers : Worker(w) \/ Receive(w) \/ DaemonReturns(w)
    \/ RuntimeStops
    \/ ServerDies
    \/ CallbackStarts \/ CallbackReturns
    \/ RequestStarts \/ RequestEnds

Spec == Init /\ [][Next]_vars

\* Every thread is scheduled, and a handler that was entered is left: nothing
\* in it waits for longer than a timeout.
FairSpec ==
    /\ Spec
    /\ WF_vars(Main)
    /\ \A w \in Workers : WF_vars(Worker(w))
    /\ WF_vars(RuntimeStops)
    /\ WF_vars(CallbackReturns)
    /\ WF_vars(RequestEnds)

-----------------------------------------------------------------------------
(* Safety.                                                                 *)

\* "Just set the flag, so we can exit cleanly" (signal_handler): when main
\* frees config nobody uses it any more, wherever the HTTP, SIP and DHT
\* threads were when the signal came.  The Rust server is the exception: its
\* worker threads are not waited for, so with it the claim is made of the HTTP
\* and DHT threads only.
ConfigOutlivesThreads ==
    config = "freed" =>
        /\ listener # "running"
        /\ http # "serving"
        /\ ~ mode.new_mode => \A w \in Workers : worker[w] \notin {"logging", "saving"}

\* No event is put on a DHT node that peer_to_peer_dht_stop has deleted: the C
\* daemon is stopped before the node it writes to.
NoPutAfterDelete ==
    ~ mode.new_mode =>
        \A w \in Workers : worker[w] = "saving" => dht_node # "deleted"

-----------------------------------------------------------------------------
(* What the repository says and main does not ensure.                      *)

\* assert(config->dht_node) (peer_to_peer_dht_save): the node is there when an
\* event is saved.  The SIP server is started before the DHT is.
DhtNodeThere ==
    \A w \in Workers : worker[w] = "saving" => dht_node = "set"

-----------------------------------------------------------------------------
(* Liveness, under FairSpec.                                               *)

\* After a signal main gets to its end: neither the HTTP daemon, nor
\* pthread_join, nor the DHT runner keeps it waiting for ever.  Where no SIP
\* server was started the process dies in sip_daemon_stop instead, which main
\* calls all the same (shutdown_sip asserts that there is a channel).
SignalEndsProcess ==
    cleanup_flag ~> main = "exited" \/ (main = "aborted" /\ ~ mode.sip_mode)
=============================================================================
