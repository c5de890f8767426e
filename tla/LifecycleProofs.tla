--------------------------- MODULE LifecycleProofs --------------------------
(***************************************************************************)
(* main stops what it started in an order that keeps config and the DHT    *)
(* node alive while somebody uses them, with any number of threads and     *)
(* from any configuration.                                                 *)
(***************************************************************************)
EXTENDS Lifecycle, TLAPS

\* From the places main has reached in its stopping sequence: MHD_stop_daemon
\* has returned, ...
HttpStopped ==
    main \in {"stop_sip", "join_sip", "stop_dht", "delete_dht", "destroy", "return",
              "exited", "aborted"} => http = "off"

\* ... the C daemon's thread has been joined, ...
SipStopped ==
    ~ mode.new_mode /\ main \in {"stop_dht", "delete_dht", "destroy", "return"} =>
        \A w \in Workers : worker[w] \in {"none", "gone"}

\* ... and so has OpenDHT's thread, if there was one.
DhtStopped ==
    /\ main = "bootstrap" \/ listener # "off" => mode.p2p_dht_mode
    /\ main \in {"destroy", "return", "exited", "aborted"} => listener = "off"

\* The process has ended and its threads with it.
ProcessOver ==
    main \in {"exited", "aborted"} => \A w \in Workers : worker[w] = "none"

\* Nobody but main frees config and the DHT node, each at its place.
FreedLate ==
    /\ config = "freed" => main \in {"return", "exited"}
    /\ dht_node = "deleted" => main \in {"destroy", "return", "exited"}

\* The inductive invariant.
IInv ==
    /\ TypeOK
    /\ HttpStopped
    /\ SipStopped
    /\ DhtStopped
    /\ ProcessOver
    /\ FreedLate

LEMMA InitIInv == Init => IInv
BY DEF Init, IInv, TypeOK, HttpStopped, SipStopped, DhtStopped, ProcessOver, FreedLate,
       MainStages

\* main on its way up.
LEMMA StartingIInv ==
    ASSUME IInv, StartHttp \/ StartSip \/ StartDht \/ DhtListen
    PROVE  IInv'
<1> USE DEF IInv, TypeOK, HttpStopped, SipStopped, DhtStopped, ProcessOver, FreedLate,
            MainStages
<1>1. CASE StartHttp
  BY <1>1 DEF StartHttp, ProcessEnds
<1>2. CASE StartSip
  BY <1>2 DEF StartSip, ProcessEnds
<1>3. CASE StartDht
  BY <1>3 DEF StartDht
<1>4. CASE DhtListen
  BY <1>4 DEF DhtListen
<1> QED BY <1>1, <1>2, <1>3, <1>4

\* main on its way down.
LEMMA StoppingIInv ==
    ASSUME IInv,
           \/ LeaveLoop \/ StopHttp \/ StopSipC \/ StopSipRust \/ JoinSip \/ StopDht
           \/ DeleteDht \/ Destroy \/ MainReturns
    PROVE  IInv'
<1> USE DEF IInv, TypeOK, HttpStopped, SipStopped, DhtStopped, ProcessOver, FreedLate,
            MainStages
<1>1. CASE LeaveLoop
  BY <1>1 DEF LeaveLoop
<1>2. CASE StopHttp
  BY <1>2 DEF StopHttp
<1>3. CASE StopSipC
  BY <1>3 DEF StopSipC, AfterCancel, ProcessEnds
<1>4. CASE StopSipRust
  BY <1>4 DEF StopSipRust, ProcessEnds
<1>5. CASE JoinSip
  BY <1>5 DEF JoinSip
<1>6. CASE StopDht
  BY <1>6 DEF StopDht
<1>7. CASE DeleteDht
  BY <1>7 DEF DeleteDht, CallbackDone
<1>8. CASE Destroy
  BY <1>8 DEF Destroy
<1>9. CASE MainReturns
  BY <1>9 DEF MainReturns, ProcessEnds
<1> QED BY <1>1, <1>2, <1>3, <1>4, <1>5, <1>6, <1>7, <1>8, <1>9

\* The threads that run sip_log_event.
LEMMA WorkerIInv ==
    ASSUME IInv, NEW w \in Workers, Worker(w) \/ Receive(w) \/ DaemonReturns(w)
    PROVE  IInv'
<1> USE DEF IInv, TypeOK, HttpStopped, SipStopped, DhtStopped, ProcessOver, FreedLate,
            MainStages
<1>1. CASE Receive(w)
  BY <1>1 DEF Receive
<1>2. CASE Log(w)
  BY <1>2 DEF Log, AfterLog
<1>3. CASE Save(w)
  BY <1>3 DEF Save
<1>4. CASE CancelTakesEffect(w)
  BY <1>4 DEF CancelTakesEffect, Cancellable
<1>5. CASE DaemonReturns(w)
  BY <1>5 DEF DaemonReturns
<1>6. CASE TaskDropped(w)
  BY <1>6 DEF TaskDropped
<1> QED BY <1>1, <1>2, <1>3, <1>4, <1>5, <1>6 DEF Worker

\* The signal, the runtime of the Rust server, and the threads of OpenDHT and
\* libmicrohttpd.
LEMMA OthersIInv ==
    ASSUME IInv,
           \/ Signal \/ RuntimeStops \/ ServerDies
           \/ CallbackStarts \/ CallbackReturns \/ RequestStarts \/ RequestEnds
    PROVE  IInv'
<1> USE DEF IInv, TypeOK, HttpStopped, SipStopped, DhtStopped, ProcessOver, FreedLate,
            MainStages
<1>1. CASE Signal
  BY <1>1 DEF Signal
<1>2. CASE RuntimeStops
  BY <1>2 DEF RuntimeStops
<1>3. CASE ServerDies
  BY <1>3 DEF ServerDies
<1>4. CASE CallbackStarts
  BY <1>4 DEF CallbackStarts
<1>5. CASE CallbackReturns
  BY <1>5 DEF CallbackReturns
<1>6. CASE RequestStarts
  BY <1>6 DEF RequestStarts
<1>7. CASE RequestEnds
  BY <1>7 DEF RequestEnds
<1> QED BY <1>1, <1>2, <1>3, <1>4, <1>5, <1>6, <1>7

LEMMA StepIInv == IInv /\ [Next]_vars => IInv'
<1> SUFFICES ASSUME IInv, [Next]_vars PROVE IInv'
  OBVIOUS
<1>1. CASE Main
  BY <1>1, StartingIInv, StoppingIInv DEF Main
<1>2. CASE \E w \in Workers : Worker(w) \/ Receive(w) \/ DaemonReturns(w)
  BY <1>2, WorkerIInv
<1>3. CASE UNCHANGED vars
  BY <1>3 DEF vars, IInv, TypeOK, HttpStopped, SipStopped, DhtStopped, ProcessOver,
              FreedLate
<1> QED BY <1>1, <1>2, <1>3, OthersIInv DEF Next

LEMMA AlwaysIInv == Spec => []IInv
BY InitIInv, StepIInv, PTL DEF Spec

\* The state of start-up and shutdown is well typed; in particular a thread is
\* on its way into peer_to_peer_dht_save only if p2p_dht_mode is on.
THEOREM TypeCorrect == Spec => []TypeOK
<1>1. IInv => TypeOK
  BY DEF IInv
<1> QED BY <1>1, AlwaysIInv, PTL

\* sentrypeer_config_destroy frees a config that no HTTP thread, no DHT
\* callback and no thread of the C daemon uses any more.
THEOREM ConfigSafe == Spec => []ConfigOutlivesThreads
<1>1. IInv => ConfigOutlivesThreads
  BY DEF IInv, HttpStopped, SipStopped, DhtStopped, ProcessOver, FreedLate,
         ConfigOutlivesThreads
<1> QED BY <1>1, AlwaysIInv, PTL

\* The C daemon is joined before dht_runner_delete: nothing is put on a deleted
\* node.
THEOREM NodeSafe == Spec => []NoPutAfterDelete
<1>1. IInv => NoPutAfterDelete
  BY DEF IInv, SipStopped, ProcessOver, FreedLate, NoPutAfterDelete
<1> QED BY <1>1, AlwaysIInv, PTL
=============================================================================
