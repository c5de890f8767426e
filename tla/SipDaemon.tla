------------------------------ MODULE SipDaemon -----------------------------
(***************************************************************************)
(* The C SIP daemon: one thread, one UDP and one TCP listening socket, and *)
(* a select() loop over them and the connected TCP clients                 *)
(* (sip_daemon_init in sip_daemon.c).  What sip_log_event does with an     *)
(* event is the subject of Replication; here it succeeds or fails.         *)
(***************************************************************************)
EXTENDS Integers, Sequences, FiniteSets, FiniteSetsExt

CONSTANTS
    Clients,    \* TCP peers; a client stands for its IP address as well
    UdpFd,      \* the descriptor of socket_listen_udp
    TcpFd,      \* the descriptor of socket_listen_tcp
    ClientFds,  \* descriptors accept() can return
    MaxQueue,   \* bound: datagrams in the UDP socket's receive queue
    Faults,     \* which calls may fail: a subset of FaultKinds
    Nobody,     \* no client, no event
    Garbage     \* the contents of a buffer nothing has been written to

\* "log": sip_log_event or sip_send_reply returns EXIT_FAILURE;
\* "accept": accept() fails;  "name": getnameinfo() fails;
\* "setup": a socket cannot be made, bound or listened on;  "select": select()
\* fails, a signal interrupts it for instance;  "getsockname": it fails;
\* "recvmsg": it fails, or brings a datagram without an IP_PKTINFO message.
FaultKinds == {"log", "accept", "name", "setup", "select", "getsockname", "recvmsg"}

Fds == {UdpFd, TcpFd} \cup ClientFds

ASSUME ConstantsAssumption ==
    /\ IsFiniteSet(Clients)
    /\ Fds \subseteq Nat \ {0}
    /\ UdpFd # TcpFd
    /\ ClientFds \cap {UdpFd, TcpFd} = {}
    /\ MaxQueue \in Nat
    /\ Faults \subseteq FaultKinds
    /\ Nobody \notin Clients
    /\ Garbage \notin Clients \cup {Nobody}

Destinations == {"null", "freed", "leaked"}

\* What sip_log_event is told about a message: which client_ip_addr_str the event
\* carries, beside who really sent it, whether its destination string was made
\* for it, and whether the call that should have told the destination did not.
\* The peer of a datagram is not represented: Nobody.
SipEvents == [sender: Clients \cup {Nobody},
              client_ip_addr_str: Clients \cup {Nobody, Garbage},
              dest_ip_addr_str: Destinations \cup {"own"},
              untold: BOOLEAN]

VARIABLES
    pktInfo,    \* HAVE_IP_PKTINFO, which autotools define and CMake does not
    pc,         \* where the thread is: "select", "scan" (between two turns of
                \* the for loop), "udp" (at the FD_ISSET of the UDP socket),
                \* "recvmsg" (inside it), "returned" (or aborted)
    master,     \* fd_set master
    reads,      \* fd_set reads, as select() left it
    todo,       \* the members of reads the for loop has not reached yet
    maxSocket,  \* max_socket
    ipBuffer,   \* the stack slot of tcp_client_ip_address_buffer
    dest,       \* what dest_ip_address_buffer points to: "null", the string of
                \* an event that was destroyed ("freed") or dropped ("leaked")
    logged,     \* the last event of this round passed to sip_log_event, or Nobody
    conn,       \* conn[fd]: the client connected on fd, or Nobody
    unread,     \* the fds with data in the receive buffer
    hungUp,     \* the fds whose peer has closed the connection
    backlog,    \* clients waiting to be accepted, first come first served
    udpQueue    \* number of datagrams waiting on the UDP socket

daemonVars == <<pktInfo, pc, master, reads, todo, maxSocket, ipBuffer, dest, logged>>
netVars == <<conn, unread, hungUp, backlog, udpQueue>>
vars == <<daemonVars, netVars>>

TypeOK ==
    /\ pc \in {"select", "scan", "udp", "recvmsg", "returned"}
    /\ master \subseteq Fds
    /\ reads \subseteq Fds
    /\ todo \subseteq reads
    /\ maxSocket \in Fds
    /\ ipBuffer \in Clients \cup {Garbage}
    /\ pktInfo \in BOOLEAN
    /\ dest \in Destinations
    /\ logged \in SipEvents \cup {Nobody}
    /\ conn \in [ClientFds -> Clients \cup {Nobody}]
    /\ unread \subseteq ClientFds
    /\ hungUp \subseteq ClientFds
    /\ backlog \in Seq(Clients)
    /\ Len(backlog) <= Cardinality(Clients)
    /\ udpQueue \in 0 .. MaxQueue

-----------------------------------------------------------------------------
Open == {fd \in ClientFds : conn[fd] # Nobody}

\* Descriptors on which a read would not block.
Readable ==
    {fd \in Open : fd \in unread \/ fd \in hungUp}
    \cup (IF backlog # <<>> THEN {TcpFd} ELSE {})
    \cup (IF udpQueue > 0 THEN {UdpFd} ELSE {})

\* Bug variant: the result of setsockopt is not looked at.
AfterSetUpAnyway == {"select"} \cup (IF "setup" \in Faults THEN {"returned"} ELSE {})

\* The two sockets are bound and listening, or something failed and the thread
\* is over before it began: setsockopt always fails where optname is still 0.
AfterSetUp ==
    (IF pktInfo THEN {"select"} ELSE {})
      \cup (IF "setup" \in Faults \/ ~ pktInfo THEN {"returned"} ELSE {})

\* sip_daemon_init up to its loop; FD_SET of both sockets.
Init ==
    /\ pktInfo \in BOOLEAN
    /\ pc \in AfterSetUp
    /\ master = {UdpFd, TcpFd}
    /\ reads = {}
    /\ todo = {}
    /\ maxSocket = IF UdpFd > TcpFd THEN UdpFd ELSE TcpFd
    /\ ipBuffer = Garbage
    /\ dest = "null"
    /\ logged = Nobody
    /\ conn = [fd \in ClientFds |-> Nobody]
    /\ unread = {}
    /\ hungUp = {}
    /\ backlog = <<>>
    /\ udpQueue = 0

-----------------------------------------------------------------------------
(* The peers.                                                              *)

\* A client may have several connections; one of them waits at a time.
Connect(c) ==
    /\ \A n \in DOMAIN backlog : backlog[n] # c
    /\ backlog' = Append(backlog, c)
    /\ UNCHANGED <<daemonVars, conn, unread, hungUp, udpQueue>>

Send(fd) ==
    /\ conn[fd] # Nobody
    /\ fd \notin hungUp \cup unread
    /\ unread' = unread \cup {fd}
    /\ UNCHANGED <<daemonVars, conn, hungUp, backlog, udpQueue>>

\* The peer closes, or resets: a reset discards what was not read yet.
HangUp(fd) ==
    /\ conn[fd] # Nobody
    /\ fd \notin hungUp
    /\ hungUp' = hungUp \cup {fd}
    /\ unread' \in {unread, unread \ {fd}}
    /\ UNCHANGED <<daemonVars, conn, backlog, udpQueue>>

Datagram ==
    /\ udpQueue < MaxQueue
    /\ udpQueue' = udpQueue + 1
    /\ UNCHANGED <<daemonVars, conn, unread, hungUp, backlog>>

-----------------------------------------------------------------------------
(* The thread.                                                             *)

\* reads = master; select(max_socket + 1, &reads, ...) blocks until one of the
\* watched descriptors is readable.
SelectReturns ==
    /\ pc = "select"
    /\ reads' = {fd \in master \cap Readable : fd <= maxSocket}
    /\ reads' # {}
    /\ todo' = reads'
    /\ pc' = "scan"
    /\ dest' = "null"
    /\ logged' = Nobody
    /\ UNCHANGED <<pktInfo, master, maxSocket, ipBuffer, netVars>>

SelectFails ==
    /\ "select" \in Faults
    /\ pc = "select"
    /\ pc' = "returned"
    /\ UNCHANGED <<pktInfo, master, reads, todo, maxSocket, ipBuffer, dest, logged,
                   netVars>>

\* The for loop has passed max_socket.
ScanEnds ==
    /\ pc = "scan"
    /\ todo = {}
    /\ pc' = "select"
    /\ UNCHANGED <<pktInfo, master, reads, todo, maxSocket, ipBuffer, dest, logged,
                   netVars>>

\* Bug variant: a client's descriptor gets another turn in the same round, in
\* case there is more to read.
TurnNoAdvance(i) ==
    /\ pc = "scan"
    /\ todo # {}
    /\ i = Min(todo)
    /\ todo' = IF i \in ClientFds THEN todo ELSE todo \ {i}

\* The for loop comes to descriptor i.
Turn(i) ==
    /\ pc = "scan"
    /\ todo # {}
    /\ i = Min(todo)
    /\ todo' = todo \ {i}

\* i is the UDP socket: neither of the TCP branches applies.
TurnUdp ==
    /\ Turn(UdpFd)
    /\ pc' = "udp"
    /\ UNCHANGED <<pktInfo, master, reads, maxSocket, ipBuffer, dest, logged, netVars>>

\* Bug variant: max_socket is not raised.
RaisedMaxNever(fd) == maxSocket

\* Bug variant: max_socket is kept one too high, as select() wants it.
RaisedMaxOffByOne(fd) == IF fd > maxSocket THEN fd + 1 ELSE maxSocket

\* max_socket after accept() returned fd.
RaisedMax(fd) == IF fd > maxSocket THEN fd ELSE maxSocket

\* i is the TCP socket: accept() takes the first waiting client and the lowest
\* free descriptor; FD_SET, max_socket, getnameinfo into the buffer.
TurnAcceptOk ==
    /\ Turn(TcpFd)
    /\ Open # ClientFds
    /\ LET fd == Min(ClientFds \ Open)
           c == Head(backlog)
       IN  /\ backlog' = Tail(backlog)
           /\ conn' = [conn EXCEPT ![fd] = c]
           /\ master' = master \cup {fd}
           /\ maxSocket' = RaisedMax(fd)
           /\ \/ ipBuffer' = c /\ pc' = "udp"
              \/ "name" \in Faults /\ UNCHANGED ipBuffer /\ pc' = "returned"
    /\ UNCHANGED <<pktInfo, reads, dest, logged, unread, hungUp, udpQueue>>

\* accept() fails: no descriptor is left (the client keeps waiting), or the
\* connection was aborted; continue.
TurnAcceptFails ==
    /\ Turn(TcpFd)
    /\ \/ Open = ClientFds /\ UNCHANGED backlog
       \/ "accept" \in Faults /\ backlog' = Tail(backlog)
    /\ pc' = "scan"
    /\ UNCHANGED <<pktInfo, master, reads, maxSocket, ipBuffer, dest, logged,
                   conn, unread, hungUp, udpQueue>>

\* Bug variant: the socket is closed but stays in master.
ClearedNot(fd) == master

\* FD_CLR(i, &master).
Cleared(fd) == master \ {fd}

\* i is a connected client with nothing left to read: close it.
TurnClose(fd) ==
    /\ Turn(fd)
    /\ fd \in ClientFds \ unread
    /\ master' = Cleared(fd)
    /\ conn' = [conn EXCEPT ![fd] = Nobody]
    /\ hungUp' = hungUp \ {fd}
    /\ pc' = "scan"
    /\ UNCHANGED <<pktInfo, reads, maxSocket, ipBuffer, dest, logged, unread,
                   backlog, udpQueue>>

\* Whether a call that tells the destination fails.
Untold(fault) == {FALSE} \cup (IF fault \in Faults THEN {TRUE} ELSE {})

\* The event gets the string just made, if the code makes one and the call it
\* makes it from did not fail, else whatever dest_ip_address_buffer points to.
SipEvent(sender, ip, asks, untold) ==
    [sender |-> sender, client_ip_addr_str |-> ip,
     dest_ip_addr_str |-> IF asks /\ ~ untold THEN "own" ELSE dest,
     untold |-> untold]

\* Event e is logged and answered, which may fail: then it is dropped without
\* being destroyed, and the loop continues with the next descriptor.  A null
\* destination ends in an assertion; one that was freed is read, and then freed
\* again: the process may go on or end.
Handle(e, next) ==
    \/ /\ e.dest_ip_addr_str = "null"
       /\ pc' = "returned"
       /\ UNCHANGED <<dest, logged>>
    \/ /\ e.dest_ip_addr_str # "null"
       /\ logged' = e
       /\ \/ pc' = next /\ dest' = "freed"
          \/ /\ "log" \in Faults
             /\ pc' = "scan"
             /\ dest' = IF e.dest_ip_addr_str = "own" THEN "leaked" ELSE dest
          \/ e.dest_ip_addr_str = "freed" /\ pc' = "returned" /\ UNCHANGED dest

\* i is a connected client with data: recv, getsockname, build the event, log
\* it, reply.  tcp_client_ip_address_buffer was declared on entering this turn
\* and is not initialised; the slot may still hold what an earlier turn left.
TurnRecv(fd) ==
    /\ Turn(fd)
    /\ fd \in unread
    /\ unread' = unread \ {fd}
    /\ \E ip \in {ipBuffer, Garbage}, untold \in Untold("getsockname") :
         Handle(SipEvent(conn[fd], ip, TRUE, untold), "udp")
    /\ UNCHANGED <<pktInfo, master, reads, maxSocket, ipBuffer, conn, hungUp, backlog,
                   udpQueue>>

\* FD_ISSET(socket_listen_udp, &reads), in the turn of whichever descriptor.
UdpTest ==
    /\ pc = "udp"
    /\ pc' = IF UdpFd \in reads THEN "recvmsg" ELSE "scan"
    /\ UNCHANGED <<pktInfo, master, reads, todo, maxSocket, ipBuffer, dest, logged,
                   netVars>>

\* The datagram's source is looked up; its event is logged and answered.  The
\* destination comes from an IP_PKTINFO control message, where there is one.
HandleDatagram(untold) ==
    \/ Handle(SipEvent(Nobody, Nobody, pktInfo, untold), "scan")
    \/ "name" \in Faults /\ pc' = "returned" /\ UNCHANGED <<dest, logged>>

\* recvmsg returns once a datagram is there.
RecvMsgReturns ==
    /\ pc = "recvmsg"
    /\ udpQueue > 0
    /\ udpQueue' = udpQueue - 1
    /\ \E untold \in Untold("recvmsg") : HandleDatagram(untold)
    /\ UNCHANGED <<pktInfo, master, reads, todo, maxSocket, ipBuffer, conn, unread,
                   hungUp, backlog>>

\* recvmsg fails, which the loop does not look at: it goes on with a control
\* buffer and an address nothing was written to, so that a control message may
\* seem to be there or not, and the address may or may not have a name.
RecvMsgFails ==
    /\ "recvmsg" \in Faults
    /\ pc = "recvmsg"
    /\ \/ \E untold \in BOOLEAN : HandleDatagram(untold)
       \/ pc' = "returned" /\ UNCHANGED <<dest, logged>>
    /\ UNCHANGED <<pktInfo, master, reads, todo, maxSocket, ipBuffer, netVars>>

Daemon ==
    \/ SelectReturns
    \/ ScanEnds
    \/ TurnUdp
    \/ TurnAcceptOk
    \/ TurnAcceptFails
    \/ \E fd \in ClientFds : TurnClose(fd) \/ TurnRecv(fd)
    \/ UdpTest
    \/ RecvMsgReturns

\* A blocking call ends without what it waits for.
Interrupted == SelectFails \/ RecvMsgFails

Peers ==
    \/ \E c \in Clients : Connect(c)
    \/ \E fd \in ClientFds : Send(fd) \/ HangUp(fd)
    \/ Datagram

Next == Daemon \/ Interrupted \/ Peers

Spec == Init /\ [][Next]_vars

\* The thread runs whenever it is not blocked, and datagrams keep coming; the
\* calls it is blocked in need not fail.
TrafficSpec == Spec /\ WF_vars(Daemon) /\ WF_vars(Datagram)

-----------------------------------------------------------------------------
(* Safety.                                                                 *)

\* Whenever the thread is about to block in select(), it watches exactly the
\* sockets that are open, and none lies beyond max_socket: no client is lost
\* and select() is never given a closed descriptor.  master, max_socket and
\* the connections are changed in different branches of the loop body.
WatchesOpenSockets ==
    pc = "select" =>
        /\ master = {UdpFd, TcpFd} \cup Open
        /\ \A fd \in master : fd <= maxSocket

\* reads was computed before the loop body closed and accepted sockets; still,
\* no turn is taken for a descriptor that has been closed since.
TurnsOnOpenSockets ==
    \A fd \in todo \ {UdpFd, TcpFd} : conn[fd] # Nobody

\* dest_ip_address_buffer lives as long as one round of select() and is handed
\* to every event of the round, whose destruction frees it.  Still an event gets
\* a string another one has freed or leaked only when the very call that should
\* have told its own destination failed: no other failure, of an earlier event
\* or of its logging, and no build leads there, because the thread only runs
\* where IP_PKTINFO can replace the string for every datagram.
OwnDestination ==
    logged # Nobody /\ ~ logged.untold => logged.dest_ip_addr_str = "own"

-----------------------------------------------------------------------------
(* What the repository says and the loop does not do.                      *)

\* "saves the IP address they came from" (README.md): the event of a TCP
\* message carries the address of the client that sent it.
SourceIsSender == logged # Nobody => logged.client_ip_addr_str = logged.sender

-----------------------------------------------------------------------------
(* Liveness, under TrafficSpec.                                            *)

Waiting(c) == \E n \in DOMAIN backlog : backlog[n] = c

\* As long as datagrams keep arriving, no TCP client is starved: a waiting
\* client is accepted unless the descriptors run out, and data is read, or
\* the thread has returned.  Between two turns of the TCP socket the thread
\* may sit in a recvmsg that select() did not promise, so this rests on the
\* next datagram coming.
TcpServed ==
    /\ \A fd \in ClientFds : (fd \in unread) ~> (fd \notin unread \/ pc = "returned")
    /\ \A c \in Clients :
         Waiting(c) ~> (~ Waiting(c) \/ Open = ClientFds \/ pc = "returned")
=============================================================================
