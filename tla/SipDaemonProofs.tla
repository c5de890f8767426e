--------------------------- MODULE SipDaemonProofs --------------------------
(***************************************************************************)
(* The select() loop keeps its descriptor sets in step with the sockets    *)
(* that are open, with any number of clients and descriptors, and hands    *)
(* every event whose destination it was told a string of its own.          *)
(***************************************************************************)
EXTENDS SipDaemon, FiniteSetTheorems, SequenceTheorems, TLAPS

\* master is right in every state, not only when select() is called.
MasterIsOpen ==
    /\ master = {UdpFd, TcpFd} \cup Open
    /\ \A fd \in master : fd <= maxSocket

\* select() has said that a client waits, and it cannot be gone before accept().
AcceptWontBlock == TcpFd \in todo => backlog # <<>>

\* A client waits once.
BacklogDistinct == \A i, j \in 1 .. Len(backlog) : backlog[i] = backlog[j] => i = j

\* The thread gets past its set-up only where IP_PKTINFO can be had.
RunsWithPktInfo == pc # "returned" => pktInfo

\* The inductive invariant.
IInv ==
    /\ TypeOK
    /\ MasterIsOpen
    /\ TurnsOnOpenSockets
    /\ AcceptWontBlock
    /\ BacklogDistinct
    /\ RunsWithPktInfo
    /\ OwnDestination

-----------------------------------------------------------------------------
(* Operators.                                                              *)

\* Numbers are well ordered: the for loop and accept() find their lowest
\* descriptor.
LEMMA MinExists ==
    ASSUME NEW S \in SUBSET Nat, S # {}
    PROVE  Min(S) \in S
<1> DEFINE Less == {ss \in Nat \X Nat : ss[1] < ss[2]}
<1>1. IsWellFoundedOn(Less, Nat)
  BY NatLessThanWellFounded, Zenon DEF OpToRel
<1> HIDE DEF Less
<1>2. PICK x \in S : \A y \in S : ~ (<<y, x>> \in Less)
  BY <1>1, WFMin
<1>3. ASSUME NEW y \in S PROVE x <= y
  <2>1. x \in Nat /\ y \in Nat /\ <<y, x>> \notin Less
    BY <1>2
  <2>2. ~ (y < x)
    <3>1. <<y, x>> \in Nat \X Nat
      BY <2>1
    <3>2. <<y, x>>[1] = y /\ <<y, x>>[2] = x
      OBVIOUS
    <3> QED BY <2>1, <3>1, <3>2 DEF Less
  <2> QED BY <2>1, <2>2
<1> QED BY <1>3 DEF Min

\* A list of different clients is no longer than their number.
LEMMA DistinctIsShort ==
    ASSUME NEW s \in Seq(Clients), \A i, j \in 1 .. Len(s) : s[i] = s[j] => i = j
    PROVE  Len(s) <= Cardinality(Clients)
<1>1. s \in [1 .. Len(s) -> Clients] /\ Len(s) \in Nat
  OBVIOUS
<1>2. s \in Injection(1 .. Len(s), Clients)
  BY <1>1 DEF Injection, IsInjective
<1>3. Cardinality(1 .. Len(s)) = Len(s)
  <2> DEFINE n == Len(s)
  <2>1. n \in Nat /\ n \in Int /\ 1 \in Int
    BY <1>1
  <2> HIDE DEF n
  <2>2. Cardinality(1 .. n) = IF 1 > n THEN 0 ELSE n - 1 + 1
    BY <2>1, FS_Interval, Zenon
  <2>3. Cardinality(1 .. n) = n
    BY <2>1, <2>2
  <2> QED BY <2>3 DEF n
<1> QED BY <1>2, <1>3, FS_Injection, ConstantsAssumption

\* The fds are numbers, the clients' ones are not the listening ones.
LEMMA FdTypes ==
    /\ ClientFds \subseteq Fds /\ UdpFd \in Fds /\ TcpFd \in Fds /\ Fds \subseteq Nat
    /\ UdpFd \notin ClientFds /\ TcpFd \notin ClientFds /\ UdpFd # TcpFd
BY ConstantsAssumption DEF Fds

\* The turn is one of a descriptor that is due.
LEMMA TurnIsDue ==
    ASSUME TypeOK, NEW i, Turn(i)
    PROVE  i \in todo /\ todo' = todo \ {i}
<1>1. todo \in SUBSET Nat /\ todo # {}
  BY FdTypes DEF TypeOK, Turn
<1> QED BY <1>1, MinExists DEF Turn

-----------------------------------------------------------------------------
LEMMA InitIInv == Init => IInv
<1> SUFFICES ASSUME Init PROVE IInv
  OBVIOUS
<1> USE ConstantsAssumption, FdTypes
<1>1. Open = {}
  BY DEF Init, Open
<1>2. TypeOK
  <2>1. pc \in {"select", "scan", "udp", "recvmsg", "returned"} /\ dest \in Destinations
    BY DEF Init, AfterSetUp, Destinations
  <2>2. backlog \in Seq(Clients) /\ Len(backlog) <= Cardinality(Clients)
    <3>1. backlog = <<>> /\ <<>> \in Seq(Clients) /\ Len(<<>>) = 0
      BY DEF Init
    <3>2. Cardinality(Clients) \in Nat
      BY FS_CardinalityType
    <3> QED BY <3>1, <3>2
  <2> QED BY <2>1, <2>2 DEF Init, TypeOK
<1>3. MasterIsOpen
  BY <1>1 DEF Init, MasterIsOpen
<1>4. TurnsOnOpenSockets /\ AcceptWontBlock /\ BacklogDistinct /\ OwnDestination
  BY DEF Init, TurnsOnOpenSockets, AcceptWontBlock, BacklogDistinct, OwnDestination
<1>5. RunsWithPktInfo
  BY DEF Init, RunsWithPktInfo, AfterSetUp
<1> QED BY <1>2, <1>3, <1>4, <1>5 DEF IInv

\* The peers do not touch what the daemon keeps, nor who is connected.
LEMMA PeersIInv ==
    ASSUME IInv, Peers
    PROVE  IInv'
<1> USE DEF daemonVars
<1>1. UNCHANGED <<daemonVars, conn>>
  BY DEF Peers, Connect, Send, HangUp, Datagram
<1>2. Open' = Open
  BY <1>1 DEF Open
<1>3. /\ unread' \subseteq ClientFds /\ hungUp' \subseteq ClientFds
      /\ udpQueue' \in 0 .. MaxQueue
  BY ConstantsAssumption DEF IInv, TypeOK, Peers, Connect, Send, HangUp, Datagram
<1>4. /\ backlog' \in Seq(Clients)
      /\ BacklogDistinct'
      /\ backlog # <<>> => backlog' # <<>>
  <2>1. CASE backlog' = backlog
    BY <2>1 DEF IInv, TypeOK, BacklogDistinct
  <2>2. ASSUME NEW c \in Clients, Connect(c)
        PROVE  /\ backlog' \in Seq(Clients)
               /\ BacklogDistinct'
               /\ backlog' # <<>>
    <3>1. backlog \in Seq(Clients) /\ backlog' = Append(backlog, c)
      BY <2>2 DEF IInv, TypeOK, Connect
    <3>2. /\ backlog' \in Seq(Clients)
          /\ Len(backlog') = Len(backlog) + 1 /\ Len(backlog) \in Nat
          /\ \A i \in 1 .. Len(backlog) : backlog'[i] = backlog[i]
          /\ backlog'[Len(backlog) + 1] = c
      BY <3>1
    <3>3. \A i \in 1 .. Len(backlog) : backlog[i] # c
      BY <2>2, <3>1 DEF Connect
    <3> QED BY <3>2, <3>3 DEF IInv, BacklogDistinct
  <2> QED BY <2>1, <2>2 DEF Peers, Send, HangUp, Datagram
<1>5. Len(backlog') <= Cardinality(Clients)
  BY <1>4, DistinctIsShort DEF BacklogDistinct
<1>6. TypeOK'
  BY <1>1, <1>3, <1>4, <1>5 DEF IInv, TypeOK
<1>7. MasterIsOpen' /\ TurnsOnOpenSockets'
  BY <1>1, <1>2 DEF IInv, MasterIsOpen, TurnsOnOpenSockets
<1>8. AcceptWontBlock' /\ RunsWithPktInfo' /\ OwnDestination'
  BY <1>1, <1>4 DEF IInv, AcceptWontBlock, RunsWithPktInfo, OwnDestination
<1> QED BY <1>4, <1>6, <1>7, <1>8 DEF IInv

\* The steps that change neither sockets nor sets: SelectReturns apart, they
\* only move the thread on.
LEMMA MovesIInv ==
    ASSUME IInv, SelectFails \/ ScanEnds \/ UdpTest \/ TurnUdp \/ UNCHANGED vars
    PROVE  IInv'
<1> USE DEF netVars
<1>1. /\ UNCHANGED <<pktInfo, master, reads, maxSocket, ipBuffer, dest, logged, netVars>>
      /\ todo' \subseteq todo
      /\ pc' \in {"select", "scan", "udp", "recvmsg", "returned"}
      /\ pc' # "returned" => pc # "returned"
  BY DEF SelectFails, ScanEnds, UdpTest, TurnUdp, Turn, vars, daemonVars, IInv, TypeOK
<1>2. Open' = Open
  BY <1>1 DEF Open
<1>3. TypeOK'
  BY <1>1 DEF IInv, TypeOK
<1>4. MasterIsOpen' /\ TurnsOnOpenSockets'
  BY <1>1, <1>2 DEF IInv, MasterIsOpen, TurnsOnOpenSockets
<1>5. AcceptWontBlock' /\ BacklogDistinct' /\ RunsWithPktInfo' /\ OwnDestination'
  BY <1>1 DEF IInv, AcceptWontBlock, BacklogDistinct, RunsWithPktInfo, OwnDestination
<1> QED BY <1>3, <1>4, <1>5 DEF IInv

\* select() returns descriptors that are open now.
LEMMA SelectIInv ==
    ASSUME IInv, SelectReturns
    PROVE  IInv'
<1> USE DEF SelectReturns, netVars
<1>1. Open' = Open
  BY DEF Open
<1>2. reads' \subseteq master /\ reads' \subseteq Readable /\ todo' = reads'
  OBVIOUS
<1>3. TypeOK'
  BY <1>2 DEF IInv, TypeOK, Destinations
<1>4. MasterIsOpen'
  BY <1>1 DEF IInv, MasterIsOpen
<1>5. TurnsOnOpenSockets'
  BY <1>2 DEF IInv, MasterIsOpen, TurnsOnOpenSockets, Open
<1>6. AcceptWontBlock'
  BY <1>2, FdTypes DEF AcceptWontBlock, Readable, Open
<1>7. BacklogDistinct' /\ RunsWithPktInfo' /\ OwnDestination'
  BY DEF IInv, BacklogDistinct, RunsWithPktInfo, OwnDestination
<1> QED BY <1>3, <1>4, <1>5, <1>6, <1>7 DEF IInv

\* What is left of the backlog after accept().
LEMMA BacklogTail ==
    ASSUME IInv, backlog # <<>>
    PROVE  /\ Head(backlog) \in Clients
           /\ Tail(backlog) \in Seq(Clients)
           /\ Len(Tail(backlog)) <= Cardinality(Clients)
           /\ \A i, j \in 1 .. Len(Tail(backlog)) :
                Tail(backlog)[i] = Tail(backlog)[j] => i = j
<1>1. backlog \in Seq(Clients)
  BY DEF IInv, TypeOK
<1>2. /\ Head(backlog) \in Clients
      /\ Tail(backlog) \in Seq(Clients)
      /\ Len(Tail(backlog)) = Len(backlog) - 1
      /\ \A i \in 1 .. Len(Tail(backlog)) : Tail(backlog)[i] = backlog[i + 1]
  BY <1>1, HeadTailProperties
<1>3. \A i, j \in 1 .. Len(Tail(backlog)) : Tail(backlog)[i] = Tail(backlog)[j] => i = j
  <2> SUFFICES ASSUME NEW i \in 1 .. Len(Tail(backlog)), NEW j \in 1 .. Len(Tail(backlog)),
                      Tail(backlog)[i] = Tail(backlog)[j]
               PROVE  i = j
    OBVIOUS
  <2>1. Len(backlog) \in Nat
    BY <1>1
  <2>2. i + 1 \in 1 .. Len(backlog) /\ j + 1 \in 1 .. Len(backlog)
    BY <1>2, <2>1
  <2>3. backlog[i + 1] = backlog[j + 1]
    BY <1>2
  <2>4. i + 1 = j + 1
    BY <2>2, <2>3 DEF IInv, BacklogDistinct
  <2> QED BY <1>2, <2>1, <2>4
<1> QED BY <1>2, <1>3, DistinctIsShort

LEMMA AcceptOkIInv ==
    ASSUME IInv, TurnAcceptOk
    PROVE  IInv'
<1> USE FdTypes DEF TurnAcceptOk
<1> DEFINE fd == Min(ClientFds \ Open)
           c == Head(backlog)
<1>1. TcpFd \in todo /\ todo' = todo \ {TcpFd} /\ pc = "scan"
  BY TurnIsDue DEF IInv, Turn
<1>2. backlog # <<>>
  BY <1>1 DEF IInv, AcceptWontBlock
<1>3. fd \in ClientFds \ Open
  <2>1. ClientFds \ Open \in SUBSET Nat /\ ClientFds \ Open # {}
    BY DEF Open
  <2> QED BY <2>1, MinExists
<1>4. /\ backlog' = Tail(backlog)
      /\ conn' = [conn EXCEPT ![fd] = c]
      /\ master' = master \cup {fd}
      /\ maxSocket' = RaisedMax(fd)
      /\ \/ ipBuffer' = c /\ pc' = "udp"
         \/ "name" \in Faults /\ UNCHANGED ipBuffer /\ pc' = "returned"
      /\ UNCHANGED <<pktInfo, reads, dest, logged, unread, hungUp, udpQueue>>
  OBVIOUS
<1> HIDE DEF fd, c, TurnAcceptOk
<1>5. c \in Clients
  BY <1>2, BacklogTail DEF c
<1>6. /\ conn' \in [ClientFds -> Clients \cup {Nobody}]
      /\ conn'[fd] = c
      /\ \A d \in ClientFds \ {fd} : conn'[d] = conn[d]
  BY <1>3, <1>4, <1>5 DEF IInv, TypeOK
<1>7. Open' = Open \cup {fd}
  BY <1>3, <1>5, <1>6, ConstantsAssumption DEF Open
<1>8. TypeOK'
  <2>1. master' \subseteq Fds /\ maxSocket' \in Fds /\ todo' \subseteq reads'
    BY <1>1, <1>3, <1>4 DEF IInv, TypeOK, RaisedMax
  <2>2. backlog' \in Seq(Clients) /\ Len(backlog') <= Cardinality(Clients)
    BY <1>2, <1>4, BacklogTail
  <2> QED BY <1>4, <1>5, <1>6, <2>1, <2>2 DEF IInv, TypeOK
<1>9. MasterIsOpen'
  <2>1. maxSocket \in Nat /\ fd \in Nat /\ master \subseteq Nat
    BY <1>3 DEF IInv, TypeOK
  <2> QED BY <1>4, <1>7, <2>1 DEF IInv, MasterIsOpen, RaisedMax
<1>10. TurnsOnOpenSockets'
  BY <1>1, <1>5, <1>6, ConstantsAssumption DEF IInv, TurnsOnOpenSockets, TypeOK, Fds
<1>11. AcceptWontBlock' /\ RunsWithPktInfo' /\ OwnDestination'
  BY <1>1, <1>4 DEF IInv, AcceptWontBlock, RunsWithPktInfo, OwnDestination
<1>12. BacklogDistinct'
  BY <1>2, <1>4, BacklogTail DEF BacklogDistinct
<1> QED BY <1>8, <1>9, <1>10, <1>11, <1>12 DEF IInv

LEMMA AcceptFailsIInv ==
    ASSUME IInv, TurnAcceptFails
    PROVE  IInv'
<1> USE FdTypes DEF TurnAcceptFails
<1>1. TcpFd \in todo /\ todo' = todo \ {TcpFd} /\ pc = "scan"
  BY TurnIsDue DEF IInv, Turn
<1>2. backlog # <<>>
  BY <1>1 DEF IInv, AcceptWontBlock
<1>3. /\ backlog' \in Seq(Clients) /\ Len(backlog') <= Cardinality(Clients)
      /\ BacklogDistinct'
  <2>1. CASE backlog' = backlog
    BY <2>1 DEF IInv, TypeOK, BacklogDistinct
  <2>2. CASE backlog' = Tail(backlog)
    BY <1>2, <2>2, BacklogTail DEF BacklogDistinct
  <2> QED BY <2>1, <2>2
<1>4. Open' = Open
  BY DEF Open
<1>5. TypeOK'
  BY <1>1, <1>3 DEF IInv, TypeOK
<1>6. MasterIsOpen' /\ TurnsOnOpenSockets'
  BY <1>1, <1>4 DEF IInv, MasterIsOpen, TurnsOnOpenSockets
<1>7. AcceptWontBlock' /\ RunsWithPktInfo' /\ OwnDestination'
  BY <1>1 DEF IInv, AcceptWontBlock, RunsWithPktInfo, OwnDestination
<1> QED BY <1>3, <1>5, <1>6, <1>7 DEF IInv

\* A closed descriptor leaves the sets, and its turn was the last one it has.
LEMMA CloseIInv ==
    ASSUME IInv, NEW fd \in ClientFds, TurnClose(fd)
    PROVE  IInv'
<1> USE FdTypes DEF TurnClose, Cleared
<1>1. fd \in todo /\ todo' = todo \ {fd} /\ pc = "scan"
  BY TurnIsDue DEF IInv, Turn
<1>2. /\ conn' \in [ClientFds -> Clients \cup {Nobody}]
      /\ conn'[fd] = Nobody
      /\ \A d \in ClientFds \ {fd} : conn'[d] = conn[d]
  BY DEF IInv, TypeOK
<1>3. Open' = Open \ {fd}
  BY <1>2 DEF Open
<1>4. TypeOK'
  BY <1>1, <1>2 DEF IInv, TypeOK
<1>5. MasterIsOpen'
  BY <1>3 DEF IInv, MasterIsOpen
<1>6. TurnsOnOpenSockets'
  BY <1>1, <1>2 DEF IInv, TurnsOnOpenSockets, TypeOK, Fds
<1>7. AcceptWontBlock' /\ BacklogDistinct' /\ RunsWithPktInfo' /\ OwnDestination'
  BY <1>1 DEF IInv, AcceptWontBlock, BacklogDistinct, RunsWithPktInfo, OwnDestination
<1> QED BY <1>4, <1>5, <1>6, <1>7 DEF IInv

\* An event is logged: the sockets and sets stay as they are.
LEMMA EventIInv ==
    ASSUME IInv,
           UNCHANGED <<pktInfo, master, reads, maxSocket, ipBuffer, conn, hungUp, backlog>>,
           todo' \subseteq todo, pc # "returned",
           pc' \in {"scan", "udp", "returned"}, dest' \in Destinations,
           unread' \subseteq unread, udpQueue' \in 0 .. MaxQueue,
           \/ logged' = logged
           \/ logged' \in SipEvents /\ (~ logged'.untold => logged'.dest_ip_addr_str = "own")
    PROVE  IInv'
<1>1. Open' = Open
  BY DEF Open
<1>2. TypeOK'
  BY DEF IInv, TypeOK
<1>3. MasterIsOpen' /\ TurnsOnOpenSockets'
  BY <1>1 DEF IInv, MasterIsOpen, TurnsOnOpenSockets
<1>4. AcceptWontBlock' /\ BacklogDistinct' /\ RunsWithPktInfo' /\ OwnDestination'
  BY DEF IInv, AcceptWontBlock, BacklogDistinct, RunsWithPktInfo, OwnDestination
<1> QED BY <1>2, <1>3, <1>4 DEF IInv

\* An event that is handled, or not because there is no destination at all.
LEMMA HandleKeeps ==
    ASSUME IInv,
           NEW sender \in Clients \cup {Nobody}, NEW ip \in Clients \cup {Nobody, Garbage},
           NEW asks \in BOOLEAN, NEW untold \in BOOLEAN, asks,
           NEW next \in {"scan", "udp"}, Handle(SipEvent(sender, ip, asks, untold), next)
    PROVE  /\ pc' \in {"scan", "udp", "returned"}
           /\ dest' \in Destinations
           /\ \/ logged' = logged
              \/ logged' \in SipEvents /\ (~ logged'.untold => logged'.dest_ip_addr_str = "own")
<1> DEFINE e == SipEvent(sender, ip, asks, untold)
<1>1. e \in SipEvents /\ (~ e.untold => e.dest_ip_addr_str = "own")
  BY DEF SipEvent, SipEvents, IInv, TypeOK
<1> HIDE DEF e
<1>2. Handle(e, next)
  BY DEF e
<1>3. dest \in Destinations
  BY DEF IInv, TypeOK
<1> QED BY <1>1, <1>2, <1>3 DEF Handle, Destinations

LEMMA RecvIInv ==
    ASSUME IInv, NEW fd \in ClientFds, TurnRecv(fd)
    PROVE  IInv'
<1>1. todo' \subseteq todo /\ pc = "scan"
  BY DEF TurnRecv, Turn
<1>2. PICK ip \in {ipBuffer, Garbage}, untold \in Untold("getsockname") :
        Handle(SipEvent(conn[fd], ip, TRUE, untold), "udp")
  BY DEF TurnRecv
<1>3. /\ conn[fd] \in Clients \cup {Nobody} /\ ip \in Clients \cup {Nobody, Garbage}
      /\ untold \in BOOLEAN
  BY <1>2 DEF IInv, TypeOK, Untold
<1>4. unread' \subseteq unread /\ udpQueue' \in 0 .. MaxQueue
  BY DEF TurnRecv, IInv, TypeOK
<1>5. UNCHANGED <<pktInfo, master, reads, maxSocket, ipBuffer, conn, hungUp, backlog>>
  BY DEF TurnRecv
<1>6. /\ pc' \in {"scan", "udp", "returned"}
      /\ dest' \in Destinations
      /\ \/ logged' = logged
         \/ logged' \in SipEvents /\ (~ logged'.untold => logged'.dest_ip_addr_str = "own")
  BY <1>2, <1>3, HandleKeeps
<1> QED BY <1>1, <1>4, <1>5, <1>6, EventIInv

\* A datagram is received, or the thread believes so.
LEMMA RecvMsgIInv ==
    ASSUME IInv, RecvMsgReturns \/ RecvMsgFails
    PROVE  IInv'
<1>1. pc = "recvmsg" /\ pktInfo
  BY DEF RecvMsgReturns, RecvMsgFails, IInv, RunsWithPktInfo
<1>2. \/ \E untold \in BOOLEAN : HandleDatagram(untold)
      \/ pc' = "returned" /\ UNCHANGED <<dest, logged>>
  BY DEF RecvMsgReturns, RecvMsgFails, Untold
<1> DEFINE Kept == /\ pc' \in {"scan", "udp", "returned"}
                   /\ dest' \in Destinations
                   /\ \/ logged' = logged
                      \/ /\ logged' \in SipEvents
                         /\ ~ logged'.untold => logged'.dest_ip_addr_str = "own"
<1>3. Kept
  <2>1. CASE pc' = "returned" /\ UNCHANGED <<dest, logged>>
    BY <2>1 DEF IInv, TypeOK
  <2>2. ASSUME NEW untold \in BOOLEAN,
               Handle(SipEvent(Nobody, Nobody, pktInfo, untold), "scan")
        PROVE  Kept
    <3>1. pktInfo \in BOOLEAN
      BY DEF IInv, TypeOK
    <3> QED BY <1>1, <2>2, <3>1, HandleKeeps
  <2> QED BY <1>2, <2>1, <2>2 DEF HandleDatagram
<1>4. /\ unread' \subseteq unread /\ udpQueue' \in 0 .. MaxQueue /\ todo' \subseteq todo
      /\ UNCHANGED <<pktInfo, master, reads, maxSocket, ipBuffer, conn, hungUp, backlog>>
  BY ConstantsAssumption DEF IInv, TypeOK, RecvMsgReturns, RecvMsgFails, netVars
<1> QED BY <1>1, <1>3, <1>4, EventIInv

LEMMA StepIInv == IInv /\ [Next]_vars => IInv'
<1> SUFFICES ASSUME IInv, [Next]_vars PROVE IInv'
  OBVIOUS
<1>1. CASE Daemon
  BY <1>1, SelectIInv, MovesIInv, AcceptOkIInv, AcceptFailsIInv, CloseIInv, RecvIInv,
     RecvMsgIInv DEF Daemon
<1>2. CASE Interrupted
  BY <1>2, MovesIInv, RecvMsgIInv DEF Interrupted
<1> QED BY <1>1, <1>2, PeersIInv, MovesIInv DEF Next

LEMMA AlwaysIInv == Spec => []IInv
BY InitIInv, StepIInv, PTL DEF Spec

\* The state of the loop is well typed; accept() is called only when somebody
\* waits, so Head and Tail of the backlog mean something.
THEOREM TypeCorrect == Spec => []TypeOK
<1>1. IInv => TypeOK
  BY DEF IInv
<1> QED BY <1>1, AlwaysIInv, PTL

\* select() is given exactly the open sockets, none of them beyond max_socket.
THEOREM WatchesAllOpen == Spec => []WatchesOpenSockets
<1>1. IInv => WatchesOpenSockets
  BY DEF IInv, MasterIsOpen, WatchesOpenSockets
<1> QED BY <1>1, AlwaysIInv, PTL

\* No turn of the for loop is taken for a socket that was closed in the same
\* round, although reads is a copy from before.
THEOREM TurnsAreOpen == Spec => []TurnsOnOpenSockets
<1>1. IInv => TurnsOnOpenSockets
  BY DEF IInv
<1> QED BY <1>1, AlwaysIInv, PTL

\* An event carries a destination string that another one has freed or leaked
\* only if getsockname(), or recvmsg(), did not tell its own.
THEOREM DestinationsAreOwn == Spec => []OwnDestination
<1>1. IInv => OwnDestination
  BY DEF IInv
<1> QED BY <1>1, AlwaysIInv, PTL
=============================================================================
