---------------------------- MODULE MCSipDaemon -----------------------------
(* Two clients, which may both connect more than once; two descriptors for *)
(* them, one below and one above the listening sockets, so that accept()   *)
(* can run out of them.                                                    *)
EXTENDS SipDaemon

CONSTANTS c1, c2

SomeFaults == FaultKinds
NoFaults == {}
=============================================================================
