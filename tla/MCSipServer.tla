---------------------------- MODULE MCSipServer -----------------------------
(* Two peers, on one transport or on two, and one event from the DHT.      *)
EXTENDS SipServer

CONSTANTS m1, m2, f1

\* A datagram and a connection, or two connections over TLS.
MCTransports ==
    {[m \in Messages |-> IF m = m1 THEN "udp" ELSE "tcp"], [m \in Messages |-> "tls"]}

\* The modes with these three flags.
ModesOf(flags) ==
    {[json_log_mode |-> x[1], webhook_mode |-> x[2], sip_responsive_mode |-> x[3]] :
        x \in flags}

\* The JSON log, without replies; the WebHook, with replies.
MCModes == ModesOf({<<TRUE, FALSE, FALSE>>, <<FALSE, TRUE, TRUE>>})
=============================================================================
