----------------------------- MODULE MCWebHook ------------------------------
(* A SIP thread and the DHT listener, and as many blocks as make malloc    *)
(* always find an unused one.                                              *)
EXTENDS WebHook

CONSTANTS sip, dht, k1, k2, k3
=============================================================================
