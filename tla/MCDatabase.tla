----------------------------- MODULE MCDatabase -----------------------------
(* One SIP worker, the DHT listener and one or two HTTP threads; two own   *)
(* events and one foreign one.  The foreign event has an old timestamp and *)
(* a called_number no list selects; as it can be stored twice, a text may  *)
(* stand in two rows.  The called_number of the second own event, raw, is  *)
(* not UTF-8.                                                              *)
EXTENDS Database

CONSTANTS s1, d1, h1, h2, o1, o2, f1, ipA, ipB, ipC, num, raw, user

MCColumn ==
    [source_ip |-> [e \in Events |-> CASE e = o1 -> ipA [] e = o2 -> ipB [] OTHER -> ipC],
     called_number |-> [e \in Events |-> CASE e = o1 -> num [] e = o2 -> raw [] OTHER -> user]]

MCTimestamp == [e \in Events |-> CASE e = o1 -> 2 [] e = o2 -> 3 [] OTHER -> 1]
=============================================================================
