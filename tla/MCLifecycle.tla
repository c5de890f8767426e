---------------------------- MODULE MCLifecycle -----------------------------
(* The mode flags each run starts with.                                    *)
EXTENDS Lifecycle

CONSTANTS w1, w2

CMode == {m \in AllModes : ~ m.new_mode /\ m.sip_mode}
=============================================================================
