--------------------------- MODULE MCMessageQueue ---------------------------
(* Values of MessageQueue's constants for TLC.                              *)
EXTENDS MessageQueue

CONSTANTS dm, dm2, bc, zh

\* A verified auto-response (three attempts) beside messages without override.
MCOverride == [m \in Msg |-> IF m = dm2 THEN 3 ELSE 0]
=============================================================================
