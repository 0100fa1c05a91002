--------------------------------- MODULE Link ---------------------------------
(***************************************************************************)
(* What the owner of a transport is promised (ITransport in                *)
(* src/src/server/transports/transport.ts): the link it asked for is up or *)
(* being sought until it hangs up, the node never sees two connections of  *)
(* one transport, a connection is replaced only after it is gone, and      *)
(* nothing is left open once the owner has hung up.                        *)
(***************************************************************************)
CONSTANT Socket

VARIABLES
    phase,   \* "idle": not wanted; "seeking": wanted, down; "up"
    conns    \* connections the node can see

Init == phase = "idle" /\ conns = {}

\* The owner asks for the link; the first attempt starts at once.
Open ==
    /\ phase = "idle" /\ phase' = "seeking"
    /\ \E s \in Socket : conns' = {s}

Attempt ==
    /\ phase = "seeking" /\ conns = {} /\ phase' = phase
    /\ \E s \in Socket : conns' = {s}

Establish == phase = "seeking" /\ conns # {} /\ phase' = "up" /\ conns' = conns

\* The connection goes away: refused, timed out, closed by either side.
Drop == conns # {} /\ conns' = {} /\ phase' = phase

\* The owner learns that an established link is gone.
Lose == phase = "up" /\ conns = {} /\ phase' = "seeking" /\ conns' = conns

HangUp == phase' = "idle" /\ conns' = {}

Next == Open \/ Attempt \/ Establish \/ Drop \/ Lose \/ HangUp

Spec == Init /\ [][Next]_<<phase, conns>>
================================================================================
