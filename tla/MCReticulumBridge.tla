--------------------------- MODULE MCReticulumBridge ---------------------------
(***************************************************************************)
(* ReticulumBridge for TLC: sockets are interchangeable.                   *)
(***************************************************************************)
EXTENDS ReticulumBridge, TLC

SocketSymmetry == Permutations(Socket)
===============================================================================
