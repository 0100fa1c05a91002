--------------------------- MODULE MCChannelReorder ---------------------------
(***************************************************************************)
(* ChannelReorder for TLC: channels are interchangeable.                   *)
(***************************************************************************)
EXTENDS ChannelReorder, TLC

ChannelSymmetry == Permutations(Channel)
===============================================================================
