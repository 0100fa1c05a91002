------------------------ MODULE MCMeshtasticConnection ------------------------
(***************************************************************************)
(* MeshtasticConnection for TLC: transport names are interchangeable.      *)
(***************************************************************************)
EXTENDS MeshtasticConnection, TLC

TransportSymmetry == Permutations(Transport)
===============================================================================
