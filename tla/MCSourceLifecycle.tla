------------------------- MODULE MCSourceLifecycle -------------------------
(* SourceLifecycle for TLC: sources and requests are interchangeable. *)
EXTENDS SourceLifecycle, TLC

Symmetry == Permutations(Source) \cup Permutations(Request)
=============================================================================
