------------------------- MODULE MCContactLifecycle -------------------------
(* ContactLifecycle on small instances; requests are interchangeable.      *)
EXTENDS ContactLifecycle, TLC

Symmetry == Permutations(Request)
=============================================================================
