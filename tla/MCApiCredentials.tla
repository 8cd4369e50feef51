-------------------------- MODULE MCApiCredentials --------------------------
(* ApiCredentials on small instances. *)
EXTENDS ApiCredentials, TLC

CONSTANTS r1, r2, u1, a1, a2, x1, x2, k1, t1, t2

(* Requests, scopes and tokens are only compared for equality. *)
Symmetry ==
    Permutations(Request) \cup Permutations(Scope) \cup Permutations(Token)
=============================================================================
