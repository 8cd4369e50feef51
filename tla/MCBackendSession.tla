-------------------------- MODULE MCBackendSession --------------------------
(* BackendSession on small instances. *)
EXTENDS BackendSession, TLC

CONSTANTS r1, r2, r3, c1, c2, s1, s2, v1, v2

(* Requests, session ids and versions are only compared for equality. *)
Symmetry ==
    Permutations({r1, r2, r3} \cap Request) \cup Permutations({s1, s2} \cap SessionId)
        \cup Permutations({v1, v2} \cap Version)
=============================================================================
