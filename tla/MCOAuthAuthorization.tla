------------------------ MODULE MCOAuthAuthorization ------------------------
(* Two tabs of one browser.  Tabs, users and versions are interchangeable: *)
(* no definition tells one from another.                                   *)
EXTENDS OAuthAuthorization, TLC

Symmetry == Permutations(Tab) \cup Permutations(User) \cup Permutations(Version)
=============================================================================
