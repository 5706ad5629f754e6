------------------------ MODULE MCCentralMembership ------------------------
(***************************************************************************)
(* TLC instance of CentralMembership. Two requests at a time are enough    *)
(* for one to change what the other has checked.                           *)
(***************************************************************************)
EXTENDS CentralMembership, TLC

CONSTANTS a1, a2, s1, s2, h1, h2      \* accounts, servers, handlers

Symmetry ==
    Permutations(Handler) \cup Permutations(Account) \cup Permutations(Server)
=============================================================================
