-------------------------- MODULE MCCoViewSession --------------------------
(***************************************************************************)
(* TLC instance of CoViewSession: a host, a user with two connections and  *)
(* the owner of the server.                                                *)
(***************************************************************************)
EXTENDS CoViewSession, TLC

CONSTANTS a1, b1, o1, alice, bob, olga, s1, s2

Users == a1 :> alice @@ b1 :> bob @@ o1 :> olga
MCUserOf == [c \in Conn |-> Users[c]]
WhiteListsOfBob == {{}, {bob}}
BlackListsOfBob == {{bob}}
=============================================================================
