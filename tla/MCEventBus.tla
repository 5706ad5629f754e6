----------------------------- MODULE MCEventBus -----------------------------
(***************************************************************************)
(* TLC instance of EventBus: two plugins, one plugin topic, and a pattern  *)
(* each for that topic and for the notices of the runtime, so that an      *)
(* overflow can be announced to a subscription that overflows in its turn. *)
(***************************************************************************)
EXTENDS EventBus

CONSTANTS a, b,       \* plugins
          chat        \* a topic

MCAsks == [s \in {<<"chat", b>>, <<"runtime", a>>, <<"runtime", b>>} |->
             IF s[1] = "chat" THEN Policy
             ELSE IF s[2] = a THEN {"drop_oldest"} ELSE {"mark_unhealthy"}]

MCCovers == [r \in Pattern |-> IF r = "chat" THEN {chat} ELSE Notice]
=============================================================================
