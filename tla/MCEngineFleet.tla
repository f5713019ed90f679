---------------------------- MODULE MCEngineFleet ----------------------------
(* Instances of EngineFleet for TLC. *)
EXTENDS EngineFleet

\* One bot that is started twice.
MCBot == {"a"}
MCBotBackends == {"a1", "a2"}
MCTwice == [b \in Bots |-> <<"a1", "a2">>]

\* Two bots that are started once each, for one start slot.
MCBots == {"a", "z"}
MCBackends == {"a1", "z1"}
MCOnce == [b \in Bots |-> IF b = "a" THEN <<"a1">> ELSE <<"z1">>]

MCbotOf == [k \in Backends |-> IF k = "z1" THEN "z" ELSE "a"]

\* The first bot is stopped or updated once.
MCStoppedOnce == [b \in Bots |-> IF b = "a" THEN 1 ELSE 0]
=============================================================================
