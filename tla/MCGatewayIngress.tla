-------------------------- MODULE MCGatewayIngress --------------------------
(* Instances of GatewayIngress for TLC. *)
EXTENDS GatewayIngress

\* Two messages of one session, one of which a native adapter hands over too.
MCMessages == {"a", "b"}
MCDirect == {"b"}
MCSessions == {"s"}
MCsessionOf == [m \in Messages |-> "s"]
=============================================================================
