--------------------------- MODULE MCConsultation ---------------------------
(* Instances of Consultation for TLC. *)
EXTENDS Consultation

\* The lead asks x, and x, while it answers, asks y.
MCBots == {"lead", "x", "y"}
MCDispatches == {"p", "q"}
MCrootOf == [d \in MCDispatches |-> "r"]
MCoriginBot == [p |-> "lead", q |-> "x"]
MCtargetBot == [p |-> "x", q |-> "y"]
MCparentOf == [p |-> "none", q |-> "p"]
=============================================================================
