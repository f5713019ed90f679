--------------------------- MODULE MCRunController ---------------------------
(* Instances of RunController for TLC. *)
EXTENDS RunController

\* Two chats of one session, beside a direct turn of another.
MCSessions == {"s", "t"}
MCBeside == {"a", "b", "f"}

\* Two chats and a direct turn, all of one session.
MCTwoServed == {"a", "b"}
MCRuns == {"a", "b", "d"}
MCsessionOf == [r \in Runs |-> IF r \in {"c", "f"} THEN "t" ELSE "s"]

\* Successive direct turns of one session, beside a chat of another.
MCDirectServed == {"c"}
MCDirectRuns == {"c", "d", "e"}
=============================================================================
