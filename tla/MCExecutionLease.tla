-------------------------- MODULE MCExecutionLease --------------------------
(* Instances of ExecutionLease for TLC. *)
EXTENDS ExecutionLease

\* A turn of a named bot yields its lease, once or twice, to let an ACP child
\* work, while the user may write to the same project.  All three write, so
\* only one of them may execute at a time.
MCBots == {"bot", "user"}
MCRuns == {"turn", "child"}
MCTwice == <<"t1", "t2", "t3">>
MCOnce == <<"t1", "t2">>
MCTwiceClaims == {"t1", "t2", "t3", "c1", "w"}
MCOnceClaims == {"t1", "t2", "c1", "w"}
MCDirect == {"w"}
MCTwiceOf == [r \in MCRuns |-> IF r = "turn" THEN MCTwice ELSE <<"c1">>]
MCOnceOf == [r \in MCRuns |-> IF r = "turn" THEN MCOnce ELSE <<"c1">>]
MCparentOf == [r \in MCRuns |-> IF r = "child" THEN "turn" ELSE NoRun]
MCbotOf == [c \in Claims |-> IF c = "w" THEN "user" ELSE "bot"]
MCrunOf == [c \in Claims |->
              CASE c = "w" -> "w" [] c = "c1" -> "child" [] OTHER -> "turn"]
MCkindOf == [c \in Claims |->
               IF c = "c1" THEN "automatic-acp" ELSE "foreground"]
MCrootOf == [c \in Claims |-> <<"p">>]
=============================================================================
