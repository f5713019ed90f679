------------------------ MODULE MCExecutionAdmission ------------------------
(* Instances of ExecutionAdmission for TLC. *)
EXTENDS ExecutionAdmission

\* Two bots.  The lead writes the whole project in one run, asks for the same
\* run again after its chat moved to another folder, starts an ACP child to write
\* a part of the project and a run that only reads.  The helper has an ACP child
\* that writes beside that part; w is a write the user makes to the part itself.
\* Of the limits, 3 in all, 2 a bot and 1 ACP child, each can be all that holds a
\* claim back: the third of the lead's runs, the fourth of all, the second child.
MCBots == {"lead", "helper"}
MCClaims == {"l1", "l1b", "l2", "l3", "h1", "w"}
MCDirect == {"w"}
MCbotOf == [c \in Claims |->
              IF c \in {"l1", "l1b", "l2", "l3"} THEN "lead" ELSE "helper"]
MCrunOf == [c \in Claims |-> IF c = "l1b" THEN "l1" ELSE c]
MCkindOf == [c \in Claims |->
              IF c \in {"l2", "h1"} THEN "automatic-acp" ELSE "foreground"]
MCrootOf == [c \in Claims |->
              CASE c = "l1" -> <<"p">>
                [] c \in {"l2", "w"} -> <<"p", "src">>
                [] c = "l1b" -> <<"q">>
                [] c = "l3" -> NoRoot
                [] c = "h1" -> <<"p", "docs">>]

\* Three bots that only read.  Bot a has two ACP children to start and a run in
\* the foreground, b has an ACP child, c runs in the foreground.  With 2 in all, 1
\* a bot and 1 ACP child each limit can be all that holds a claim back: a3 waits
\* for a's child, b1 for the same child, c1 for one run of a and one of b.
MCReaders == {"a1", "a2", "a3", "b1", "c1"}
MCReaderBots == {"a", "b", "c"}
MCReaderBotOf == [c \in MCReaders |->
                    CASE c \in {"a1", "a2", "a3"} -> "a"
                      [] c = "b1" -> "b"
                      [] c = "c1" -> "c"]
MCReaderRunOf == [c \in MCReaders |-> c]
MCReaderKindOf == [c \in MCReaders |->
                     IF c \in {"a3", "c1"} THEN "foreground" ELSE "automatic-acp"]
MCReaderRootOf == [c \in MCReaders |-> NoRoot]
=============================================================================
