----------------------------- MODULE LeaseTable -----------------------------
(***************************************************************************)
(* What the execution admission table promises its callers, without queues,*)
(* limits or paths: every question gets one answer, only a caller that was *)
(* told so holds a lease, and the leases held at any time may be held      *)
(* together.                                                               *)
(***************************************************************************)
CONSTANTS
  Claims,
  MayHold    \* the sets of claims that may hold a lease at the same time

VARIABLES
  answer,    \* per claim, what its caller knows
  held       \* the claims that hold a lease

tableVars == <<answer, held>>

Answers == {"idle", "waiting", "granted", "refused"}

TableInit ==
  /\ answer = [c \in Claims |-> "idle"]
  /\ held = {}

Asks(c) == answer[c] \in {"idle", "refused"} /\ answer'[c] # answer[c]
Returns(c) == answer[c] = "granted" /\ answer'[c] # "granted"
Acts(c) == Asks(c) \/ Returns(c)

\* One call, timer or event.  It may answer any number of waiting claims and
\* take leases away, but only one caller acts in it, and:
\*   - a claim in the queue leaves it by an answer;
\*   - a caller told of a grant does not hear otherwise before it returns it;
\*   - a grant comes with its lease, and a lease taken away stays away.
TableStep ==
  /\ answer' \in [Claims -> Answers]
  /\ \A c \in Claims :
       /\ answer[c] = "waiting" => answer'[c] \in {"waiting", "granted", "refused"}
       /\ answer[c] = "granted" => answer'[c] \in {"granted", "idle"}
       /\ answer[c] = "idle" => answer'[c] \in Answers
       /\ answer[c] = "refused" => answer'[c] # "idle"
  /\ \A c, d \in Claims : Acts(c) /\ Acts(d) => c = d
  /\ held' \in MayHold
  /\ held' \ held = {c \in Claims : answer'[c] = "granted" /\ answer[c] # "granted"}
  /\ held' \subseteq {c \in Claims : answer'[c] = "granted"}

TableSpec == TableInit /\ [][TableStep]_tableVars
=============================================================================
