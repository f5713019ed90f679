-------------------------- MODULE OneShotDispatch --------------------------
(***************************************************************************)
(* What a consultation promises, without files, workers and messages: the  *)
(* intent is durable before the one submission, and between the two the    *)
(* run that consults was found active; a dispatch ends once, no failure    *)
(* and no restart takes anything back, and a caller is told the recorded   *)
(* end.                                                                    *)
(***************************************************************************)
CONSTANTS
  Dispatches,
  Outcomes      \* how a dispatch may end

VARIABLES
  recorded,     \* per dispatch, what is durable: "none", "open" or its end
  submitted,    \* dispatches whose run was submitted
  told,         \* per dispatch, the outcome its caller knows, or "none"
  confirmed,    \* dispatches whose origin was found active since the intent
  originActive  \* dispatches whose origin is active: of the world, which may
                \* change it at any step

dispatchVars == <<recorded, submitted, told, confirmed>>

DispatchInit ==
  /\ recorded = [d \in Dispatches |-> "none"]
  /\ submitted = {}
  /\ told = [d \in Dispatches |-> "none"]
  /\ confirmed = {}

\* What was found of origins may be given up at any step.
Forgetful == confirmed' \subseteq confirmed

Intend(d) ==
  /\ recorded[d] = "none"
  /\ recorded' = [recorded EXCEPT ![d] = "open"]
  /\ Forgetful
  /\ UNCHANGED <<submitted, told>>

Confirm(d) ==
  /\ recorded[d] # "none"
  /\ d \in originActive
  /\ confirmed' = confirmed \cup {d}
  /\ UNCHANGED <<recorded, submitted, told>>

Submit(d) ==
  /\ recorded[d] = "open"
  /\ d \in confirmed
  /\ d \notin submitted
  /\ submitted' = submitted \cup {d}
  /\ Forgetful
  /\ UNCHANGED <<recorded, told>>

\* Any number of dispatches end, as when a bot is stopped; none may be to end.
End(ended, outcome) ==
  /\ \A d \in ended : recorded[d] = "open"
  /\ recorded' = [d \in Dispatches |-> IF d \in ended THEN outcome ELSE recorded[d]]
  /\ Forgetful
  /\ UNCHANGED <<submitted, told>>

\* The caller learns the end of a submitted dispatch with its record.
Tell(d, outcome) ==
  /\ d \in submitted
  /\ recorded[d] = "open"
  /\ recorded' = [recorded EXCEPT ![d] = outcome]
  /\ told' = [told EXCEPT ![d] = outcome]
  /\ Forgetful
  /\ UNCHANGED submitted

DispatchNext ==
  \/ \E ended \in SUBSET Dispatches, outcome \in Outcomes : End(ended, outcome)
  \/ \E d \in Dispatches : Intend(d) \/ Confirm(d) \/ Submit(d)
  \/ \E d \in Dispatches, outcome \in Outcomes : Tell(d, outcome)

DispatchSpec == DispatchInit /\ [][DispatchNext]_dispatchVars
=============================================================================
