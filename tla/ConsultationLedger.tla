------------------------- MODULE ConsultationLedger -------------------------
(***************************************************************************)
(* The desktop's ledger of consultations: what each of them has come to,   *)
(* kept in two files that are replaced one after the other                 *)
(* (bot-consultation-ledger.ts).                                           *)
(*                                                                         *)
(* A ledger is a record of `mem`, the records in memory; `rev`, their      *)
(* revision; `primary` and `backup`, the two files; `failed`, set by a     *)
(* save that threw; and `left`, how many more saves may throw, a bound of  *)
(* the model.  An operation gives its outcomes, the ledger it leaves and   *)
(* whether it returned.  A process that ends in the middle of a save       *)
(* leaves what a save that throws leaves.                                  *)
(***************************************************************************)
EXTENDS Naturals, FiniteSets

CONSTANTS
  Dispatches,   \* consultations, by dispatch id
  rootOf,       \* the run at the root of a consultation
  MaxFanOut,    \* consultations of one root, 3 in the code
  MaxFailures

ASSUME LedgerAssumption ==
  /\ IsFiniteSet(Dispatches)
  /\ MaxFanOut \in Nat \ {0}
  /\ MaxFailures \in Nat

Active == {"prepared", "accepted"}
Terminal == {"complete", "cancelled", "error", "timeout"}
Records == [Dispatches -> {"none"} \cup Active \cup Terminal]
Copy == [rev : Nat, recs : Records]
Ledger == [mem : Records, rev : Nat, primary : Copy, backup : Copy,
           failed : BOOLEAN, left : 0 .. MaxFailures]

NoRecords == [d \in Dispatches |-> "none"]
EmptyCopy == [rev |-> 0, recs |-> NoRecords]
EmptyLedger ==
  [mem |-> NoRecords, rev |-> 0, primary |-> EmptyCopy, backup |-> EmptyCopy,
   failed |-> FALSE, left |-> MaxFailures]

\* save(): the records become recs.  Only comparing the copies tells revisions
\* apart, so they are counted from the last save that reached both.
Written(l, recs) ==
  LET both == [rev |-> 0, recs |-> recs]
  IN [mem |-> recs, rev |-> 0, primary |-> both, backup |-> both,
      failed |-> FALSE, left |-> l.left]

\* Mutant: the records are replaced in memory before the files are written.
ThrewOver(l, recs) ==
  LET next == [rev |-> l.rev + 1, recs |-> recs]
  IN {[mem |-> recs, rev |-> l.rev, primary |-> f[1], backup |-> f[2],
       failed |-> TRUE, left |-> l.left - 1] :
        f \in {<<l.primary, l.backup>>, <<next, l.backup>>, <<next, next>>}}

\* A save that throws has replaced neither file, one or both.
Threw(l, recs) ==
  LET next == [rev |-> l.rev + 1, recs |-> recs]
  IN {[mem |-> l.mem, rev |-> l.rev, primary |-> f[1], backup |-> f[2],
       failed |-> TRUE, left |-> l.left - 1] :
        f \in {<<l.primary, l.backup>>, <<next, l.backup>>, <<next, next>>}}

\* After that nothing is written until the ledger is loaded again.
Saved(l, recs) == IF l.failed THEN {} ELSE {Written(l, recs)}
Unsaved(l, recs) ==
  IF l.failed THEN {l} ELSE IF l.left = 0 THEN {} ELSE Threw(l, recs)

Save(l, recs) ==
  {[ledger |-> s, ok |-> TRUE] : s \in Saved(l, recs)}
    \cup {[ledger |-> u, ok |-> FALSE] : u \in Unsaved(l, recs)}

OfRoot(recs, r) == {d \in Dispatches : recs[d] # "none" /\ rootOf[d] = r}

\* prepare(): the last place of a root is given away once.
Prepared(l, d) ==
  IF \/ l.mem[d] # "none"
     \/ Cardinality(OfRoot(l.mem, rootOf[d])) >= MaxFanOut
  THEN {[ledger |-> l, ok |-> FALSE]}
  ELSE Save(l, [l.mem EXCEPT ![d] = "prepared"])

\* Mutant: what is terminal is updated again.
UpdatedAgain(l, d, status) ==
  IF l.mem[d] = "none" THEN {[ledger |-> l, ok |-> FALSE]}
  ELSE Save(l, [l.mem EXCEPT ![d] = status])

\* update(): what is terminal stays.
Updated(l, d, status) ==
  IF l.mem[d] \notin Active
  THEN {[ledger |-> l, ok |-> FALSE]}
  ELSE Save(l, [l.mem EXCEPT ![d] = status])

\* The constructor: the newer copy, if the two do not contradict each other.
Loadable(l) == l.primary.rev = l.backup.rev => l.primary = l.backup

Newer(l) == IF l.primary.rev >= l.backup.rev THEN l.primary ELSE l.backup

Loaded(l) ==
  [mem |-> Newer(l).recs, rev |-> Newer(l).rev, primary |-> l.primary,
   backup |-> l.backup, failed |-> FALSE, left |-> l.left]
=============================================================================
