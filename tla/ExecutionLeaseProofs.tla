------------------------ MODULE ExecutionLeaseProofs ------------------------
(***************************************************************************)
(* Safety of the execution leases of a worker's runs, for every set of     *)
(* runs, claims and limits: what the worker believes it holds is never     *)
(* ahead of the admission table, nothing it was granted is left behind,    *)
(* and nothing it asks for is refused because of itself.                   *)
(***************************************************************************)
EXTENDS ExecutionLease, AdmissionQueueProofs

-----------------------------------------------------------------------------
(* What the steps of the admission table keep *)

\* No lease but those of X is lost, and whoever hears of a grant holds a lease.
Keeps(X) ==
  /\ leases \ X \subseteq leases'
  /\ \A c \in Claims :
       promise'[c] = "accepted" /\ promise[c] # "accepted" => c \in leases'

\* Nobody but the claim itself changes its answer, or gives it a lease, unless
\* it waits; and nobody who waits is told that the run exists.
Undisturbed(c) ==
  /\ promise'[c] # promise[c] =>
       promise[c] = "waiting" /\ promise'[c] \notin {"idle", "run_exists"}
  /\ c \in leases' => c \in leases \/ promise[c] = "waiting"

Leaves(X) == \A c \in Claims \ X : Undisturbed(c)

LEMMA StepAnswers ==
  ASSUME Orderly, [Next]_vars, NEW c \in Claims,
         promise'[c] = "accepted", promise[c] # "accepted"
  PROVE  c \in leases'
<1>1. CASE Step
  <2>1. PICK t : Become(t) /\ GoodStep(Store, t)
    BY <1>1 DEF Step
  <2> QED BY <2>1, StoreFields DEF GoodStep, Answered, Become
<1>2. CASE UNCHANGED vars
  BY <1>2 DEF vars
<1> QED BY <1>1, <1>2, EveryStep

\* What drain() is left with stays.
LEMMA DrainKeeps ==
  ASSUME NEW s \in GoodStores, BecomeOneOf(Drain(s))
  PROVE  /\ s.leases \subseteq leases'
         /\ \A c \in Claims :
              /\ s.promise[c] # "waiting" =>
                   promise'[c] = s.promise[c] /\ (c \in leases' => c \in s.leases)
              /\ s.promise[c] = "waiting" => promise'[c] \in {"waiting", "accepted"}
<1>1. PICK t \in Drain(s) : Become(t)
  BY DEF BecomeOneOf
<1>2. Drained(s, t)
  BY DrainEnds
<1> QED BY <1>1, <1>2 DEF Become, Drained

\* What drain() leaves of a claim that the method before it left, or turned away.
LEMMA DrainLeaves ==
  ASSUME NEW s \in GoodStores, BecomeOneOf(Drain(s)), s.leases \subseteq leases,
         NEW c \in Claims,
         \/ s.promise[c] = promise[c]
         \/ promise[c] = "waiting" /\ s.promise[c] \notin {"idle", "run_exists", "waiting"}
  PROVE  Undisturbed(c)
BY DrainKeeps DEF Undisturbed

LEMMA GrowingKeeps ==
  ASSUME Orderly, NEW c \in Claims,
         Claim(c) \/ Acquire(c) \/ Expire(c) \/ Abort(c) \/ UNCHANGED vars
  PROVE  /\ Keeps({}) /\ Leaves({c})
         /\ Expire(c) \/ Abort(c) \/ UNCHANGED vars => Leaves({})
         /\ Acquire(c) /\ promise'[c] = "run_exists" => RunKnown(c)
<1>0. [Next]_vars /\ promise \in [Claims -> Outcomes]
  BY OrderlyFields DEF Next
<1>1. ASSUME NEW p, Settle(c, p)
      PROVE  leases \subseteq leases' /\ Leaves({c}) /\ promise'[c] = p
  BY <1>0, <1>1 DEF Settle, Leaves, Undisturbed
<1>2. ASSUME Claim(c) PROVE leases \subseteq leases' /\ Leaves({c})
  <2>1. CASE Become(Grant(Store, c))
    BY <1>0, <2>1 DEF Become, Grant, Store, Leaves, Undisturbed
  <2> QED BY <1>1, <1>2, <2>1 DEF Claim
<1>3. ASSUME Acquire(c)
      PROVE  /\ leases \subseteq leases' /\ Leaves({c})
             /\ promise'[c] = "run_exists" => RunKnown(c)
  <2>1. CASE ~QueueFull(c) /\ BecomeOneOf(Drain(Enqueue(Store, c)))
    <3>1. Enqueue(Store, c) \in SafeStores
      BY <2>1, OrderlyFields, EnqueueSafe
    <3>2. Store.pendingCount < MaxPending
      BY <2>1, StoreFields, OrderlyFields, LimitsAssumption DEF QueueFull
    <3>3. Edited(Store, Enqueue(Store, c), c)
      BY <1>3, <3>1, <3>2, StoreFields, OrderlyFields, EnqueueEdits DEF Free, Acquire
    <3>4. Enqueue(Store, c) \in GoodStores
      BY <3>3 DEF Edited
    <3>5. /\ Enqueue(Store, c).leases = leases
          /\ Enqueue(Store, c).promise = [promise EXCEPT ![c] = "waiting"]
      BY DEF Enqueue, Store
    <3>6. ASSUME NEW d \in Claims, d # c PROVE Undisturbed(d)
      BY <1>0, <2>1, <3>4, <3>5, <3>6, DrainLeaves
    <3>7. promise'[c] \in {"waiting", "accepted"}
      BY <1>0, <2>1, <3>4, <3>5, DrainKeeps
    <3> QED BY <2>1, <3>4, <3>5, <3>6, <3>7, DrainKeeps DEF Leaves
  <2> QED BY <1>1, <1>3, <2>1 DEF Acquire
<1>4. ASSUME NEW p \in Refusals, p # "run_exists", Withdraw(c, p)
      PROVE  leases \subseteq leases' /\ Leaves({})
  <2> DEFINE s == [RemovePending(Store, c) EXCEPT !.promise[c] = p]
  <2>1. Store.promise[c] = "waiting"
    BY <1>4, StoreFields, OrderlyFields DEF Withdraw, Queued
  <2>2. Edited(Store, s, c)
    BY <2>1, OrderlyFields, WithdrawEdits
  <2>3. s \in GoodStores
    BY <2>2 DEF Edited
  <2>4. s.leases = leases
    BY OrderlyFields, StoreFields, RemovePendingSafe
  <2>5. BecomeOneOf(Drain(s))
    BY <1>4 DEF Withdraw
  <2>6. s.promise = [promise EXCEPT ![c] = p]
    <3>1. RemovePending(Store, c).promise = promise
      BY <2>1, StoreFields DEF RemovePending
    <3>2. RemovePending(Store, c) \in SafeStores
      BY OrderlyFields, RemovePendingSafe
    <3> QED BY <3>1, <3>2 DEF SafeStores, StoreType
  <2> HIDE DEF s
  <2>7. ASSUME NEW d \in Claims PROVE Undisturbed(d)
    <3>1. \/ s.promise[d] = promise[d]
          \/ promise[d] = "waiting" /\ s.promise[d] \notin {"idle", "run_exists", "waiting"}
      BY <1>0, <1>4, <2>1, <2>6, StoreFields DEF Refusals
    <3> QED BY <2>3, <2>4, <2>5, <3>1, DrainLeaves
  <2> QED BY <2>3, <2>4, <2>5, <2>7, DrainKeeps DEF Leaves
<1>5. ASSUME Expire(c) \/ Abort(c) PROVE leases \subseteq leases' /\ Leaves({})
  BY <1>4, <1>5 DEF Expire, Abort, Refusals, Outcomes
<1>6. ASSUME UNCHANGED vars PROVE leases \subseteq leases' /\ Leaves({})
  BY <1>6 DEF vars, Leaves, Undisturbed
<1>7. leases \subseteq leases'
  BY <1>2, <1>3, <1>5, <1>6
<1>8. Leaves({}) => Leaves({c})
  BY DEF Leaves
<1>9. Keeps({})
  BY <1>0, <1>7, StepAnswers DEF Keeps
<1> QED BY <1>2, <1>3, <1>5, <1>6, <1>8, <1>9

LEMMA OrderlyAfter ==
  ASSUME Orderly', NEW c \in Claims, promise'[c] # "accepted"
  PROVE  c \notin leases'
<1>1. Store' \in GoodStores
  BY DEF Orderly
<1>2. Store'.leases = leases' /\ Store'.promise = promise'
  BY DEF Store
<1> QED BY <1>1, <1>2 DEF GoodStores, Queued

LEMMA ReleaseKeeps ==
  ASSUME Orderly, NEW c \in Claims, Release(c)
  PROVE  Keeps({c}) /\ Leaves({c}) /\ promise'[c] = "idle" /\ c \notin leases'
<1>0. [Next]_vars
  BY DEF Next
<1>5. promise'[c] = "idle" => c \notin leases'
  BY <1>0, StepOrderly, OrderlyAfter
<1> DEFINE done == [Store EXCEPT !.promise[c] = "idle"]
           freed == [done EXCEPT !.leases = @ \ {c}]
<1>1. done.leases = leases /\ done.promise = [promise EXCEPT ![c] = "idle"]
  BY DEF Store
<1>2. promise \in [Claims -> Outcomes]
  BY OrderlyFields
<1>3. CASE c \notin leases
  <2>1. Become(done)
    BY <1>3 DEF Release
  <2>2. leases \subseteq leases' /\ promise'[c] = "idle" /\ Leaves({c})
    BY <1>1, <1>2, <2>1 DEF Become, Leaves, Undisturbed
  <2> QED BY <1>0, <1>5, <2>2, StepAnswers DEF Keeps
<1>4. CASE c \in leases
  <2>1. BecomeOneOf(Drain(freed))
    BY <1>4 DEF Release
  <2>2. done \in SafeStores
    <3>1. "idle" \in Outcomes
      BY DEF Outcomes
    <3> QED BY <3>1, OrderlyFields, SetPromise
  <2>3. /\ freed.leases = Store.leases \ {c} /\ freed.pending = Store.pending
        /\ freed.botOrder = Store.botOrder /\ freed.pendingCount = Store.pendingCount
        /\ freed.promise = [Store.promise EXCEPT ![c] = "idle"]
    BY DEF Store
  <2> HIDE DEF done
  <2>4. done.leases \ {c} \in SUBSET Claims /\ PolicyHolds(done.leases \ {c})
    BY <2>2, SafeStoreFields, SubsetKeepsPolicy
  <2>5. freed \in SafeStores
    BY <2>2, <2>4, SetLeases
  <2> HIDE DEF freed
  <2>6. Edited(Store, freed, c)
    BY <1>4, <2>3, <2>5, StoreFields, OrderlyFields, ReleaseEdits
  <2>7. freed \in GoodStores
    BY <2>6 DEF Edited
  <2>8. freed.promise[c] = "idle" /\ freed.leases = leases \ {c}
    BY <1>2, <2>3, StoreFields
  <2>9. leases \ {c} \subseteq leases' /\ promise'[c] = "idle"
    BY <2>1, <2>7, <2>8, DrainKeeps
  <2>10. ASSUME NEW d \in Claims, d # c PROVE Undisturbed(d)
    <3>1. freed.promise[d] = promise[d] /\ freed.leases \subseteq leases
      BY <1>2, <2>3, <2>8, <2>10, StoreFields
    <3> QED BY <2>1, <2>7, <3>1, DrainLeaves
  <2> QED BY <1>0, <1>5, <2>9, <2>10, StepAnswers DEF Keeps, Leaves
<1> QED BY <1>3, <1>4

LEMMA ReleaseBotKeeps ==
  ASSUME Orderly, NEW b \in Bots, ReleaseBot(b)
  PROVE  /\ Keeps(OfBot(b, leases)) /\ Leaves({})
         /\ \A c \in Claims : botOf[c] = b => c \notin leases'
<1>0. [Next]_vars /\ promise \in [Claims -> Outcomes]
  BY OrderlyFields DEF Next
<1> DEFINE s == [leases |-> leases \ OfBot(b, leases),
                 pending |-> [pending EXCEPT ![b] = <<>>],
                 botOrder |-> RemoveFirst(botOrder, b),
                 pendingCount |-> pendingCount - Len(pending[b]),
                 promise |-> [c \in Claims |->
                   IF c \in Waiting(b) THEN "bot_stopped" ELSE promise[c]]]
<1>1. BecomeOneOf(Drain(s))
  BY DEF ReleaseBot
<1>2. /\ s.leases = Store.leases \ OfBot(b, Store.leases)
      /\ s.pending = [Store.pending EXCEPT ![b] = <<>>]
      /\ s.botOrder = RemoveFirst(Store.botOrder, b)
      /\ s.pendingCount = Store.pendingCount - Len(Store.pending[b])
      /\ s.promise = [c \in Claims |->
                        IF Contains(Store.pending[b], c) THEN "bot_stopped"
                                                         ELSE Store.promise[c]]
  BY StoreFields DEF Waiting
<1>3. s \in SafeStores
  BY OrderlyFields, ReleaseBotStoreSafe
<1> HIDE DEF s
<1>4. Edited(Store, s, b)
  BY <1>2, <1>3, OrderlyFields, ReleaseBotEdits
<1>5. s \in GoodStores
  BY <1>4 DEF Edited
<1>6. leases \ OfBot(b, leases) \subseteq leases'
  BY <1>1, <1>2, <1>5, StoreFields, DrainKeeps
<1>7. ASSUME NEW c \in Claims
      PROVE  s.promise[c] = IF promise[c] = "waiting" /\ botOf[c] = b THEN "bot_stopped"
                                                                     ELSE promise[c]
  BY <1>2, StoreFields, OrderlyFields DEF Queued
<1>8. ASSUME NEW c \in Claims PROVE Undisturbed(c)
  <2>1. s.leases \subseteq leases
    BY <1>2, StoreFields
  <2> QED BY <1>1, <1>5, <1>7, <2>1, DrainLeaves
<1>9. ASSUME NEW c \in Claims, botOf[c] = b PROVE c \notin leases'
  <2>1. s.promise[c] # "waiting" /\ c \notin s.leases
    BY <1>2, <1>7, <1>9, StoreFields DEF OfBot
  <2> QED BY <1>1, <1>5, <2>1, DrainKeeps
<1> QED BY <1>0, <1>6, <1>8, <1>9, StepAnswers DEF Keeps, Leaves

\* The lease of a caller who gives it back, if it was told of one.
LEMMA GiveBackKeeps ==
  ASSUME Orderly, NEW c \in Claims, GiveBack(c)
  PROVE  /\ Keeps({c}) /\ Leaves({c}) /\ promise'[c] # "accepted" /\ [Next]_vars
         /\ c \notin leases' /\ promise'[c] \in {promise[c], "idle"}
<1>1. CASE promise[c] = "accepted"
  <2>1. Release(c)
    BY <1>1 DEF GiveBack
  <2> QED BY <2>1, ReleaseKeeps DEF Next
<1>2. CASE promise[c] # "accepted"
  <2>1. UNCHANGED vars
    BY <1>2 DEF GiveBack
  <2>2. Keeps({}) /\ Leaves({c})
    BY <2>1, GrowingKeeps
  <2>3. c \notin leases
    BY <1>2, OrderlyFields
  <2> QED BY <1>2, <2>1, <2>2, <2>3 DEF Keeps, vars
<1> QED BY <1>1, <1>2
-----------------------------------------------------------------------------
(* The inductive invariant of the protocol *)

\* What is under way about a request, whatever the order in the channels.
Replies(q) == [of : {q}, result : Results]

Calling(q) == SomeIn(toHost, {Call(q)})
Acked(q) == SomeIn(toHost, {Ack(q)})
Cancelled(q) == SomeIn(toHost, {Cancel(q)})
Replied(q) == SomeIn(toWorker, Replies(q))
Granting(q) == SomeIn(toWorker, {[of |-> q, result |-> "accepted"]})
Pressed(q) == SomeIn(toWorker, {[of |-> q, result |-> "backpressure"]})
Working(q) == handler[q] \in {"resolving", "admission", "verifying"}

\* The request was never made, or nothing of it is left.
Unused(q) ==
  /\ q \notin calls
  /\ ~Calling(q) /\ ~Acked(q) /\ ~Cancelled(q) /\ ~Replied(q)
  /\ handler[q] = "none"

\* The run has made this claim; the claim it made last; the claim was made and
\* nothing the worker or the host still does can answer it.
Made(c) == \E i \in 1..made[runOf[c]] : claimsOf[runOf[c]][i] = c
Current(r) == claimsOf[r][made[r]]
Over(c) ==
  LET q == ClaimRequest(c) IN
  Made(c) /\ q \notin calls /\ ~Calling(q) /\ ~Replied(q) /\ ~Working(q)

\* The scope will not hold a lease again.
Finished(r) == scope[r].closed \/ scope[r].at = "done"

Fits(qs) ==
  /\ qs \subseteq Requests
  /\ IsFiniteSet(qs)
  /\ Cardinality(qs) <= MaxRequests
  /\ Cardinality(OfClaims(qs)) <= MaxClaims

Scopes == [at : {"idle", "claiming", "running", "yielding", "away", "reclaiming",
                 "done"},
           lease : Lease, last : Lease, closed : BOOLEAN]

ProtocolTypes ==
  /\ scope \in [Runs -> Scopes]
  /\ made \in [Runs -> Nat]
  /\ Fits(calls)
  /\ Fits(requests)
  /\ toHost \in Seq(Message)
  /\ toWorker \in Seq([of : Requests, result : Results])
  /\ handler \in [Requests -> {"none", "resolving", "admission", "verifying",
                               "replied"}]
  /\ aborted \subseteq Requests
  /\ foregroundParents \in [Runs -> Lease]

\* Where a scope's coroutine is decides what its scope holds and waits for.
ScopeOK(r) ==
  LET s == scope[r] IN
  /\ made[r] \in 0..Len(claimsOf[r])
  /\ s.at = "idle" <=> made[r] = 0
  /\ s.at \in {"idle", "claiming"} => s.last = NoLease /\ ~s.closed
  /\ s.at \in {"yielding", "away", "reclaiming"} => s.last # NoLease /\ ~s.closed
  /\ s.at \in {"yielding", "away"} => made[r] < Len(claimsOf[r])
  /\ s.at = "running" => s.closed \/ s.last # NoLease
  /\ s.at = "done" => s.closed \/ s.last = NoLease
  /\ s.lease # NoLease => s.at = "running" /\ ~s.closed
  /\ s.at = "running" /\ ~s.closed => s.lease = s.last
  /\ s.at \in {"claiming", "reclaiming"} => ClaimRequest(Current(r)) \in calls

\* The claim a scope got its lease by is over, and was not called off.
LastOK(r) ==
  LET c == scope[r].last IN
  c # NoLease => runOf[c] = r /\ Over(c) /\ ~Cancelled(ClaimRequest(c))

\* Only a scope that is claiming waits for a claim; the host is busy with one
\* only then or for a scope that is finished.
ClaimOK(c) ==
  LET q == ClaimRequest(c)
      r == runOf[c]
  IN
  /\ q \in calls => scope[r].at \in {"claiming", "reclaiming"} /\ c = Current(r)
  /\ ~Made(c) => Unused(q)
  /\ Cancelled(q) => q \notin calls
  /\ Working(q) \/ Calling(q) \/ Replied(q) => q \in calls \/ Finished(r)

\* A lease is given back after its claim is over, and for good only by a scope
\* that is closed.
ReleaseOK(c, y) ==
  LET q == ReleaseRequest(c, y) IN
  ~Unused(q) =>
    /\ Over(c)
    /\ scope[runOf[c]].lease # c
    /\ ~y => scope[runOf[c]].closed
    /\ ~Working(q)

\* A request goes to the host once, is answered once and acknowledged once, and
\* the host's records of it agree.
RequestOK(q) ==
  /\ AtMostOneIn(toHost, {Call(q)})
  /\ AtMostOneIn(toHost, {Ack(q)})
  /\ AtMostOneIn(toWorker, Replies(q))
  /\ Calling(q) => handler[q] = "none" /\ ~Replied(q) /\ ~Acked(q)
  /\ Acked(q) => q \notin calls /\ ~Working(q) /\ ~Replied(q)
  /\ Replied(q) => ~Working(q)
  /\ q \in requests <=> handler[q] # "none" /\ q \notin aborted
  /\ q \in aborted => Working(q)

\* WitnessFollowsScope for one run.
WitnessOK(r) ==
  parentOf[r] = NoRun /\ Open(r) /\ scope[r].at # "reclaiming"
    => foregroundParents[r] = scope[r].last

\* A grant on its way to the worker is vouched for already.
VouchedOK(c) ==
  /\ Granting(ClaimRequest(c))
  /\ ClaimRequest(c) \in calls
  /\ kindOf[c] = "foreground"
  => foregroundParents[runOf[c]] = c

\* Until a claim is abandoned, its handler has the lease it was granted.
GrantOK(c) ==
  LET q == ClaimRequest(c) IN
  q \notin aborted =>
    /\ handler[q] = "admission" /\ promise[c] = "accepted" => c \in leases
    /\ handler[q] = "verifying" => c \in leases

\* Everyone else holds what they were granted.
OthersOK == \A c \in Claims \ Mine : promise[c] = "accepted" => c \in leases

\* As long as receipts are in time: a grant on its way to a call that waits for
\* it is a lease, and so is what a scope holds, and the host will not take the
\* reply of its claim for lost.
HeldOK(c) ==
  LET q == ClaimRequest(c) IN
  /\ q \in calls /\ Granting(q) => c \in leases
  /\ scope[runOf[c]].lease = c =>
       c \in leases /\ (handler[q] = "replied" => Acked(q))

ProtocolOK ==
  /\ ProtocolTypes
  /\ \A r \in Runs : ScopeOK(r) /\ LastOK(r) /\ WitnessOK(r)
  /\ \A c \in Mine : ClaimOK(c) /\ VouchedOK(c) /\ GrantOK(c)
  /\ \A c \in Mine, y \in BOOLEAN : ReleaseOK(c, y)
  /\ \A q \in Requests : RequestOK(q)
  /\ OthersOK

LeasesHeld == SlowReceipts = FALSE => \A c \in Mine : HeldOK(c)

LeaseInv == Orderly /\ ProtocolOK /\ LeasesHeld

-----------------------------------------------------------------------------
(* Requests, messages and limits *)

LEMMA MineFacts ==
  ASSUME NEW c \in Mine
  PROVE  /\ c \in Claims /\ c \notin Direct /\ c # NoLease
         /\ runOf[c] \in Runs /\ botOf[c] = Worker
         /\ kindOf[c] = "foreground" <=> parentOf[runOf[c]] = NoRun
         /\ \E i \in 1..Len(claimsOf[runOf[c]]) : claimsOf[runOf[c]][i] = c
<1>1. PICK r \in Runs : c \in Range(claimsOf[r])
  BY DEF Mine
<1>2. claimsOf[r] \in Seq(Claims \ Direct)
  BY WorkerAssumption
<1>3. DOMAIN claimsOf[r] = 1..Len(claimsOf[r])
  BY <1>2
<1>4. PICK i \in 1..Len(claimsOf[r]) : claimsOf[r][i] = c
  BY <1>1, <1>3 DEF Range
<1>5. c \in Claims \ Direct
  BY <1>2, <1>4, ElementOfSeq
<1>6. runOf[c] = r /\ botOf[c] = Worker
  BY <1>1, WorkerAssumption
<1>7. kindOf[c] = "automatic-acp" <=> parentOf[r] # NoRun
  BY <1>1, WorkerAssumption
<1>8. kindOf[c] \in Kinds
  BY <1>5, ClaimsAssumption
<1> QED BY <1>4, <1>5, <1>6, <1>7, <1>8, WorkerAssumption DEF Kinds

LEMMA RunFacts ==
  ASSUME NEW r \in Runs
  PROVE  /\ Len(claimsOf[r]) \in Nat /\ Len(claimsOf[r]) > 0
         /\ \A i \in 1..Len(claimsOf[r]) :
              claimsOf[r][i] \in Mine /\ runOf[claimsOf[r][i]] = r
         /\ \A i, j \in 1..Len(claimsOf[r]) :
              claimsOf[r][i] = claimsOf[r][j] => i = j
<1>1. claimsOf[r] \in Seq(Claims \ Direct) /\ claimsOf[r] # <<>>
      /\ IsInjective(claimsOf[r])
  BY WorkerAssumption
<1>2. DOMAIN claimsOf[r] = 1..Len(claimsOf[r]) /\ Len(claimsOf[r]) \in Nat
  BY <1>1
<1>3. Len(claimsOf[r]) > 0
  BY <1>1, <1>2, EmptySeq
<1>4. ASSUME NEW i \in 1..Len(claimsOf[r])
      PROVE  claimsOf[r][i] \in Mine /\ runOf[claimsOf[r][i]] = r
  <2>1. claimsOf[r][i] \in Range(claimsOf[r])
    BY <1>2 DEF Range
  <2> QED BY <2>1, WorkerAssumption DEF Mine
<1>5. \A i, j \in 1..Len(claimsOf[r]) : claimsOf[r][i] = claimsOf[r][j] => i = j
  BY <1>1, <1>2 DEF IsInjective
<1> QED BY <1>2, <1>3, <1>4, <1>5

LEMMA RequestFacts ==
  /\ \A c \in Mine : /\ ClaimRequest(c) \in Requests
                     /\ ClaimRequest(c).op = "claim" /\ ClaimRequest(c).claim = c
  /\ \A c \in Mine, y \in BOOLEAN :
       /\ ReleaseRequest(c, y) \in Requests
       /\ ReleaseRequest(c, y).op = "release" /\ ReleaseRequest(c, y).claim = c
       /\ ReleaseRequest(c, y).yielding = y
  /\ \A q \in Requests :
       /\ q.claim \in Mine
       /\ \/ q.op = "claim" /\ q = ClaimRequest(q.claim)
          \/ /\ q.op = "release" /\ q.yielding \in BOOLEAN
             /\ q = ReleaseRequest(q.claim, q.yielding)
  /\ \A q \in Requests : q.op = "claim" <=> q.op # "release"
<1>1. ASSUME NEW c \in Mine
      PROVE  /\ ClaimRequest(c) \in Requests
             /\ ClaimRequest(c).op = "claim" /\ ClaimRequest(c).claim = c
  <2>1. ClaimRequest(c) \in Requests
    BY DEF Requests
  <2> QED BY <2>1 DEF ClaimRequest
<1>2. ASSUME NEW c \in Mine, NEW y \in BOOLEAN
      PROVE  /\ ReleaseRequest(c, y) \in Requests
             /\ ReleaseRequest(c, y).op = "release" /\ ReleaseRequest(c, y).claim = c
             /\ ReleaseRequest(c, y).yielding = y
  <2>1. ReleaseRequest(c, y) \in Requests
    BY DEF Requests
  <2> QED BY <2>1 DEF ReleaseRequest
<1>3. ASSUME NEW q \in Requests
      PROVE  \/ \E c \in Mine : q = ClaimRequest(c)
             \/ \E c \in Mine, y \in BOOLEAN : q = ReleaseRequest(c, y)
  BY DEF Requests
<1> QED BY <1>1, <1>2, <1>3

LEMMA RequestsDiffer ==
  ASSUME NEW c \in Mine, NEW d \in Mine, NEW y \in BOOLEAN, NEW z \in BOOLEAN
  PROVE  /\ ClaimRequest(c) = ClaimRequest(d) => c = d
         /\ ClaimRequest(c) # ReleaseRequest(d, z)
         /\ ReleaseRequest(c, y) = ReleaseRequest(d, z) => c = d /\ y = z
<1>1. ClaimRequest(c).claim = c /\ ClaimRequest(d).claim = d /\ ClaimRequest(c).op = "claim"
  BY RequestFacts
<1>2. /\ ReleaseRequest(c, y).claim = c /\ ReleaseRequest(d, z).claim = d
      /\ ReleaseRequest(c, y).yielding = y /\ ReleaseRequest(d, z).yielding = z
      /\ ReleaseRequest(d, z).op = "release"
  BY RequestFacts
<1> QED BY <1>1, <1>2

LEMMA MessageFacts ==
  /\ \A q : Call(q).of = q /\ Ack(q).of = q /\ Cancel(q).of = q
  /\ \A q : Call(q).kind = "call" /\ Ack(q).kind = "ack" /\ Cancel(q).kind = "cancel"
  /\ \A q \in Requests : Call(q) \in Message /\ Ack(q) \in Message /\ Cancel(q) \in Message
  /\ \A m \in Message :
       /\ m.of \in Requests
       /\ m.kind = "call" => m = Call(m.of)
       /\ m.kind = "ack" => m = Ack(m.of)
       /\ m.kind = "cancel" => m = Cancel(m.of)
       /\ m.kind \in {"call", "ack", "cancel"}
BY DEF Call, Ack, Cancel, Message

LEMMA FewerFit ==
  ASSUME NEW qs, Fits(qs), NEW ps \in SUBSET qs
  PROVE  Fits(ps)
<1>1. IsFiniteSet(ps) /\ Cardinality(ps) <= Cardinality(qs)
      /\ Cardinality(ps) \in Nat /\ Cardinality(qs) \in Nat
  BY FS_Subset, FS_CardinalityType DEF Fits
<1>2. IsFiniteSet(OfClaims(qs)) /\ OfClaims(ps) \subseteq OfClaims(qs)
  BY FS_Subset DEF Fits, OfClaims
<1>3. Cardinality(OfClaims(ps)) <= Cardinality(OfClaims(qs))
      /\ Cardinality(OfClaims(ps)) \in Nat /\ Cardinality(OfClaims(qs)) \in Nat
  BY <1>2, FS_Subset, FS_CardinalityType
<1> QED BY <1>1, <1>3, WorkerAssumption DEF Fits

LEMMA OneMoreFits ==
  ASSUME NEW qs, Fits(qs), NEW q \in Requests, Room(qs, q)
  PROVE  Fits(qs \cup {q})
<1>1. IsFiniteSet(qs \cup {q}) /\ Cardinality(qs \cup {q}) <= Cardinality(qs) + 1
      /\ Cardinality(qs \cup {q}) \in Nat /\ Cardinality(qs) \in Nat
  BY OneMore, FS_AddElement, FS_CardinalityType DEF Fits
<1>2. IsFiniteSet(OfClaims(qs))
  BY FS_Subset DEF Fits, OfClaims
<1>3. CASE q.op = "claim"
  <2>1. OfClaims(qs \cup {q}) = OfClaims(qs) \cup {q}
    BY <1>3 DEF OfClaims
  <2>2. /\ IsFiniteSet(OfClaims(qs) \cup {q})
        /\ Cardinality(OfClaims(qs) \cup {q}) <= Cardinality(OfClaims(qs)) + 1
        /\ Cardinality(OfClaims(qs) \cup {q}) \in Nat /\ Cardinality(OfClaims(qs)) \in Nat
    BY <1>2, OneMore
  <2>3. Cardinality(OfClaims(qs)) < MaxClaims /\ Cardinality(qs) < MaxRequests
    BY <1>3 DEF Room
  <2>4. Cardinality(OfClaims(qs) \cup {q}) <= MaxClaims
    BY <2>2, <2>3, WorkerAssumption
  <2>5. Cardinality(qs \cup {q}) <= MaxRequests
    BY <1>1, <2>3, WorkerAssumption
  <2> QED BY <1>1, <2>1, <2>4, <2>5 DEF Fits
<1>4. CASE q.op # "claim"
  <2>1. OfClaims(qs \cup {q}) = OfClaims(qs)
    BY <1>4 DEF OfClaims
  <2> QED BY <1>1, <2>1, WorkerAssumption DEF Fits, Room
<1> QED BY <1>3, <1>4

-----------------------------------------------------------------------------
(* The steps of the worker *)

\* The worker drops the settled calls, sends the told messages and makes the
\* asked calls.
Sends(settled, told, asked) ==
  /\ calls' = (calls \ settled) \cup asked
  /\ Fits(calls')
  /\ toHost' \in Seq(Message)
  /\ \A m \in Message :
       SomeIn(toHost', {m}) <=>
         SomeIn(toHost, {m}) \/ m \in told \/ \E q \in asked : m = Call(q)
  /\ \A m \in Message :
       /\ AtMostOneIn(toHost, {m})
       /\ m \in told \/ (\E q \in asked : m = Call(q)) => ~SomeIn(toHost, {m})
       => AtMostOneIn(toHost', {m})

\* What it sends comes after all that is under way, and a call comes last: with
\* what it settles no longer counted, there was room for it.
SendsInTurn(settled, told, asked) ==
  /\ \A m, n \in Message :
       /\ Before(toHost, m, n) => Before(toHost', m, n)
       /\ Before(toHost', m, n) =>
            \/ Before(toHost, m, n)
            \/ n \in told /\ SomeIn(toHost, {m})
            \/ (\E q \in asked : n = Call(q)) /\ (SomeIn(toHost, {m}) \/ m \in told)
  /\ \A q \in asked :
       /\ Room(calls \ settled, q)
       /\ \A m \in Message :
            SomeIn(toHost, {m}) \/ m \in told => Before(toHost', m, Call(q))

\* It takes the replies to the answered calls from its channel.
Reads(answered) ==
  /\ toWorker' \in Seq([of : Requests, result : Results])
  /\ \A q \in Requests :
       /\ Replied(q)' => Replied(q)
       /\ Granting(q)' => Granting(q)
       /\ Granting(q) => Granting(q)' \/ q \in answered
       /\ Pressed(q)' => Pressed(q)
       /\ AtMostOneIn(toWorker, Replies(q)) => AtMostOneIn(toWorker', Replies(q))
       /\ q \in answered /\ AtMostOneIn(toWorker, Replies(q))
            => Replied(q) /\ ~Replied(q)'

\* The messages sent before a call: none, or one that settles another call.
Batch(messages, told) ==
  \/ told = {} /\ messages = <<>>
  \/ \E m \in Message : m.kind # "call" /\ told = {m} /\ messages = <<m>>

LEMMA SendingSends ==
  ASSUME ProtocolTypes, NEW settled \in SUBSET calls, NEW q \in Requests,
         NEW told, NEW messages, Batch(messages, told),
         SendAndCall(settled, messages, q)
  PROVE  IF Room(calls \ settled, q)
         THEN Sends(settled, told, {q}) /\ SendsInTurn(settled, told, {q})
         ELSE Sends(settled, told, {}) /\ SendsInTurn(settled, told, {})
<1> DEFINE left == calls \ settled
<1>1. toHost \in Seq(Message) /\ Call(q) \in Message /\ Fits(left)
  BY MessageFacts, FewerFit DEF ProtocolTypes
<1>0. PICK m \in Message : /\ m.kind # "call"
                           /\ \/ told = {} /\ messages = <<>>
                              \/ told = {m} /\ messages = <<m>>
  <2>1. Ack(q) \in Message /\ Ack(q).kind # "call"
    BY MessageFacts
  <2> QED BY <2>1 DEF Batch
<1>2. m # Call(q)
  BY <1>0, MessageFacts
<1> DEFINE sent == IF told = {} THEN toHost ELSE Append(toHost, m)
<1>3. /\ sent \in Seq(Message)
      /\ \A n \in Message : SomeIn(sent, {n}) <=> SomeIn(toHost, {n}) \/ n \in told
      /\ \A n \in Message :
           AtMostOneIn(toHost, {n}) /\ (n \in told => ~SomeIn(toHost, {n}))
             => AtMostOneIn(sent, {n})
  BY <1>0, <1>1, SentIn
<1>7. \A n, o \in Message :
        /\ Before(toHost, n, o) => Before(sent, n, o)
        /\ Before(sent, n, o) => Before(toHost, n, o) \/ (o \in told /\ SomeIn(toHost, {n}))
  <2>1. CASE told = {}
    BY <2>1
  <2>2. CASE told = {m}
    <3>1. sent = Append(toHost, m)
      BY <2>2
    <3> HIDE DEF sent
    <3>2. \A c, d : Before(sent, c, d) => Before(toHost, c, d) \/ (d = m /\ SomeIn(toHost, {c}))
      BY <1>1, <3>1, SentBefore
    <3>3. \A c, d : Before(toHost, c, d) => Before(sent, c, d)
      BY <1>1, <3>1, SentBefore
    <3> QED BY <2>2, <3>2, <3>3
  <2> QED BY <1>0, <2>1, <2>2
<1>4. toHost \o messages = sent /\ toHost \o Append(messages, Call(q)) = Append(sent, Call(q))
  <2>1. CASE told = {} /\ messages = <<>>
    BY <1>1, <2>1, Batches
  <2>2. CASE told = {m} /\ messages = <<m>>
    <3>1. sent = Append(toHost, m)
      BY <2>2
    <3> HIDE DEF sent
    <3> QED BY <1>1, <2>2, <3>1, Batches
  <2> QED BY <1>0, <2>1, <2>2
<1> HIDE DEF sent
<1>5. CASE Room(left, q)
  <2>1. calls' = left \cup {q} /\ toHost' = Append(sent, Call(q))
    BY <1>4, <1>5 DEF SendAndCall
  <2>2. Fits(calls')
    BY <1>1, <1>5, <2>1, OneMoreFits
  <2>3. /\ toHost' \in Seq(Message)
        /\ \A n \in Message :
             /\ SomeIn(toHost', {n}) <=> SomeIn(sent, {n}) \/ n = Call(q)
             /\ AtMostOneIn(sent, {n}) /\ (n = Call(q) => ~SomeIn(sent, {n}))
                  => AtMostOneIn(toHost', {n})
    BY <1>1, <1>3, <2>1, SentIn
  <2>4. Call(q) \notin told
    BY <1>0, <1>2
  <2>5. Sends(settled, told, {q})
    BY <1>3, <2>1, <2>2, <2>3, <2>4 DEF Sends
  <2>6. \A n, o \in Message :
          /\ Before(sent, n, o) => Before(toHost', n, o)
          /\ SomeIn(sent, {n}) => Before(toHost', n, Call(q))
          /\ Before(toHost', n, o) => Before(sent, n, o) \/ (o = Call(q) /\ SomeIn(sent, {n}))
    <3> DEFINE e == Call(q)
    <3>1. e \in Message /\ sent \in Seq(Message)
      BY <1>1, <1>3
    <3> HIDE DEF e
    <3>2. \A c, d : Before(Append(sent, e), c, d) => Before(sent, c, d) \/ (d = e /\ SomeIn(sent, {c}))
      BY <3>1, SentBefore
    <3>3. \A c, d : Before(sent, c, d) => Before(Append(sent, e), c, d)
      BY <3>1, SentBefore
    <3>4. \A c : SomeIn(sent, {c}) => Before(Append(sent, e), c, e)
      BY <3>1, SentBefore
    <3>5. toHost' = Append(sent, e)
      BY <2>1 DEF e
    <3> QED BY <3>2, <3>3, <3>4, <3>5 DEF e
  <2>7. SendsInTurn(settled, told, {q})
    BY <1>3, <1>5, <1>7, <2>6 DEF SendsInTurn
  <2> QED BY <1>5, <2>5, <2>7
<1>6. CASE ~Room(left, q)
  <2>1. calls' = left /\ toHost' = sent
    BY <1>4, <1>6 DEF SendAndCall
  <2>2. Sends(settled, told, {})
    BY <1>1, <1>3, <2>1 DEF Sends
  <2>3. SendsInTurn(settled, told, {})
    BY <1>7, <2>1 DEF SendsInTurn
  <2> QED BY <1>6, <2>2, <2>3
<1> QED BY <1>5, <1>6

LEMMA SettlingSends ==
  ASSUME ProtocolTypes, NEW settled \in SUBSET calls, NEW m \in Message,
         calls' = calls \ settled, toHost' = Append(toHost, m)
  PROVE  Sends(settled, {m}, {}) /\ SendsInTurn(settled, {m}, {})
<1>1. toHost \in Seq(Message) /\ Fits(calls')
  BY FewerFit DEF ProtocolTypes
<1>2. Sends(settled, {m}, {})
  BY <1>1, SentIn DEF Sends
<1>3. SendsInTurn(settled, {m}, {})
  BY <1>1, SentBefore DEF SendsInTurn
<1> QED BY <1>2, <1>3

LEMMA SilentSends ==
  ASSUME ProtocolTypes, UNCHANGED <<calls, toHost>>
  PROVE  Sends({}, {}, {}) /\ SendsInTurn({}, {}, {})
BY DEF ProtocolTypes, Sends, SendsInTurn

LEMMA ListeningReads ==
  ASSUME ProtocolTypes, UNCHANGED toWorker
  PROVE  Reads({})
BY DEF ProtocolTypes, Reads, Replied, Granting, Pressed

LEMMA ReceivingReads ==
  ASSUME ProtocolTypes, toWorker # <<>>, toWorker' = Tail(toWorker)
  PROVE  /\ Reads({Head(toWorker).of})
         /\ Head(toWorker).of \in Requests /\ Head(toWorker).result \in Results
         /\ Replied(Head(toWorker).of)
         /\ Head(toWorker).result = "accepted" => Granting(Head(toWorker).of)
         /\ /\ Head(toWorker).result # "accepted"
            /\ AtMostOneIn(toWorker, Replies(Head(toWorker).of))
            => ~Granting(Head(toWorker).of)
<1> DEFINE Answers == [of : Requests, result : Results]
           m == Head(toWorker)
<1>1. toWorker \in Seq(Answers)
  BY DEF ProtocolTypes
<1>2. /\ m \in Answers /\ toWorker' \in Seq(Answers)
      /\ \A M : SomeIn(toWorker', M) => SomeIn(toWorker, M)
      /\ \A M : SomeIn(toWorker, M) => SomeIn(toWorker', M) \/ m \in M
      /\ \A M : m \in M => SomeIn(toWorker, M)
      /\ \A M : AtMostOneIn(toWorker, M) => AtMostOneIn(toWorker', M)
      /\ \A M : AtMostOneIn(toWorker, M) /\ m \in M => ~SomeIn(toWorker', M)
  BY <1>1, ReceivedFrom
<1> HIDE DEF m
<1>3. /\ m \in Replies(m.of) /\ m.of \in Requests /\ m.result \in Results
      /\ m = [of |-> m.of, result |-> m.result]
  BY <1>2 DEF Replies
<1>4. Reads({m.of})
  BY <1>2, <1>3 DEF Reads, Replied, Granting, Pressed
<1>5. m.result = "accepted" => Granting(m.of)
  BY <1>2, <1>3 DEF Granting
<1>6. ASSUME m.result # "accepted", AtMostOneIn(toWorker, Replies(m.of))
      PROVE  ~Granting(m.of)
  <2>1. ~SomeIn(toWorker', Replies(m.of))
    BY <1>2, <1>3, <1>6
  <2>2. [of |-> m.of, result |-> "accepted"] \in Replies(m.of)
    BY DEF Replies, Results
  <2>3. ~SomeIn(toWorker', {[of |-> m.of, result |-> "accepted"]})
    BY <2>1, <2>2 DEF SomeIn
  <2>4. m # [of |-> m.of, result |-> "accepted"]
    BY <1>6
  <2> QED BY <1>2, <2>3, <2>4 DEF Granting
<1> QED BY <1>2, <1>3, <1>4, <1>5, <1>6 DEF m, Replied

\* The scope of r takes over the lease of a claim whose grant was just read.
Taken(c, r, settled, told, answered) ==
  LET q == ClaimRequest(c) IN
  /\ c \in Mine /\ runOf[c] = r
  /\ q \in settled /\ q \in answered
  /\ Granting(q)
  /\ told = {Ack(q)}

\* A step of the worker about run r.
WorkerMove(r, settled, told, asked, answered) ==
  /\ settled \subseteq calls /\ asked \subseteq Requests /\ answered \subseteq Requests
  /\ Sends(settled, told, asked)
  /\ SendsInTurn(settled, told, asked)
  /\ Reads(answered)
  /\ UNCHANGED <<vars, hostVars>>
  /\ scope' \in [Runs -> Scopes] /\ made' \in [Runs -> Nat]
  /\ \A p \in Runs \ {r} : scope'[p] = scope[p] /\ made'[p] = made[p]
  /\ \A m, n \in told : m = n
  /\ \A q \in Requests :
       /\ Call(q) \notin told
       /\ Ack(q) \in told => q \in settled /\ q \in answered
       /\ Cancel(q) \in told =>
            \/ q \in settled /\ q \notin answered
            \/ q \in answered /\ q \notin calls
       /\ q \in settled => Ack(q) \in told \/ Cancel(q) \in told
       /\ q \in settled \/ q \in asked => runOf[q.claim] = r
       /\ q \in asked => Unused(q)

\* What the step may do to the scope of r.
ScopeMove(r, settled, told, asked, answered) ==
  LET s == scope[r]
      t == scope'[r]
  IN
  /\ ScopeOK(r)'
  /\ t.last = s.last \/ Taken(t.last, r, settled, told, answered)
  /\ \/ made'[r] = made[r]
     \/ made'[r] = made[r] + 1 /\ made'[r] \in 1..Len(claimsOf[r])
  /\ \A c \in Mine : ClaimRequest(c) \in asked =>
       /\ made'[r] = made[r] + 1 /\ c = claimsOf[r][made'[r]]
       /\ t.at \in {"claiming", "reclaiming"}
  /\ \A c \in Mine :
       runOf[c] = r /\ ClaimRequest(c) \in calls /\ ClaimRequest(c) \notin settled
         => t.at = s.at /\ made'[r] = made[r]
  /\ Finished(r) => Finished(r)'
  /\ \A c \in Mine :
       ClaimRequest(c) \in settled => Finished(r)' \/ ClaimRequest(c) \in answered
  /\ s.closed => t.closed
  /\ \A c \in Mine, y \in BOOLEAN : ReleaseRequest(c, y) \in asked =>
       /\ c = s.last \/ Taken(c, r, settled, told, answered)
       /\ t.lease # c
       /\ ~y => t.closed
  /\ \/ t.lease = NoLease
     \/ t.lease = s.lease
     \/ Taken(t.lease, r, settled, told, answered)
  /\ Open(r)' /\ t.at # "reclaiming" =>
       \/ Open(r) /\ s.at # "reclaiming" /\ t.last = s.last
       \/ Taken(t.last, r, settled, told, answered)

\* The pending map is not full: what the worker must send can be sent.
RoomLeft == Cardinality(calls) < MaxRequests

\* The scope holds this lease, or the worker reads its grant and keeps it.
Holding(c, told, answered) ==
  \/ scope[runOf[c]].lease = c
  \/ /\ ClaimRequest(c) \in answered
     /\ Granting(ClaimRequest(c))
     /\ Cancel(ClaimRequest(c)) \notin told

\* What becomes of leases: every reply read is receipted or cancelled, a scope
\* claims anew only from where it holds none, and a lease held is kept or, as long
\* as the pending map is not full, given back.
LeaseMove(r, settled, told, asked, answered) ==
  /\ \A q \in answered : runOf[q.claim] = r /\ (Ack(q) \in told \/ Cancel(q) \in told)
  /\ made'[r] # made[r] => settled = {} /\ scope[r].at \in {"idle", "away"}
  /\ RoomLeft =>
       \A c \in Mine : runOf[c] = r /\ Holding(c, told, answered) =>
         \/ scope'[r].lease = c
         \/ /\ scope'[r].last = c
            /\ \E y \in BOOLEAN : ReleaseRequest(c, y) \in asked

\* A step of the worker about one of its runs.
Moved ==
  \E r \in Runs : \E settled, told, asked, answered :
    /\ WorkerMove(r, settled, told, asked, answered)
    /\ ScopeMove(r, settled, told, asked, answered)
    /\ LeaseMove(r, settled, told, asked, answered)

\* What such a step does to a request.
LEMMA MoveViews ==
  ASSUME ProtocolOK, NEW r \in Runs, NEW settled, NEW told, NEW asked, NEW answered,
         WorkerMove(r, settled, told, asked, answered), NEW q \in Requests
  PROVE  /\ Calling(q)' <=> Calling(q) \/ q \in asked
         /\ Acked(q)' <=> Acked(q) \/ Ack(q) \in told
         /\ Cancelled(q)' <=> Cancelled(q) \/ Cancel(q) \in told
         /\ q \in calls' <=> (q \in calls /\ q \notin settled) \/ q \in asked
         /\ Replied(q)' => Replied(q)
         /\ Granting(q)' => Granting(q)
         /\ q \in answered => Replied(q) /\ ~Replied(q)'
         /\ Working(q)' <=> Working(q)
         /\ handler'[q] = handler[q]
         /\ RequestOK(q)
<1>1. RequestOK(q)
  BY DEF ProtocolOK
<1>2. /\ Call(q) \in Message /\ Ack(q) \in Message /\ Cancel(q) \in Message
      /\ \A p : Call(p) # Ack(q) /\ Call(p) # Cancel(q) /\ (Call(p) = Call(q) => p = q)
  BY MessageFacts
<1>3. UNCHANGED handler
  BY DEF WorkerMove, hostVars
<1>4. Sends(settled, told, asked) /\ Reads(answered) /\ Call(q) \notin told
  BY DEF WorkerMove
<1>5. /\ Calling(q)' <=> Calling(q) \/ q \in asked
      /\ Acked(q)' <=> Acked(q) \/ Ack(q) \in told
      /\ Cancelled(q)' <=> Cancelled(q) \/ Cancel(q) \in told
      /\ q \in calls' <=> (q \in calls /\ q \notin settled) \/ q \in asked
  BY <1>2, <1>4 DEF Sends, Calling, Acked, Cancelled
<1>6. /\ Replied(q)' => Replied(q)
      /\ Granting(q)' => Granting(q)
      /\ q \in answered => Replied(q) /\ ~Replied(q)'
  BY <1>1, <1>4 DEF Reads, RequestOK
<1>7. Working(q)' <=> Working(q)
  BY <1>3 DEF Working
<1> QED BY <1>1, <1>3, <1>5, <1>6, <1>7

LEMMA MoveRequests ==
  ASSUME ProtocolOK, NEW r \in Runs, NEW settled, NEW told, NEW asked, NEW answered,
         WorkerMove(r, settled, told, asked, answered), NEW q \in Requests
  PROVE  RequestOK(q)'
<1>1. /\ Calling(q)' <=> Calling(q) \/ q \in asked
      /\ Acked(q)' <=> Acked(q) \/ Ack(q) \in told
      /\ q \in calls' <=> (q \in calls /\ q \notin settled) \/ q \in asked
      /\ Replied(q)' => Replied(q)
      /\ q \in answered => Replied(q) /\ ~Replied(q)'
      /\ Working(q)' <=> Working(q)
      /\ RequestOK(q)
  BY MoveViews
<1>2. /\ q \in asked => Unused(q)
      /\ Ack(q) \in told => q \in settled /\ q \in answered
      /\ settled \subseteq calls
      /\ UNCHANGED <<handler, requests, aborted>>
  BY DEF WorkerMove, hostVars
<1>3. /\ AtMostOneIn(toHost', {Call(q)})
      /\ AtMostOneIn(toHost', {Ack(q)})
      /\ AtMostOneIn(toWorker', Replies(q))
  <2>1. /\ Call(q) \in Message /\ Ack(q) \in Message
        /\ \A p : Call(p) # Ack(q) /\ (Call(p) = Call(q) => p = q)
    BY MessageFacts
  <2>2. q \in asked => ~Calling(q)
    BY <1>2 DEF Unused
  <2>3. Ack(q) \in told => ~Acked(q)
    BY <1>1, <1>2 DEF RequestOK
  <2>4. Sends(settled, told, asked) /\ Reads(answered) /\ Call(q) \notin told
    BY DEF WorkerMove
  <2> QED BY <1>1, <2>1, <2>2, <2>3, <2>4 DEF Sends, Reads, RequestOK, Calling, Acked
<1>4. Calling(q)' => handler'[q] = "none" /\ ~Replied(q)' /\ ~Acked(q)'
  <2>1. q \in asked => handler[q] = "none" /\ ~Replied(q) /\ ~Acked(q) /\ q \notin calls
    BY <1>2 DEF Unused
  <2> QED BY <1>1, <1>2, <2>1 DEF RequestOK
<1>5. Acked(q)' => q \notin calls' /\ ~Working(q)' /\ ~Replied(q)'
  <2>1. q \in asked => ~Acked(q) /\ q \notin calls
    BY <1>2 DEF Unused
  <2> QED BY <1>1, <1>2, <2>1 DEF RequestOK
<1>6. /\ Replied(q)' => ~Working(q)'
      /\ q \in requests' <=> handler'[q] # "none" /\ q \notin aborted'
      /\ q \in aborted' => Working(q)'
  BY <1>1, <1>2 DEF RequestOK
<1> QED BY <1>3, <1>4, <1>5, <1>6 DEF RequestOK

\* Claims made stay made, and what is over stays over.
LEMMA MoveMakes ==
  ASSUME ProtocolOK, NEW r \in Runs, NEW settled, NEW told, NEW asked, NEW answered,
         WorkerMove(r, settled, told, asked, answered),
         ScopeMove(r, settled, told, asked, answered), NEW c \in Mine
  PROVE  /\ Made(c) => Made(c)'
         /\ ClaimRequest(c) \in asked => ~Made(c) /\ Made(c)'
<1> DEFINE p == runOf[c]
<1>1. p \in Runs
  BY MineFacts
<1>2. made \in [Runs -> Nat] /\ made' \in [Runs -> Nat]
      /\ made[p] \in 0..Len(claimsOf[p]) /\ Len(claimsOf[p]) \in Nat
  BY <1>1, RunFacts DEF ProtocolOK, ProtocolTypes, WorkerMove, ScopeOK
<1>3. made'[p] = made[p] \/ (p = r /\ made'[p] = made[p] + 1 /\ made'[p] \in 1..Len(claimsOf[p]))
  BY <1>1 DEF WorkerMove, ScopeMove
<1>4. \A i \in 1..made[p] : i \in 1..made'[p] /\ i \in 1..Len(claimsOf[p]) /\ i # made[p] + 1
  BY <1>1, <1>2, <1>3
<1>5. Made(c) => Made(c)'
  BY <1>4 DEF Made
<1>6. ASSUME ClaimRequest(c) \in asked PROVE ~Made(c) /\ Made(c)'
  <2>1. p = r
    BY <1>6, RequestFacts DEF WorkerMove
  <2>2. made'[r] = made[r] + 1 /\ c = claimsOf[r][made'[r]]
    BY <1>6 DEF ScopeMove
  <2>3. made'[r] \in 1..made'[r] /\ made'[r] \in 1..Len(claimsOf[r])
    BY <1>1, <1>2, <1>3, <2>1, <2>2
  <2>4. Made(c)'
    BY <2>1, <2>2, <2>3 DEF Made
  <2>5. \A i \in 1..made[r] : claimsOf[r][i] # c
    BY <1>4, <2>1, <2>2, <2>3, RunFacts
  <2> QED BY <2>1, <2>4, <2>5 DEF Made
<1> QED BY <1>5, <1>6

LEMMA MoveOver ==
  ASSUME ProtocolOK, NEW r \in Runs, NEW settled, NEW told, NEW asked, NEW answered,
         WorkerMove(r, settled, told, asked, answered),
         ScopeMove(r, settled, told, asked, answered), NEW c \in Mine
  PROVE  /\ Over(c) => Over(c)'
         /\ Taken(c, r, settled, told, answered) => Over(c)' /\ ~Cancelled(ClaimRequest(c))'
         /\ Over(c) /\ ~Cancelled(ClaimRequest(c)) => ~Cancelled(ClaimRequest(c))'
<1> DEFINE q == ClaimRequest(c)
<1>1. q \in Requests
  BY RequestFacts
<1> HIDE DEF q
<1>2. /\ Calling(q)' <=> Calling(q) \/ q \in asked
      /\ Cancelled(q)' <=> Cancelled(q) \/ Cancel(q) \in told
      /\ q \in calls' <=> (q \in calls /\ q \notin settled) \/ q \in asked
      /\ Replied(q)' => Replied(q)
      /\ q \in answered => Replied(q) /\ ~Replied(q)'
      /\ Working(q)' <=> Working(q)
      /\ RequestOK(q)
  BY <1>1, MoveViews
<1>3. /\ Made(c) => Made(c)'
      /\ q \in asked => ~Made(c)
  BY MoveMakes DEF q
<1>4. Over(c) => Over(c)'
  BY <1>2, <1>3 DEF Over, q
<1>5. /\ settled \subseteq calls /\ (q \in asked => Unused(q))
      /\ Cancel(q) \in told => q \in settled \/ (q \in answered /\ q \notin calls)
  BY <1>1 DEF WorkerMove
<1>6. ASSUME Taken(c, r, settled, told, answered) PROVE Over(c)' /\ ~Cancelled(q)'
  <2>1. q \in settled /\ q \in answered /\ told = {Ack(q)} /\ q \in calls /\ q \notin asked
    BY <1>5, <1>6 DEF Taken, Unused, q
  <2>2. ClaimOK(c)
    BY DEF ProtocolOK
  <2>3. Made(c)
    BY <2>1, <2>2 DEF ClaimOK, Unused, q
  <2>4. ~Cancelled(q)
    BY <2>1, <2>2 DEF ClaimOK, q
  <2>5. Cancel(q) \notin told
    BY <2>1, MessageFacts
  <2>6. ~Calling(q) /\ ~Working(q)
    BY <1>2, <2>1 DEF RequestOK
  <2>7. Over(c)'
    BY <1>2, <1>3, <2>1, <2>3, <2>6 DEF Over, q
  <2> QED BY <1>2, <2>4, <2>5, <2>7
<1>7. ASSUME Over(c), ~Cancelled(q) PROVE ~Cancelled(q)'
  <2>1. q \notin calls /\ ~Replied(q)
    BY <1>7 DEF Over, q
  <2> QED BY <1>2, <1>5, <1>7, <2>1
<1> QED BY <1>4, <1>6, <1>7 DEF q

LEMMA MoveClaims ==
  ASSUME ProtocolOK, NEW r \in Runs, NEW settled, NEW told, NEW asked, NEW answered,
         WorkerMove(r, settled, told, asked, answered),
         ScopeMove(r, settled, told, asked, answered), NEW c \in Mine
  PROVE  ClaimOK(c)'
<1> DEFINE q == ClaimRequest(c)
           p == runOf[c]
<1>1. q \in Requests /\ q.claim = c /\ p \in Runs
  BY RequestFacts, MineFacts
<1> HIDE DEF q
<1>2. /\ Calling(q)' <=> Calling(q) \/ q \in asked
      /\ Acked(q)' <=> Acked(q) \/ Ack(q) \in told
      /\ Cancelled(q)' <=> Cancelled(q) \/ Cancel(q) \in told
      /\ q \in calls' <=> (q \in calls /\ q \notin settled) \/ q \in asked
      /\ Replied(q)' => Replied(q)
      /\ q \in answered => Replied(q) /\ ~Replied(q)'
      /\ Working(q)' <=> Working(q)
      /\ handler'[q] = handler[q]
      /\ RequestOK(q)
  BY <1>1, MoveViews
<1>3. /\ Made(c) => Made(c)'
      /\ q \in asked => ~Made(c) /\ Made(c)'
  BY MoveMakes DEF q
<1>4. /\ q \in calls => scope[p].at \in {"claiming", "reclaiming"} /\ c = Current(p)
      /\ ~Made(c) => Unused(q)
      /\ Cancelled(q) => q \notin calls
      /\ Working(q) \/ Calling(q) \/ Replied(q) => q \in calls \/ Finished(p)
  BY DEF ProtocolOK, ClaimOK, q
<1>5. /\ settled \subseteq calls
      /\ q \in asked => Unused(q)
      /\ q \in asked \/ q \in settled => p = r
      /\ Ack(q) \in told => q \in settled /\ q \in answered
      /\ Cancel(q) \in told => q \in settled \/ (q \in answered /\ q \notin calls)
      /\ p # r => scope'[p] = scope[p] /\ made'[p] = made[p]
  BY <1>1 DEF WorkerMove
<1>6. /\ q \in asked => made'[r] = made[r] + 1 /\ c = claimsOf[r][made'[r]]
                        /\ scope'[r].at \in {"claiming", "reclaiming"}
      /\ p = r /\ q \in calls /\ q \notin settled
           => scope'[r].at = scope[r].at /\ made'[r] = made[r]
      /\ Finished(r) => Finished(r)'
      /\ q \in settled => Finished(r)' \/ q \in answered
  BY DEF ScopeMove, q
<1>7. q \in calls' => scope'[p].at \in {"claiming", "reclaiming"} /\ c = Current(p)'
  <2>1. CASE q \in asked
    BY <1>5, <1>6, <2>1 DEF Current
  <2>2. CASE q \in calls /\ q \notin settled
    BY <1>4, <1>5, <1>6, <2>2 DEF Current
  <2> QED BY <1>2, <2>1, <2>2
<1>8. ~Made(c)' => Unused(q)'
  <2> SUFFICES ASSUME ~Made(c)' PROVE Unused(q)'
    OBVIOUS
  <2>1. q \notin asked /\ Unused(q)
    BY <1>3, <1>4
  <2>2. q \notin settled /\ q \notin answered
    BY <1>2, <1>5, <2>1 DEF Unused
  <2> QED BY <1>2, <1>5, <2>1, <2>2 DEF Unused
<1>9. Cancelled(q)' => q \notin calls'
  BY <1>2, <1>4, <1>5 DEF Unused
<1>10. Working(q)' \/ Calling(q)' \/ Replied(q)' => q \in calls' \/ Finished(p)'
  <2> SUFFICES ASSUME Working(q)' \/ Calling(q)' \/ Replied(q)', q \notin calls'
               PROVE  Finished(p)'
    OBVIOUS
  <2>1. q \notin asked /\ (Working(q) \/ Calling(q) \/ Replied(q))
    BY <1>2
  <2>2. CASE q \in settled
    <3>1. q \notin answered
      BY <1>2, <2>1 DEF RequestOK
    <3> QED BY <1>5, <1>6, <2>2, <3>1
  <2>3. CASE q \notin settled
    <3>1. Finished(p)
      BY <1>2, <1>4, <2>1, <2>3
    <3> QED BY <1>5, <1>6, <3>1 DEF Finished
  <2> QED BY <2>2, <2>3
<1> QED BY <1>7, <1>8, <1>9, <1>10 DEF ClaimOK, q

LEMMA MoveReleases ==
  ASSUME ProtocolOK, NEW r \in Runs, NEW settled, NEW told, NEW asked, NEW answered,
         WorkerMove(r, settled, told, asked, answered),
         ScopeMove(r, settled, told, asked, answered), NEW c \in Mine, NEW y \in BOOLEAN
  PROVE  ReleaseOK(c, y)'
<1> DEFINE q == ReleaseRequest(c, y)
           p == runOf[c]
<1>1. q \in Requests /\ q.claim = c /\ p \in Runs /\ c # NoLease
  BY RequestFacts, MineFacts
<1> HIDE DEF q
<1> SUFFICES ASSUME ~Unused(q)'
             PROVE  /\ Over(c)'
                    /\ scope'[p].lease # c
                    /\ ~y => scope'[p].closed
                    /\ ~Working(q)'
  BY DEF ReleaseOK, q
<1>2. /\ Calling(q)' <=> Calling(q) \/ q \in asked
      /\ Acked(q)' <=> Acked(q) \/ Ack(q) \in told
      /\ Cancelled(q)' <=> Cancelled(q) \/ Cancel(q) \in told
      /\ q \in calls' <=> (q \in calls /\ q \notin settled) \/ q \in asked
      /\ Replied(q)' => Replied(q)
      /\ q \in answered => Replied(q)
      /\ Working(q)' <=> Working(q)
      /\ handler'[q] = handler[q]
  BY <1>1, MoveViews
<1>3. /\ settled \subseteq calls
      /\ q \in asked => Unused(q)
      /\ q \in asked => p = r
      /\ Ack(q) \in told => q \in settled
      /\ Cancel(q) \in told => q \in settled \/ q \in answered
      /\ p # r => scope'[p] = scope[p]
  BY <1>1 DEF WorkerMove
<1>4. Over(c) => Over(c)'
  BY MoveOver
<1>5. CASE q \in asked
  <2>1. /\ c = scope[r].last \/ Taken(c, r, settled, told, answered)
        /\ scope'[r].lease # c
        /\ ~y => scope'[r].closed
    BY <1>5 DEF ScopeMove, q
  <2>2. Over(c)'
    <3>1. CASE c = scope[r].last
      <4>1. LastOK(r)
        BY DEF ProtocolOK
      <4> QED BY <1>1, <1>4, <3>1, <4>1 DEF LastOK
    <3>2. CASE Taken(c, r, settled, told, answered)
      BY <3>2, MoveOver
    <3> QED BY <2>1, <3>1, <3>2
  <2>3. ~Working(q)'
    BY <1>2, <1>3, <1>5 DEF Unused, Working
  <2> QED BY <1>3, <1>5, <2>1, <2>2, <2>3
<1>6. CASE q \notin asked
  <2>1. ~Unused(q)
    BY <1>2, <1>3, <1>6 DEF Unused
  <2>2. Over(c) /\ scope[p].lease # c /\ (~y => scope[p].closed) /\ ~Working(q)
    BY <2>1 DEF ProtocolOK, ReleaseOK, q
  <2>3. scope'[p].lease # c
    <3>1. CASE p = r
      <4>1. ~Taken(c, r, settled, told, answered)
        <5>1. ClaimRequest(c) \notin calls
          BY <2>2 DEF Over
        <5> QED BY <1>3, <5>1 DEF Taken
      <4>2. \/ scope'[r].lease = NoLease \/ scope'[r].lease = scope[r].lease
            \/ Taken(scope'[r].lease, r, settled, told, answered)
        BY DEF ScopeMove
      <4> QED BY <1>1, <2>2, <3>1, <4>1, <4>2
    <3> QED BY <1>3, <2>2, <3>1
  <2>4. ~y => scope'[p].closed
    <3>1. scope[r].closed => scope'[r].closed
      BY DEF ScopeMove
    <3> QED BY <1>3, <2>2, <3>1
  <2> QED BY <1>2, <1>4, <2>2, <2>3, <2>4
<1> QED BY <1>5, <1>6

LEMMA MoveScopes ==
  ASSUME ProtocolOK, NEW r \in Runs, NEW settled, NEW told, NEW asked, NEW answered,
         WorkerMove(r, settled, told, asked, answered),
         ScopeMove(r, settled, told, asked, answered), NEW p \in Runs
  PROVE  ScopeOK(p)' /\ LastOK(p)' /\ WitnessOK(p)'
<1>1. /\ p # r => scope'[p] = scope[p] /\ made'[p] = made[p]
      /\ UNCHANGED foregroundParents
      /\ settled \subseteq calls
  BY DEF WorkerMove, hostVars
<1>2. ScopeOK(p) /\ LastOK(p) /\ WitnessOK(p)
  BY DEF ProtocolOK
<1>3. ScopeOK(p)'
  <2>1. CASE p = r
    BY <2>1 DEF ScopeMove
  <2>2. CASE p # r
    <3>1. ASSUME scope[p].at \in {"claiming", "reclaiming"}
          PROVE  ClaimRequest(Current(p)') \in calls'
      <4>1. Current(p)' = Current(p)
        BY <1>1, <2>2 DEF Current
      <4>2. ClaimRequest(Current(p)) \in calls
        BY <1>2, <3>1 DEF ScopeOK
      <4>3. Current(p) \in Mine /\ runOf[Current(p)] = p
        <5>1. made[p] \in 1..Len(claimsOf[p])
          BY <1>2, <3>1, RunFacts DEF ScopeOK
        <5> QED BY <5>1, RunFacts DEF Current
      <4>4. ClaimRequest(Current(p)) \notin settled
        BY <2>2, <4>3, RequestFacts DEF WorkerMove
      <4> QED BY <4>1, <4>2, <4>4 DEF WorkerMove, Sends
    <3> QED BY <1>1, <1>2, <2>2, <3>1 DEF ScopeOK
  <2> QED BY <2>1, <2>2
<1>4. LastOK(p)'
  <2>0. Runs # {} /\ scope' \in [Runs -> Scopes] /\ scope \in [Runs -> Scopes]
    BY DEF WorkerMove, ProtocolOK, ProtocolTypes
  <2>1. CASE p = r /\ Taken(scope'[r].last, r, settled, told, answered)
    <3>1. PICK c \in Mine : c = scope'[r].last
      BY <2>1 DEF Taken
    <3>2. runOf[c] = r /\ Taken(c, r, settled, told, answered)
      BY <2>1, <3>1 DEF Taken
    <3>3. Over(c)' /\ ~Cancelled(ClaimRequest(c))'
      BY <3>2, MoveOver
    <3>4. LastOK(r)' <=> (c # NoLease => runOf[c] = r /\ Over(c)' /\ ~Cancelled(ClaimRequest(c))')
      BY <3>1 DEF LastOK, Over, Made, Calling, Replied, Working, Cancelled
    <3> QED BY <2>1, <3>2, <3>3, <3>4
  <2>2. CASE scope'[p].last = scope[p].last
    <3> SUFFICES ASSUME scope[p].last # NoLease PROVE LastOK(p)'
      BY <2>2 DEF LastOK
    <3>1. PICK c \in Mine : c = scope[p].last
      BY <2>0 DEF Scopes, Lease
    <3>2. LastOK(p) <=> (c # NoLease => runOf[c] = p /\ Over(c) /\ ~Cancelled(ClaimRequest(c)))
      BY <3>1 DEF LastOK
    <3>3. runOf[c] = p /\ Over(c) /\ ~Cancelled(ClaimRequest(c))
      BY <1>2, <3>1, <3>2
    <3>4. Over(c)' /\ ~Cancelled(ClaimRequest(c))'
      BY <3>3, MoveOver
    <3>5. LastOK(p)' <=> (c # NoLease => runOf[c] = p /\ Over(c)' /\ ~Cancelled(ClaimRequest(c))')
      BY <2>2, <3>1 DEF LastOK, Over, Made, Calling, Replied, Working, Cancelled
    <3> QED BY <3>3, <3>4, <3>5
  <2>3. \/ scope'[r].last = scope[r].last
        \/ Taken(scope'[r].last, r, settled, told, answered)
    BY DEF ScopeMove
  <2> QED BY <1>1, <2>1, <2>2, <2>3
<1>5. WitnessOK(p)'
  <2> SUFFICES ASSUME parentOf[p] = NoRun, Open(p)', scope'[p].at # "reclaiming"
               PROVE  foregroundParents[p] = scope'[p].last
    BY <1>1 DEF WitnessOK
  <2>1. CASE p # r
    BY <1>1, <1>2, <2>1 DEF WitnessOK, Open
  <2>2. CASE p = r /\ Taken(scope'[r].last, r, settled, told, answered)
    <3>1. PICK c \in Mine : c = scope'[r].last
      BY <2>2 DEF Taken
    <3>2. runOf[c] = r /\ Granting(ClaimRequest(c)) /\ ClaimRequest(c) \in calls
      BY <1>1, <2>2, <3>1 DEF Taken
    <3>3. kindOf[c] = "foreground"
      BY <2>2, <3>2, MineFacts
    <3>4. VouchedOK(c)
      BY DEF ProtocolOK
    <3> QED BY <2>2, <3>1, <3>2, <3>3, <3>4 DEF VouchedOK
  <2>3. CASE p = r /\ ~Taken(scope'[r].last, r, settled, told, answered)
    <3>1. Open(r) /\ scope[r].at # "reclaiming" /\ scope'[r].last = scope[r].last
      BY <2>3 DEF ScopeMove
    <3> QED BY <1>2, <2>3, <3>1 DEF WitnessOK
  <2> QED BY <2>1, <2>2, <2>3
<1> QED BY <1>3, <1>4, <1>5

LEMMA GrantsAreReplies ==
  ASSUME NEW q \in Requests
  PROVE  Granting(q) => Replied(q)
<1>1. [of |-> q, result |-> "accepted"] \in Replies(q)
  BY DEF Replies, Results
<1> QED BY <1>1 DEF Granting, Replied, SomeIn

Kept == ProtocolOK' /\ (LeasesHeld => LeasesHeld')

LEMMA MoveKeeps ==
  ASSUME ProtocolOK, NEW r \in Runs, NEW settled, NEW told, NEW asked, NEW answered,
         WorkerMove(r, settled, told, asked, answered),
         ScopeMove(r, settled, told, asked, answered)
  PROVE  ProtocolOK' /\ (LeasesHeld => LeasesHeld')
<1>1. UNCHANGED <<vars, hostVars>> /\ settled \subseteq calls
  BY DEF WorkerMove
<1>2. ProtocolTypes'
  BY <1>1 DEF ProtocolOK, ProtocolTypes, WorkerMove, Sends, Reads, hostVars
<1>3. ASSUME NEW c \in Mine PROVE VouchedOK(c)' /\ GrantOK(c)'
  <2> DEFINE q == ClaimRequest(c)
  <2>1. q \in Requests
    BY RequestFacts
  <2>2. VouchedOK(c) /\ GrantOK(c)
    BY DEF ProtocolOK
  <2>3. q \in calls' /\ Granting(q)' => q \in calls /\ Granting(q)
    <3>1. q \in asked => ~Replied(q)
      BY <2>1 DEF WorkerMove, Unused
    <3> QED BY <2>1, <3>1, MoveViews, GrantsAreReplies
  <2> QED BY <1>1, <2>2, <2>3 DEF VouchedOK, GrantOK, vars, hostVars
<1>4. OthersOK'
  BY <1>1 DEF ProtocolOK, OthersOK, vars
<1>5. ProtocolOK'
  <2>1. \A p \in Runs : ScopeOK(p)' /\ LastOK(p)' /\ WitnessOK(p)'
    BY MoveScopes
  <2>2. \A c \in Mine : ClaimOK(c)'
    BY MoveClaims
  <2>3. \A c \in Mine, y \in BOOLEAN : ReleaseOK(c, y)'
    BY MoveReleases
  <2>4. \A q \in Requests : RequestOK(q)'
    BY MoveRequests
  <2> QED BY <1>2, <1>3, <1>4, <2>1, <2>2, <2>3, <2>4 DEF ProtocolOK
<1>6. ASSUME NEW c \in Mine, HeldOK(c) PROVE HeldOK(c)'
  <2> DEFINE q == ClaimRequest(c)
             p == runOf[c]
  <2>1. q \in Requests /\ p \in Runs /\ c # NoLease
    BY RequestFacts, MineFacts
  <2>2. q \in calls' /\ Granting(q)' => q \in calls /\ Granting(q)
    <3>1. q \in asked => ~Replied(q)
      BY <2>1 DEF WorkerMove, Unused
    <3> QED BY <2>1, <3>1, MoveViews, GrantsAreReplies
  <2>3. /\ handler'[q] = handler[q]
        /\ Acked(q)' <=> Acked(q) \/ Ack(q) \in told
    BY <2>1, MoveViews
  <2>4. leases' = leases
    BY <1>1 DEF vars
  <2>5. /\ q \in calls /\ Granting(q) => c \in leases
        /\ scope[p].lease = c => c \in leases /\ (handler[q] = "replied" => Acked(q))
    BY <1>6 DEF HeldOK
  <2>6. ASSUME scope'[p].lease = c
        PROVE  c \in leases /\ (handler'[q] = "replied" => Acked(q)')
    <3>1. CASE scope[p].lease = c
      BY <2>3, <2>5, <3>1
    <3>2. CASE p = r /\ Taken(c, r, settled, told, answered)
      BY <1>1, <2>3, <2>5, <3>2 DEF Taken
    <3>3. p # r => scope'[p] = scope[p]
      BY <2>1 DEF WorkerMove
    <3>4. \/ scope'[r].lease = NoLease \/ scope'[r].lease = scope[r].lease
          \/ Taken(scope'[r].lease, r, settled, told, answered)
      BY DEF ScopeMove
    <3> QED BY <2>1, <2>6, <3>1, <3>2, <3>3, <3>4
  <2> QED BY <2>2, <2>4, <2>5, <2>6 DEF HeldOK
<1> QED BY <1>5, <1>6 DEF LeasesHeld

LEMMA MovedKeeps ==
  ASSUME ProtocolOK, Moved
  PROVE  Kept
BY MoveKeeps DEF Moved, Kept

\* What the invariant says of one run and of the requests it may still make.
LEMMA RunOf ==
  ASSUME ProtocolOK, NEW r \in Runs
  PROVE  /\ scope \in [Runs -> Scopes] /\ scope[r] \in Scopes /\ made \in [Runs -> Nat]
         /\ ScopeOK(r) /\ LastOK(r)
         /\ scope[r].last # NoLease =>
              /\ scope[r].last \in Mine /\ runOf[scope[r].last] = r
              /\ ClaimRequest(scope[r].last) \notin calls
         /\ \A c \in Mine : runOf[c] = r =>
              /\ ~scope[r].closed => Unused(ReleaseRequest(c, FALSE))
              /\ scope[r].lease = c => Unused(ReleaseRequest(c, TRUE))
              /\ ClaimRequest(c) \in calls =>
                   scope[r].at \in {"claiming", "reclaiming"} /\ c = Current(r)
         /\ made[r] < Len(claimsOf[r]) =>
              \E c \in Mine : /\ c = claimsOf[r][made[r] + 1] /\ runOf[c] = r
                              /\ Unused(ClaimRequest(c))
<1>1. /\ scope \in [Runs -> Scopes] /\ scope[r] \in Scopes /\ made \in [Runs -> Nat]
      /\ ScopeOK(r) /\ LastOK(r)
  BY DEF ProtocolOK, ProtocolTypes
<1>2. ASSUME scope[r].last # NoLease
      PROVE  /\ scope[r].last \in Mine /\ runOf[scope[r].last] = r
             /\ ClaimRequest(scope[r].last) \notin calls
  BY <1>1, <1>2 DEF Scopes, Lease, LastOK, Over
<1>3. ASSUME NEW c \in Mine, runOf[c] = r
      PROVE  /\ ~scope[r].closed => Unused(ReleaseRequest(c, FALSE))
             /\ scope[r].lease = c => Unused(ReleaseRequest(c, TRUE))
             /\ ClaimRequest(c) \in calls =>
                  scope[r].at \in {"claiming", "reclaiming"} /\ c = Current(r)
  <2>1. ReleaseOK(c, FALSE) /\ ReleaseOK(c, TRUE) /\ ClaimOK(c)
    BY DEF ProtocolOK
  <2> QED BY <1>3, <2>1 DEF ReleaseOK, ClaimOK
<1>4. ASSUME made[r] < Len(claimsOf[r])
      PROVE  \E c \in Mine : /\ c = claimsOf[r][made[r] + 1] /\ runOf[c] = r
                             /\ Unused(ClaimRequest(c))
  <2>1. Len(claimsOf[r]) \in Nat /\ made[r] \in Nat
    BY <1>1, RunFacts
  <2>2. made[r] + 1 \in 1..Len(claimsOf[r])
    BY <1>4, <2>1
  <2>3. PICK c \in Mine : c = claimsOf[r][made[r] + 1] /\ runOf[c] = r
    BY <2>2, RunFacts
  <2>4. \A i \in 1..made[r] : i \in 1..Len(claimsOf[r]) /\ i # made[r] + 1
    BY <2>1, <2>2
  <2>5. ~Made(c)
    BY <2>2, <2>3, <2>4, RunFacts DEF Made
  <2>6. Unused(ClaimRequest(c))
    BY <2>5 DEF ProtocolOK, ClaimOK
  <2> QED BY <2>3, <2>6
<1> QED BY <1>1, <1>2, <1>3, <1>4

LEMMA RoomForRelease ==
  ASSUME ProtocolTypes, RoomLeft, NEW settled, NEW q, q.op # "claim"
  PROVE  Room(calls \ settled, q)
<1>1. IsFiniteSet(calls)
  BY DEF ProtocolTypes, Fits
<1>2. /\ Cardinality(calls \ settled) <= Cardinality(calls)
      /\ Cardinality(calls \ settled) \in Nat /\ Cardinality(calls) \in Nat
  BY <1>1, FS_Subset, FS_CardinalityType
<1> QED BY <1>2, WorkerAssumption DEF RoomLeft, Room

\* When the scope of r closes it waits for no claim but the one it settles.
Closing(r, settled, told, answered, held) ==
  /\ settled \subseteq calls /\ answered \subseteq Requests
  /\ ~scope[r].closed /\ scope[r].at # "idle"
  /\ held \in Mine /\ runOf[held] = r
  /\ held = scope[r].last \/ Taken(held, r, settled, told, answered)
  /\ Reads(answered)
  /\ UNCHANGED <<vars, hostVars>>
  /\ \A q \in Requests : /\ Ack(q) \in told => q \in settled /\ q \in answered
                         /\ Cancel(q) \in told => q \in settled /\ q \notin answered
                         /\ q \in settled => Ack(q) \in told \/ Cancel(q) \in told
                         /\ q \in settled => runOf[q.claim] = r
                         /\ q \in answered => q \in settled
  /\ \A c \in Mine : runOf[c] = r /\ ClaimRequest(c) \in calls
                       => ClaimRequest(c) \in settled
  /\ \A c \in Mine : runOf[c] = r /\ Holding(c, told, answered) => c = held
  /\ \/ made' = made
     \/ /\ made[r] < Len(claimsOf[r]) /\ made' = [made EXCEPT ![r] = @ + 1]
        /\ settled = {} /\ scope[r].at = "away"

\* A scope that closes sends its release, if there is room.
LEMMA ClosingMoves ==
  ASSUME ProtocolOK, NEW r \in Runs, NEW at \in {"running", "done"},
         NEW settled, NEW told, NEW messages, NEW answered, NEW held,
         Batch(messages, told), Closing(r, settled, told, answered, held),
         ReleaseScope(r, at, settled, messages, held)
  PROVE  Moved
<1>0. /\ settled \in SUBSET calls /\ answered \in SUBSET Requests /\ held \in Mine
      /\ ~scope[r].closed /\ scope[r].at # "idle" /\ runOf[held] = r
      /\ held = scope[r].last \/ Taken(held, r, settled, told, answered)
      /\ Reads(answered) /\ UNCHANGED <<vars, hostVars>>
      /\ \A q \in Requests : /\ Ack(q) \in told => q \in settled /\ q \in answered
                             /\ Cancel(q) \in told => q \in settled /\ q \notin answered
                             /\ q \in settled => Ack(q) \in told \/ Cancel(q) \in told
                             /\ q \in settled => runOf[q.claim] = r
                             /\ q \in answered => q \in settled
      /\ \A c \in Mine : runOf[c] = r /\ ClaimRequest(c) \in calls
                           => ClaimRequest(c) \in settled
      /\ \A c \in Mine : runOf[c] = r /\ Holding(c, told, answered) => c = held
      /\ \/ made' = made
         \/ /\ made[r] < Len(claimsOf[r]) /\ made' = [made EXCEPT ![r] = @ + 1]
            /\ settled = {} /\ scope[r].at = "away"
  BY DEF Closing
<1> DEFINE q == ReleaseRequest(held, FALSE)
<1>1. /\ q \in Requests /\ q.claim = held /\ held # NoLease /\ q.op # "claim"
      /\ \A c \in Mine : ClaimRequest(c) # q
      /\ \A c \in Mine, y \in BOOLEAN : ReleaseRequest(c, y) = q => c = held /\ y = FALSE
  <2>1. q \in Requests /\ q.claim = held /\ held # NoLease /\ q.op # "claim"
    BY <1>0, RequestFacts, MineFacts
  <2>2. ASSUME NEW c \in Mine PROVE ClaimRequest(c) # q
    BY <1>0, RequestsDiffer
  <2>3. ASSUME NEW c \in Mine, NEW y \in BOOLEAN, ReleaseRequest(c, y) = q
        PROVE  c = held /\ y = FALSE
    <3>1. FALSE \in BOOLEAN
      OBVIOUS
    <3> QED BY <1>0, <2>3, <3>1, RequestsDiffer
  <2> QED BY <2>1, <2>2, <2>3
<1>2. Unused(q)
  BY <1>0, RunOf
<1> HIDE DEF q
<1>3. SendAndCall(settled, messages, q)
  BY DEF ReleaseScope, q
<1>4. PICK asked \in SUBSET {q} :
        /\ Sends(settled, told, asked) /\ SendsInTurn(settled, told, asked)
        /\ RoomLeft => q \in asked
  <2>1. ProtocolTypes /\ q \in Requests
    BY <1>1 DEF ProtocolOK
  <2>2. CASE Room(calls \ settled, q)
    BY <1>0, <1>3, <2>1, <2>2, SendingSends
  <2>3. CASE ~Room(calls \ settled, q)
    <3>1. ~RoomLeft
      BY <1>1, <2>1, <2>3, RoomForRelease
    <3> QED BY <1>0, <1>3, <2>1, <2>3, <3>1, SendingSends
  <2> QED BY <2>2, <2>3
<1>5. /\ scope \in [Runs -> Scopes] /\ made \in [Runs -> Nat] /\ ScopeOK(r)
      /\ Len(claimsOf[r]) \in Nat
  BY RunOf, RunFacts
<1>6. scope' = [scope EXCEPT ![r] = [at |-> at, lease |-> NoLease,
                                     last |-> held, closed |-> TRUE]]
  BY DEF ReleaseScope
<1>7. /\ scope'[r] = [at |-> at, lease |-> NoLease, last |-> held, closed |-> TRUE]
      /\ scope' \in [Runs -> Scopes]
      /\ \A p \in Runs \ {r} : scope'[p] = scope[p]
  <2>1. [at |-> at, lease |-> NoLease, last |-> held, closed |-> TRUE] \in Scopes
    BY <1>0 DEF Scopes, Lease
  <2> QED BY <1>5, <1>6, <2>1
<1>8. /\ made' \in [Runs -> Nat] /\ made'[r] # 0
      /\ \A p \in Runs \ {r} : made'[p] = made[p]
      /\ \/ made'[r] = made[r]
         \/ made'[r] = made[r] + 1 /\ made'[r] \in 1..Len(claimsOf[r])
      /\ made'[r] \in 0..Len(claimsOf[r])
  BY <1>0, <1>5 DEF ScopeOK
<1>9. WorkerMove(r, settled, told, asked, answered)
  <2>1. /\ \A p \in Requests : Call(p) \notin told
        /\ \A n, o \in told : n = o
    BY MessageFacts DEF Batch
  <2>2. \A p \in asked : p = q
    OBVIOUS
  <2> QED BY <1>0, <1>1, <1>2, <1>4, <1>7, <1>8, <2>1, <2>2 DEF WorkerMove
<1>10. ScopeMove(r, settled, told, asked, answered)
  <2>1. ScopeOK(r)'
    BY <1>1, <1>7, <1>8 DEF ScopeOK
  <2>2. Finished(r)' /\ ~Open(r)'
    BY <1>7 DEF Finished, Open
  <2>3. \A c \in Mine : ClaimRequest(c) \notin asked
    BY <1>1
  <2>4. \A c \in Mine, y \in BOOLEAN : ReleaseRequest(c, y) \in asked => c = held /\ y = FALSE
    BY <1>1
  <2> QED BY <1>0, <1>1, <1>7, <1>8, <2>1, <2>2, <2>3, <2>4 DEF ScopeMove
<1>11. LeaseMove(r, settled, told, asked, answered)
  <2>1. ASSUME RoomLeft, NEW c \in Mine, runOf[c] = r, Holding(c, told, answered)
        PROVE  scope'[r].last = c /\ \E y \in BOOLEAN : ReleaseRequest(c, y) \in asked
    <3>1. c = held /\ FALSE \in BOOLEAN /\ scope'[r].last = held
      BY <1>0, <1>7, <2>1
    <3> QED BY <1>4, <2>1, <3>1 DEF q
  <2>2. made'[r] # made[r] => settled = {} /\ scope[r].at \in {"idle", "away"}
    BY <1>0
  <2> QED BY <1>0, <2>1, <2>2 DEF LeaseMove
<1> QED BY <1>9, <1>10, <1>11 DEF Moved

LEMMA NextClaimMoves ==
  ASSUME ProtocolOK, NEW r \in Runs, NEW at \in {"claiming", "reclaiming"},
         \/ at = "claiming" /\ scope[r].at = "idle"
         \/ at = "reclaiming" /\ scope[r].at = "away",
         Room(calls, ClaimRequest(claimsOf[r][made[r] + 1])),
         SendAndCall({}, <<>>, ClaimRequest(claimsOf[r][made[r] + 1])),
         made' = [made EXCEPT ![r] = @ + 1],
         scope' = [scope EXCEPT ![r].at = at],
         UNCHANGED <<vars, toWorker, hostVars>>
  PROVE  Moved
<1>1. /\ scope \in [Runs -> Scopes] /\ scope[r] \in Scopes /\ made \in [Runs -> Nat]
      /\ ScopeOK(r) /\ Len(claimsOf[r]) \in Nat /\ Len(claimsOf[r]) > 0
  BY RunOf, RunFacts
<1>2. made[r] < Len(claimsOf[r])
  BY <1>1 DEF ScopeOK
<1>3. PICK c \in Mine : /\ c = claimsOf[r][made[r] + 1] /\ runOf[c] = r
                        /\ Unused(ClaimRequest(c))
  BY <1>2, RunOf
<1> DEFINE q == ClaimRequest(c)
<1>4. /\ q \in Requests /\ q.claim = c
      /\ \A d \in Mine : ClaimRequest(d) = q => d = c
      /\ \A d \in Mine, y \in BOOLEAN : ReleaseRequest(d, y) # q
  <2>1. q \in Requests /\ q.claim = c
    BY RequestFacts
  <2>2. ASSUME NEW d \in Mine PROVE ClaimRequest(d) = q => d = c
    BY RequestsDiffer
  <2>3. ASSUME NEW d \in Mine, NEW y \in BOOLEAN PROVE ReleaseRequest(d, y) # q
    BY RequestsDiffer
  <2> QED BY <2>1, <2>2, <2>3
<1>5. Unused(q) /\ SendAndCall({}, <<>>, q) /\ Room(calls, q)
  BY <1>3
<1>6. q \in calls'
  BY <1>5 DEF SendAndCall
<1>7. Sends({}, {}, {q}) /\ SendsInTurn({}, {}, {q})
  <2>1. Batch(<<>>, {}) /\ {} \in SUBSET calls /\ calls \ {} = calls
    BY DEF Batch
  <2>2. ProtocolTypes /\ q \in Requests
    BY <1>4 DEF ProtocolOK
  <2> HIDE DEF q
  <2> QED BY <1>5, <2>1, <2>2, SendingSends
<1>8. c = Current(r)'
  BY <1>1, <1>3 DEF Current
<1> HIDE DEF q
<1>9. /\ scope'[r] = [scope[r] EXCEPT !.at = at] /\ scope' \in [Runs -> Scopes]
      /\ \A p \in Runs \ {r} : scope'[p] = scope[p]
  BY <1>1 DEF Scopes
<1>10. /\ made' \in [Runs -> Nat] /\ made'[r] = made[r] + 1
       /\ \A p \in Runs \ {r} : made'[p] = made[p]
       /\ made'[r] \in 1..Len(claimsOf[r])
  BY <1>1, <1>2
<1>11. /\ scope'[r].at = at /\ scope'[r].last = scope[r].last
       /\ scope'[r].lease = scope[r].lease /\ scope'[r].closed = scope[r].closed
  BY <1>9, <1>1 DEF Scopes
<1>12. Reads({})
  BY ListeningReads DEF ProtocolOK
<1>13. WorkerMove(r, {}, {}, {q}, {})
  BY <1>3, <1>4, <1>5, <1>7, <1>9, <1>10, <1>12 DEF WorkerMove
<1>14. ScopeMove(r, {}, {}, {q}, {})
  <2>1. ScopeOK(r)'
    <3>1. ClaimRequest(Current(r)') \in calls'
      BY <1>6, <1>8 DEF q
    <3> QED BY <1>1, <1>10, <1>11, <3>1 DEF ScopeOK
  <2>2. \A d \in Mine : ClaimRequest(d) \in {q} => d = claimsOf[r][made'[r]]
    BY <1>3, <1>4, <1>10
  <2>3. \A d \in Mine : runOf[d] = r => ClaimRequest(d) \notin calls
    BY RunOf
  <2>4. ~Finished(r)
    BY <1>1 DEF Finished, ScopeOK
  <2>5. \A d \in Mine, y \in BOOLEAN : ReleaseRequest(d, y) \notin {q}
    BY <1>4
  <2>6. ~(Open(r)' /\ scope'[r].at # "reclaiming")
    BY <1>1, <1>11 DEF Open, ScopeOK
  <2> QED BY <1>10, <1>11, <2>1, <2>2, <2>3, <2>4, <2>5, <2>6 DEF ScopeMove
<1>15. LeaseMove(r, {}, {}, {q}, {})
  BY <1>11 DEF LeaseMove, Holding
<1> QED BY <1>13, <1>14, <1>15 DEF Moved

LEMMA StartMoves ==
  ASSUME ProtocolOK, NEW r \in Runs, Start(r)
  PROVE  Moved
<1>1. scope[r].at = "idle" /\ made[r] = 0 /\ made \in [Runs -> Nat]
  BY RunOf DEF Start, ScopeOK
<1>2. made' = [made EXCEPT ![r] = @ + 1] /\ claimsOf[r][made[r] + 1] = claimsOf[r][1]
  BY <1>1 DEF Start
<1> QED BY <1>1, <1>2, NextClaimMoves DEF Start

LEMMA YieldMoves ==
  ASSUME ProtocolOK, NEW r \in Runs, Yield(r)
  PROVE  Moved
<1>1. /\ scope \in [Runs -> Scopes] /\ scope[r] \in Scopes /\ made \in [Runs -> Nat]
      /\ ScopeOK(r) /\ Len(claimsOf[r]) \in Nat
  BY RunOf, RunFacts
<1>2. /\ scope[r].at = "running" /\ ~scope[r].closed /\ scope[r].last # NoLease
      /\ scope[r].lease = scope[r].last /\ made[r] < Len(claimsOf[r])
  BY <1>1 DEF Yield, ScopeOK
<1>3. PICK c \in Mine : c = scope[r].lease /\ runOf[c] = r /\ Unused(ReleaseRequest(c, TRUE))
  <2>1. /\ scope[r].last \in Mine /\ runOf[scope[r].last] = r
        /\ \A d \in Mine : runOf[d] = r /\ scope[r].lease = d => Unused(ReleaseRequest(d, TRUE))
    BY <1>2, RunOf
  <2> QED BY <1>2, <2>1
<1> DEFINE q == ReleaseRequest(c, TRUE)
<1>4. /\ q \in Requests /\ q.claim = c /\ c # NoLease /\ q.op # "claim"
      /\ \A d \in Mine : ClaimRequest(d) # q
      /\ \A d \in Mine, y \in BOOLEAN : ReleaseRequest(d, y) = q => d = c /\ y = TRUE
  <2>1. q \in Requests /\ q.claim = c /\ c # NoLease /\ q.op # "claim"
    BY RequestFacts, MineFacts
  <2>2. ASSUME NEW d \in Mine PROVE ClaimRequest(d) # q
    BY RequestsDiffer
  <2>3. ASSUME NEW d \in Mine, NEW y \in BOOLEAN, ReleaseRequest(d, y) = q
        PROVE  d = c /\ y = TRUE
    <3>1. TRUE \in BOOLEAN
      OBVIOUS
    <3> QED BY <2>3, <3>1, RequestsDiffer
  <2> QED BY <2>1, <2>2, <2>3
<1>5. /\ Unused(q) /\ SendAndCall({}, <<>>, q) /\ UNCHANGED <<vars, made, toWorker, hostVars>>
      /\ scope' = [scope EXCEPT ![r].lease = NoLease,
                                ![r].at = IF Room(calls, q) THEN "yielding" ELSE "away"]
  BY <1>3 DEF Yield
<1> HIDE DEF q
<1>6. PICK asked \in SUBSET {q} :
        /\ Sends({}, {}, asked) /\ SendsInTurn({}, {}, asked)
        /\ RoomLeft => q \in asked
  <2>1. Batch(<<>>, {}) /\ {} \in SUBSET calls
    BY DEF Batch
  <2>2. ProtocolTypes /\ q \in Requests
    BY <1>4 DEF ProtocolOK
  <2>3. CASE Room(calls \ {}, q)
    BY <1>5, <2>1, <2>2, <2>3, SendingSends
  <2>4. CASE ~Room(calls \ {}, q)
    <3>1. ~RoomLeft
      BY <1>4, <2>2, <2>4, RoomForRelease
    <3> QED BY <1>5, <2>1, <2>2, <2>4, <3>1, SendingSends
  <2> QED BY <2>3, <2>4
<1>7. /\ scope' \in [Runs -> Scopes]
      /\ \A p \in Runs \ {r} : scope'[p] = scope[p]
      /\ scope'[r].at \in {"yielding", "away"} /\ scope'[r].lease = NoLease
      /\ scope'[r].last = scope[r].last /\ scope'[r].closed = scope[r].closed
  <2> DEFINE t == [scope[r] EXCEPT !.lease = NoLease,
                                   !.at = IF Room(calls, q) THEN "yielding" ELSE "away"]
  <2>1. scope' = [scope EXCEPT ![r] = t]
    BY <1>1, <1>5 DEF Scopes
  <2>2. t \in Scopes
    BY <1>1 DEF Scopes, Lease
  <2>3. t.at \in {"yielding", "away"} /\ t.lease = NoLease
        /\ t.last = scope[r].last /\ t.closed = scope[r].closed
    BY <1>1 DEF Scopes
  <2> HIDE DEF t
  <2>4. scope'[r] = t
    BY <1>1, <2>1
  <2> QED BY <1>1, <2>1, <2>2, <2>3, <2>4
<1>8. Reads({})
  BY <1>5, ListeningReads DEF ProtocolOK
<1>9. WorkerMove(r, {}, {}, asked, {})
  <2>1. \A p \in asked : p = q
    OBVIOUS
  <2> QED BY <1>1, <1>3, <1>4, <1>5, <1>6, <1>7, <1>8, <2>1 DEF WorkerMove
<1>10. ScopeMove(r, {}, {}, asked, {})
  <2>1. ScopeOK(r)'
    BY <1>1, <1>2, <1>5, <1>7 DEF ScopeOK
  <2>2. \A d \in Mine : runOf[d] = r => ClaimRequest(d) \notin calls
    BY <1>2, RunOf
  <2>3. ~Finished(r)
    BY <1>2 DEF Finished
  <2>4. \A d \in Mine, y \in BOOLEAN : ReleaseRequest(d, y) \in asked => d = c /\ y = TRUE
    BY <1>4
  <2>5. \A d \in Mine : ClaimRequest(d) \notin asked
    BY <1>4
  <2>6. Open(r) /\ scope[r].at # "reclaiming"
    BY <1>2 DEF Open
  <2> QED BY <1>2, <1>3, <1>4, <1>5, <1>7, <2>1, <2>2, <2>3, <2>4, <2>5, <2>6 DEF ScopeMove
<1>11. LeaseMove(r, {}, {}, asked, {})
  <2>1. ASSUME RoomLeft, NEW d \in Mine, runOf[d] = r, Holding(d, {}, {})
        PROVE  scope'[r].last = d /\ \E y \in BOOLEAN : ReleaseRequest(d, y) \in asked
    <3>1. d = c /\ TRUE \in BOOLEAN /\ scope'[r].last = c
      BY <1>2, <1>3, <1>7, <2>1 DEF Holding
    <3> QED BY <1>6, <2>1, <3>1 DEF q
  <2> QED BY <1>5, <2>1 DEF LeaseMove
<1> QED BY <1>9, <1>10, <1>11 DEF Moved

\* Closing a scope that waits for no claim settles nothing.
LEMMA QuietClosingMoves ==
  ASSUME ProtocolOK, NEW r \in Runs, NEW at \in {"running", "done"},
         scope[r].last # NoLease, ~scope[r].closed,
         scope[r].at \in {"away", "running"},
         ReleaseScope(r, at, {}, <<>>, scope[r].last),
         UNCHANGED <<vars, toWorker, hostVars>>,
         \/ made' = made
         \/ /\ made[r] < Len(claimsOf[r]) /\ made' = [made EXCEPT ![r] = @ + 1]
            /\ scope[r].at = "away"
  PROVE  Moved
<1>1. PICK c \in Mine : c = scope[r].last /\ runOf[c] = r
  BY RunOf
<1>2. ReleaseScope(r, at, {}, <<>>, c)
  BY <1>1
<1>3. Batch(<<>>, {}) /\ {} \in SUBSET calls /\ {} \in SUBSET Requests
  BY DEF Batch
<1>4. \A d \in Mine : runOf[d] = r => ClaimRequest(d) \notin calls
  BY RunOf
<1>5. Reads({})
  BY ListeningReads DEF ProtocolOK
<1>6. Closing(r, {}, {}, {}, c)
  <2>1. \A d \in Mine : runOf[d] = r /\ Holding(d, {}, {}) => d = c
    BY <1>1, RunOf, MineFacts DEF Holding, ScopeOK
  <2> QED BY <1>1, <1>4, <1>5, <2>1 DEF Closing
<1> QED BY <1>2, <1>3, <1>6, ClosingMoves

LEMMA ReclaimMoves ==
  ASSUME ProtocolOK, NEW r \in Runs, Reclaim(r)
  PROVE  Moved
<1>1. /\ scope[r].at = "away" /\ scope[r].last # NoLease /\ ~scope[r].closed
      /\ made[r] < Len(claimsOf[r]) /\ made' = [made EXCEPT ![r] = @ + 1]
      /\ UNCHANGED <<vars, toWorker, hostVars>>
  BY RunOf DEF Reclaim, ScopeOK
<1> DEFINE q == ClaimRequest(claimsOf[r][made[r] + 1])
<1>2. CASE Room(calls, q)
  BY <1>1, <1>2, NextClaimMoves DEF Reclaim
<1>3. CASE ~Room(calls, q)
  BY <1>1, <1>3, QuietClosingMoves DEF Reclaim
<1> QED BY <1>2, <1>3

LEMMA MissDeadlineMoves ==
  ASSUME ProtocolOK, NEW r \in Runs, MissDeadline(r)
  PROVE  Moved
<1>1. /\ scope[r].at = "away" /\ scope[r].last # NoLease /\ ~scope[r].closed
      /\ UNCHANGED <<vars, made, toWorker, hostVars>>
  BY RunOf DEF MissDeadline, ScopeOK
<1> QED BY <1>1, QuietClosingMoves DEF MissDeadline

LEMMA EndMoves ==
  ASSUME ProtocolOK, NEW r \in Runs, End(r)
  PROVE  Moved
<1>1. /\ scope[r].at = "running" /\ UNCHANGED <<vars, made, toWorker, hostVars>>
      /\ scope \in [Runs -> Scopes] /\ scope[r] \in Scopes /\ ScopeOK(r)
      /\ made \in [Runs -> Nat]
  BY RunOf DEF End
<1>2. CASE ~scope[r].closed
  <2>1. scope[r].lease = scope[r].last /\ scope[r].last # NoLease
    BY <1>1, <1>2 DEF ScopeOK
  <2>2. ReleaseScope(r, "done", {}, <<>>, scope[r].last)
    BY <1>2, <2>1 DEF End
  <2> QED BY <1>1, <1>2, <2>1, <2>2, QuietClosingMoves
<1>3. CASE scope[r].closed
  <2>1. scope' = [scope EXCEPT ![r].at = "done"] /\ UNCHANGED <<calls, toHost>>
    BY <1>3 DEF End
  <2>2. /\ scope' \in [Runs -> Scopes]
        /\ \A p \in Runs \ {r} : scope'[p] = scope[p]
        /\ scope'[r].at = "done" /\ scope'[r].lease = scope[r].lease
        /\ scope'[r].last = scope[r].last /\ scope'[r].closed = scope[r].closed
    BY <1>1, <2>1 DEF Scopes
  <2>3. Sends({}, {}, {}) /\ SendsInTurn({}, {}, {}) /\ Reads({})
    BY <1>1, <2>1, SilentSends, ListeningReads DEF ProtocolOK
  <2>4. WorkerMove(r, {}, {}, {}, {})
    BY <1>1, <2>2, <2>3 DEF WorkerMove
  <2>5. ScopeMove(r, {}, {}, {}, {})
    <3>1. ScopeOK(r)'
      BY <1>1, <1>3, <2>2 DEF ScopeOK
    <3>2. \A d \in Mine : runOf[d] = r => ClaimRequest(d) \notin calls
      BY <1>1, RunOf
    <3>3. Finished(r)' /\ ~Open(r)'
      BY <1>3, <2>2 DEF Finished, Open
    <3> QED BY <1>1, <1>3, <2>2, <3>1, <3>2, <3>3 DEF ScopeMove
  <2>6. LeaseMove(r, {}, {}, {}, {})
    BY <1>1, <2>2 DEF LeaseMove, Holding
  <2> QED BY <2>4, <2>5, <2>6 DEF Moved
<1> QED BY <1>2, <1>3

\* A coroutine goes on with a reply just read, or with an error.
LEMMA ResumeMoves ==
  ASSUME ProtocolOK, NEW q \in Requests, q \in calls, NEW result, NEW message,
         NEW answered, Reads(answered), UNCHANGED <<vars, made, hostVars>>,
         \/ message = Ack(q) /\ answered = {q}
         \/ message = Cancel(q) /\ answered = {},
         result = "accepted" => message = Ack(q) /\ Granting(q),
         result # "accepted" /\ answered = {q} => ~Granting(q),
         Resume(q, result, message)
  PROVE  Moved
<1> DEFINE r == runOf[q.claim]
           c == q.claim
<1>1. /\ c \in Mine /\ r \in Runs /\ c # NoLease
      /\ q.op = "claim" => q = ClaimRequest(c)
      /\ q.op # "claim" => \A d \in Mine : ClaimRequest(d) # q
      /\ q.op = "claim" \/ q.op = "release"
      /\ q.op = "claim" => q.op # "release"
  BY RequestFacts, MineFacts
<1>2. /\ message \in Message /\ message.kind # "call"
      /\ \A p \in Requests :
           /\ Call(p) # message
           /\ Ack(p) = message => p = q /\ answered = {q}
           /\ Cancel(p) = message => p = q /\ answered = {}
  <2>1. CASE message = Ack(q) /\ answered = {q}
    BY <2>1, MessageFacts
  <2>2. CASE message = Cancel(q) /\ answered = {}
    BY <2>2, MessageFacts
  <2> QED BY <2>1, <2>2
<1>3. answered \in SUBSET Requests /\ {q} \in SUBSET calls
  OBVIOUS
<1>4. /\ scope \in [Runs -> Scopes] /\ scope[r] \in Scopes /\ made \in [Runs -> Nat]
      /\ ScopeOK(r)
  BY <1>1, RunOf
<1>5. ASSUME q.op = "claim"
      PROVE  /\ scope[r].at \in {"claiming", "reclaiming"} /\ ~scope[r].closed
             /\ scope[r].lease = NoLease
             /\ made[r] # 0
             /\ \A d \in Mine : runOf[d] = r /\ ClaimRequest(d) \in calls
                                  => ClaimRequest(d) = q
  <2>1. scope[r].at \in {"claiming", "reclaiming"} /\ c = Current(r)
    <3>1. ClaimRequest(c) \in calls
      BY <1>1, <1>5
    <3>2. \A p \in Runs, d \in Mine : runOf[d] = p /\ ClaimRequest(d) \in calls
            => scope[p].at \in {"claiming", "reclaiming"} /\ d = Current(p)
      BY RunOf
    <3> QED BY <1>1, <3>1, <3>2
  <2>2. \A d \in Mine : runOf[d] = r /\ ClaimRequest(d) \in calls => d = c
    BY <1>1, <2>1, RunOf
  <2> QED BY <1>1, <1>4, <1>5, <2>1, <2>2 DEF ScopeOK
<1>6. ASSUME calls' = calls \ {q}, toHost' = Append(toHost, message),
             scope' \in [Runs -> Scopes],
             \A p \in Runs \ {r} : scope'[p] = scope[p]
      PROVE  WorkerMove(r, {q}, {message}, {}, answered)
  <2>1. Sends({q}, {message}, {}) /\ SendsInTurn({q}, {message}, {})
    BY <1>2, <1>3, <1>6, SettlingSends DEF ProtocolOK
  <2> QED BY <1>1, <1>2, <1>3, <1>4, <1>6, <2>1 DEF WorkerMove
<1>15. /\ made' = made
       /\ \A p \in answered : runOf[p.claim] = r /\ (Ack(p) \in {message} \/ Cancel(p) \in {message})
  OBVIOUS
<1>16. ASSUME q.op = "claim", NEW d \in Mine, runOf[d] = r, Holding(d, {message}, answered)
       PROVE  d = c /\ result = "accepted"
  <2>1. ClaimRequest(d) \in answered /\ Granting(ClaimRequest(d))
    BY <1>5, <1>16, MineFacts DEF Holding
  <2>2. answered = {q} /\ ClaimRequest(d) = q
    BY <2>1
  <2>3. d = c
    BY <2>2, RequestFacts
  <2> QED BY <2>1, <2>2, <2>3
<1>7. CASE q.op = "release"
  <2>1. /\ calls' = calls \ {q} /\ toHost' = Append(toHost, message)
        /\ scope' = IF q.yielding /\ scope[r].at = "yielding"
                    THEN [scope EXCEPT ![r].at = "away"] ELSE scope
    BY <1>1, <1>7 DEF Resume
  <2>2. \A d \in Mine : ClaimRequest(d) # q
    BY <1>7, RequestFacts
  <2>3. /\ scope' \in [Runs -> Scopes]
        /\ \A p \in Runs \ {r} : scope'[p] = scope[p]
        /\ scope'[r].lease = scope[r].lease /\ scope'[r].last = scope[r].last
        /\ scope'[r].closed = scope[r].closed
        /\ \/ scope'[r].at = scope[r].at
           \/ scope'[r].at = "away" /\ scope[r].at = "yielding"
    BY <1>1, <1>4, <2>1 DEF Scopes
  <2>4. WorkerMove(r, {q}, {message}, {}, answered)
    BY <1>6, <2>1, <2>3
  <2>5. \A d \in Mine : runOf[d] = r /\ ClaimRequest(d) \in calls
                          => scope[r].at \in {"claiming", "reclaiming"}
    BY <1>1, RunOf
  <2>6. ScopeOK(r)'
    <3>1. ASSUME scope[r].at \in {"claiming", "reclaiming"}
          PROVE  ClaimRequest(Current(r)') \in calls'
      <4>1. Current(r)' = Current(r)
        BY DEF Current
      <4>2. Current(r) \in Mine /\ ClaimRequest(Current(r)) \in calls
        <5>1. made[r] \in 1..Len(claimsOf[r])
          BY <1>1, <1>4, <3>1, RunFacts DEF ScopeOK
        <5> QED BY <1>1, <1>4, <3>1, <5>1, RunFacts DEF ScopeOK, Current
      <4> QED BY <2>1, <2>2, <4>1, <4>2
    <3> QED BY <1>4, <2>3, <3>1 DEF ScopeOK
  <2>7. ScopeMove(r, {q}, {message}, {}, answered)
    <3>1. Finished(r) => Finished(r)'
      BY <2>3 DEF Finished
    <3>2. Open(r)' => Open(r)
      BY <2>3 DEF Open
    <3> QED BY <2>2, <2>3, <2>5, <2>6, <3>1, <3>2 DEF ScopeMove
  <2>8. LeaseMove(r, {q}, {message}, {}, answered)
    <3>1. \A d \in Mine : ClaimRequest(d) \notin answered
      BY <2>2
    <3> QED BY <2>3, <3>1, <1>15 DEF LeaseMove, Holding
  <2> QED BY <1>1, <2>4, <2>7, <2>8 DEF Moved
<1>8. ASSUME q.op = "claim", result = "accepted"
      PROVE  Taken(c, r, {q}, {message}, answered)
  BY <1>1, <1>2, <1>8 DEF Taken
<1>9. CASE q.op = "claim" /\ result = "accepted" /\ ~Orphaned(r)
  <2>1. /\ calls' = calls \ {q} /\ toHost' = Append(toHost, message)
        /\ scope' = [scope EXCEPT ![r].at = "running", ![r].lease = c, ![r].last = c]
    BY <1>1, <1>9 DEF Resume
  <2>2. Taken(c, r, {q}, {message}, answered)
    BY <1>8, <1>9
  <2>3. /\ scope[r].at \in {"claiming", "reclaiming"} /\ ~scope[r].closed /\ made[r] # 0
        /\ \A d \in Mine : runOf[d] = r /\ ClaimRequest(d) \in calls => ClaimRequest(d) = q
    BY <1>5, <1>9
  <2>4. /\ scope' \in [Runs -> Scopes]
        /\ \A p \in Runs \ {r} : scope'[p] = scope[p]
        /\ scope'[r].at = "running" /\ scope'[r].lease = c /\ scope'[r].last = c
        /\ scope'[r].closed = scope[r].closed
    <3> DEFINE t == [scope[r] EXCEPT !.at = "running", !.lease = c, !.last = c]
    <3>1. scope' = [scope EXCEPT ![r] = t]
      BY <1>1, <1>4, <2>1 DEF Scopes
    <3>2. t \in Scopes /\ t.at = "running" /\ t.lease = c /\ t.last = c
          /\ t.closed = scope[r].closed
      BY <1>1, <1>4 DEF Scopes, Lease
    <3> HIDE DEF t
    <3>3. scope'[r] = t
      BY <1>1, <1>4, <3>1
    <3> QED BY <1>1, <1>4, <3>1, <3>2, <3>3
  <2>5. WorkerMove(r, {q}, {message}, {}, answered)
    BY <1>6, <2>1, <2>4
  <2>6. ScopeOK(r)'
    BY <1>1, <1>4, <2>3, <2>4 DEF ScopeOK
  <2>7. ScopeMove(r, {q}, {message}, {}, answered)
    <3>1. ~Finished(r)
      BY <2>3 DEF Finished
    <3>2. \A d \in Mine : ClaimRequest(d) \in {q} => ClaimRequest(d) \in answered
      BY <1>9, <2>2 DEF Taken
    <3> QED BY <2>2, <2>3, <2>4, <2>6, <3>1, <3>2 DEF ScopeMove
  <2>8. LeaseMove(r, {q}, {message}, {}, answered)
    BY <1>15, <1>16, <1>9, <2>4 DEF LeaseMove
  <2> QED BY <1>1, <2>5, <2>7, <2>8 DEF Moved
<1>10. Batch(<<message>>, {message})
  BY <1>2 DEF Batch
<1>11. ASSUME NEW held \in Mine, runOf[held] = r, q.op = "claim",
              result = "accepted" => held = c,
              held = scope[r].last \/ Taken(held, r, {q}, {message}, answered)
       PROVE  Closing(r, {q}, {message}, answered, held)
  <2>1. \A d \in Mine : runOf[d] = r /\ ClaimRequest(d) \in calls => ClaimRequest(d) \in {q}
    BY <1>5, <1>11
  <2>2. /\ ~scope[r].closed /\ scope[r].at # "idle"
    BY <1>5, <1>11
  <2>3. \A p \in Requests :
          /\ Ack(p) \in {message} => p \in {q} /\ p \in answered
          /\ Cancel(p) \in {message} => p \in {q} /\ p \notin answered
          /\ p \in {q} => Ack(p) \in {message} \/ Cancel(p) \in {message}
          /\ p \in {q} => runOf[p.claim] = r
          /\ p \in answered => p \in {q}
    BY <1>2
  <2>4. \A d \in Mine : runOf[d] = r /\ Holding(d, {message}, answered) => d = held
    BY <1>11, <1>16
  <2> QED BY <1>3, <1>11, <2>1, <2>2, <2>3, <2>4 DEF Closing
<1>12. CASE q.op = "claim" /\ result = "accepted" /\ Orphaned(r)
  <2>1. ReleaseScope(r, "done", {q}, <<message>>, c)
    BY <1>1, <1>12 DEF Resume
  <2>2. Closing(r, {q}, {message}, answered, c)
    BY <1>1, <1>8, <1>11, <1>12
  <2> QED BY <1>1, <1>10, <2>1, <2>2, ClosingMoves
<1>13. CASE q.op = "claim" /\ result # "accepted" /\ scope[r].at = "claiming"
  <2>1. /\ calls' = calls \ {q} /\ toHost' = Append(toHost, message)
        /\ scope' = [scope EXCEPT ![r].at = "done"]
    BY <1>1, <1>13 DEF Resume
  <2>2. /\ ~scope[r].closed /\ made[r] # 0
        /\ \A d \in Mine : runOf[d] = r /\ ClaimRequest(d) \in calls => ClaimRequest(d) = q
    BY <1>5, <1>13
  <2>3. /\ scope' \in [Runs -> Scopes]
        /\ \A p \in Runs \ {r} : scope'[p] = scope[p]
        /\ scope'[r].at = "done" /\ scope'[r].lease = scope[r].lease
        /\ scope'[r].last = scope[r].last /\ scope'[r].closed = scope[r].closed
    BY <1>1, <1>4, <2>1 DEF Scopes
  <2>4. WorkerMove(r, {q}, {message}, {}, answered)
    BY <1>6, <2>1, <2>3
  <2>5. ScopeOK(r)' /\ scope[r].last = NoLease
    BY <1>4, <1>13, <2>2, <2>3 DEF ScopeOK
  <2>6. ScopeMove(r, {q}, {message}, {}, answered)
    <3>1. Finished(r)'
      BY <2>3 DEF Finished
    <3>2. ~Open(r)'
      BY <2>3, <2>5 DEF Open
    <3> QED BY <2>2, <2>3, <2>5, <3>1, <3>2 DEF ScopeMove
  <2>7. LeaseMove(r, {q}, {message}, {}, answered)
    BY <1>13, <1>15, <1>16 DEF LeaseMove
  <2> QED BY <1>1, <2>4, <2>6, <2>7 DEF Moved
<1>14. CASE q.op = "claim" /\ result # "accepted" /\ scope[r].at = "reclaiming"
  <2>1. ReleaseScope(r, "running", {q}, <<message>>, scope[r].last)
    BY <1>1, <1>14 DEF Resume
  <2>2. scope[r].last # NoLease
    BY <1>4, <1>14 DEF ScopeOK
  <2>3. PICK held \in Mine : held = scope[r].last /\ runOf[held] = r
    BY <1>1, <2>2, RunOf
  <2>4. Closing(r, {q}, {message}, answered, held)
    BY <1>11, <1>14, <2>3
  <2>5. ReleaseScope(r, "running", {q}, <<message>>, held)
    BY <2>1, <2>3
  <2> QED BY <1>1, <1>10, <2>4, <2>5, ClosingMoves
<1> QED BY <1>1, <1>7, <1>9, <1>12, <1>13, <1>14 DEF Resume

LEMMA WorkerReceiveMoves ==
  ASSUME ProtocolOK, WorkerReceive
  PROVE  Moved
<1>1. /\ toWorker # <<>> /\ toWorker' = Tail(toWorker)
      /\ UNCHANGED <<vars, made, hostVars>>
  BY DEF WorkerReceive
<1>2. PICK q \in Requests, result \in Results :
        /\ q = Head(toWorker).of /\ result = Head(toWorker).result
        /\ Reads({q}) /\ Replied(q)
        /\ result = "accepted" => Granting(q)
        /\ result # "accepted" => ~Granting(q)
  <2>1. \A p \in Requests : AtMostOneIn(toWorker, Replies(p))
    BY DEF ProtocolOK, RequestOK
  <2> QED BY <1>1, <2>1, ReceivingReads DEF ProtocolOK
<1>3. CASE q \in calls
  <2>1. Resume(q, result, Ack(q))
    BY <1>2, <1>3 DEF WorkerReceive
  <2> QED BY <1>1, <1>2, <1>3, <2>1, ResumeMoves
<1>4. CASE q \notin calls
  <2>1. toHost' = Append(toHost, Cancel(q)) /\ UNCHANGED <<scope, calls>>
    BY <1>2, <1>4 DEF WorkerReceive
  <2> DEFINE r == runOf[q.claim]
             m == Cancel(q)
  <2>2. q.claim \in Mine /\ r \in Runs
    BY RequestFacts, MineFacts
  <2>3. /\ m \in Message
        /\ \A p \in Requests : Call(p) # m /\ Ack(p) # m /\ (Cancel(p) = m => p = q)
    BY MessageFacts
  <2>4. Sends({}, {m}, {}) /\ SendsInTurn({}, {m}, {})
    <3>1. {} \in SUBSET calls /\ calls' = calls \ {}
      BY <2>1
    <3> QED BY <2>1, <2>3, <3>1, SettlingSends DEF ProtocolOK
  <2>5. scope \in [Runs -> Scopes] /\ made \in [Runs -> Nat]
    BY DEF ProtocolOK, ProtocolTypes
  <2>6. WorkerMove(r, {}, {m}, {}, {q})
    BY <1>1, <1>2, <1>4, <2>1, <2>3, <2>4, <2>5 DEF WorkerMove
  <2>7. ScopeMove(r, {}, {m}, {}, {q})
    <3>1. ScopeOK(r)'
      <4>1. ScopeOK(r)
        BY <2>2 DEF ProtocolOK
      <4>2. Current(r)' = Current(r)
        BY <1>1 DEF Current
      <4> QED BY <1>1, <2>1, <4>1, <4>2 DEF ScopeOK
    <3>2. Finished(r)' <=> Finished(r)
      BY <2>1 DEF Finished
    <3>3. Open(r)' <=> Open(r)
      BY <2>1 DEF Open
    <3> QED BY <1>1, <2>1, <3>1, <3>2, <3>3 DEF ScopeMove
  <2>8. LeaseMove(r, {}, {m}, {}, {q})
    <3>1. ASSUME NEW c \in Mine, runOf[c] = r, Holding(c, {m}, {q})
          PROVE  scope[r].lease = c
      BY <3>1 DEF Holding
    <3> QED BY <1>1, <2>1, <3>1 DEF LeaseMove
  <2> QED BY <2>2, <2>6, <2>7, <2>8 DEF Moved
<1> QED BY <1>3, <1>4

LEMMA GiveUpMoves ==
  ASSUME ProtocolOK, NEW q \in Requests, GiveUp(q)
  PROVE  Moved
<1>1. q \in calls /\ Resume(q, "error", Cancel(q)) /\ UNCHANGED <<vars, made, toWorker, hostVars>>
  BY DEF GiveUp
<1>2. Reads({})
  BY <1>1, ListeningReads DEF ProtocolOK
<1> QED BY <1>1, <1>2, ResumeMoves

-----------------------------------------------------------------------------
(* The steps of the host *)

\* The host takes a message about q from its channel, or leaves the channel.
Hears(q, heard) ==
  /\ toHost' \in Seq(Message)
  /\ \A p \in Requests :
       /\ Calling(p)' => Calling(p)
       /\ Cancelled(p)' => Cancelled(p)
       /\ Acked(p)' => Acked(p)
       /\ Acked(p) => Acked(p)' \/ (p = q /\ heard = "ack")
       /\ AtMostOneIn(toHost, {Call(p)}) => AtMostOneIn(toHost', {Call(p)})
       /\ AtMostOneIn(toHost, {Ack(p)}) => AtMostOneIn(toHost', {Ack(p)})
  /\ heard = "call" => Calling(q) /\ (AtMostOneIn(toHost, {Call(q)}) => ~Calling(q)')
  /\ heard = "ack" => Acked(q) /\ (AtMostOneIn(toHost, {Ack(q)}) => ~Acked(q)')
  /\ heard = "cancel" => Cancelled(q)

\* Messages are heard in the order they were sent in, and only what is heard leaves
\* the channel.
HearsInTurn(q, heard) ==
  \A m, n \in Message :
    /\ SomeIn(toHost, {m}) => SomeIn(toHost', {m}) \/ (m.kind = heard /\ m.of = q)
    /\ Before(toHost', m, n) => Before(toHost, m, n)
    /\ Before(toHost, m, n) => Before(toHost', m, n) \/ (m.kind = heard /\ m.of = q)
    /\ m.kind = heard /\ m.of = q =>
         /\ SomeIn(toHost', {n}) => Before(toHost, m, n)
         /\ AtMostOneIn(toHost, {m}) => ~Before(toHost, n, m)

\* It replies to q with one of the said results, if any.
Says(q, said) ==
  /\ toWorker' \in Seq([of : Requests, result : Results])
  /\ \A p \in Requests :
       /\ Replied(p)' <=> Replied(p) \/ (p = q /\ said # {})
       /\ Granting(p)' <=> Granting(p) \/ (p = q /\ "accepted" \in said)
       /\ Pressed(p)' <=> Pressed(p) \/ (p = q /\ "backpressure" \in said)
       /\ AtMostOneIn(toWorker, Replies(p)) /\ (p = q /\ said # {} => ~Replied(p))
            => AtMostOneIn(toWorker', Replies(p))

LEMMA HearingHears ==
  ASSUME ProtocolTypes, toHost # <<>>, toHost' = Tail(toHost),
         NEW q \in Requests, NEW heard, Head(toHost).of = q, Head(toHost).kind = heard
  PROVE  Hears(q, heard) /\ HearsInTurn(q, heard)
<1>0. PICK m : m = Head(toHost)
  OBVIOUS
<1>1. toHost \in Seq(Message)
  BY DEF ProtocolTypes
<1>2. /\ m \in Message /\ toHost' \in Seq(Message)
      /\ \A M : SomeIn(toHost', M) => SomeIn(toHost, M)
      /\ \A M : SomeIn(toHost, M) => SomeIn(toHost', M) \/ m \in M
      /\ \A M : m \in M => SomeIn(toHost, M)
      /\ \A M : AtMostOneIn(toHost, M) => AtMostOneIn(toHost', M)
      /\ \A M : AtMostOneIn(toHost, M) /\ m \in M => ~SomeIn(toHost', M)
  BY <1>0, <1>1, ReceivedFrom
<1>3. /\ m.of = q /\ m.kind = heard
      /\ heard = "call" => m = Call(q)
      /\ heard = "ack" => m = Ack(q)
      /\ heard = "cancel" => m = Cancel(q)
      /\ \A p : m = Ack(p) => p = q /\ heard = "ack"
  BY <1>0, <1>2, MessageFacts
<1>4. ASSUME NEW p \in Requests
      PROVE  /\ Calling(p)' => Calling(p)
             /\ Cancelled(p)' => Cancelled(p)
             /\ Acked(p)' => Acked(p)
             /\ Acked(p) => Acked(p)' \/ (p = q /\ heard = "ack")
             /\ AtMostOneIn(toHost, {Call(p)}) => AtMostOneIn(toHost', {Call(p)})
             /\ AtMostOneIn(toHost, {Ack(p)}) => AtMostOneIn(toHost', {Ack(p)})
    <2>1. Acked(p) => Acked(p)' \/ m \in {Ack(p)}
      BY <1>2 DEF Acked
    <2> QED BY <1>2, <1>3, <2>1 DEF Calling, Acked, Cancelled
<1>5. heard = "call" => Calling(q) /\ (AtMostOneIn(toHost, {Call(q)}) => ~Calling(q)')
  <2> SUFFICES ASSUME heard = "call"
               PROVE  Calling(q) /\ (AtMostOneIn(toHost, {Call(q)}) => ~Calling(q)')
    OBVIOUS
  <2>1. m \in {Call(q)}
    BY <1>3
  <2> QED BY <1>2, <2>1 DEF Calling
<1>6. heard = "ack" => Acked(q) /\ (AtMostOneIn(toHost, {Ack(q)}) => ~Acked(q)')
  <2> SUFFICES ASSUME heard = "ack"
               PROVE  Acked(q) /\ (AtMostOneIn(toHost, {Ack(q)}) => ~Acked(q)')
    OBVIOUS
  <2>1. m \in {Ack(q)}
    BY <1>3
  <2> QED BY <1>2, <2>1 DEF Acked
<1>7. heard = "cancel" => Cancelled(q)
  <2> SUFFICES ASSUME heard = "cancel" PROVE Cancelled(q)
    OBVIOUS
  <2>1. m \in {Cancel(q)}
    BY <1>3
  <2> QED BY <1>2, <2>1 DEF Cancelled
<1>8. HearsInTurn(q, heard)
  <2>1. ASSUME NEW n \in Message, n.kind = heard, n.of = q PROVE n = m
    BY <1>3, <2>1, MessageFacts
  <2>2. /\ \A n, o : Before(toHost', n, o) => Before(toHost, n, o)
        /\ \A n, o : Before(toHost, n, o) => Before(toHost', n, o) \/ n = m
        /\ \A o : SomeIn(toHost', {o}) => Before(toHost, m, o)
        /\ \A n : AtMostOneIn(toHost, {m}) => ~Before(toHost, n, m)
    BY <1>0, <1>1, ReceivedBefore
  <2>3. \A n : SomeIn(toHost, {n}) => SomeIn(toHost', {n}) \/ n = m
    BY <1>2
  <2> QED BY <1>3, <2>1, <2>2, <2>3 DEF HearsInTurn
<1> QED BY <1>2, <1>4, <1>5, <1>6, <1>7, <1>8 DEF Hears

LEMMA DeafHears ==
  ASSUME ProtocolTypes, UNCHANGED toHost, NEW q
  PROVE  Hears(q, "nothing") /\ HearsInTurn(q, "nothing")
<1>1. \A m \in Message : m.kind # "nothing"
  BY MessageFacts
<1> QED BY <1>1 DEF ProtocolTypes, Hears, HearsInTurn, Calling, Acked, Cancelled

LEMMA SilentSays ==
  ASSUME ProtocolTypes, UNCHANGED toWorker, NEW q
  PROVE  Says(q, {})
BY DEF ProtocolTypes, Says, Replied, Granting, Pressed

LEMMA ReplySays ==
  ASSUME ProtocolTypes, NEW q \in Requests, NEW result \in Results, Reply(q, result)
  PROVE  Says(q, {result})
<1> DEFINE Answers == [of : Requests, result : Results]
           m == [of |-> q, result |-> result]
<1>1. toWorker \in Seq(Answers) /\ m \in Answers
  BY DEF ProtocolTypes
<1>2. toWorker' = Append(toWorker, m)
  BY DEF Reply
<1>3. /\ \A p \in Requests : m \in Replies(p) <=> p = q
      /\ \A p \in Requests : m \in {[of |-> p, result |-> "accepted"]}
                               <=> (p = q /\ result = "accepted")
      /\ \A p \in Requests : m \in {[of |-> p, result |-> "backpressure"]}
                               <=> (p = q /\ result = "backpressure")
  BY DEF Replies
<1> HIDE DEF m, Answers
<1>4. /\ toWorker' \in Seq(Answers)
      /\ \A M : SomeIn(toWorker', M) <=> SomeIn(toWorker, M) \/ m \in M
      /\ \A M : AtMostOneIn(toWorker, M) /\ (m \in M => ~SomeIn(toWorker, M))
                  => AtMostOneIn(toWorker', M)
  BY <1>1, <1>2, SentIn
<1>5. /\ \A p \in Requests : Replied(p)' <=> Replied(p) \/ p = q
      /\ \A p \in Requests : Granting(p)' <=> Granting(p) \/ (p = q /\ result = "accepted")
      /\ \A p \in Requests : Pressed(p)' <=> Pressed(p) \/ (p = q /\ result = "backpressure")
      /\ \A p \in Requests : AtMostOneIn(toWorker, Replies(p)) /\ (p = q => ~Replied(p))
            => AtMostOneIn(toWorker', Replies(p))
  BY <1>3, <1>4 DEF Replied, Granting, Pressed
<1> QED BY <1>4, <1>5 DEF Says, Answers

\* A step of the host about request q: what it may do to its records, the
\* witness map and the admission table, of which it loses the leases of lost.
HostMove(q, heard, said, lost) ==
  LET c == q.claim
      r == runOf[c]
      asked == ClaimRequest(c)
  IN
  /\ UNCHANGED workerVars
  /\ Hears(q, heard)
  /\ Says(q, said)
  /\ Fits(requests')
  /\ handler' \in [Requests -> {"none", "resolving", "admission", "verifying", "replied"}]
  /\ aborted' \subseteq Requests
  /\ foregroundParents' \in [Runs -> Lease]
  /\ \A p \in Requests \ {q} :
       /\ p \in requests' <=> p \in requests
       /\ p \in aborted' <=> p \in aborted
       /\ handler'[p] = handler[p]
  /\ said # {} => Calling(q) \/ Working(q)
  /\ Working(q)' => Working(q) \/ (Calling(q) /\ q.op = "claim")
  /\ handler'[q] # "none" => handler[q] # "none" \/ Calling(q)
  /\ handler'[q] = "replied" => handler[q] = "replied" \/ Calling(q) \/ Working(q)
  /\ heard = "ack" => handler'[q] # "replied"
  /\ RequestOK(q)'
  /\ \A p \in Runs \ {r} : foregroundParents'[p] = foregroundParents[p]
  /\ \/ foregroundParents'[r] = foregroundParents[r]
     \/ /\ foregroundParents[r] = c /\ foregroundParents'[r] = NoLease
        /\ q = ReleaseRequest(c, FALSE) /\ Calling(q)
     \/ foregroundParents'[r] = c /\ q = asked /\ Working(q)
  /\ "accepted" \in said =>
       /\ q = asked /\ Working(q)
       /\ kindOf[c] = "foreground" => foregroundParents'[r] = c
       /\ c \in leases'
  /\ [Next]_vars
  /\ Keeps(lost)
  /\ \/ lost = {}
     \/ /\ lost = {c}
        /\ q = asked \/ Over(c)
        /\ SlowReceipts = FALSE =>
             ~(asked \in calls /\ Granting(asked)) /\ scope[r].lease # c
  /\ q = asked => GrantOK(c)'

\* The table does to the claims of the worker only what q asks for, and what it
\* does to those that wait.
Disturbs(q) ==
  LET c == q.claim IN
  /\ \A d \in Mine \ {c} : Undisturbed(d)
  /\ \/ Undisturbed(c)
     \/ c \notin leases' /\ promise'[c] \in {promise[c], "idle"}
     \/ /\ q = ClaimRequest(c) /\ handler[q] = "resolving" /\ q \notin aborted
        /\ handler'[q] = "admission"
        /\ promise'[c] = "run_exists" => RunKnown(c)

\* What the step does to the requests the host answers for, and when a lease may
\* still be there once the handler of its claim or its release is done.  A stale
\* handler takes on nothing.
Deals(q, heard, said) ==
  LET c == q.claim
      now == handler[q]
      then == handler'[q]
  IN
  /\ q \in requests' => q \in requests \/ heard = "call"
  /\ heard \in {"ack", "cancel"} => q \notin requests'
  /\ heard = "cancel" => then # "replied"
  /\ "backpressure" \in said => heard = "call" /\ ~Room(requests, q)
  /\ q.op = "release" /\ heard = "call" /\ "backpressure" \notin said =>
       c \notin leases' \/ stale
  /\ heard = "call" /\ stale => then = "none"
  /\ q.op = "claim" =>
       /\ then = "resolving" => now = "resolving" \/ heard = "call"
       /\ now = "resolving" /\ q \in aborted => then # "resolving" \/ q \in aborted'
       /\ now # "none" /\ then = "none" =>
            heard = "ack" \/ now = "resolving" \/ c \notin leases'
       /\ Working(q) /\ then = "replied" => c \notin leases' \/ "accepted" \in said
       /\ now = "admission" /\ promise'[c] = "waiting" => then = "admission"

\* A step of the host about one request.
Acted ==
  \E q \in Requests : \E heard, said, lost :
    /\ HostMove(q, heard, said, lost)
    /\ HearsInTurn(q, heard)
    /\ Disturbs(q)
    /\ Deals(q, heard, said)

LEMMA HostViews ==
  ASSUME ProtocolOK, NEW q \in Requests, NEW heard, NEW said, NEW lost,
         HostMove(q, heard, said, lost), NEW p \in Requests
  PROVE  /\ Calling(p)' => Calling(p)
         /\ Cancelled(p)' => Cancelled(p)
         /\ Acked(p)' => Acked(p)
         /\ Acked(p) => Acked(p)' \/ (p = q /\ heard = "ack")
         /\ Replied(p)' => Replied(p) \/ Calling(p) \/ Working(p)
         /\ Granting(p)' => Granting(p) \/ (p = q /\ "accepted" \in said)
         /\ Working(p)' => Working(p) \/ (Calling(p) /\ p.op = "claim")
         /\ handler'[p] # "none" => handler[p] # "none" \/ Calling(p)
         /\ handler'[p] = "replied" =>
              handler[p] = "replied" \/ Calling(p) \/ Working(p)
         /\ Unused(p) => Unused(p)'
<1>1. /\ Hears(q, heard) /\ Says(q, said)
      /\ said # {} => Calling(q) \/ Working(q)
      /\ Working(q)' => Working(q) \/ (Calling(q) /\ q.op = "claim")
      /\ handler'[q] # "none" => handler[q] # "none" \/ Calling(q)
      /\ handler'[q] = "replied" => handler[q] = "replied" \/ Calling(q) \/ Working(q)
      /\ p # q => handler'[p] = handler[p]
      /\ calls' = calls
  BY DEF HostMove, workerVars
<1>2. /\ Calling(p)' => Calling(p)
      /\ Cancelled(p)' => Cancelled(p)
      /\ Acked(p)' => Acked(p)
      /\ Acked(p) => Acked(p)' \/ (p = q /\ heard = "ack")
  BY <1>1 DEF Hears
<1>3. /\ Replied(p)' => Replied(p) \/ Calling(p) \/ Working(p)
      /\ Granting(p)' => Granting(p) \/ (p = q /\ "accepted" \in said)
  BY <1>1 DEF Says
<1>4. /\ Working(p)' => Working(p) \/ (Calling(p) /\ p.op = "claim")
      /\ handler'[p] # "none" => handler[p] # "none" \/ Calling(p)
      /\ handler'[p] = "replied" => handler[p] = "replied" \/ Calling(p) \/ Working(p)
  BY <1>1 DEF Working
<1>5. Unused(p) => Unused(p)'
  BY <1>1, <1>2, <1>3, <1>4 DEF Unused, Working
<1> QED BY <1>2, <1>3, <1>4, <1>5

LEMMA HostOver ==
  ASSUME ProtocolOK, NEW q \in Requests, NEW heard, NEW said, NEW lost,
         HostMove(q, heard, said, lost), NEW c \in Mine
  PROVE  (Made(c)' <=> Made(c)) /\ (Over(c) => Over(c)')
<1> DEFINE p == ClaimRequest(c)
<1>1. p \in Requests
  BY RequestFacts
<1>2. calls' = calls /\ made' = made
  BY DEF HostMove, workerVars
<1>3. Made(c)' <=> Made(c)
  BY <1>2 DEF Made
<1> HIDE DEF p
<1>4. /\ Calling(p)' => Calling(p)
      /\ Replied(p)' => Replied(p) \/ Calling(p) \/ Working(p)
      /\ Working(p)' => Working(p) \/ Calling(p)
  BY <1>1, HostViews
<1> QED BY <1>2, <1>3, <1>4 DEF Over, p

LEMMA HostKeepsRuns ==
  ASSUME ProtocolOK, NEW q \in Requests, NEW heard, NEW said, NEW lost,
         HostMove(q, heard, said, lost), NEW p \in Runs
  PROVE  ScopeOK(p)' /\ LastOK(p)' /\ WitnessOK(p)'
<1> DEFINE c == q.claim
           r == runOf[c]
<1>1. UNCHANGED workerVars
  BY DEF HostMove
<1>2. ScopeOK(p) /\ LastOK(p) /\ WitnessOK(p) /\ scope \in [Runs -> Scopes]
  BY DEF ProtocolOK, ProtocolTypes
<1>3. ScopeOK(p)'
  <2>1. Current(p)' = Current(p)
    BY <1>1 DEF Current, workerVars
  <2> QED BY <1>1, <1>2, <2>1 DEF ScopeOK, workerVars
<1>4. LastOK(p)'
  <2> SUFFICES ASSUME scope[p].last # NoLease PROVE LastOK(p)'
    BY <1>1 DEF LastOK, workerVars
  <2>1. PICK d \in Mine : d = scope[p].last
    BY <1>2 DEF Scopes, Lease
  <2>2. runOf[d] = p /\ Over(d) /\ ~Cancelled(ClaimRequest(d))
    <3>1. LastOK(p) <=> (d # NoLease => runOf[d] = p /\ Over(d) /\ ~Cancelled(ClaimRequest(d)))
      BY <2>1 DEF LastOK
    <3> QED BY <1>2, <2>1, <3>1
  <2>3. Over(d)' /\ ~Cancelled(ClaimRequest(d))'
    BY <2>2, HostOver, HostViews, RequestFacts
  <2>4. LastOK(p)' <=> (d # NoLease => runOf[d] = p /\ Over(d)' /\ ~Cancelled(ClaimRequest(d))')
    BY <1>1, <2>1 DEF LastOK, Over, Made, Calling, Replied, Working, Cancelled, workerVars
  <2> QED BY <2>2, <2>3, <2>4
<1>5. WitnessOK(p)'
  <2> SUFFICES ASSUME parentOf[p] = NoRun, Open(p), scope[p].at # "reclaiming"
               PROVE  foregroundParents'[p] = scope[p].last
    BY <1>1 DEF WitnessOK, Open, workerVars
  <2>1. foregroundParents[p] = scope[p].last /\ ~scope[p].closed /\ scope[p].last # NoLease
    BY <1>2 DEF WitnessOK, Open
  <2>2. c \in Mine /\ r \in Runs
    BY RequestFacts, MineFacts
  <2>3. CASE p = r
    <3>1. ~(q = ReleaseRequest(c, FALSE) /\ Calling(q))
      <4>1. ReleaseOK(c, FALSE)
        BY <2>2 DEF ProtocolOK
      <4> QED BY <2>1, <2>3, <4>1 DEF ReleaseOK, Unused
    <3>2. ~(q = ClaimRequest(c) /\ Working(q))
      <4> SUFFICES ASSUME q = ClaimRequest(c), Working(q) PROVE FALSE
        OBVIOUS
      <4>1. ClaimOK(c)
        BY <2>2 DEF ProtocolOK
      <4>2. q \in calls \/ Finished(r)
        BY <4>1 DEF ClaimOK
      <4>3. q \in calls => scope[r].at \in {"claiming", "reclaiming"}
        BY <4>1 DEF ClaimOK
      <4> QED BY <1>2, <2>1, <2>3, <4>2, <4>3 DEF Finished, ScopeOK
    <3> QED BY <2>1, <2>3, <3>1, <3>2 DEF HostMove
  <2>4. CASE p # r
    BY <2>1, <2>4 DEF HostMove
  <2> QED BY <2>3, <2>4
<1> QED BY <1>3, <1>4, <1>5

LEMMA HostKeepsRequests ==
  ASSUME ProtocolOK, NEW q \in Requests, NEW heard, NEW said, NEW lost,
         HostMove(q, heard, said, lost), NEW p \in Requests
  PROVE  RequestOK(p)'
<1>1. RequestOK(q)'
  BY DEF HostMove
<1>2. CASE p # q
  <2>1. RequestOK(p)
    BY DEF ProtocolOK
  <2>2. /\ Calling(p)' => Calling(p)
        /\ Acked(p)' => Acked(p)
        /\ AtMostOneIn(toHost, {Call(p)}) => AtMostOneIn(toHost', {Call(p)})
        /\ AtMostOneIn(toHost, {Ack(p)}) => AtMostOneIn(toHost', {Ack(p)})
    BY DEF HostMove, Hears
  <2>3. /\ Replied(p)' <=> Replied(p)
        /\ AtMostOneIn(toWorker, Replies(p)) => AtMostOneIn(toWorker', Replies(p))
    BY <1>2 DEF HostMove, Says
  <2>4. /\ p \in requests' <=> p \in requests
        /\ p \in aborted' <=> p \in aborted
        /\ handler'[p] = handler[p]
        /\ calls' = calls
    BY <1>2 DEF HostMove, workerVars
  <2>5. Working(p)' <=> Working(p)
    BY <2>4 DEF Working
  <2>6. /\ AtMostOneIn(toHost', {Call(p)})
        /\ AtMostOneIn(toHost', {Ack(p)})
        /\ AtMostOneIn(toWorker', Replies(p))
    BY <2>1, <2>2, <2>3 DEF RequestOK
  <2>7. Replies(p)' = Replies(p) /\ Call(p)' = Call(p) /\ Ack(p)' = Ack(p)
    BY DEF Replies, Call, Ack
  <2> QED BY <2>1, <2>2, <2>3, <2>4, <2>5, <2>6, <2>7 DEF RequestOK
<1> QED BY <1>1, <1>2

LEMMA HostKeepsClaims ==
  ASSUME ProtocolOK, NEW q \in Requests, NEW heard, NEW said, NEW lost,
         HostMove(q, heard, said, lost), NEW c \in Mine
  PROVE  ClaimOK(c)' /\ VouchedOK(c)' /\ GrantOK(c)'
<1>1. PICK p : p = ClaimRequest(c)
  OBVIOUS
<1>2. p \in Requests /\ p.claim = c /\ runOf[c] \in Runs
  BY <1>1, RequestFacts, MineFacts
<1>3. UNCHANGED workerVars
  BY DEF HostMove
<1>4. ClaimOK(c) /\ VouchedOK(c) /\ GrantOK(c) /\ ScopeOK(runOf[c])
  BY <1>2 DEF ProtocolOK
<1>5. Made(c)' <=> Made(c)
  BY HostOver
<1>6. /\ Calling(p)' => Calling(p)
      /\ Cancelled(p)' => Cancelled(p)
      /\ Replied(p)' => Replied(p) \/ Calling(p) \/ Working(p)
      /\ Granting(p)' => Granting(p) \/ (p = q /\ "accepted" \in said)
      /\ Working(p)' => Working(p) \/ Calling(p)
      /\ Unused(p) => Unused(p)'
  BY <1>2, HostViews
<1>7. ClaimOK(c)'
  <2>1. /\ p \in calls => scope[runOf[c]].at \in {"claiming", "reclaiming"}
                          /\ c = Current(runOf[c])
        /\ ~Made(c) => Unused(p)
        /\ Cancelled(p) => p \notin calls
        /\ Working(p) \/ Calling(p) \/ Replied(p) => p \in calls \/ Finished(runOf[c])
    BY <1>1, <1>4 DEF ClaimOK
  <2>2. /\ Current(runOf[c])' = Current(runOf[c])
        /\ Finished(runOf[c])' <=> Finished(runOf[c])
        /\ calls' = calls /\ scope' = scope
    BY <1>3 DEF workerVars, Current, Finished
  <2>3. ClaimRequest(c)' = p
    BY <1>1 DEF ClaimRequest
  <2>4. /\ p \in calls' => scope'[runOf[c]].at \in {"claiming", "reclaiming"}
                          /\ c = Current(runOf[c])'
        /\ ~Made(c)' => Unused(p)'
        /\ Cancelled(p)' => p \notin calls'
        /\ Working(p)' \/ Calling(p)' \/ Replied(p)' => p \in calls' \/ Finished(runOf[c])'
    BY <1>5, <1>6, <2>1, <2>2
  <2> QED BY <1>1, <2>4 DEF ClaimOK, ClaimRequest, Unused, Working, Calling, Replied, Cancelled, Acked
<1>8. VouchedOK(c)'
  <2> SUFFICES ASSUME Granting(p)', p \in calls, kindOf[c] = "foreground"
               PROVE  foregroundParents'[runOf[c]] = c
    BY <1>1, <1>3 DEF VouchedOK, ClaimRequest, Granting, workerVars
  <2>1. CASE p = q /\ "accepted" \in said
    BY <1>2, <2>1 DEF HostMove
  <2>2. CASE Granting(p)
    <3> DEFINE d == q.claim
               r == runOf[d]
    <3>1. foregroundParents[runOf[c]] = c
      BY <1>1, <1>4, <2>2 DEF VouchedOK
    <3>2. d \in Mine
      BY RequestFacts
    <3>3. CASE runOf[c] # r
      BY <1>2, <3>1, <3>3 DEF HostMove
    <3>4. CASE runOf[c] = r
      <4>1. scope[r].at \in {"claiming", "reclaiming"} /\ c = Current(r)
        BY <1>1, <1>4, <3>4 DEF ClaimOK
      <4>2. ~Finished(r)
        BY <1>4, <3>4, <4>1 DEF ScopeOK, Finished
      <4>3. CASE q = ClaimRequest(d) /\ Working(q) /\ foregroundParents'[r] = d
        <5>1. ClaimOK(d)
          BY <3>2 DEF ProtocolOK
        <5> QED BY <3>4, <4>1, <4>2, <4>3, <5>1 DEF ClaimOK
      <4>4. ~(foregroundParents[r] = d /\ q = ReleaseRequest(d, FALSE) /\ Calling(q))
        <5> SUFFICES ASSUME d = c, q = ReleaseRequest(d, FALSE), Calling(q) PROVE FALSE
          BY <3>1, <3>4
        <5>1. ReleaseOK(c, FALSE)
          BY DEF ProtocolOK
        <5>2. Over(c)
          BY <5>1 DEF ReleaseOK, Unused
        <5>3. Replied(p)
          BY <1>2, <2>2, GrantsAreReplies
        <5> QED BY <1>1, <5>2, <5>3 DEF Over
      <4> QED BY <3>1, <3>4, <4>3, <4>4 DEF HostMove
    <3> QED BY <3>3, <3>4
  <2> QED BY <1>6, <2>1, <2>2
<1>9. GrantOK(c)'
  <2>1. CASE p = q
    BY <1>1, <1>2, <2>1 DEF HostMove
  <2>2. CASE p # q
    <3>1. handler'[p] = handler[p] /\ (p \in aborted' <=> p \in aborted) /\ Keeps(lost)
      BY <1>2, <2>2 DEF HostMove
    <3>2. Working(p) => c \notin lost
      <4> SUFFICES ASSUME Working(p), c \in lost PROVE FALSE
        OBVIOUS
      <4>1. c = q.claim /\ Over(c)
        BY <1>1, <2>2 DEF HostMove
      <4> QED BY <1>1, <4>1 DEF Over
    <3>3. c \in Claims
      BY MineFacts
    <3>4. /\ p \notin aborted' =>
               /\ handler'[p] = "admission" /\ promise'[c] = "accepted" => c \in leases'
               /\ handler'[p] = "verifying" => c \in leases'
      BY <1>1, <1>4, <3>1, <3>2, <3>3 DEF GrantOK, Keeps, Working
    <3> QED BY <1>1, <3>4 DEF GrantOK, ClaimRequest
  <2> QED BY <2>1, <2>2
<1> QED BY <1>7, <1>8, <1>9

LEMMA HostKeepsReleases ==
  ASSUME ProtocolOK, NEW q \in Requests, NEW heard, NEW said, NEW lost,
         HostMove(q, heard, said, lost), NEW c \in Mine, NEW y \in BOOLEAN
  PROVE  ReleaseOK(c, y)'
<1>1. PICK p : p = ReleaseRequest(c, y)
  OBVIOUS
<1>2. p \in Requests /\ p.op = "release"
  BY <1>1, RequestFacts
<1>3. scope' = scope
  BY DEF HostMove, workerVars
<1>4. /\ ~Unused(p) => /\ Over(c)
                       /\ scope[runOf[c]].lease # c
                       /\ ~y => scope[runOf[c]].closed
                       /\ ~Working(p)
  BY <1>1 DEF ProtocolOK, ReleaseOK
<1>5. /\ Unused(p) => Unused(p)'
      /\ Working(p)' => Working(p) \/ (Calling(p) /\ p.op = "claim")
      /\ Over(c) => Over(c)'
  BY <1>2, HostViews, HostOver
<1>6. /\ ~Unused(p)' => /\ Over(c)'
                        /\ scope'[runOf[c]].lease # c
                        /\ ~y => scope'[runOf[c]].closed
                        /\ ~Working(p)'
  BY <1>2, <1>3, <1>4, <1>5
<1> QED BY <1>1, <1>6 DEF ReleaseOK, ReleaseRequest, Over, Unused, Working, Calling,
                          Replied, Acked, Cancelled

LEMMA HostKeepsOthers ==
  ASSUME ProtocolOK, NEW q \in Requests, NEW heard, NEW said, NEW lost,
         HostMove(q, heard, said, lost)
  PROVE  OthersOK'
<1>1. OthersOK /\ q.claim \in Mine
  BY RequestFacts DEF ProtocolOK
<1>2. Keeps(lost) /\ lost \subseteq Mine
  BY <1>1 DEF HostMove
<1> QED BY <1>1, <1>2 DEF OthersOK, Keeps

LEMMA HostKeepsHeld ==
  ASSUME ProtocolOK, NEW q \in Requests, NEW heard, NEW said, NEW lost,
         HostMove(q, heard, said, lost), NEW c \in Mine, HeldOK(c), SlowReceipts = FALSE
  PROVE  HeldOK(c)'
<1>1. PICK p : p = ClaimRequest(c)
  OBVIOUS
<1>2. p \in Requests /\ p.claim = c /\ runOf[c] \in Runs /\ c \in Claims /\ c # NoLease
  BY <1>1, RequestFacts, MineFacts
<1>3. UNCHANGED workerVars /\ Keeps(lost)
  BY DEF HostMove
<1>4. /\ p \in calls /\ Granting(p) => c \in leases
      /\ scope[runOf[c]].lease = c => c \in leases /\ (handler[p] = "replied" => Acked(p))
  BY <1>1 DEF HeldOK
<1>5. c \in lost => ~(p \in calls /\ Granting(p)) /\ scope[runOf[c]].lease # c
  BY <1>1 DEF HostMove
<1>6. ASSUME p \in calls, Granting(p)' PROVE c \in leases'
  <2>1. CASE Granting(p)
    BY <1>3, <1>4, <1>5, <1>6, <2>1 DEF Keeps
  <2>2. CASE p = q /\ "accepted" \in said
    BY <1>2, <2>2 DEF HostMove
  <2> QED BY <1>2, <1>6, <2>1, <2>2, HostViews
<1>7. ASSUME scope[runOf[c]].lease = c
      PROVE  c \in leases' /\ (handler'[p] = "replied" => Acked(p)')
  <2>1. c \in leases'
    BY <1>3, <1>4, <1>5, <1>7 DEF Keeps
  <2>2. ScopeOK(runOf[c]) /\ LastOK(runOf[c])
    BY <1>2 DEF ProtocolOK
  <2>3. scope[runOf[c]].last = c
    BY <1>2, <1>7, <2>2 DEF ScopeOK
  <2>4. Over(c)
    BY <1>2, <2>2, <2>3 DEF LastOK
  <2>5. ~Calling(p) /\ ~Working(p)
    BY <1>1, <2>4 DEF Over
  <2>6. ASSUME handler'[p] = "replied" PROVE Acked(p)'
    <3>1. Acked(p)
      BY <1>2, <1>4, <1>7, <2>5, <2>6, HostViews
    <3>2. ~(p = q /\ heard = "ack")
      BY <2>6 DEF HostMove
    <3> QED BY <1>2, <3>1, <3>2, HostViews
  <2> QED BY <2>1, <2>6
<1>8. /\ p \in calls' /\ Granting(p)' => c \in leases'
      /\ scope'[runOf[c]].lease = c => c \in leases' /\ (handler'[p] = "replied" => Acked(p)')
  BY <1>3, <1>6, <1>7 DEF workerVars
<1> QED BY <1>1, <1>8 DEF HeldOK, ClaimRequest, Granting, Acked

LEMMA HostMoveKeeps ==
  ASSUME ProtocolOK, NEW q \in Requests, NEW heard, NEW said, NEW lost,
         HostMove(q, heard, said, lost)
  PROVE  Kept
<1>1. ProtocolTypes'
  BY DEF HostMove, Hears, Says, ProtocolOK, ProtocolTypes, workerVars, Fits
<1>2. ProtocolOK'
  <2>1. \A r \in Runs : ScopeOK(r)' /\ LastOK(r)' /\ WitnessOK(r)'
    BY HostKeepsRuns
  <2>2. \A c \in Mine : ClaimOK(c)' /\ VouchedOK(c)' /\ GrantOK(c)'
    BY HostKeepsClaims
  <2>3. \A c \in Mine, y \in BOOLEAN : ReleaseOK(c, y)'
    BY HostKeepsReleases
  <2>4. \A p \in Requests : RequestOK(p)'
    BY HostKeepsRequests
  <2>5. OthersOK'
    BY HostKeepsOthers
  <2> QED BY <1>1, <2>1, <2>2, <2>3, <2>4, <2>5 DEF ProtocolOK
<1>3. LeasesHeld => LeasesHeld'
  BY HostKeepsHeld DEF LeasesHeld
<1> QED BY <1>2, <1>3 DEF Kept

LEMMA ActedKeeps ==
  ASSUME ProtocolOK, Acted
  PROVE  Kept
BY HostMoveKeeps DEF Acted

LEMMA IdleTableDisturbs ==
  ASSUME Orderly, UNCHANGED vars, NEW q \in Requests
  PROVE  Disturbs(q)
BY RequestFacts, MineFacts, GrowingKeeps DEF Disturbs, Leaves

LEMMA GivingBackDisturbs ==
  ASSUME Orderly, NEW q \in Requests, GiveBack(q.claim)
  PROVE  Disturbs(q)
<1>1. q.claim \in Claims
  BY RequestFacts, MineFacts
<1>2. /\ Leaves({q.claim}) /\ q.claim \notin leases'
      /\ promise'[q.claim] \in {promise[q.claim], "idle"}
  BY <1>1, GiveBackKeeps
<1> QED BY <1>2, MineFacts DEF Disturbs, Leaves

\* The host's records of q after the step: its handler has come to at.
Filed(q, at) ==
  /\ Fits(requests')
  /\ handler' \in [Requests -> {"none", "resolving", "admission", "verifying", "replied"}]
  /\ aborted' \subseteq Requests
  /\ \A p \in Requests \ {q} :
       /\ p \in requests' <=> p \in requests
       /\ p \in aborted' <=> p \in aborted
       /\ handler'[p] = handler[p]
  /\ handler'[q] = at

\* How far a handler comes by what it heard and said.
Advances(q, heard, said, at) ==
  /\ \/ heard = "call"
     \/ Working(q)
     \/ said = {} /\ at \in {"none", handler[q]}
  /\ at \in {"resolving", "admission", "verifying"} =>
       said = {} /\ ((heard = "call" /\ q.op = "claim") \/ Working(q))
  /\ heard = "ack" => at # "replied"
  /\ q \in requests' <=> at # "none" /\ q \notin aborted'
  /\ q \in aborted' => at \in {"resolving", "admission", "verifying"}

\* What becomes of the witness of the run of q.
Vouches(q, said) ==
  LET c == q.claim
      r == runOf[c]
  IN
  /\ foregroundParents' \in [Runs -> Lease]
  /\ \A p \in Runs \ {r} : foregroundParents'[p] = foregroundParents[p]
  /\ \/ foregroundParents'[r] = foregroundParents[r]
     \/ /\ foregroundParents[r] = c /\ foregroundParents'[r] = NoLease
        /\ q = ReleaseRequest(c, FALSE) /\ Calling(q)
     \/ foregroundParents'[r] = c /\ q = ClaimRequest(c) /\ Working(q)
  /\ "accepted" \in said =>
       /\ q = ClaimRequest(c) /\ Working(q)
       /\ kindOf[c] = "foreground" => foregroundParents'[r] = c

\* What becomes of its lease.
Loses(q, said, lost) ==
  LET c == q.claim
      asked == ClaimRequest(c)
  IN
  /\ [Next]_vars
  /\ Keeps(lost)
  /\ "accepted" \in said => c \in leases'
  /\ \/ lost = {}
     \/ /\ lost = {c}
        /\ q = asked \/ Over(c)
        /\ SlowReceipts = FALSE =>
             ~(asked \in calls /\ Granting(asked)) /\ scope[runOf[c]].lease # c

LEMMA AdvancingMoves ==
  ASSUME ProtocolOK, NEW q \in Requests, NEW heard, NEW said, NEW lost, NEW at,
         UNCHANGED workerVars, Hears(q, heard), Says(q, said), Filed(q, at),
         Advances(q, heard, said, at), Vouches(q, said), Loses(q, said, lost),
         q = ClaimRequest(q.claim) => GrantOK(q.claim)'
  PROVE  HostMove(q, heard, said, lost)
<1>1. RequestOK(q)
  BY DEF ProtocolOK
<1>2. /\ Calling(q)' => Calling(q)
      /\ Acked(q)' => Acked(q)
      /\ AtMostOneIn(toHost', {Call(q)}) /\ AtMostOneIn(toHost', {Ack(q)})
      /\ heard = "call" => Calling(q) /\ ~Calling(q)'
  BY <1>1 DEF Hears, RequestOK
<1>3. /\ Replied(q)' <=> Replied(q) \/ said # {}
      /\ (said # {} => ~Replied(q)) => AtMostOneIn(toWorker', Replies(q))
  BY <1>1 DEF Says, RequestOK
<1>4. /\ Calling(q) => handler[q] = "none" /\ ~Replied(q) /\ ~Acked(q)
      /\ Acked(q) => q \notin calls /\ ~Working(q) /\ ~Replied(q)
      /\ Replied(q) => ~Working(q)
  BY <1>1 DEF RequestOK
<1>5. handler'[q] = at /\ calls' = calls
  BY DEF Filed, workerVars
<1>6. Working(q)' <=> at \in {"resolving", "admission", "verifying"}
  BY <1>5 DEF Working
<1>7. /\ said # {} => ~Replied(q) /\ ~Acked(q) /\ ~Calling(q)'
      /\ said # {} => Calling(q) \/ Working(q)
      /\ Working(q)' => ~Acked(q) /\ ~Replied(q) /\ said = {}
      /\ at # "none" => ~Calling(q)'
  BY <1>2, <1>4, <1>6 DEF Advances, Working
<1>8. RequestOK(q)'
  <2>1. /\ Calling(q)' => handler'[q] = "none" /\ ~Replied(q)' /\ ~Acked(q)'
        /\ Acked(q)' => q \notin calls' /\ ~Working(q)' /\ ~Replied(q)'
        /\ Replied(q)' => ~Working(q)'
        /\ q \in requests' <=> handler'[q] # "none" /\ q \notin aborted'
        /\ q \in aborted' => Working(q)'
    BY <1>2, <1>3, <1>4, <1>5, <1>6, <1>7 DEF Advances
  <2>2. AtMostOneIn(toWorker', Replies(q))
    BY <1>3, <1>7
  <2>3. Replies(q)' = Replies(q) /\ Call(q)' = Call(q) /\ Ack(q)' = Ack(q)
    BY DEF Replies, Call, Ack
  <2> QED BY <1>2, <2>1, <2>2, <2>3 DEF RequestOK
<1>9. /\ Working(q)' => Working(q) \/ (Calling(q) /\ q.op = "claim")
      /\ handler'[q] # "none" => handler[q] # "none" \/ Calling(q)
      /\ handler'[q] = "replied" => handler[q] = "replied" \/ Calling(q) \/ Working(q)
      /\ heard = "ack" => handler'[q] # "replied"
  BY <1>2, <1>5, <1>6 DEF Advances, Working
<1> QED BY <1>7, <1>8, <1>9 DEF HostMove, Filed, Vouches, Loses

HandlerStates == {"none", "resolving", "admission", "verifying", "replied"}

LEMMA FilingFiled ==
  ASSUME ProtocolTypes, NEW q \in Requests, NEW at \in HandlerStates,
         handler' = [handler EXCEPT ![q] = at],
         \/ requests' = requests
         \/ requests' = requests \ {q}
         \/ requests' = requests \cup {q} /\ Room(requests, q),
         aborted' \in {aborted, aborted \cup {q}, aborted \ {q}}
  PROVE  Filed(q, at)
<1>1. Fits(requests) /\ handler \in [Requests -> HandlerStates] /\ aborted \subseteq Requests
  BY DEF ProtocolTypes, HandlerStates
<1>2. Fits(requests')
  BY <1>1, FewerFit, OneMoreFits
<1>3. handler' \in [Requests -> HandlerStates] /\ handler'[q] = at
      /\ \A p \in Requests \ {q} : handler'[p] = handler[p]
  BY <1>1
<1> QED BY <1>1, <1>2, <1>3 DEF Filed, HandlerStates

LEMMA NothingFiled ==
  ASSUME ProtocolTypes, UNCHANGED <<requests, handler, aborted>>, NEW q \in Requests,
         NEW at, at = handler[q]
  PROVE  Filed(q, at)
BY DEF ProtocolTypes, Filed

LEMMA SilentVouches ==
  ASSUME ProtocolTypes, UNCHANGED foregroundParents, NEW q \in Requests,
         NEW said, "accepted" \notin said
  PROVE  Vouches(q, said)
BY DEF ProtocolTypes, Vouches

LEMMA NothingLost ==
  ASSUME [Next]_vars, Keeps({}), NEW q \in Requests, NEW said, "accepted" \notin said
  PROVE  Loses(q, said, {})
BY DEF Loses

LEMMA IdleTableLoses ==
  ASSUME Orderly, UNCHANGED vars, NEW q \in Requests, NEW said, "accepted" \notin said
  PROVE  Loses(q, said, {})
<1>1. q.claim \in Claims
  BY RequestFacts, MineFacts
<1> QED BY <1>1, GrowingKeeps, NothingLost

LEMMA HeldIsOver ==
  ASSUME ProtocolOK, NEW c \in Mine, scope[runOf[c]].lease = c
  PROVE  Over(c) /\ ~Cancelled(ClaimRequest(c))
<1>1. c # NoLease /\ runOf[c] \in Runs
  BY MineFacts
<1>2. ScopeOK(runOf[c]) /\ LastOK(runOf[c])
  BY <1>1 DEF ProtocolOK
<1>3. scope[runOf[c]].last = c
  BY <1>1, <1>2 DEF ScopeOK
<1> QED BY <1>1, <1>2, <1>3 DEF LastOK

\* The host works on claims only; the lease is not held yet and no reply sent.
LEMMA WorkingFacts ==
  ASSUME ProtocolOK, NEW q \in Requests, Working(q)
  PROVE  /\ q.op = "claim" /\ q = ClaimRequest(q.claim)
         /\ scope[runOf[q.claim]].lease # q.claim
         /\ ~Granting(q)
<1>1. q.claim \in Mine
  BY RequestFacts
<1>2. ~(q.op = "release" /\ q.yielding \in BOOLEAN /\ q = ReleaseRequest(q.claim, q.yielding))
  <2> SUFFICES ASSUME q.yielding \in BOOLEAN, q = ReleaseRequest(q.claim, q.yielding)
               PROVE  FALSE
    OBVIOUS
  <2>1. ReleaseOK(q.claim, q.yielding)
    BY <1>1 DEF ProtocolOK
  <2> QED BY <2>1 DEF ReleaseOK, Unused, Working
<1>3. q.op = "claim" /\ q = ClaimRequest(q.claim)
  BY <1>2, RequestFacts
<1>4. scope[runOf[q.claim]].lease # q.claim
  BY <1>1, <1>3, HeldIsOver DEF Over
<1>5. RequestOK(q)
  BY DEF ProtocolOK
<1>6. ~Granting(q)
  BY <1>5, GrantsAreReplies DEF RequestOK
<1> QED BY <1>3, <1>4, <1>6

\* A claim that is given back before the worker could hold its lease.
LEMMA GivingBackLoses ==
  ASSUME Orderly, NEW c \in Mine, GiveBack(c), NEW q \in Requests, q.claim = c,
         q = ClaimRequest(c) \/ Over(c),
         SlowReceipts = FALSE =>
           ~(ClaimRequest(c) \in calls /\ Granting(ClaimRequest(c)))
           /\ scope[runOf[c]].lease # c,
         NEW said, "accepted" \notin said
  PROVE  Loses(q, said, {c})
<1>1. Keeps({c}) /\ [Next]_vars
  BY GiveBackKeeps, MineFacts
<1> QED BY <1>1 DEF Loses

LEMMA BackpressureActs ==
  ASSUME Orderly, ProtocolOK, NEW q \in Requests, Hears(q, "call"), HearsInTurn(q, "call"),
         ~Room(requests, q),
         Reply(q, "backpressure"), UNCHANGED <<vars, workerVars, hostVars>>
  PROVE  Acted
<1> DEFINE said == {"backpressure"}
<1>1. ProtocolTypes /\ RequestOK(q) /\ q.claim \in Mine
  BY RequestFacts DEF ProtocolOK
<1>2. handler[q] = "none"
  BY <1>1 DEF RequestOK, Hears
<1>3. Says(q, said)
  BY <1>1, ReplySays DEF Results
<1>4. Filed(q, "none")
  BY <1>1, <1>2, NothingFiled DEF hostVars
<1>5. Advances(q, "call", said, "none")
  BY <1>1, <1>2, <1>4 DEF Advances, hostVars, RequestOK, Working
<1>6. Vouches(q, said)
  BY <1>1, SilentVouches DEF hostVars
<1>7. Loses(q, said, {})
  BY IdleTableLoses
<1>8. q = ClaimRequest(q.claim) => GrantOK(q.claim)'
  BY <1>2, <1>4 DEF GrantOK, Filed, ClaimRequest
<1> HIDE DEF said
<1>9. HostMove(q, "call", said, {})
  BY <1>3, <1>4, <1>5, <1>6, <1>7, <1>8, AdvancingMoves
<1>10. Disturbs(q)
  BY IdleTableDisturbs
<1>11. Deals(q, "call", said)
  BY <1>2 DEF Deals, hostVars, said, Working
<1> QED BY <1>9, <1>10, <1>11 DEF Acted

\* A stale handler answers with an error and changes nothing.
LEMMA HearRefusedActs ==
  ASSUME Orderly, ProtocolOK, NEW q \in Requests, Hears(q, "call"), HearsInTurn(q, "call"),
         stale, Refuse(q), UNCHANGED workerVars
  PROVE  Acted
<1> DEFINE said == {"error"}
<1>1. /\ ProtocolTypes /\ RequestOK(q) /\ q.claim \in Mine
      /\ Reply(q, "error") /\ UNCHANGED <<vars, hostVars>>
  BY RequestFacts DEF ProtocolOK, Refuse
<1>2. handler[q] = "none"
  BY <1>1 DEF RequestOK, Hears
<1>3. Says(q, said)
  BY <1>1, ReplySays DEF Results
<1>4. Filed(q, "none")
  BY <1>1, <1>2, NothingFiled DEF hostVars
<1>5. Advances(q, "call", said, "none")
  BY <1>1, <1>2, <1>4 DEF Advances, hostVars, RequestOK, Working
<1>6. Vouches(q, said)
  BY <1>1, SilentVouches DEF hostVars
<1>7. Loses(q, said, {})
  BY <1>1, IdleTableLoses
<1>8. q = ClaimRequest(q.claim) => GrantOK(q.claim)'
  BY <1>2, <1>4 DEF GrantOK, Filed, ClaimRequest
<1> HIDE DEF said
<1>9. HostMove(q, "call", said, {})
  BY <1>3, <1>4, <1>5, <1>6, <1>7, <1>8, AdvancingMoves
<1>10. Disturbs(q)
  BY <1>1, IdleTableDisturbs
<1>11. Deals(q, "call", said)
  BY <1>1, <1>2 DEF Deals, hostVars, said, Working
<1> QED BY <1>9, <1>10, <1>11 DEF Acted

LEMMA HearClaimActs ==
  ASSUME Orderly, ProtocolOK, NEW q \in Requests, Hears(q, "call"), HearsInTurn(q, "call"),
         Room(requests, q), ~stale, q.op = "claim", requests' = requests \cup {q},
         handler' = [handler EXCEPT ![q] = "resolving"],
         UNCHANGED <<vars, workerVars, toWorker, aborted, foregroundParents>>
  PROVE  Acted
<1>1. ProtocolTypes /\ RequestOK(q) /\ q.claim \in Mine
  BY RequestFacts DEF ProtocolOK
<1>2. handler[q] = "none" /\ q \notin aborted
  BY <1>1 DEF RequestOK, Hears, Working
<1>3. Says(q, {})
  BY <1>1, SilentSays
<1>4. Filed(q, "resolving")
  BY <1>1, FilingFiled DEF HandlerStates
<1>5. Advances(q, "call", {}, "resolving")
  BY <1>2 DEF Advances
<1>6. Vouches(q, {}) /\ Loses(q, {}, {})
  BY <1>1, SilentVouches, IdleTableLoses
<1>7. q = ClaimRequest(q.claim) => GrantOK(q.claim)'
  BY <1>4 DEF GrantOK, Filed, ClaimRequest
<1>8. HostMove(q, "call", {}, {})
  BY <1>3, <1>4, <1>5, <1>6, <1>7, AdvancingMoves
<1>9. Disturbs(q)
  BY IdleTableDisturbs
<1>10. Deals(q, "call", {})
  BY <1>2, <1>4, RequestFacts DEF Deals, Filed, Working
<1> QED BY <1>8, <1>9, <1>10 DEF Acted

LEMMA HearReleaseActs ==
  ASSUME Orderly, ProtocolOK, NEW q \in Requests, Hears(q, "call"), HearsInTurn(q, "call"),
         Room(requests, q), ~stale, q.op = "release", requests' = requests \cup {q},
         HandleRelease(q), UNCHANGED <<workerVars, aborted>>
  PROVE  Acted
<1> DEFINE c == q.claim
           r == runOf[c]
           said == {"released"}
<1>1. ProtocolTypes /\ RequestOK(q) /\ c \in Mine /\ r \in Runs
  BY RequestFacts, MineFacts DEF ProtocolOK
<1>2. q.yielding \in BOOLEAN /\ q = ReleaseRequest(c, q.yielding)
  BY RequestFacts
<1>3. Calling(q)
  BY DEF Hears
<1>4. Over(c) /\ scope[r].lease # c
  <2>1. ReleaseOK(c, q.yielding)
    BY <1>1, <1>2 DEF ProtocolOK
  <2> QED BY <1>2, <1>3, <2>1 DEF ReleaseOK, Unused
<1>5. q \notin aborted
  BY <1>1, <1>3 DEF RequestOK, Working
<1>6. Says(q, said)
  BY <1>1, ReplySays DEF Results, HandleRelease
<1>7. Filed(q, "replied")
  BY <1>1, FilingFiled DEF HandlerStates, HandleRelease
<1>8. Advances(q, "call", said, "replied")
  BY <1>5 DEF Advances
<1>9. Vouches(q, said)
  <2>1. foregroundParents \in [Runs -> Lease] /\ NoLease \in Lease
    BY <1>1 DEF ProtocolTypes, Lease
  <2>2. CASE ~q.yielding /\ foregroundParents[r] = c
    <3>1. foregroundParents' = [foregroundParents EXCEPT ![r] = NoLease]
      BY <2>2 DEF HandleRelease
    <3>2. q = ReleaseRequest(c, FALSE)
      BY <1>2, <2>2
    <3> QED BY <1>1, <1>3, <2>1, <2>2, <3>1, <3>2 DEF Vouches
  <2>3. CASE ~(~q.yielding /\ foregroundParents[r] = c)
    BY <1>1, <2>3, SilentVouches DEF HandleRelease
  <2> QED BY <2>2, <2>3
<1>10. Loses(q, said, {c})
  <2>1. ClaimRequest(c) \notin calls
    BY <1>4 DEF Over
  <2>2. GiveBack(c)
    BY DEF HandleRelease
  <2> QED BY <1>1, <1>4, <2>1, <2>2, GivingBackLoses
<1>11. q # ClaimRequest(c)
  BY <1>1, <1>2, RequestsDiffer
<1> HIDE DEF said
<1>12. HostMove(q, "call", said, {c})
  BY <1>6, <1>7, <1>8, <1>9, <1>10, <1>11, AdvancingMoves
<1>13. Disturbs(q) /\ c \notin leases'
  BY <1>1, MineFacts, GivingBackDisturbs, GiveBackKeeps DEF HandleRelease
<1>14. Deals(q, "call", said)
  BY <1>13, RequestFacts DEF Deals, said
<1> QED BY <1>12, <1>13, <1>14 DEF Acted

LEMMA HearAckActs ==
  ASSUME Orderly, ProtocolOK, NEW q \in Requests, Hears(q, "ack"), HearsInTurn(q, "ack"),
         Acknowledge(q),
         UNCHANGED <<vars, workerVars, toWorker, aborted, foregroundParents>>
  PROVE  Acted
<1>1. ProtocolTypes /\ RequestOK(q) /\ q.claim \in Mine
  BY RequestFacts DEF ProtocolOK
<1>2. q \notin aborted /\ (q \in requests <=> handler[q] # "none")
  BY <1>1 DEF RequestOK, Hears
<1>3. Says(q, {})
  BY <1>1, SilentSays
<1>4. handler' = [handler EXCEPT ![q] = "none"] /\ requests' = requests \ {q}
  BY <1>1, <1>2 DEF Acknowledge, ProtocolTypes
<1>5. Filed(q, "none")
  BY <1>1, <1>4, FilingFiled DEF HandlerStates
<1>6. Advances(q, "ack", {}, "none")
  BY <1>2, <1>4 DEF Advances
<1>7. Vouches(q, {}) /\ Loses(q, {}, {})
  BY <1>1, SilentVouches, IdleTableLoses
<1>8. q = ClaimRequest(q.claim) => GrantOK(q.claim)'
  BY <1>5 DEF GrantOK, Filed, ClaimRequest
<1>9. HostMove(q, "ack", {}, {})
  BY <1>3, <1>5, <1>6, <1>7, <1>8, AdvancingMoves
<1>10. Disturbs(q)
  BY IdleTableDisturbs
<1>11. Deals(q, "ack", {})
  <2>1. handler[q] # "admission" /\ handler'[q] = "none" /\ q \notin requests'
    BY <1>1, <1>4, <1>5 DEF RequestOK, Hears, Working, Filed
  <2> QED BY <2>1 DEF Deals
<1> QED BY <1>9, <1>10, <1>11 DEF Acted

\* A request is abandoned: its handler stops, or what it granted is taken back,
\* which the worker must not count on any more.
LEMMA AbandonActs ==
  ASSUME Orderly, ProtocolOK, NEW q \in Requests, NEW heard, heard \in {"cancel", "nothing"},
         Hears(q, heard), HearsInTurn(q, heard), Abandon(q),
         UNCHANGED <<workerVars, toWorker, foregroundParents>>,
         SlowReceipts = FALSE /\ q \in requests /\ handler[q] = "replied"
           /\ q.op = "claim" =>
             ~(q \in calls /\ Granting(q)) /\ scope[runOf[q.claim]].lease # q.claim
  PROVE  Acted
<1> DEFINE c == q.claim
<1>1. ProtocolTypes /\ RequestOK(q) /\ c \in Mine /\ c \in Claims
  BY RequestFacts, MineFacts DEF ProtocolOK
<1>2. Says(q, {}) /\ Vouches(q, {})
  BY <1>1, SilentSays, SilentVouches
<1>3. /\ q \in requests <=> handler[q] # "none" /\ q \notin aborted
      /\ q \in aborted => Working(q)
  BY <1>1 DEF RequestOK
<1>4. CASE q \notin requests
  <2>1. UNCHANGED <<vars, requests, handler, aborted>>
    BY <1>4 DEF Abandon
  <2>2. Filed(q, handler[q])
    <3>1. PICK at : at = handler[q]
      OBVIOUS
    <3>2. Filed(q, at)
      BY <1>1, <2>1, <3>1, NothingFiled
    <3> QED BY <2>1, <3>1, <3>2 DEF Filed
  <2>3. Advances(q, heard, {}, handler[q])
    BY <1>3, <2>1 DEF Advances, Working
  <2>4. Loses(q, {}, {})
    BY <2>1, IdleTableLoses
  <2>5. q = ClaimRequest(c) => GrantOK(c)'
    <3> SUFFICES ASSUME q = ClaimRequest(c) PROVE GrantOK(c)'
      OBVIOUS
    <3>1. GrantOK(c)
      BY <1>1 DEF ProtocolOK
    <3> QED BY <2>1, <3>1 DEF GrantOK, vars, ClaimRequest
  <2>6. PICK at : at = handler[q]
    OBVIOUS
  <2>7. Filed(q, at) /\ Advances(q, heard, {}, at)
    BY <2>2, <2>3, <2>6 DEF Filed
  <2>8. HostMove(q, heard, {}, {})
    BY <1>2, <2>4, <2>5, <2>7, AdvancingMoves
  <2>9. Disturbs(q)
    BY <2>1, IdleTableDisturbs
  <2>10. Deals(q, heard, {})
    BY <1>3, <1>4, <2>1 DEF Deals, Working
  <2> QED BY <2>8, <2>9, <2>10 DEF Acted
<1>5. CASE q \in requests /\ handler[q] = "replied"
  <2>1. /\ handler' = [handler EXCEPT ![q] = "none"] /\ requests' = requests \ {q}
        /\ UNCHANGED aborted /\ Rollback(q)
    BY <1>5 DEF Abandon
  <2>2. Filed(q, "none")
    BY <1>1, <2>1, FilingFiled DEF HandlerStates
  <2>3. Advances(q, heard, {}, "none")
    BY <1>3, <1>5, <2>1 DEF Advances, Working
  <2>4. q = ClaimRequest(c) => GrantOK(c)'
    BY <2>2 DEF GrantOK, Filed, ClaimRequest
  <2>5. CASE q.op = "claim"
    <3>1. GiveBack(c) /\ q = ClaimRequest(c)
      BY <2>1, <2>5, RequestFacts DEF Rollback
    <3>2. Loses(q, {}, {c})
      BY <1>1, <1>5, <2>5, <3>1, GivingBackLoses
    <3>3. HostMove(q, heard, {}, {c})
      BY <1>2, <2>2, <2>3, <2>4, <3>2, AdvancingMoves
    <3>4. Disturbs(q) /\ c \notin leases'
      BY <1>1, <3>1, GivingBackDisturbs, GiveBackKeeps
    <3>5. Deals(q, heard, {})
      BY <1>5, <2>1, <2>2, <2>5, <3>4, RequestFacts DEF Deals, Filed
    <3> QED BY <3>3, <3>4, <3>5 DEF Acted
  <2>6. CASE q.op # "claim"
    <3>1. UNCHANGED vars
      BY <2>1, <2>6 DEF Rollback
    <3>2. Loses(q, {}, {})
      BY <3>1, IdleTableLoses
    <3>3. HostMove(q, heard, {}, {})
      BY <1>2, <2>2, <2>3, <2>4, <3>2, AdvancingMoves
    <3>4. Disturbs(q)
      BY <3>1, IdleTableDisturbs
    <3>5. Deals(q, heard, {})
      BY <1>5, <2>1, <2>2, <2>6 DEF Deals, Filed
    <3> QED BY <3>3, <3>4, <3>5 DEF Acted
  <2> QED BY <2>5, <2>6
<1>6. CASE q \in requests /\ handler[q] # "replied"
  <2>1. /\ aborted' = aborted \cup {q} /\ requests' = requests \ {q} /\ UNCHANGED handler
        /\ Abort(c) \/ UNCHANGED vars
    BY <1>6 DEF Abandon
  <2>2. Working(q) /\ handler[q] \in HandlerStates
    BY <1>1, <1>3, <1>6 DEF Working, ProtocolTypes, HandlerStates
  <2>3. PICK at \in HandlerStates : at = handler[q]
    BY <2>2
  <2>4. handler' = [handler EXCEPT ![q] = at]
    BY <1>1, <2>1, <2>3 DEF ProtocolTypes
  <2>5. Filed(q, at)
    BY <1>1, <2>1, <2>4, FilingFiled
  <2>6. Advances(q, heard, {}, at)
    BY <2>1, <2>2, <2>3 DEF Advances, Working
  <2>7. Keeps({}) /\ [Next]_vars
    BY <1>1, <2>1, GrowingKeeps DEF Next
  <2>8. Loses(q, {}, {})
    BY <2>7, NothingLost
  <2>9. q = ClaimRequest(c) => GrantOK(c)'
    BY <2>1 DEF GrantOK, ClaimRequest
  <2>10. HostMove(q, heard, {}, {})
    BY <1>2, <2>5, <2>6, <2>8, <2>9, AdvancingMoves
  <2>11. Disturbs(q)
    BY <1>1, <2>1, MineFacts, GrowingKeeps DEF Disturbs, Leaves
  <2>12. Deals(q, heard, {})
    BY <1>6, <2>1, <2>2 DEF Deals, Working
  <2> QED BY <2>10, <2>11, <2>12 DEF Acted
<1> QED BY <1>4, <1>5, <1>6

LEMMA HostReceiveActs ==
  ASSUME Orderly, ProtocolOK, HostReceive
  PROVE  Acted
<1>1. ProtocolTypes /\ toHost # <<>> /\ toHost' = Tail(toHost) /\ UNCHANGED workerVars
  BY DEF HostReceive, ProtocolOK
<1>2. toHost \in Seq(Message)
  BY <1>1 DEF ProtocolTypes
<1>3. Head(toHost) \in Message
  BY <1>1, <1>2, ReceivedFrom
<1>4. PICK q \in Requests : q = Head(toHost).of
  BY <1>3, MessageFacts
<1>5. PICK heard \in {"call", "ack", "cancel"} : heard = Head(toHost).kind
  BY <1>3, MessageFacts
<1>6. Hears(q, heard) /\ HearsInTurn(q, heard)
  BY <1>1, <1>4, <1>5, HearingHears
<1>7. \/ /\ heard = "call" /\ ~Room(requests, q) /\ Reply(q, "backpressure")
         /\ UNCHANGED <<vars, hostVars>>
      \/ /\ heard = "call" /\ stale /\ Refuse(q)
      \/ /\ heard = "call" /\ Room(requests, q) /\ ~stale /\ q.op = "claim"
         /\ requests' = requests \cup {q}
         /\ handler' = [handler EXCEPT ![q] = "resolving"]
         /\ UNCHANGED <<vars, toWorker, aborted, foregroundParents>>
      \/ /\ heard = "call" /\ Room(requests, q) /\ ~stale /\ q.op = "release"
         /\ requests' = requests \cup {q}
         /\ HandleRelease(q)
         /\ UNCHANGED aborted
      \/ /\ heard = "cancel"
         /\ Abandon(q)
         /\ UNCHANGED <<toWorker, foregroundParents>>
      \/ /\ heard = "ack"
         /\ Acknowledge(q)
         /\ UNCHANGED <<vars, toWorker, aborted, foregroundParents>>
  BY <1>4, <1>5 DEF HostReceive
<1>8. CASE heard = "cancel" /\ Abandon(q) /\ UNCHANGED <<toWorker, foregroundParents>>
  <2>1. Cancelled(q) /\ q.claim \in Mine
    BY <1>6, <1>8, RequestFacts DEF Hears
  <2>2. q.op = "claim" =>
          ~(q \in calls /\ Granting(q)) /\ scope[runOf[q.claim]].lease # q.claim
    <3> SUFFICES ASSUME q.op = "claim"
                 PROVE  q \notin calls /\ scope[runOf[q.claim]].lease # q.claim
      OBVIOUS
    <3>1. q = ClaimRequest(q.claim)
      BY RequestFacts
    <3>2. ClaimOK(q.claim)
      BY <2>1 DEF ProtocolOK
    <3> QED BY <2>1, <3>1, <3>2, HeldIsOver DEF ClaimOK
  <2> QED BY <1>1, <1>6, <1>8, <2>2, AbandonActs
<1> QED BY <1>1, <1>6, <1>7, <1>8, BackpressureActs, HearRefusedActs, HearClaimActs,
           HearReleaseActs, HearAckActs

LEMMA MissReceiptActs ==
  ASSUME Orderly, ProtocolOK, LeasesHeld, NEW q \in Requests, MissReceipt(q)
  PROVE  Acted
<1>1. ProtocolTypes /\ q.claim \in Mine
  BY RequestFacts DEF ProtocolOK
<1>2. /\ q \in requests /\ handler[q] = "replied" /\ (SlowReceipts \/ ~InFlight(q))
      /\ Abandon(q) /\ UNCHANGED <<workerVars, toHost, toWorker, foregroundParents>>
  BY DEF MissReceipt
<1>3. Hears(q, "nothing") /\ HearsInTurn(q, "nothing")
  BY <1>1, <1>2, DeafHears
<1>4. ASSUME SlowReceipts = FALSE, q.op = "claim"
      PROVE  ~Granting(q) /\ scope[runOf[q.claim]].lease # q.claim
  <2>1. ~InFlight(q)
    BY <1>2, <1>4
  <2>2. ~Granting(q) /\ ~Acked(q)
    <3>1. toHost \in Seq(Message) /\ toWorker \in Seq([of : Requests, result : Results])
      BY <1>1 DEF ProtocolTypes
    <3>2. /\ Ack(q).of = q /\ [of |-> q, result |-> "accepted"].of = q
      BY MessageFacts
    <3> QED BY <2>1, <3>1, <3>2 DEF InFlight, Granting, Acked, SomeIn
  <2>3. q = ClaimRequest(q.claim)
    BY <1>4, RequestFacts
  <2>4. HeldOK(q.claim)
    BY <1>1, <1>4 DEF LeasesHeld
  <2> QED BY <1>2, <2>2, <2>3, <2>4 DEF HeldOK
<1> QED BY <1>2, <1>3, <1>4, AbandonActs

LEMMA FailActs ==
  ASSUME Orderly, ProtocolOK, NEW q \in Requests, Working(q), Fail(q),
         \/ GiveBack(q.claim) /\ handler[q] = "verifying"
         \/ /\ UNCHANGED vars
            /\ \/ handler[q] = "resolving"
               \/ promise[q.claim] \notin {"waiting", "accepted"},
         UNCHANGED <<workerVars, toHost, foregroundParents>>
  PROVE  Acted
<1> DEFINE c == q.claim
<1>1. ProtocolTypes /\ RequestOK(q) /\ c \in Mine
  BY RequestFacts DEF ProtocolOK
<1>2. q = ClaimRequest(c) /\ scope[runOf[c]].lease # c /\ ~Granting(q)
  BY WorkingFacts
<1>3. /\ handler' = [handler EXCEPT ![q] = "none"] /\ requests' = requests \ {q}
      /\ aborted' = aborted \ {q}
  BY DEF Fail
<1>4. PICK said : said \in {{}, {"error"}} /\ Says(q, said)
  <2>1. CASE q \in aborted
    BY <1>1, <2>1, SilentSays DEF Fail
  <2>2. CASE q \notin aborted
    BY <1>1, <2>2, ReplySays DEF Fail, Results
  <2> QED BY <2>1, <2>2
<1>5. "accepted" \notin said
  BY <1>4
<1>6. Hears(q, "nothing") /\ HearsInTurn(q, "nothing") /\ Vouches(q, said)
  BY <1>1, <1>5, DeafHears, SilentVouches
<1>7. Filed(q, "none")
  BY <1>1, <1>3, FilingFiled DEF HandlerStates
<1>8. Advances(q, "nothing", said, "none")
  BY <1>3 DEF Advances
<1>9. q = ClaimRequest(c) => GrantOK(c)'
  BY <1>7 DEF GrantOK, Filed, ClaimRequest
<1>12. handler'[q] = "none" /\ q \notin requests' /\ "backpressure" \notin said
  BY <1>3, <1>4, <1>7 DEF Filed
<1>10. CASE GiveBack(c) /\ handler[q] = "verifying"
  <2>1. Loses(q, said, {c})
    BY <1>1, <1>2, <1>5, <1>10, GivingBackLoses
  <2>2. HostMove(q, "nothing", said, {c})
    BY <1>4, <1>6, <1>7, <1>8, <1>9, <2>1, AdvancingMoves
  <2>3. Disturbs(q) /\ c \notin leases'
    BY <1>1, <1>10, MineFacts, GivingBackDisturbs, GiveBackKeeps
  <2>4. Deals(q, "nothing", said)
    BY <1>10, <1>12, <2>3 DEF Deals
  <2> QED BY <1>6, <2>2, <2>3, <2>4 DEF Acted
<1>11. CASE /\ UNCHANGED vars
            /\ \/ handler[q] = "resolving"
               \/ promise[c] \notin {"waiting", "accepted"}
  <2>1. Loses(q, said, {})
    BY <1>5, <1>11, IdleTableLoses
  <2>2. HostMove(q, "nothing", said, {})
    BY <1>4, <1>6, <1>7, <1>8, <1>9, <2>1, AdvancingMoves
  <2>3. Disturbs(q)
    BY <1>11, IdleTableDisturbs
  <2>4. handler[q] = "resolving" \/ (c \notin leases' /\ promise'[c] # "waiting")
    BY <1>1, <1>11, OrderlyFields, MineFacts DEF vars
  <2>5. Deals(q, "nothing", said)
    BY <1>12, <2>4 DEF Deals
  <2> QED BY <1>6, <2>2, <2>3, <2>5 DEF Acted
<1> QED BY <1>10, <1>11

LEMMA ResolvedActs ==
  ASSUME Orderly, ProtocolOK, NEW q \in Requests, Resolved(q)
  PROVE  Acted
<1> DEFINE c == q.claim
<1>1. ProtocolTypes /\ RequestOK(q) /\ c \in Mine /\ c \in Claims
  BY RequestFacts, MineFacts DEF ProtocolOK
<1>2. handler[q] = "resolving" /\ UNCHANGED <<workerVars, toHost, foregroundParents>>
  BY DEF Resolved
<1>3. Working(q)
  BY <1>2 DEF Working
<1>4. CASE Fail(q) /\ UNCHANGED vars
  BY <1>2, <1>3, <1>4, FailActs
<1>5. CASE /\ q \notin aborted /\ Acquire(c)
           /\ handler' = [handler EXCEPT ![q] = "admission"]
           /\ UNCHANGED <<requests, aborted, toWorker>>
  <2>1. Says(q, {}) /\ Hears(q, "nothing") /\ HearsInTurn(q, "nothing") /\ Vouches(q, {})
    BY <1>1, <1>2, <1>5, SilentSays, DeafHears, SilentVouches
  <2>2. Filed(q, "admission")
    BY <1>1, <1>5, FilingFiled DEF HandlerStates
  <2>3. Advances(q, "nothing", {}, "admission")
    BY <1>1, <1>2, <1>3, <1>5 DEF Advances, RequestOK
  <2>4. Keeps({}) /\ [Next]_vars
    BY <1>1, <1>5, GrowingKeeps DEF Next
  <2>5. Loses(q, {}, {})
    BY <2>4, NothingLost
  <2>6. q = ClaimRequest(c) => GrantOK(c)'
    <3> SUFFICES ASSUME q = ClaimRequest(c) PROVE GrantOK(c)'
      OBVIOUS
    <3>1. promise'[c] = "accepted" => c \in leases'
      BY <1>1, <1>5, <2>4 DEF Keeps, Acquire, Free
    <3>2. handler'[q] = "admission"
      BY <2>2 DEF Filed
    <3> QED BY <3>1, <3>2 DEF GrantOK, ClaimRequest
  <2>7. HostMove(q, "nothing", {}, {})
    BY <1>2, <2>1, <2>2, <2>3, <2>5, <2>6, AdvancingMoves
  <2>8. handler'[q] = "admission" /\ q = ClaimRequest(c)
    BY <1>3, <2>2, WorkingFacts DEF Filed
  <2>9. Disturbs(q)
    BY <1>1, <1>2, <1>5, <2>8, MineFacts, GrowingKeeps DEF Disturbs, Leaves
  <2>10. Deals(q, "nothing", {})
    BY <1>2, <1>5, <2>8 DEF Deals
  <2> QED BY <2>1, <2>7, <2>9, <2>10 DEF Acted
<1> QED BY <1>4, <1>5 DEF Resolved

LEMMA AdmittedActs ==
  ASSUME Orderly, ProtocolOK, NEW q \in Requests, Admitted(q)
  PROVE  Acted
<1> DEFINE c == q.claim
<1>1. ProtocolTypes /\ RequestOK(q) /\ c \in Mine
  BY RequestFacts DEF ProtocolOK
<1>2. handler[q] = "admission" /\ UNCHANGED <<vars, workerVars, toHost, foregroundParents>>
  BY DEF Admitted
<1>3. Working(q)
  BY <1>2 DEF Working
<1>4. q = ClaimRequest(c)
  BY <1>3, WorkingFacts
<1>5. CASE /\ promise[c] = "accepted"
           /\ handler' = [handler EXCEPT ![q] = "verifying"]
           /\ UNCHANGED <<toWorker, requests, aborted>>
  <2>1. /\ Says(q, {}) /\ Hears(q, "nothing") /\ HearsInTurn(q, "nothing")
        /\ Vouches(q, {}) /\ Loses(q, {}, {}) /\ Disturbs(q)
    BY <1>1, <1>2, <1>5, SilentSays, DeafHears, SilentVouches, IdleTableLoses, IdleTableDisturbs
  <2>2. Filed(q, "verifying")
    BY <1>1, <1>5, FilingFiled DEF HandlerStates
  <2>3. Advances(q, "nothing", {}, "verifying")
    BY <1>1, <1>2, <1>3, <1>5 DEF Advances, RequestOK
  <2>4. GrantOK(c)'
    <3>1. q \notin aborted => c \in leases
      BY <1>1, <1>2, <1>4, <1>5 DEF ProtocolOK, GrantOK
    <3>2. handler'[q] = "verifying" /\ leases' = leases /\ aborted' = aborted
      BY <1>2, <1>5, <2>2 DEF Filed, vars
    <3> QED BY <1>4, <3>1, <3>2 DEF GrantOK, ClaimRequest
  <2>5. HostMove(q, "nothing", {}, {})
    BY <1>2, <2>1, <2>2, <2>3, <2>4, AdvancingMoves
  <2>6. Deals(q, "nothing", {})
    BY <1>2, <1>5, <2>2 DEF Deals, Filed, vars
  <2> QED BY <2>1, <2>5, <2>6 DEF Acted
<1>6. CASE q \in aborted /\ Fail(q) /\ promise[c] \notin {"waiting", "accepted"}
  BY <1>2, <1>3, <1>6, FailActs
<1>7. CASE /\ q \notin aborted /\ Reply(q, "refused")
           /\ promise[c] \notin {"waiting", "accepted"}
           /\ handler' = [handler EXCEPT ![q] = "replied"]
           /\ UNCHANGED <<requests, aborted>>
  <2> DEFINE said == {"refused"}
  <2>1. Says(q, said)
    BY <1>1, <1>7, ReplySays DEF Results
  <2>2. /\ Hears(q, "nothing") /\ HearsInTurn(q, "nothing")
        /\ Vouches(q, said) /\ Loses(q, said, {}) /\ Disturbs(q)
    BY <1>1, <1>2, DeafHears, SilentVouches, IdleTableLoses, IdleTableDisturbs
  <2>3. Filed(q, "replied")
    BY <1>1, <1>7, FilingFiled DEF HandlerStates
  <2>4. Advances(q, "nothing", said, "replied")
    BY <1>1, <1>2, <1>3, <1>7 DEF Advances, RequestOK
  <2>5. GrantOK(c)'
    BY <1>4, <2>3 DEF GrantOK, Filed, ClaimRequest
  <2> HIDE DEF said
  <2>6. HostMove(q, "nothing", said, {})
    BY <1>2, <2>1, <2>2, <2>3, <2>4, <2>5, AdvancingMoves
  <2>7. c \notin leases' /\ promise'[c] # "waiting"
    BY <1>1, <1>2, <1>7, OrderlyFields, MineFacts DEF vars
  <2>8. Deals(q, "nothing", said)
    BY <1>2, <1>7, <2>3, <2>7 DEF Deals, Filed, said
  <2> QED BY <2>2, <2>6, <2>8 DEF Acted
<1> QED BY <1>5, <1>6, <1>7 DEF Admitted

LEMMA VerifiedActs ==
  ASSUME Orderly, ProtocolOK, NEW q \in Requests, Verified(q)
  PROVE  Acted
<1> DEFINE c == q.claim
           r == runOf[c]
<1>1. ProtocolTypes /\ RequestOK(q) /\ c \in Mine /\ r \in Runs
  BY RequestFacts, MineFacts DEF ProtocolOK
<1>2. handler[q] = "verifying" /\ UNCHANGED <<workerVars, toHost>>
  BY DEF Verified
<1>3. Working(q)
  BY <1>2 DEF Working
<1>4. q = ClaimRequest(c)
  BY <1>3, WorkingFacts
<1>5. CASE Fail(q) /\ GiveBack(c) /\ UNCHANGED foregroundParents
  BY <1>2, <1>3, <1>5, FailActs
<1>6. CASE /\ q \notin aborted
           /\ foregroundParents' = IF kindOf[c] = "foreground"
                                   THEN [foregroundParents EXCEPT ![r] = c]
                                   ELSE foregroundParents
           /\ handler' = [handler EXCEPT ![q] = "replied"]
           /\ Reply(q, "accepted")
           /\ UNCHANGED <<vars, requests, aborted>>
  <2> DEFINE said == {"accepted"}
  <2>1. Says(q, said)
    BY <1>1, <1>6, ReplySays DEF Results
  <2>2. Hears(q, "nothing") /\ HearsInTurn(q, "nothing") /\ Disturbs(q)
    BY <1>1, <1>2, <1>6, DeafHears, IdleTableDisturbs
  <2>3. Vouches(q, said)
    <3>1. foregroundParents \in [Runs -> Lease] /\ c \in Lease
      BY <1>1 DEF ProtocolTypes, Lease
    <3> QED BY <1>1, <1>3, <1>4, <1>6, <3>1 DEF Vouches
  <2>4. Loses(q, said, {})
    <3>1. c \in leases
      BY <1>1, <1>2, <1>4, <1>6 DEF ProtocolOK, GrantOK
    <3>2. Keeps({})
      BY <1>1, <1>6, MineFacts, GrowingKeeps
    <3> QED BY <1>6, <3>1, <3>2 DEF Loses, vars
  <2>5. Filed(q, "replied")
    BY <1>1, <1>6, FilingFiled DEF HandlerStates
  <2>6. Advances(q, "nothing", said, "replied")
    BY <1>1, <1>2, <1>3, <1>6 DEF Advances, RequestOK
  <2>7. GrantOK(c)'
    BY <1>4, <2>5 DEF GrantOK, Filed, ClaimRequest
  <2> HIDE DEF said
  <2>8. HostMove(q, "nothing", said, {})
    BY <1>2, <2>1, <2>2, <2>3, <2>4, <2>5, <2>6, <2>7, AdvancingMoves
  <2>9. Deals(q, "nothing", said)
    BY <1>2, <1>6, <2>5 DEF Deals, Filed, said
  <2> QED BY <2>2, <2>8, <2>9 DEF Acted
<1> QED BY <1>5, <1>6 DEF Verified

-----------------------------------------------------------------------------
(* The worker goes away; steps of others *)

LEMMA DisconnectKeeps ==
  ASSUME Orderly, ProtocolOK, Disconnect
  PROVE  Kept
<1> DEFINE W == {"resolving", "admission", "verifying"}
<1>1. /\ requests' = {} /\ toHost' = <<>> /\ toWorker' = <<>> /\ calls' = {} /\ made' = made
      /\ aborted' = {q \in Requests : handler[q] \in W}
      /\ handler' = [q \in Requests |-> IF q \in aborted' THEN handler[q] ELSE "none"]
      /\ foregroundParents' = [r \in Runs |-> NoLease]
      /\ scope' = [r \in Runs |-> IF scope[r].at = "idle" THEN scope[r]
                     ELSE [at |-> "done", lease |-> NoLease, last |-> NoLease,
                           closed |-> TRUE]]
      /\ ReleaseBot(Worker)
  BY DEF Disconnect
<1>2. ProtocolTypes /\ \A r \in Runs : ScopeOK(r)
  BY DEF ProtocolOK
<1>3. \A q \in Requests : /\ q \in aborted' <=> Working(q)
                          /\ Working(q)' <=> Working(q)
                          /\ handler'[q] # "none" <=> Working(q)
  BY <1>1 DEF Working
<1>4. \A q \in Requests : ~Calling(q)' /\ ~Acked(q)' /\ ~Cancelled(q)' /\ ~Replied(q)'
                          /\ ~Granting(q)'
  BY <1>1 DEF Calling, Acked, Cancelled, Replied, Granting, SomeIn
<1>5. \A c \in Mine : Made(c)' <=> Made(c)
  BY <1>1 DEF Made
<1>6. ProtocolTypes'
  <2>1. Fits({})
    <3>0. OfClaims({}) = {}
      BY DEF OfClaims
    <3>1. Cardinality({}) = 0 /\ IsFiniteSet({})
      BY FS_EmptySet
    <3>2. Cardinality(OfClaims({})) = 0
      BY <3>0, <3>1
    <3>3. 0 <= MaxRequests /\ 0 <= MaxClaims
      BY WorkerAssumption
    <3> QED BY <3>1, <3>2, <3>3 DEF Fits
  <2>2. Fits(calls') /\ Fits(requests')
    BY <1>1, <2>1
  <2>3. Fits(calls)' /\ Fits(requests)'
    BY <2>2 DEF Fits
  <2>4. scope' \in [Runs -> Scopes] /\ foregroundParents' \in [Runs -> Lease]
    BY <1>1, <1>2 DEF ProtocolTypes, Scopes, Lease
  <2>5. toHost' \in Seq(Message) /\ toWorker' \in Seq([of : Requests, result : Results])
    BY <1>1
  <2>6. /\ handler' \in [Requests -> {"none", "resolving", "admission", "verifying", "replied"}]
        /\ aborted' \subseteq Requests /\ made' \in [Runs -> Nat]
    BY <1>1, <1>2 DEF ProtocolTypes
  <2> QED BY <2>3, <2>4, <2>5, <2>6 DEF ProtocolTypes, Scopes, Lease
<1>7. ASSUME NEW r \in Runs
      PROVE  /\ scope'[r].last = NoLease /\ scope'[r].lease = NoLease
             /\ ScopeOK(r)' /\ LastOK(r)' /\ WitnessOK(r)'
  <2>1. ScopeOK(r) /\ scope[r] \in Scopes
    BY <1>2 DEF ProtocolTypes
  <2>2. CASE scope[r].at = "idle"
    <3>1. scope'[r] = scope[r] /\ made'[r] = made[r]
      BY <1>1, <2>2
    <3>2. scope[r].last = NoLease /\ scope[r].lease = NoLease
      BY <2>1, <2>2 DEF ScopeOK
    <3>3. ScopeOK(r)'
      BY <2>1, <2>2, <3>1 DEF ScopeOK
    <3> QED BY <3>1, <3>2, <3>3 DEF LastOK, WitnessOK, Open
  <2>3. CASE scope[r].at # "idle"
    <3>1. /\ scope'[r].at = "done" /\ scope'[r].lease = NoLease
          /\ scope'[r].last = NoLease /\ scope'[r].closed = TRUE /\ made'[r] = made[r]
      BY <1>1, <2>3
    <3>2. ScopeOK(r)'
      BY <2>1, <2>3, <3>1 DEF ScopeOK
    <3> QED BY <3>1, <3>2 DEF LastOK, WitnessOK, Open
  <2> QED BY <2>2, <2>3
<1>8. ASSUME NEW c \in Mine
      PROVE  ClaimOK(c)' /\ VouchedOK(c)' /\ GrantOK(c)' /\ HeldOK(c)'
  <2>1. PICK q : q = ClaimRequest(c)
    OBVIOUS
  <2>2. q \in Requests /\ runOf[c] \in Runs /\ c # NoLease
    BY <2>1, RequestFacts, MineFacts
  <2>3. ClaimOK(c) /\ ScopeOK(runOf[c])
    BY <1>2, <2>2 DEF ProtocolOK
  <2>4. ~Made(c) => ~Working(q)
    BY <2>1, <2>3 DEF ClaimOK, Unused, Working
  <2>5. Working(q) => scope'[runOf[c]].at = "done"
    <3> SUFFICES ASSUME Working(q) PROVE scope[runOf[c]].at # "idle"
      BY <1>1, <2>2
    <3>1. made[runOf[c]] # 0
      BY <2>4 DEF Made
    <3> QED BY <2>3, <3>1 DEF ScopeOK
  <2>6. /\ q \notin calls'
        /\ ~Made(c)' => Unused(q)'
        /\ Working(q)' => Finished(runOf[c])'
    BY <1>1, <1>3, <1>4, <1>5, <2>2, <2>4, <2>5 DEF Unused, Finished
  <2>7. ClaimOK(c)'
    BY <1>4, <2>1, <2>2, <2>6 DEF ClaimOK, ClaimRequest, Unused, Working, Calling, Acked,
                                  Cancelled, Replied
  <2>8. VouchedOK(c)'
    BY <2>1, <2>6 DEF VouchedOK, ClaimRequest
  <2>9. GrantOK(c)'
    BY <1>1, <2>1, <2>2 DEF GrantOK, ClaimRequest
  <2>10. HeldOK(c)'
    BY <1>7, <2>1, <2>2, <2>6 DEF HeldOK, ClaimRequest
  <2> QED BY <2>7, <2>8, <2>9, <2>10
<1>9. ASSUME NEW c \in Mine, NEW y \in BOOLEAN
      PROVE  ReleaseOK(c, y)'
  <2>1. PICK q \in Requests : q = ReleaseRequest(c, y)
    BY RequestFacts
  <2>2. ~Working(q)
    BY <2>1, RequestFacts, WorkingFacts
  <2>3. Unused(q)'
    BY <1>1, <1>3, <1>4, <2>2 DEF Unused
  <2> QED BY <2>1, <2>3 DEF ReleaseOK, ReleaseRequest, Unused, Calling, Acked, Cancelled, Replied
<1>10. ASSUME NEW q \in Requests PROVE RequestOK(q)'
  <2>1. \A M : AtMostOneIn(toHost', M) /\ AtMostOneIn(toWorker', M)
    BY <1>1 DEF AtMostOneIn
  <2> QED BY <1>1, <1>3, <1>4, <2>1 DEF RequestOK, Call, Ack, Replies
<1>11. OthersOK'
  <2>1. Keeps(OfBot(Worker, leases))
    BY <1>1, ReleaseBotKeeps, WorkerAssumption
  <2>2. \A c \in Claims \ Mine : c \notin OfBot(Worker, leases)
    BY WorkerAssumption DEF OfBot
  <2> QED BY <2>1, <2>2 DEF ProtocolOK, OthersOK, Keeps
<1>12. ProtocolOK'
  BY <1>6, <1>7, <1>8, <1>9, <1>10, <1>11 DEF ProtocolOK
<1>13. LeasesHeld'
  BY <1>8 DEF LeasesHeld
<1> QED BY <1>12, <1>13 DEF Kept

\* A step that is not of the worker or about its requests.
LEMMA AsideKeeps ==
  ASSUME ProtocolOK, UNCHANGED <<workerVars, toHost, toWorker, hostVars>>,
         NEW X \in SUBSET (Claims \ Mine), Keeps(X), \A c \in X : promise'[c] # "accepted"
  PROVE  Kept
<1>1. /\ scope' = scope /\ made' = made /\ calls' = calls /\ toHost' = toHost
      /\ toWorker' = toWorker /\ requests' = requests /\ handler' = handler
      /\ aborted' = aborted /\ foregroundParents' = foregroundParents
  BY DEF workerVars, hostVars
<1>2. ProtocolTypes'
  BY <1>1 DEF ProtocolOK, ProtocolTypes, Fits
<1>3. \A q : /\ Calling(q)' <=> Calling(q)
             /\ Acked(q)' <=> Acked(q)
             /\ Cancelled(q)' <=> Cancelled(q)
             /\ Replied(q)' <=> Replied(q)
             /\ Granting(q)' <=> Granting(q)
             /\ Working(q)' <=> Working(q)
             /\ Unused(q)' <=> Unused(q)
  BY <1>1 DEF Calling, Acked, Cancelled, Replied, Granting, Working, Unused
<1>4. \A c \in Mine : (Made(c)' <=> Made(c)) /\ (Over(c)' <=> Over(c))
  BY <1>1, <1>3 DEF Made, Over, Calling, Replied, Working
<1>5. \A r : /\ Current(r)' = Current(r)
             /\ Finished(r)' <=> Finished(r)
             /\ Open(r)' <=> Open(r)
  BY <1>1 DEF Current, Finished, Open
<1>6. ASSUME NEW r \in Runs PROVE ScopeOK(r)' /\ LastOK(r)' /\ WitnessOK(r)'
  <2>1. ScopeOK(r) /\ LastOK(r) /\ WitnessOK(r)
    BY DEF ProtocolOK
  <2>2. ScopeOK(r)' /\ WitnessOK(r)'
    BY <1>1, <1>5, <2>1 DEF ScopeOK, WitnessOK
  <2>3. LastOK(r)'
    BY <1>1, <2>1 DEF LastOK, Over, Made, Calling, Replied, Working, Cancelled
  <2> QED BY <2>2, <2>3
<1>7. ASSUME NEW c \in Mine PROVE ClaimOK(c)' /\ VouchedOK(c)' /\ GrantOK(c)'
  <2>1. ClaimOK(c) /\ VouchedOK(c) /\ GrantOK(c)
    BY DEF ProtocolOK
  <2>2. c \in Claims /\ c \notin X
    BY MineFacts
  <2>3. ClaimOK(c)'
    BY <1>1, <2>1 DEF ClaimOK, Made, Unused, Finished, Current, Calling, Acked, Cancelled,
                      Replied, Working
  <2>4. VouchedOK(c)'
    BY <1>1, <2>1 DEF VouchedOK, Granting
  <2>5. GrantOK(c)'
    BY <1>1, <2>1, <2>2 DEF GrantOK, Keeps
  <2> QED BY <2>3, <2>4, <2>5
<1>8. ASSUME NEW c \in Mine, NEW y \in BOOLEAN PROVE ReleaseOK(c, y)'
  <2>1. ReleaseOK(c, y)
    BY DEF ProtocolOK
  <2> QED BY <1>1, <2>1 DEF ReleaseOK, Over, Made, Unused, Calling, Acked, Cancelled,
                            Replied, Working
<1>9. ASSUME NEW q \in Requests PROVE RequestOK(q)'
  <2>1. RequestOK(q)
    BY DEF ProtocolOK
  <2> QED BY <1>1, <2>1 DEF RequestOK, Calling, Acked, Replied, Working
<1>10. OthersOK'
  BY DEF ProtocolOK, OthersOK, Keeps
<1>11. ProtocolOK'
  BY <1>2, <1>6, <1>7, <1>8, <1>9, <1>10 DEF ProtocolOK
<1>12. ASSUME NEW c \in Mine, HeldOK(c) PROVE HeldOK(c)'
  <2>1. c \in Claims /\ c \notin X
    BY MineFacts
  <2> QED BY <1>1, <1>12, <2>1 DEF HeldOK, Keeps, Granting, Acked
<1>13. LeasesHeld => LeasesHeld'
  BY <1>12 DEF LeasesHeld
<1> QED BY <1>11, <1>13 DEF Kept

LEMMA ElsewhereKeeps ==
  ASSUME Orderly, ProtocolOK, Elsewhere
  PROVE  Kept
<1>1. UNCHANGED <<workerVars, toHost, toWorker, hostVars>>
  BY DEF Elsewhere, Apart
<1>2. ASSUME NEW c \in Claims, Claim(c) \/ Acquire(c) \/ Expire(c) PROVE Kept
  <2>1. Keeps({})
    BY <1>2, GrowingKeeps
  <2> QED BY <1>1, <2>1, AsideKeeps
<1>3. ASSUME NEW c \in Claims \ Mine, Release(c) PROVE Kept
  <2>1. Keeps({c}) /\ promise'[c] = "idle"
    BY <1>3, ReleaseKeeps
  <2> QED BY <1>1, <2>1, AsideKeeps
<1> QED BY <1>2, <1>3 DEF Elsewhere

\* Every step of the protocol is a step of the admission table, or leaves it.
LEMMA LeaseStepsTable ==
  ASSUME Orderly, ProtocolOK, [LeaseNext]_leaseVars
  PROVE  [Next]_vars
<1>1. ASSUME NEW c \in Mine, GiveBack(c) PROVE [Next]_vars
  BY <1>1, GiveBackKeeps, MineFacts
<1>2. ASSUME NEW r \in Runs, Start(r) \/ Yield(r) \/ Reclaim(r) \/ MissDeadline(r) \/ End(r)
      PROVE  [Next]_vars
  BY <1>2 DEF Start, Yield, Reclaim, MissDeadline, End
<1>3. ASSUME WorkerReceive PROVE [Next]_vars
  BY <1>3 DEF WorkerReceive
<1>4. ASSUME NEW q \in Requests, Abandon(q) PROVE [Next]_vars
  <2>1. q.claim \in Mine /\ q.claim \in Claims
    BY RequestFacts, MineFacts
  <2>2. CASE q \notin requests
    BY <1>4, <2>2 DEF Abandon
  <2>3. CASE q \in requests /\ handler[q] = "replied"
    BY <1>1, <1>4, <2>1, <2>3 DEF Abandon, Rollback
  <2>4. CASE q \in requests /\ handler[q] # "replied"
    BY <1>4, <2>1, <2>4 DEF Abandon, Next
  <2> QED BY <2>2, <2>3, <2>4
<1>5. ASSUME HostReceive PROVE [Next]_vars
  <2>1. toHost \in Seq(Message) /\ toHost # <<>>
    BY <1>5 DEF HostReceive, ProtocolOK, ProtocolTypes
  <2>2. Head(toHost) \in Message
    BY <2>1, ReceivedFrom
  <2>3. PICK q \in Requests : q = Head(toHost).of
    BY <2>2, MessageFacts
  <2>4. UNCHANGED vars \/ HandleRelease(q) \/ Abandon(q)
    BY <1>5, <2>3 DEF HostReceive, Refuse
  <2>5. HandleRelease(q) => [Next]_vars
    BY <1>1, RequestFacts DEF HandleRelease
  <2> QED BY <1>4, <2>4, <2>5
<1>6. ASSUME NEW q \in Requests,
             GiveUp(q) \/ Resolved(q) \/ Admitted(q) \/ Verified(q) \/ MissReceipt(q)
      PROVE  [Next]_vars
  <2>1. q.claim \in Mine /\ q.claim \in Claims
    BY RequestFacts, MineFacts
  <2>2. CASE Resolved(q)
    BY <2>1, <2>2 DEF Resolved, Next
  <2>3. CASE Verified(q)
    BY <1>1, <2>1, <2>3 DEF Verified
  <2>4. CASE GiveUp(q) \/ Admitted(q)
    BY <2>4 DEF GiveUp, Admitted
  <2>5. CASE MissReceipt(q)
    BY <1>4, <2>5 DEF MissReceipt
  <2> QED BY <1>6, <2>2, <2>3, <2>4, <2>5
<1>7. ASSUME Disconnect PROVE [Next]_vars
  BY <1>7, WorkerAssumption DEF Disconnect, Next
<1>8. ASSUME Elsewhere PROVE [Next]_vars
  BY <1>8 DEF Elsewhere, Next
<1>9. ASSUME Invalidate \/ UNCHANGED leaseVars PROVE [Next]_vars
  BY <1>9 DEF Invalidate, leaseVars
<1> QED BY <1>2, <1>3, <1>5, <1>6, <1>7, <1>8, <1>9 DEF LeaseNext

LEMMA LeaseStepKeeps ==
  ASSUME LeaseInv, [LeaseNext]_leaseVars
  PROVE  LeaseInv'
<1>1. Orderly /\ ProtocolOK /\ LeasesHeld
  BY DEF LeaseInv
<1>2. Orderly'
  BY <1>1, LeaseStepsTable, StepOrderly
<1>3. Kept
  <2>1. ASSUME NEW r \in Runs, Start(r) \/ Yield(r) \/ Reclaim(r) \/ MissDeadline(r) \/ End(r)
        PROVE  Kept
    BY <1>1, <2>1, StartMoves, YieldMoves, ReclaimMoves, MissDeadlineMoves, EndMoves, MovedKeeps
  <2>2. ASSUME NEW q \in Requests,
               GiveUp(q) \/ Resolved(q) \/ Admitted(q) \/ Verified(q) \/ MissReceipt(q)
        PROVE  Kept
    BY <1>1, <2>2, GiveUpMoves, MovedKeeps, ResolvedActs, AdmittedActs, VerifiedActs,
       MissReceiptActs, ActedKeeps
  <2>3. ASSUME WorkerReceive \/ HostReceive \/ Disconnect \/ Elsewhere PROVE Kept
    BY <1>1, <2>3, WorkerReceiveMoves, MovedKeeps, HostReceiveActs, ActedKeeps,
       DisconnectKeeps, ElsewhereKeeps
  <2>4. CASE Invalidate \/ UNCHANGED leaseVars
    <3>1. UNCHANGED <<workerVars, toHost, toWorker, hostVars>> /\ UNCHANGED vars
      BY <2>4 DEF Invalidate, leaseVars
    <3>2. Keeps({})
      BY <3>1 DEF Keeps, vars
    <3> QED BY <1>1, <3>1, <3>2, AsideKeeps
  <2> QED BY <2>1, <2>2, <2>3, <2>4 DEF LeaseNext
<1> QED BY <1>1, <1>2, <1>3 DEF LeaseInv, Kept

LEMMA LeaseStarts == LeaseInit => LeaseInv
<1> SUFFICES ASSUME LeaseInit PROVE LeaseInv
  OBVIOUS
<1>1. /\ Init
      /\ scope = [r \in Runs |-> [at |-> "idle", lease |-> NoLease,
                                  last |-> NoLease, closed |-> FALSE]]
      /\ made = [r \in Runs |-> 0]
      /\ calls = {} /\ toHost = <<>> /\ toWorker = <<>> /\ requests = {}
      /\ handler = [q \in Requests |-> "none"]
      /\ aborted = {}
      /\ foregroundParents = [r \in Runs |-> NoLease]
  BY DEF LeaseInit
<1>2. \A q \in Requests : Unused(q) /\ ~Working(q) /\ ~Granting(q)
  BY <1>1 DEF Unused, Working, Calling, Acked, Cancelled, Replied, Granting, SomeIn
<1>3. ProtocolTypes
  <2>0. OfClaims({}) = {}
    BY DEF OfClaims
  <2>1. IsFiniteSet({}) /\ Cardinality({}) = 0 /\ Cardinality(OfClaims({})) = 0
    BY <2>0, FS_EmptySet
  <2>2. 0 <= MaxRequests /\ 0 <= MaxClaims
    BY WorkerAssumption
  <2>3. Fits({})
    BY <2>1, <2>2 DEF Fits
  <2>4. scope \in [Runs -> Scopes] /\ foregroundParents \in [Runs -> Lease]
    BY <1>1 DEF Scopes, Lease
  <2>5. toHost \in Seq(Message) /\ toWorker \in Seq([of : Requests, result : Results])
    BY <1>1
  <2> QED BY <1>1, <2>3, <2>4, <2>5 DEF ProtocolTypes
<1>4. ASSUME NEW r \in Runs PROVE ScopeOK(r) /\ LastOK(r) /\ WitnessOK(r)
  <2>1. /\ scope[r].at = "idle" /\ scope[r].lease = NoLease /\ scope[r].last = NoLease
        /\ scope[r].closed = FALSE /\ made[r] = 0
    BY <1>1
  <2>2. Len(claimsOf[r]) \in Nat
    BY RunFacts
  <2> QED BY <2>1, <2>2 DEF ScopeOK, LastOK, WitnessOK, Open
<1>5. ASSUME NEW c \in Mine PROVE ClaimOK(c) /\ VouchedOK(c) /\ GrantOK(c) /\ HeldOK(c)
  <2>1. PICK q : q = ClaimRequest(c)
    OBVIOUS
  <2>2. q \in Requests /\ runOf[c] \in Runs /\ c # NoLease
    BY <2>1, RequestFacts, MineFacts
  <2>3. Unused(q) /\ ~Working(q) /\ ~Granting(q)
    BY <1>2, <2>2
  <2>4. scope[runOf[c]].lease # c /\ handler[q] = "none"
    BY <1>1, <2>2
  <2> QED BY <2>1, <2>3, <2>4 DEF ClaimOK, VouchedOK, GrantOK, HeldOK, Unused
<1>6. ASSUME NEW c \in Mine, NEW y \in BOOLEAN PROVE ReleaseOK(c, y)
  BY <1>2, RequestFacts DEF ReleaseOK
<1>7. ASSUME NEW q \in Requests PROVE RequestOK(q)
  <2>1. \A M : AtMostOneIn(toHost, M) /\ AtMostOneIn(toWorker, M)
    BY <1>1 DEF AtMostOneIn
  <2> QED BY <1>1, <1>2, <2>1 DEF RequestOK, Unused
<1>8. OthersOK
  BY <1>1 DEF OthersOK, Init
<1>9. ProtocolOK
  BY <1>3, <1>4, <1>5, <1>6, <1>7, <1>8 DEF ProtocolOK
<1>10. LeasesHeld
  BY <1>5 DEF LeasesHeld
<1> QED BY <1>1, <1>9, <1>10, InitOrderly DEF LeaseInv

-----------------------------------------------------------------------------
\* Requests, replies, receipts, cancels, scopes, witnesses and the admission
\* table agree in every reachable state, whatever the runs, their claims and the
\* limits: requestWorkerHost, attachWorkerHostRpc and acquireExecutionLease.
THEOREM LeaseInvariant == LeaseSpec => []LeaseInv
BY LeaseStarts, LeaseStepKeeps, PTL DEF LeaseSpec

\* The table is only ever used as its own specification has it: a worker's claims
\* and releases, however late, doubled or abandoned, are calls that a caller of
\* the table may make.  All that is proved of the table holds here too.
THEOREM LeaseUsesTable == LeaseSpec => Spec
<1>1. LeaseInit => Init
  BY DEF LeaseInit
<1>2. LeaseInv /\ [LeaseNext]_leaseVars => [Next]_vars
  BY LeaseStepsTable DEF LeaseInv
<1> QED BY <1>1, <1>2, LeaseInvariant, PTL DEF LeaseSpec, Spec

\* What callers of the table are promised, they are also promised while workers
\* come and go: one answer per claim, no lease without a grant, no lease regained.
THEOREM LeaseKeepsTable == LeaseSpec => KeepsTable
BY LeaseUsesTable, KeepsTableHolds, PTL

\* Nobody but who invalidates the activation, and the worker's exit, touches what
\* makes the handler stale.
LEMMA SteadyHandler ==
  /\ \A r \in Runs : Start(r) \/ Yield(r) \/ Reclaim(r) \/ MissDeadline(r) \/ End(r)
                      => UNCHANGED stale
  /\ \A q \in Requests : GiveUp(q) \/ Resolved(q) \/ Admitted(q) \/ Verified(q)
                            \/ MissReceipt(q) => UNCHANGED stale
  /\ WorkerReceive \/ HostReceive \/ Elsewhere \/ UNCHANGED leaseVars => UNCHANGED stale
<1>1. ASSUME NEW r \in Runs, Start(r) \/ Yield(r) \/ Reclaim(r) \/ MissDeadline(r) \/ End(r)
      PROVE  UNCHANGED stale
  BY <1>1 DEF Start, Yield, Reclaim, MissDeadline, End
<1>2. ASSUME NEW q \in Requests,
             GiveUp(q) \/ Resolved(q) \/ Admitted(q) \/ Verified(q) \/ MissReceipt(q)
      PROVE  UNCHANGED stale
  BY <1>2 DEF GiveUp, Resolved, Admitted, Verified, MissReceipt
<1>3. ASSUME WorkerReceive \/ HostReceive \/ Elsewhere \/ UNCHANGED leaseVars
      PROVE  UNCHANGED stale
  BY <1>3 DEF WorkerReceive, HostReceive, Elsewhere, Apart, leaseVars
<1> QED BY <1>1, <1>2, <1>3

\* The protocol's variables keep their types and neither side ever has more in
\* flight than WORKER_HOST_MAX_PENDING_REQUESTS and the limit on claims.
THEOREM LeaseTypes == LeaseSpec => []LeaseTypeOK
<1> DEFINE Known == stale \in BOOLEAN
<1>1. ASSUME LeaseInv, Known PROVE LeaseTypeOK
  <2>1. TypeOK
    BY <1>1, OrderlyFields, StoreFields, SafeStoreFields
       DEF LeaseInv, Safe, TypeOK, PolicyHolds, QueuesShort
  <2>2. ProtocolTypes
    BY <1>1 DEF LeaseInv, ProtocolOK
  <2> QED BY <1>1, <2>1, <2>2 DEF ProtocolTypes, LeaseTypeOK, Fits, Scopes
<1>2. LeaseInit => Known
  BY DEF LeaseInit
<1>3. ASSUME Known, [LeaseNext]_leaseVars PROVE Known'
  <2>1. Invalidate \/ Disconnect => Known'
    BY DEF Invalidate, Disconnect
  <2> QED BY <1>3, <2>1, SteadyHandler DEF LeaseNext
<1> HIDE DEF Known
<1> QED BY <1>1, <1>2, <1>3, LeaseInvariant, PTL DEF LeaseSpec

\* The host's witness of a run's foreground lease names the lease its open scope
\* got last, also while the lease is given back for other work: an ACP child of
\* an active run finds its parent, in every order of claims, releases, cancels
\* and receipts.
THEOREM WitnessFollows == LeaseSpec => []WitnessFollowsScope
<1>1. LeaseInv => WitnessFollowsScope
  BY DEF LeaseInv, ProtocolOK, WitnessOK, WitnessFollowsScope
<1> QED BY <1>1, LeaseInvariant, PTL

\* As long as no reply waits for its receipt longer than the timer allows, nobody
\* executes as a writer on a root that overlaps another writer's: what a worker
\* believes it holds is a lease of the table.  The run with slow receipts shows
\* that this condition is needed.
THEOREM WritersExcludedInTime ==
  ASSUME SlowReceipts = FALSE
  PROVE  LeaseSpec => []WritersExcluded
<1>1. ASSUME LeaseInv PROVE WritersExcluded
  <2>1. Believed \subseteq leases
    <3> SUFFICES ASSUME NEW r \in Runs, scope[r].lease # NoLease
                 PROVE  scope[r].lease \in leases
      BY DEF Believed
    <3>1. ProtocolTypes /\ ScopeOK(r) /\ LastOK(r)
      BY <1>1 DEF LeaseInv, ProtocolOK
    <3>2. scope[r].lease \in Mine /\ scope[r].lease = scope[r].last
      BY <3>1 DEF ProtocolTypes, Scopes, Lease, ScopeOK
    <3>3. runOf[scope[r].lease] = r
      BY <3>1, <3>2 DEF LastOK
    <3>4. HeldOK(scope[r].lease)
      BY <1>1, <3>2 DEF LeaseInv, LeasesHeld
    <3> QED BY <3>3, <3>4 DEF HeldOK
  <2>2. Executing \subseteq leases
    BY <1>1, <2>1 DEF Executing, LeaseInv, ProtocolOK, OthersOK
  <2>3. MutationExclusion
    BY <1>1, OrderlyFields, StoreFields, SafeStoreFields
       DEF LeaseInv, Safe, MutationExclusion, PolicyHolds
  <2> QED BY <2>2, <2>3 DEF WritersExcluded, MutationExclusion
<1> QED BY <1>1, LeaseInvariant, PTL

-----------------------------------------------------------------------------
(* The steps of the protocol, by who takes them *)

\* A step of anyone else leaves the worker's claims alone, and a stale handler stale.
Aside ==
  /\ UNCHANGED <<workerVars, toHost, toWorker, hostVars>>
  /\ stale => stale'
  /\ \A c \in Mine : Undisturbed(c)

\* A worker that goes leaves no lease behind, and takes its messages with it.
Left ==
  /\ toHost' = <<>> /\ toWorker' = <<>> /\ requests' = {} /\ calls' = {}
  /\ made' = made
  /\ \A q \in Requests : /\ q \in aborted' <=> Working(q)
                         /\ handler'[q] = IF Working(q) THEN handler[q] ELSE "none"
  /\ \A c \in Mine : c \notin leases' /\ Undisturbed(c)

LEMMA LeaseStepCases ==
  ASSUME LeaseInv, [LeaseNext]_leaseVars
  PROVE  ((Moved \/ Acted) /\ UNCHANGED stale) \/ Aside \/ Left
<1>1. Orderly /\ ProtocolOK /\ LeasesHeld
  BY DEF LeaseInv
<1>2. ASSUME NEW r \in Runs, Start(r) \/ Yield(r) \/ Reclaim(r) \/ MissDeadline(r) \/ End(r)
      PROVE  Moved /\ UNCHANGED stale
  BY <1>1, <1>2, StartMoves, YieldMoves, ReclaimMoves, MissDeadlineMoves, EndMoves,
     SteadyHandler
<1>3. ASSUME NEW q \in Requests,
             GiveUp(q) \/ Resolved(q) \/ Admitted(q) \/ Verified(q) \/ MissReceipt(q)
      PROVE  (Moved \/ Acted) /\ UNCHANGED stale
  BY <1>1, <1>3, GiveUpMoves, ResolvedActs, AdmittedActs, VerifiedActs, MissReceiptActs,
     SteadyHandler
<1>4. ASSUME WorkerReceive \/ HostReceive PROVE (Moved \/ Acted) /\ UNCHANGED stale
  BY <1>1, <1>4, WorkerReceiveMoves, HostReceiveActs, SteadyHandler
<1>5. ASSUME Disconnect PROVE Left
  <2>1. Leaves({}) /\ \A c \in Claims : botOf[c] = Worker => c \notin leases'
    BY <1>1, <1>5, ReleaseBotKeeps, WorkerAssumption DEF Disconnect
  <2>2. \A c \in Mine : c \notin leases' /\ Undisturbed(c)
    BY <2>1, MineFacts DEF Leaves
  <2> QED BY <1>5, <2>2 DEF Disconnect, Left, Working
<1>6. ASSUME Elsewhere PROVE Aside
  <2>1. ASSUME NEW c \in Claims \ Mine, Claim(c) \/ Acquire(c) \/ Release(c)
        PROVE  \A d \in Mine : Undisturbed(d)
    <3>1. Leaves({c})
      BY <1>1, <2>1, GrowingKeeps, ReleaseKeeps
    <3> QED BY <2>1, <3>1, MineFacts DEF Leaves
  <2>2. ASSUME NEW c \in Claims, Expire(c)
        PROVE  \A d \in Mine : Undisturbed(d)
    <3>1. Leaves({})
      BY <1>1, <2>2, GrowingKeeps
    <3> QED BY <3>1, MineFacts DEF Leaves
  <2> QED BY <1>6, <2>1, <2>2 DEF Elsewhere, Apart, Aside
<1>7. ASSUME Invalidate \/ UNCHANGED leaseVars PROVE Aside
  <2>1. /\ UNCHANGED <<workerVars, toHost, toWorker, hostVars>> /\ UNCHANGED vars
        /\ stale => stale'
    BY <1>7 DEF Invalidate, leaseVars
  <2> QED BY <2>1 DEF Aside, Undisturbed, vars
<1> QED BY <1>2, <1>3, <1>4, <1>5, <1>6, <1>7 DEF LeaseNext

-----------------------------------------------------------------------------
(* A request that the worker had room for finds room at the host *)

\* What the host will have to answer for when it hears the call of q.
Outstanding(q) ==
  {p \in Requests : /\ p \in requests \/ Before(toHost, Call(p), Call(q))
                    /\ ~Before(toHost, Ack(p), Call(q))
                    /\ ~Before(toHost, Cancel(p), Call(q))}

\* A call is heard before what settles it, and the worker forgets it only with
\* the message that makes the host forget it under way.
PaceOK(q) ==
  /\ ~Before(toHost, Ack(q), Call(q)) /\ ~Before(toHost, Cancel(q), Call(q))
  /\ q \in requests \/ Calling(q) => q \in calls \/ Acked(q) \/ Cancelled(q)
  /\ Calling(q) => IsFiniteSet(Outstanding(q)) /\ Room(Outstanding(q), q)
  /\ ~Pressed(q)

LeasePace == \A q \in Requests : PaceOK(q)

LEMMA FewerRoom ==
  ASSUME NEW qs, IsFiniteSet(qs), NEW ps \in SUBSET qs, NEW q, Room(qs, q)
  PROVE  IsFiniteSet(ps) /\ Room(ps, q)
<1>1. /\ IsFiniteSet(ps) /\ Cardinality(ps) <= Cardinality(qs)
      /\ Cardinality(ps) \in Nat /\ Cardinality(qs) \in Nat
  BY FS_Subset, FS_CardinalityType
<1>2. IsFiniteSet(OfClaims(qs)) /\ OfClaims(ps) \subseteq OfClaims(qs)
  BY FS_Subset DEF OfClaims
<1>3. /\ Cardinality(OfClaims(ps)) <= Cardinality(OfClaims(qs))
      /\ Cardinality(OfClaims(ps)) \in Nat /\ Cardinality(OfClaims(qs)) \in Nat
  BY <1>2, FS_Subset, FS_CardinalityType
<1> QED BY <1>1, <1>3, WorkerAssumption DEF Room

LEMMA MovingKeepsPace ==
  ASSUME ProtocolOK, LeasePace, Moved
  PROVE  LeasePace'
<1>1. PICK r, settled, told, asked, answered :
        /\ r \in Runs
        /\ WorkerMove(r, settled, told, asked, answered)
  BY DEF Moved
<1>2. /\ settled \subseteq calls /\ asked \subseteq Requests
      /\ calls' = (calls \ settled) \cup asked
      /\ SendsInTurn(settled, told, asked) /\ Reads(answered)
      /\ requests' = requests
      /\ \A q \in Requests :
           /\ Call(q) \notin told
           /\ Ack(q) \in told => q \in settled /\ q \in answered
           /\ Cancel(q) \in told => \/ q \in settled /\ q \notin answered
                                    \/ q \in answered /\ q \notin calls
           /\ q \in settled => Ack(q) \in told \/ Cancel(q) \in told
           /\ q \in asked => Unused(q)
  BY <1>1 DEF WorkerMove, Sends, hostVars
<1>3. \A m, n \in Message :
        /\ Before(toHost, m, n) => Before(toHost', m, n)
        /\ Before(toHost', m, n) =>
             \/ Before(toHost, m, n)
             \/ n \in told /\ SomeIn(toHost, {m})
             \/ (\E q \in asked : n = Call(q)) /\ (SomeIn(toHost, {m}) \/ m \in told)
  BY <1>2 DEF SendsInTurn
<1>4. ASSUME NEW q \in Requests
      PROVE  /\ Call(q) \in Message /\ Ack(q) \in Message /\ Cancel(q) \in Message
             /\ \A p \in Requests : Call(p) = Call(q) => p = q
             /\ Calling(q)' <=> Calling(q) \/ q \in asked
             /\ Acked(q)' <=> Acked(q) \/ Ack(q) \in told
             /\ Cancelled(q)' <=> Cancelled(q) \/ Cancel(q) \in told
             /\ q \in answered => Replied(q)
             /\ PaceOK(q)
             /\ q \in asked => q \notin settled /\ ~Calling(q) /\ ~Acked(q) /\ ~Cancelled(q)
                               /\ Ack(q) \notin told /\ Cancel(q) \notin told
  <2>1. /\ Call(q) \in Message /\ Ack(q) \in Message /\ Cancel(q) \in Message
        /\ \A p \in Requests : Call(p) = Call(q) => p = q
    BY MessageFacts
  <2>2. /\ Calling(q)' <=> Calling(q) \/ q \in asked
        /\ Acked(q)' <=> Acked(q) \/ Ack(q) \in told
        /\ Cancelled(q)' <=> Cancelled(q) \/ Cancel(q) \in told
        /\ q \in answered => Replied(q)
    BY <1>1, MoveViews
  <2>3. q \in asked => q \notin calls /\ ~Calling(q) /\ ~Acked(q) /\ ~Cancelled(q) /\ ~Replied(q)
    BY <1>2 DEF Unused
  <2> QED BY <1>2, <2>1, <2>2, <2>3 DEF LeasePace
\* A message that comes before an old call came before it already.
<1>5. ASSUME NEW m \in Message, NEW q \in Requests, q \notin asked, Before(toHost', m, Call(q))
      PROVE  Before(toHost, m, Call(q))
  <2>1. Call(q) \in Message /\ Call(q) \notin told
    BY <1>2, <1>4
  <2>2. \A p \in asked : Call(q) # Call(p)
    BY <1>2, <1>4, <1>5
  <2> QED BY <1>3, <1>5, <2>1, <2>2
<1>6. ASSUME NEW q \in Requests
      PROVE  ~Before(toHost', Ack(q), Call(q)) /\ ~Before(toHost', Cancel(q), Call(q))
  <2>1. CASE q \in asked
    <3>1. ~SomeIn(toHost, {Ack(q)}) /\ ~SomeIn(toHost, {Cancel(q)}) /\ ~SomeIn(toHost, {Call(q)})
      BY <1>4, <2>1 DEF Acked, Cancelled, Calling
    <3>2. Ack(q) \notin told /\ Cancel(q) \notin told /\ Call(q) \notin told
      BY <1>2, <1>4, <2>1
    <3> QED BY <1>3, <1>4, <3>1, <3>2, BothThere
  <2>2. CASE q \notin asked
    BY <1>4, <1>5, <2>2 DEF PaceOK
  <2> QED BY <2>1, <2>2
<1>7. ASSUME NEW q \in Requests, q \in requests' \/ Calling(q)'
      PROVE  q \in calls' \/ Acked(q)' \/ Cancelled(q)'
  BY <1>2, <1>4, <1>7 DEF PaceOK
<1>8. ASSUME NEW q \in Requests, Calling(q)'
      PROVE  IsFiniteSet(Outstanding(q)') /\ Room(Outstanding(q)', q)
  <2>1. CASE q \in asked
    <3>1. Room(calls \ settled, q) /\ IsFiniteSet(calls \ settled)
      <4>1. IsFiniteSet(calls)
        BY DEF ProtocolOK, ProtocolTypes, Fits
      <4> QED BY <1>2, <2>1, <4>1, FS_Subset DEF SendsInTurn
    <3>2. \A m \in Message : SomeIn(toHost, {m}) \/ m \in told => Before(toHost', m, Call(q))
      BY <1>2, <2>1 DEF SendsInTurn
    <3>3. ASSUME NEW p \in Outstanding(q)' PROVE p \in calls \ settled
      <4>1. /\ p \in Requests
            /\ p \in requests \/ Before(toHost', Call(p), Call(q))
            /\ ~Before(toHost', Ack(p), Call(q))
            /\ ~Before(toHost', Cancel(p), Call(q))
        BY <1>2 DEF Outstanding, Call, Ack, Cancel
      <4>2. Before(toHost', Call(p), Call(q)) => Calling(p)
        <5>1. ~SomeIn(toHost, {Call(q)}) /\ Call(p) \notin told /\ Call(q) \notin told
          BY <1>2, <1>4, <2>1, <4>1 DEF Calling
        <5> QED BY <1>3, <1>4, <4>1, <5>1, BothThere DEF Calling
      <4>3. /\ ~SomeIn(toHost, {Ack(p)}) /\ Ack(p) \notin told
            /\ ~SomeIn(toHost, {Cancel(p)}) /\ Cancel(p) \notin told
        BY <1>4, <3>2, <4>1
      <4>4. p \in calls
        BY <1>4, <4>1, <4>2, <4>3 DEF PaceOK, Acked, Cancelled
      <4> QED BY <1>2, <4>1, <4>3, <4>4
    <3> QED BY <3>1, <3>3, FewerRoom
  <2>2. CASE q \notin asked
    <3>1. Calling(q)
      BY <1>4, <1>8, <2>2
    <3>2. IsFiniteSet(Outstanding(q)) /\ Room(Outstanding(q), q)
      BY <1>4, <3>1 DEF PaceOK
    <3>3. ASSUME NEW p \in Outstanding(q)' PROVE p \in Outstanding(q)
      <4>1. /\ p \in Requests
            /\ p \in requests \/ Before(toHost', Call(p), Call(q))
            /\ ~Before(toHost', Ack(p), Call(q))
            /\ ~Before(toHost', Cancel(p), Call(q))
        BY <1>2 DEF Outstanding, Call, Ack, Cancel
      <4>2. Before(toHost', Call(p), Call(q)) => Before(toHost, Call(p), Call(q))
        BY <1>4, <1>5, <2>2, <4>1
      <4>3. ~Before(toHost, Ack(p), Call(q)) /\ ~Before(toHost, Cancel(p), Call(q))
        BY <1>3, <1>4, <4>1
      <4> QED BY <4>1, <4>2, <4>3 DEF Outstanding
    <3> QED BY <3>2, <3>3, FewerRoom
  <2> QED BY <2>1, <2>2
<1>9. ASSUME NEW q \in Requests PROVE ~Pressed(q)'
  BY <1>2, <1>4 DEF Reads, PaceOK
<1>10. ASSUME NEW q \in Requests PROVE PaceOK(q)'
  <2>1. Call(q)' = Call(q) /\ Ack(q)' = Ack(q) /\ Cancel(q)' = Cancel(q)
    BY DEF Call, Ack, Cancel
  <2>2. Room(Outstanding(q), q)' <=> Room(Outstanding(q)', q)
    BY DEF Room
  <2> QED BY <1>6, <1>7, <1>8, <1>9, <2>1, <2>2 DEF PaceOK
<1> QED BY <1>10 DEF LeasePace

LEMMA ActingKeepsPace ==
  ASSUME ProtocolOK, LeasePace, Acted
  PROVE  LeasePace'
<1>1. PICK a, heard, said, lost :
        /\ a \in Requests
        /\ HostMove(a, heard, said, lost) /\ HearsInTurn(a, heard) /\ Deals(a, heard, said)
  BY DEF Acted
<1>2. /\ calls' = calls
      /\ Hears(a, heard) /\ Says(a, said)
      /\ \A p \in Requests \ {a} : p \in requests' <=> p \in requests
  BY <1>1 DEF HostMove, workerVars
<1>3. /\ a \in requests' => a \in requests \/ heard = "call"
      /\ heard \in {"ack", "cancel"} => a \notin requests'
      /\ "backpressure" \in said => heard = "call" /\ ~Room(requests, a)
  BY <1>1 DEF Deals
<1>4. \A m, n \in Message :
        /\ SomeIn(toHost, {m}) => SomeIn(toHost', {m}) \/ (m.kind = heard /\ m.of = a)
        /\ Before(toHost', m, n) => Before(toHost, m, n)
        /\ Before(toHost, m, n) => Before(toHost', m, n) \/ (m.kind = heard /\ m.of = a)
        /\ m.kind = heard /\ m.of = a =>
             /\ SomeIn(toHost', {n}) => Before(toHost, m, n)
             /\ AtMostOneIn(toHost, {m}) => ~Before(toHost, n, m)
  BY <1>1 DEF HearsInTurn
<1>5. ASSUME NEW q \in Requests
      PROVE  /\ Call(q) \in Message /\ Call(q).kind = "call" /\ Call(q).of = q
             /\ Ack(q) \in Message /\ Ack(q).kind = "ack" /\ Ack(q).of = q
             /\ Cancel(q) \in Message /\ Cancel(q).kind = "cancel" /\ Cancel(q).of = q
             /\ PaceOK(q) /\ RequestOK(q)
             /\ Calling(q)' => Calling(q)
             /\ Calling(q)' <=> SomeIn(toHost', {Call(q)})
  <2>1. PaceOK(q) /\ RequestOK(q)
    BY DEF LeasePace, ProtocolOK
  <2>2. Calling(q)' => Calling(q)
    BY <1>2 DEF Hears
  <2>3. Calling(q)' <=> SomeIn(toHost', {Call(q)})
    BY DEF Calling, Call
  <2> QED BY <2>1, <2>2, <2>3, MessageFacts
\* What settles a call is not heard before the call.
<1>6. /\ heard = "ack" => ~Calling(a)'
      /\ heard = "cancel" => ~Calling(a)'
  <2>1. heard = "ack" => ~Calling(a)'
    BY <1>1, <1>2, <1>5 DEF Hears, RequestOK
  <2>2. heard = "cancel" => ~Calling(a)'
    <3>1. heard = "cancel" /\ Calling(a)' => Before(toHost, Cancel(a), Call(a))
      BY <1>1, <1>4, <1>5
    <3> QED BY <1>1, <1>5, <3>1 DEF PaceOK
  <2> QED BY <2>1, <2>2
<1>7. ASSUME NEW q \in Requests
      PROVE  ~Before(toHost', Ack(q), Call(q)) /\ ~Before(toHost', Cancel(q), Call(q))
  BY <1>4, <1>5 DEF PaceOK
<1>8. ASSUME NEW q \in Requests, q \in requests' \/ Calling(q)'
      PROVE  q \in calls' \/ Acked(q)' \/ Cancelled(q)'
  <2>1. q \in requests \/ Calling(q)
    <3>1. heard = "call" => Calling(a)
      BY <1>2 DEF Hears
    <3> QED BY <1>2, <1>3, <1>5, <1>8, <3>1
  <2>2. q \in calls \/ Acked(q) \/ Cancelled(q)
    BY <1>5, <2>1 DEF PaceOK
  <2>3. ~(q = a /\ heard \in {"ack", "cancel"})
    BY <1>3, <1>6, <1>8
  <2>4. Acked(q) => Acked(q)'
    BY <1>2, <2>3 DEF Hears
  <2>5. Cancelled(q) => Cancelled(q)'
    <3>1. SomeIn(toHost, {Cancel(q)}) => SomeIn(toHost', {Cancel(q)})
      BY <1>4, <1>5, <2>3
    <3> QED BY <3>1 DEF Cancelled, Cancel
  <2> QED BY <1>2, <2>2, <2>4, <2>5
<1>9. ASSUME NEW q \in Requests, Calling(q)'
      PROVE  IsFiniteSet(Outstanding(q)') /\ Room(Outstanding(q)', q)
  <2>1. IsFiniteSet(Outstanding(q)) /\ Room(Outstanding(q), q)
    BY <1>5, <1>9 DEF PaceOK
  <2>2. ASSUME NEW p \in Outstanding(q)' PROVE p \in Outstanding(q)
    <3>1. /\ p \in Requests
          /\ p \in requests' \/ Before(toHost', Call(p), Call(q))
          /\ ~Before(toHost', Ack(p), Call(q))
          /\ ~Before(toHost', Cancel(p), Call(q))
      BY DEF Outstanding, Call, Ack, Cancel
    <3>2. p \in requests \/ Before(toHost, Call(p), Call(q))
      <4>1. p \in requests' => p \in requests \/ (p = a /\ heard = "call")
        BY <1>2, <1>3, <3>1
      <4>2. p = a /\ heard = "call" => Before(toHost, Call(p), Call(q))
        BY <1>1, <1>4, <1>5, <1>9
      <4> QED BY <1>4, <1>5, <3>1, <4>1, <4>2
    <3>3. ~(p = a /\ heard \in {"ack", "cancel"})
      <4>1. Before(toHost', Call(p), Call(q)) => Calling(p)'
        BY <1>5, <3>1, BothThere
      <4> QED BY <1>3, <1>6, <3>1, <4>1
    <3>4. ASSUME NEW m, m = Ack(p) \/ m = Cancel(p) PROVE ~Before(toHost, m, Call(q))
      <4>1. m \in Message /\ m.of = p /\ m.kind \in {"ack", "cancel"}
        BY <3>1, <3>4, MessageFacts
      <4>2. ~(m.kind = heard /\ m.of = a) /\ ~Before(toHost', m, Call(q))
        BY <3>1, <3>3, <3>4, <4>1
      <4> QED BY <1>4, <1>5, <3>1, <4>1, <4>2
    <3> QED BY <3>1, <3>2, <3>4 DEF Outstanding
  <2> QED BY <2>1, <2>2, FewerRoom
<1>10. ASSUME NEW q \in Requests PROVE ~Pressed(q)'
  <2>1. "backpressure" \notin said
    <3> SUFFICES ASSUME "backpressure" \in said PROVE FALSE
      OBVIOUS
    <3>1. heard = "call" /\ ~Room(requests, a) /\ Calling(a)
      BY <1>2, <1>3 DEF Hears
    <3>2. IsFiniteSet(Outstanding(a)) /\ Room(Outstanding(a), a)
      BY <1>1, <1>5, <3>1 DEF PaceOK
    <3>3. \A n \in Message : ~Before(toHost, n, Call(a))
      BY <1>1, <1>4, <1>5, <3>1 DEF RequestOK
    <3>4. requests \subseteq Outstanding(a)
      <4>1. requests \subseteq Requests
        BY DEF ProtocolOK, ProtocolTypes, Fits
      <4> QED BY <1>5, <3>3, <4>1 DEF Outstanding
    <3> QED BY <3>1, <3>2, <3>4, FewerRoom
  <2> QED BY <1>2, <1>5, <2>1 DEF Says, PaceOK
<1>11. ASSUME NEW q \in Requests PROVE PaceOK(q)'
  <2>1. Call(q)' = Call(q) /\ Ack(q)' = Ack(q) /\ Cancel(q)' = Cancel(q)
    BY DEF Call, Ack, Cancel
  <2>2. Room(Outstanding(q), q)' <=> Room(Outstanding(q)', q)
    BY DEF Room
  <2> QED BY <1>7, <1>8, <1>9, <1>10, <2>1, <2>2 DEF PaceOK
<1> QED BY <1>11 DEF LeasePace

LEMMA LeasePaceStep ==
  ASSUME LeaseInv, LeasePace, [LeaseNext]_leaseVars
  PROVE  LeasePace'
<1>1. ProtocolOK
  BY DEF LeaseInv
<1>2. ASSUME Aside PROVE LeasePace'
  <2>1. toHost' = toHost /\ toWorker' = toWorker /\ requests' = requests /\ calls' = calls
    BY <1>2 DEF Aside, workerVars, hostVars
  <2>2. ASSUME NEW q \in Requests PROVE PaceOK(q)'
    <3>1. PaceOK(q)
      BY DEF LeasePace
    <3>2. Outstanding(q)' = Outstanding(q)
      BY <2>1 DEF Outstanding, Call, Ack, Cancel
    <3> QED BY <2>1, <3>1, <3>2 DEF PaceOK, Calling, Acked, Cancelled, Pressed, Call, Ack,
                                    Cancel, Room
  <2> QED BY <2>2 DEF LeasePace
<1>3. ASSUME Left PROVE LeasePace'
  <2>1. ASSUME NEW q \in Requests PROVE PaceOK(q)'
    <3>1. /\ \A m, n : ~Before(toHost', m, n)
          /\ ~Calling(q)' /\ ~Pressed(q)' /\ q \notin requests'
      BY <1>3 DEF Left, Before, Calling, Pressed, SomeIn
    <3> QED BY <3>1 DEF PaceOK, Call, Ack, Cancel
  <2> QED BY <2>1 DEF LeasePace
<1> QED BY <1>1, <1>2, <1>3, LeaseStepCases, MovingKeepsPace, ActingKeepsPace

LEMMA LeasePaceStarts == LeaseInit => LeasePace
<1> SUFFICES ASSUME LeaseInit, NEW q \in Requests PROVE PaceOK(q)
  BY DEF LeasePace
<1>1. /\ \A m, n : ~Before(toHost, m, n)
      /\ ~Calling(q) /\ ~Pressed(q) /\ q \notin requests
  BY DEF LeaseInit, Before, Calling, Pressed, SomeIn
<1> QED BY <1>1 DEF PaceOK

-----------------------------------------------------------------------------
(* Someone will give each lease of the worker back *)

\* What the scope held last is on its way back, or was refused by a stale handler.
Returning(c) ==
  /\ scope[runOf[c]].last = c
  /\ stale \/ \E y \in BOOLEAN : Calling(ReleaseRequest(c, y))

\* The claim is on its way to its answer.
Asking(c) ==
  LET q == ClaimRequest(c) IN Calling(q) \/ Working(q) \/ Granting(q)

\* A lease is still the handler's, on its way to the worker, about to be taken
\* back, held by its scope, or on its way back as far as the handler lets it.
TraceOK(c) ==
  LET q == ClaimRequest(c) IN
  c \in leases =>
    Working(q) \/ Granting(q) \/ Cancelled(q) \/ scope[runOf[c]].lease = c \/ Returning(c)

\* Once the host has forgotten a claim, nobody relies on it to take back its lease;
\* a claim is acknowledged or cancelled, and cancelled only if no scope wants it.
SettledOK(c) ==
  LET q == ClaimRequest(c) IN
  /\ c \in leases /\ handler[q] = "none" => q \notin calls /\ ~Replied(q) /\ ~Cancelled(q)
  /\ Acked(q) => ~Cancelled(q)
  /\ Cancelled(q) => Finished(runOf[c])

\* Only the handler of a claim waits for its answer, and only it asks for one.
AnswerOK(c) ==
  LET q == ClaimRequest(c) IN
  /\ promise[c] = "waiting" => handler[q] = "admission"
  /\ ~Made(c) \/ Calling(q) \/ handler[q] = "resolving" => promise[c] = "idle"
  /\ promise[c] # "run_exists"

\* While a claim is on its way to its answer, the other claims of the run are over,
\* and what leases it still has are given back before the host hears the new claim,
\* unless the host will refuse that as well.
AloneOK(c, d) ==
  c # d /\ runOf[c] = runOf[d] /\ Asking(c) =>
    /\ Made(d) => Over(d)
    /\ d \in leases =>
         /\ Calling(ClaimRequest(c))
         /\ stale \/ \E y \in BOOLEAN :
              Before(toHost, Call(ReleaseRequest(d, y)), Call(ClaimRequest(c)))

LeaseOwned ==
  \A c \in Mine : /\ TraceOK(c) /\ SettledOK(c) /\ AnswerOK(c)
                  /\ \A d \in Mine : AloneOK(c, d)

LEMMA RunKnownBy ==
  ASSUME Orderly, NEW c \in Claims, RunKnown(c)
  PROVE  \E d \in Claims : runOf[d] = runOf[c] /\ (d \in leases \/ promise[d] = "waiting")
<1>1. CASE RunHeld(c, leases)
  BY <1>1, OrderlyFields DEF RunHeld
<1>2. ASSUME NEW b \in Bots, NEW i \in 1..Len(pending[b]), runOf[pending[b][i]] = runOf[c]
      PROVE  \E d \in Claims : runOf[d] = runOf[c] /\ promise[d] = "waiting"
  <2>1. pending[b] \in Seq(Claims)
    BY OrderlyFields, StoreFields, SafeStoreFields
  <2>2. pending[b][i] \in Claims /\ Contains(pending[b], pending[b][i])
    BY <2>1, ElementOfSeq DEF Contains
  <2>3. promise[pending[b][i]] = "waiting"
    BY <2>2, OrderlyFields, StoreFields DEF Queued
  <2> QED BY <1>2, <2>2, <2>3
<1> QED BY <1>1, <1>2 DEF RunKnown

\* Every lease of the worker is of a claim the host was asked for and answered.
LEMMA OwnedLease ==
  ASSUME Orderly, ProtocolOK, NEW c \in Mine, AnswerOK(c),
         c \in leases \/ promise[c] = "waiting"
  PROVE  /\ Made(c) /\ ~Calling(ClaimRequest(c)) /\ handler[ClaimRequest(c)] # "resolving"
         /\ promise[c] = "waiting" =>
              Working(ClaimRequest(c)) /\ handler[ClaimRequest(c)] = "admission"
<1>1. promise[c] # "idle"
  BY OrderlyFields
<1> QED BY <1>1 DEF AnswerOK, Working

LEMMA MovingKeepsAnswers ==
  ASSUME ProtocolOK, Moved, NEW c \in Mine, AnswerOK(c)
  PROVE  AnswerOK(c)'
<1>1. PICK r, settled, told, asked, answered :
        /\ r \in Runs
        /\ WorkerMove(r, settled, told, asked, answered)
        /\ ScopeMove(r, settled, told, asked, answered)
  BY DEF Moved
<1>2. PICK q \in Requests : q = ClaimRequest(c)
  BY RequestFacts
<1>3. /\ promise' = promise /\ handler' = handler
      /\ Calling(q)' <=> Calling(q) \/ q \in asked
      /\ Made(c) => Made(c)'
      /\ q \in asked => ~Made(c)
  BY <1>1, <1>2, MoveViews, MoveMakes DEF WorkerMove, vars, hostVars
<1>4. /\ promise[c] = "waiting" => handler[q] = "admission"
      /\ ~Made(c) \/ Calling(q) \/ handler[q] = "resolving" => promise[c] = "idle"
      /\ promise[c] # "run_exists"
  BY <1>2 DEF AnswerOK
<1>5. /\ promise'[c] = "waiting" => handler'[q] = "admission"
      /\ ~Made(c)' \/ Calling(q)' \/ handler'[q] = "resolving" => promise'[c] = "idle"
      /\ promise'[c] # "run_exists"
  BY <1>3, <1>4
<1> QED BY <1>2, <1>5 DEF AnswerOK, ClaimRequest, Calling, Call

LEMMA MovingKeepsSettled ==
  ASSUME Orderly, ProtocolOK, Moved, NEW c \in Mine, AnswerOK(c), SettledOK(c)
  PROVE  SettledOK(c)'
<1>1. PICK r, settled, told, asked, answered :
        /\ r \in Runs
        /\ WorkerMove(r, settled, told, asked, answered)
        /\ ScopeMove(r, settled, told, asked, answered)
  BY DEF Moved
<1>2. PICK q \in Requests : q = ClaimRequest(c)
  BY RequestFacts
<1>3. /\ leases' = leases /\ handler' = handler
      /\ Calling(q)' <=> Calling(q) \/ q \in asked
      /\ Acked(q)' <=> Acked(q) \/ Ack(q) \in told
      /\ Cancelled(q)' <=> Cancelled(q) \/ Cancel(q) \in told
      /\ q \in calls' <=> (q \in calls /\ q \notin settled) \/ q \in asked
      /\ Replied(q)' => Replied(q)
      /\ q \in answered => Replied(q)
      /\ q \in asked => ~Made(c)
      /\ RequestOK(q) /\ ClaimOK(c)
  BY <1>1, <1>2, MoveViews, MoveMakes DEF WorkerMove, vars, hostVars, ProtocolOK
<1>4. /\ settled \subseteq calls
      /\ Ack(q) \in told => q \in settled
      /\ Cancel(q) \in told => \/ q \in settled /\ q \notin answered
                               \/ q \in answered /\ q \notin calls
      /\ ~(Ack(q) \in told /\ Cancel(q) \in told)
      /\ q \in settled => runOf[c] = r
  BY <1>1, <1>2, MessageFacts, RequestFacts DEF WorkerMove
<1>5. /\ c \in leases /\ handler[q] = "none" => q \notin calls /\ ~Replied(q) /\ ~Cancelled(q)
      /\ Acked(q) => ~Cancelled(q)
      /\ Cancelled(q) => Finished(runOf[c])
  BY <1>2 DEF SettledOK
<1>6. Finished(runOf[c]) => Finished(runOf[c])'
  <2>1. runOf[c] \in Runs
    BY MineFacts
  <2>2. runOf[c] # r => scope'[runOf[c]] = scope[runOf[c]]
    BY <1>1, <2>1 DEF WorkerMove
  <2>3. Finished(r) => Finished(r)'
    BY <1>1 DEF ScopeMove
  <2> QED BY <2>2, <2>3 DEF Finished
<1>7. ASSUME c \in leases', handler'[q] = "none"
      PROVE  q \notin calls' /\ ~Replied(q)' /\ ~Cancelled(q)'
  <2>1. Made(c)
    BY <1>3, <1>7, OwnedLease
  <2> QED BY <1>3, <1>4, <1>5, <1>7, <2>1
<1>8. Acked(q)' => ~Cancelled(q)'
  <2>1. Acked(q) => q \notin calls /\ ~Replied(q)
    BY <1>3 DEF RequestOK
  <2>2. Cancelled(q) => q \notin calls
    BY <1>2, <1>3 DEF ClaimOK
  <2> QED BY <1>3, <1>4, <1>5, <2>1, <2>2
<1>9. Cancelled(q)' => Finished(runOf[c])'
  <2>1. q \in settled /\ q \notin answered => Finished(r)'
    BY <1>1, <1>2 DEF ScopeMove
  <2>2. Replied(q) /\ q \notin calls => Finished(runOf[c])
    BY <1>2, <1>3 DEF ClaimOK
  <2>3. q \in settled /\ q \notin answered => Finished(runOf[c])'
    BY <1>4, <2>1 DEF Finished
  <2> QED BY <1>3, <1>4, <1>5, <1>6, <2>2, <2>3
<1> QED BY <1>2, <1>7, <1>8, <1>9
        DEF SettledOK, ClaimRequest, Replied, Replies, Acked, Cancelled, Ack, Cancel

LEMMA MovingKeepsTrace ==
  ASSUME ProtocolOK, LeaseOwned, RoomLeft, Moved, UNCHANGED stale, NEW c \in Mine
  PROVE  TraceOK(c)'
<1>1. PICK r, settled, told, asked, answered :
        /\ r \in Runs
        /\ WorkerMove(r, settled, told, asked, answered)
        /\ ScopeMove(r, settled, told, asked, answered)
        /\ LeaseMove(r, settled, told, asked, answered)
  BY DEF Moved
<1>2. PICK q \in Requests : q = ClaimRequest(c)
  BY RequestFacts
<1>3. /\ leases' = leases
      /\ Cancelled(q)' <=> Cancelled(q) \/ Cancel(q) \in told
      /\ Working(q)' <=> Working(q)
      /\ Granting(q) => Granting(q)' \/ q \in answered
  <2>1. leases' = leases /\ Reads(answered)
    BY <1>1 DEF WorkerMove, vars
  <2>2. Granting(q) => Granting(q)' \/ q \in answered
    BY <2>1 DEF Reads
  <2> QED BY <1>1, <2>1, <2>2, MoveViews
\* A scope takes over a lease only when it has given back the one before.
<1>4. ASSUME c \in leases, scope[runOf[c]].last = c PROVE scope'[runOf[c]].last = c
  <2>1. CASE runOf[c] # r
    BY <1>1, <1>4, <2>1, MineFacts DEF WorkerMove
  <2>2. ASSUME NEW d \in Mine, d # c, runOf[c] = r, Taken(d, r, settled, told, answered)
        PROVE  FALSE
    <3>1. PICK p \in Requests : p = ClaimRequest(d)
      BY RequestFacts
    <3>2. Granting(p) /\ runOf[d] = r
      BY <2>2, <3>1 DEF Taken
    <3>3. Calling(p)
      BY <1>4, <2>2, <3>1, <3>2 DEF LeaseOwned, AloneOK, Asking
    <3>4. Replied(p) /\ RequestOK(p)
      BY <3>2, GrantsAreReplies DEF ProtocolOK
    <3> QED BY <3>3, <3>4 DEF RequestOK
  <2>3. scope'[r].last = scope[r].last \/ Taken(scope'[r].last, r, settled, told, answered)
    BY <1>1 DEF ScopeMove
  <2> QED BY <1>4, <2>1, <2>2, <2>3 DEF Taken
<1>5. c \in leases /\ Returning(c) => Returning(c)'
  <2>1. ASSUME NEW y \in BOOLEAN, NEW a \in Requests, a = ReleaseRequest(c, y), Calling(a)
        PROVE  Calling(ReleaseRequest(c, y))'
    <3>1. Calling(a)'
      BY <1>1, <2>1, MoveViews
    <3> QED BY <2>1, <3>1 DEF ReleaseRequest, Calling, Call
  <2> QED BY <1>4, <2>1, RequestFacts DEF Returning
<1>6. ASSUME scope'[runOf[c]].last = c, NEW y \in BOOLEAN, ReleaseRequest(c, y) \in asked
      PROVE  Returning(c)'
  <2>1. PICK a \in Requests : a = ReleaseRequest(c, y)
    BY RequestFacts
  <2>2. Calling(a)'
    BY <1>1, <1>6, <2>1, MoveViews
  <2> QED BY <1>6, <2>1, <2>2 DEF Returning, ReleaseRequest, Calling, Call
<1>7. q \in answered => runOf[c] = r
  BY <1>1, <1>2, RequestFacts DEF LeaseMove
<1>8. ASSUME c \in leases
      PROVE  Working(q)' \/ Granting(q)' \/ Cancelled(q)' \/ scope'[runOf[c]].lease = c
             \/ Returning(c)'
  <2>1. Working(q) \/ Granting(q) \/ Cancelled(q) \/ scope[runOf[c]].lease = c \/ Returning(c)
    BY <1>2, <1>8 DEF LeaseOwned, TraceOK
  <2>2. CASE runOf[c] = r /\ Holding(c, told, answered)
    <3>1. \/ scope'[r].lease = c
          \/ scope'[r].last = c /\ \E y \in BOOLEAN : ReleaseRequest(c, y) \in asked
      BY <1>1, <2>2 DEF LeaseMove
    <3> QED BY <1>6, <2>2, <3>1
  <2>3. CASE ~Holding(c, told, answered)
    BY <1>2, <1>3, <1>5, <1>8, <2>1, <2>3 DEF Holding
  <2>4. CASE runOf[c] # r
    <3>1. scope'[runOf[c]] = scope[runOf[c]]
      BY <1>1, <2>4, MineFacts DEF WorkerMove
    <3> QED BY <1>3, <1>5, <1>7, <1>8, <2>1, <2>4, <3>1
  <2> QED BY <2>2, <2>3, <2>4
<1> QED BY <1>2, <1>3, <1>8
        DEF TraceOK, ClaimRequest, Working, Granting, Cancelled, Cancel

\* A run claims anew only when its other claims are over and it holds no lease.
LEMMA ClaimingAlone ==
  ASSUME ProtocolOK, NEW r \in Runs, scope[r].at \in {"idle", "away"},
         NEW d \in Mine, runOf[d] = r
  PROVE  /\ ~Finished(r) /\ scope[r].lease # d
         /\ Made(d) => Over(d)
<1>1. PICK q \in Requests : q = ClaimRequest(d)
  BY RequestFacts
<1>2. ScopeOK(r) /\ ClaimOK(d) /\ d # NoLease
  BY MineFacts DEF ProtocolOK
<1>3. ~Finished(r) /\ scope[r].lease # d
  BY <1>2 DEF ScopeOK, Finished
<1>4. q \notin calls
  BY <1>1, <1>2 DEF ClaimOK
<1>5. ~Working(q) /\ ~Calling(q) /\ ~Replied(q)
  BY <1>1, <1>2, <1>3, <1>4 DEF ClaimOK
<1> QED BY <1>1, <1>3, <1>4, <1>5 DEF Over

LEMMA MovingKeepsAlone ==
  ASSUME Orderly, ProtocolOK, Moved, UNCHANGED stale, LeaseOwned, NEW c \in Mine, NEW d \in Mine
  PROVE  AloneOK(c, d)'
<1> SUFFICES ASSUME c # d, runOf[c] = runOf[d], Asking(c)'
             PROVE  /\ Made(d)' => Over(d)'
                    /\ d \in leases' =>
                         /\ Calling(ClaimRequest(c))'
                         /\ stale' \/ \E y \in BOOLEAN :
                              Before(toHost', Call(ReleaseRequest(d, y)), Call(ClaimRequest(c)))
  BY DEF AloneOK, Call, ReleaseRequest, ClaimRequest
<1>1. PICK r, settled, told, asked, answered :
        /\ r \in Runs
        /\ WorkerMove(r, settled, told, asked, answered)
        /\ ScopeMove(r, settled, told, asked, answered)
        /\ LeaseMove(r, settled, told, asked, answered)
  BY DEF Moved
<1>2. PICK q \in Requests : q = ClaimRequest(c)
  BY RequestFacts
<1>3. /\ leases' = leases /\ handler' = handler /\ aborted' = aborted
      /\ Calling(q)' <=> Calling(q) \/ q \in asked
      /\ Working(q)' <=> Working(q)
      /\ Granting(q)' => Granting(q)
      /\ Over(d) => Over(d)'
  BY <1>1, <1>2, MoveViews, MoveOver DEF WorkerMove, vars, hostVars
<1>4. Call(q) \in Message /\ \A y \in BOOLEAN : Call(ReleaseRequest(d, y)) \in Message
  BY MessageFacts, RequestFacts
<1>5. Asking(c) \/ q \in asked
  <2>1. Calling(q)' \/ Working(q)' \/ Granting(q)'
    BY <1>2 DEF Asking, ClaimRequest, Calling, Call, Working, Granting
  <2> QED BY <1>2, <1>3, <2>1 DEF Asking
<1>6. ClaimOK(c) /\ ScopeOK(runOf[d]) /\ runOf[d] \in Runs
  BY MineFacts DEF ProtocolOK
\* What the run claims in this step is c.
<1>7. Made(d)' => Made(d)
  <2> SUFFICES ASSUME Made(d)', ~Made(d) PROVE FALSE
    OBVIOUS
  <2>1. made'[runOf[d]] # made[runOf[d]]
    BY DEF Made
  <2>2. runOf[d] = r /\ scope[r].at \in {"idle", "away"}
    BY <1>1, <1>6, <2>1 DEF WorkerMove, LeaseMove
  <2>3. CASE q \in asked
    <3>1. made'[r] = made[r] + 1 /\ c = claimsOf[r][made'[r]] /\ made[r] \in Nat
      BY <1>1, <1>2, <2>3 DEF ScopeMove, ProtocolOK, ProtocolTypes
    <3>2. PICK i \in 1..made'[r] : claimsOf[r][i] = d
      BY <2>2 DEF Made
    <3>3. i \in 1..made[r]
      BY <3>1, <3>2
    <3> QED BY <2>2, <3>2, <3>3 DEF Made
  <2>4. CASE Asking(c)
    <3>1. Calling(q) \/ Working(q) \/ Replied(q)
      BY <1>2, <2>4, GrantsAreReplies DEF Asking
    <3>2. q \in calls \/ Finished(r)
      BY <1>2, <1>6, <2>2, <3>1 DEF ClaimOK
    <3>3. ~Finished(r)
      BY <1>1, <2>2, ClaimingAlone
    <3> QED BY <1>2, <1>6, <2>2, <3>2, <3>3 DEF ClaimOK
  <2> QED BY <1>5, <2>3, <2>4
<1>8. d \in leases => Made(d)
  BY OwnedLease DEF LeaseOwned
<1>9. CASE Asking(c)
  <2>1. AloneOK(c, d)
    BY DEF LeaseOwned
  <2>2. /\ Made(d) => Over(d)
        /\ d \in leases =>
             /\ Calling(q)
             /\ stale \/ \E y \in BOOLEAN : Before(toHost, Call(ReleaseRequest(d, y)), Call(q))
    BY <1>2, <1>9, <2>1 DEF AloneOK
  <2>3. \A m, n \in Message : Before(toHost, m, n) => Before(toHost', m, n)
    BY <1>1 DEF WorkerMove, SendsInTurn
  <2> QED BY <1>2, <1>3, <1>4, <1>7, <2>2, <2>3
<1>10. CASE q \in asked
  <2>1. runOf[d] = r /\ made'[r] # made[r]
    <3>1. made[r] \in Nat
      BY <1>1 DEF ProtocolOK, ProtocolTypes
    <3> QED BY <1>1, <1>2, <1>10, <3>1, RequestFacts DEF WorkerMove, ScopeMove
  <2>2. scope[r].at \in {"idle", "away"}
    BY <1>1, <2>1 DEF LeaseMove
  <2>3. ~Finished(r) /\ scope[r].lease # d /\ (Made(d) => Over(d))
    BY <1>1, <2>1, <2>2, ClaimingAlone
  <2>4. ASSUME d \in leases
        PROVE  stale \/ \E y \in BOOLEAN : Before(toHost', Call(ReleaseRequest(d, y)), Call(q))
    <3>1. PICK p \in Requests : p = ClaimRequest(d)
      BY RequestFacts
    <3>2. TraceOK(d) /\ SettledOK(d)
      BY DEF LeaseOwned
    <3>3. ~Working(p) /\ ~Replied(p)
      BY <1>8, <2>3, <2>4, <3>1 DEF Over
    <3>4. ~Granting(p)
      BY <3>3, GrantsAreReplies
    <3>5. ~Cancelled(p)
      BY <2>1, <2>3, <3>1, <3>2 DEF SettledOK
    <3>6. Returning(d)
      BY <2>1, <2>3, <2>4, <3>1, <3>2, <3>3, <3>4, <3>5 DEF TraceOK
    <3>7. CASE stale
      BY <3>7
    <3>8. ASSUME NEW y \in BOOLEAN, SomeIn(toHost, {Call(ReleaseRequest(d, y))})
          PROVE  Before(toHost', Call(ReleaseRequest(d, y)), Call(q))
      BY <1>1, <1>4, <1>10, <3>8 DEF WorkerMove, SendsInTurn
    <3> QED BY <3>6, <3>7, <3>8 DEF Returning, Calling
  <2> QED BY <1>2, <1>3, <1>7, <1>10, <2>3, <2>4
<1> QED BY <1>5, <1>9, <1>10

\* What a step of the host about request a does to the claim of c.
HostSees(a, heard, said, c, q) ==
  /\ handler'[q] = handler[q] \/ q = a
  /\ Calling(q)' => Calling(q)
  /\ Cancelled(q)' => Cancelled(q)
  /\ Acked(q)' => Acked(q)
  /\ Replied(q)' => Replied(q) \/ (q = a /\ said # {})
  /\ Granting(q) => Granting(q)'
  /\ Granting(q)' <=> Granting(q) \/ (q = a /\ "accepted" \in said)
  /\ Cancelled(q) => Cancelled(q)' \/ (q = a /\ heard = "cancel")
  /\ Made(c)' <=> Made(c)
  /\ q \in calls' <=> q \in calls
  /\ scope' = scope
  /\ heard = "call" => Calling(a)
  /\ heard = "ack" => Acked(a)
  /\ said # {} => Calling(a) \/ Working(a)

LEMMA HostSeesClaim ==
  ASSUME ProtocolOK, NEW a \in Requests, NEW heard, NEW said, NEW lost,
         HostMove(a, heard, said, lost), HearsInTurn(a, heard),
         NEW c \in Mine, NEW q \in Requests, q = ClaimRequest(c)
  PROVE  HostSees(a, heard, said, c, q)
<1>1. /\ Hears(a, heard) /\ Says(a, said) /\ UNCHANGED workerVars
      /\ said # {} => Calling(a) \/ Working(a)
      /\ q # a => handler'[q] = handler[q]
  BY DEF HostMove
<1>2. /\ Calling(q)' => Calling(q)
      /\ Cancelled(q)' => Cancelled(q)
      /\ Acked(q)' => Acked(q)
      /\ heard = "call" => Calling(a)
      /\ heard = "ack" => Acked(a)
  BY <1>1 DEF Hears
<1>3. /\ Replied(q)' => Replied(q) \/ (q = a /\ said # {})
      /\ Granting(q)' <=> Granting(q) \/ (q = a /\ "accepted" \in said)
  BY <1>1 DEF Says
<1>4. Cancelled(q) => Cancelled(q)' \/ (q = a /\ heard = "cancel")
  <2>1. Cancel(q) \in Message /\ Cancel(q).kind = "cancel" /\ Cancel(q).of = q
    BY MessageFacts
  <2>2. SomeIn(toHost, {Cancel(q)}) => SomeIn(toHost', {Cancel(q)}) \/ (q = a /\ heard = "cancel")
    BY <2>1 DEF HearsInTurn
  <2> QED BY <2>2 DEF Cancelled, Cancel
<1>5. Made(c)' <=> Made(c)
  BY HostOver
<1> QED BY <1>1, <1>2, <1>3, <1>4, <1>5 DEF HostSees, workerVars

\* A claim that has its lease after the step had it before, or has just been asked
\* for or admitted.
LEMMA DisturbedLease ==
  ASSUME Orderly, ProtocolOK, NEW a \in Requests, Disturbs(a), NEW c \in Mine, AnswerOK(c),
         NEW q \in Requests, q = ClaimRequest(c), c \in leases'
  PROVE  \/ c \in leases /\ Undisturbed(c)
         \/ promise[c] = "waiting" /\ Working(q) /\ handler[q] = "admission" /\ Undisturbed(c)
         \/ q = a /\ handler[q] = "resolving" /\ q \notin aborted /\ handler'[q] = "admission"
<1>1. CASE Undisturbed(c)
  BY <1>1, OwnedLease DEF Undisturbed
<1>2. CASE ~Undisturbed(c)
  <2>1. c = a.claim
    BY <1>2 DEF Disturbs
  <2>2. /\ a = ClaimRequest(c) /\ handler[a] = "resolving" /\ a \notin aborted
        /\ handler'[a] = "admission"
    BY <1>2, <2>1 DEF Disturbs
  <2> QED BY <2>2
<1> QED BY <1>1, <1>2

LEMMA ActingKeepsAnswers ==
  ASSUME Orderly, ProtocolOK, Acted, LeaseOwned, NEW c \in Mine
  PROVE  AnswerOK(c)'
<1>1. PICK a, heard, said, lost :
        /\ a \in Requests
        /\ HostMove(a, heard, said, lost) /\ HearsInTurn(a, heard)
        /\ Disturbs(a) /\ Deals(a, heard, said)
  BY DEF Acted
<1>2. PICK q \in Requests : q = ClaimRequest(c) /\ q.op = "claim" /\ q.claim = c
  BY RequestFacts
<1>3. HostSees(a, heard, said, c, q)
  BY <1>1, <1>2, HostSeesClaim
<1>4. /\ promise[c] = "waiting" => handler[q] = "admission"
      /\ ~Made(c) \/ Calling(q) \/ handler[q] = "resolving" => promise[c] = "idle"
      /\ promise[c] # "run_exists"
  BY <1>2 DEF LeaseOwned, AnswerOK
<1>5. RequestOK(q) /\ ClaimOK(c)
  BY DEF ProtocolOK
<1>6. q = a => /\ handler'[q] = "resolving" => handler[q] = "resolving" \/ heard = "call"
               /\ handler[q] = "admission" /\ promise'[c] = "waiting" => handler'[q] = "admission"
  BY <1>1, <1>2 DEF Deals
<1>7. \/ Undisturbed(c)
      \/ promise'[c] \in {promise[c], "idle"}
      \/ /\ q = a /\ handler[q] = "resolving" /\ q \notin aborted
         /\ handler'[q] = "admission"
         /\ promise'[c] = "run_exists" => RunKnown(c)
  <2>1. CASE c = a.claim
    BY <1>1, <1>2, <2>1 DEF Disturbs
  <2> QED BY <1>1, <2>1 DEF Disturbs
<1>8. promise'[c] = "waiting" => handler'[q] = "admission"
  BY <1>3, <1>4, <1>6, <1>7 DEF HostSees, Undisturbed
<1>9. ~Made(c)' \/ Calling(q)' \/ handler'[q] = "resolving" => promise'[c] = "idle"
  <2> SUFFICES ASSUME ~Made(c)' \/ Calling(q)' \/ handler'[q] = "resolving"
               PROVE  promise'[c] = "idle"
    OBVIOUS
  <2>1. ~Made(c) \/ Calling(q) \/ handler[q] = "resolving"
    BY <1>3, <1>6 DEF HostSees
  <2>2. ~(handler[q] = "resolving" /\ handler'[q] = "admission")
    <3>1. ~Made(c) \/ Calling(q) => handler[q] = "none"
      BY <1>2, <1>5 DEF RequestOK, ClaimOK, Unused
    <3> QED BY <1>3, <3>1 DEF HostSees
  <2> QED BY <1>4, <1>7, <2>1, <2>2 DEF Undisturbed
<1>10. promise'[c] # "run_exists"
  <2> SUFFICES ASSUME /\ handler[q] = "resolving" /\ q \notin aborted
                      /\ RunKnown(c)
               PROVE  FALSE
    BY <1>4, <1>7 DEF Undisturbed
  <2>1. PICK d \in Claims : runOf[d] = runOf[c] /\ (d \in leases \/ promise[d] = "waiting")
    BY MineFacts, RunKnownBy
  <2>2. d \in Mine
    BY <2>1, MineFacts, WorkerAssumption
  <2>3. promise[c] = "idle" /\ c \notin leases
    BY <1>4, OrderlyFields
  <2>4. AloneOK(c, d) /\ AnswerOK(d) /\ Asking(c) /\ c # d
    BY <1>2, <2>1, <2>2, <2>3 DEF LeaseOwned, Asking, Working
  <2>5. ~Calling(q)
    BY <1>5 DEF RequestOK
  <2>6. d \notin leases /\ (Made(d) => Over(d))
    BY <1>2, <2>1, <2>4, <2>5 DEF AloneOK
  <2>7. Made(d) /\ Working(ClaimRequest(d))
    BY <2>1, <2>2, <2>4, <2>6, OwnedLease
  <2> QED BY <2>6, <2>7 DEF Over
<1> QED BY <1>2, <1>8, <1>9, <1>10 DEF AnswerOK, ClaimRequest, Calling, Call

LEMMA ActingKeepsSettled ==
  ASSUME Orderly, ProtocolOK, Acted, LeaseOwned, NEW c \in Mine
  PROVE  SettledOK(c)'
<1>1. PICK a, heard, said, lost :
        /\ a \in Requests
        /\ HostMove(a, heard, said, lost) /\ HearsInTurn(a, heard)
        /\ Disturbs(a) /\ Deals(a, heard, said)
  BY DEF Acted
<1>2. PICK q \in Requests : q = ClaimRequest(c) /\ q.op = "claim" /\ q.claim = c
  BY RequestFacts
<1>3. HostSees(a, heard, said, c, q)
  BY <1>1, <1>2, HostSeesClaim
<1>4. /\ c \in leases /\ handler[q] = "none" => q \notin calls /\ ~Replied(q) /\ ~Cancelled(q)
      /\ Acked(q) => ~Cancelled(q)
      /\ Cancelled(q) => Finished(runOf[c])
  BY <1>2 DEF LeaseOwned, SettledOK
<1>5. RequestOK(q) /\ AnswerOK(c)
  BY DEF ProtocolOK, LeaseOwned
<1>6. Finished(runOf[c])' <=> Finished(runOf[c])
  BY <1>3 DEF HostSees, Finished
<1>7. ASSUME c \in leases', handler'[q] = "none"
      PROVE  q \notin calls' /\ ~Replied(q)' /\ ~Cancelled(q)'
  <2>1. \/ c \in leases /\ Undisturbed(c)
        \/ promise[c] = "waiting" /\ Working(q) /\ handler[q] = "admission" /\ Undisturbed(c)
    BY <1>1, <1>2, <1>5, <1>7, DisturbedLease
  <2>2. ~Calling(q) /\ handler[q] # "resolving"
    BY <1>2, <1>5, <2>1, OwnedLease
  <2>3. CASE handler[q] = "none"
    <3>1. c \in leases
      BY <2>1, <2>3
    <3>2. ~(q = a /\ said # {})
      BY <1>3, <2>2, <2>3 DEF HostSees, Working
    <3> QED BY <1>3, <1>4, <2>3, <3>1, <3>2 DEF HostSees
  <2>4. CASE handler[q] # "none"
    <3>1. q = a
      BY <1>3, <1>7, <2>4 DEF HostSees
    <3>2. heard = "ack"
      BY <1>1, <1>2, <1>7, <2>2, <2>4, <3>1 DEF Deals
    <3>3. Acked(q) /\ q \notin calls /\ ~Working(q) /\ ~Replied(q)
      BY <1>3, <1>5, <3>1, <3>2 DEF HostSees, RequestOK
    <3>4. said = {}
      BY <1>3, <2>2, <3>1, <3>3 DEF HostSees
    <3> QED BY <1>3, <1>4, <3>3, <3>4 DEF HostSees
  <2> QED BY <2>3, <2>4
<1>8. /\ Acked(q)' => ~Cancelled(q)'
      /\ Cancelled(q)' => Finished(runOf[c])'
  BY <1>3, <1>4, <1>6 DEF HostSees
<1> QED BY <1>2, <1>7, <1>8
        DEF SettledOK, ClaimRequest, Replied, Replies, Acked, Cancelled, Ack, Cancel

\* A release that is heard has done its work, or was refused.
LEMMA ReleaseHeard ==
  ASSUME ProtocolOK, LeasePace', NEW a \in Requests, NEW heard, NEW said, NEW lost,
         HostMove(a, heard, said, lost), HearsInTurn(a, heard), Deals(a, heard, said),
         NEW c \in Mine, NEW y \in BOOLEAN, NEW b \in Requests, b = ReleaseRequest(c, y),
         Calling(b)
  PROVE  (Calling(b)' /\ ~(b = a /\ heard = "call")) \/ c \notin leases' \/ stale
<1>1. CASE b = a /\ heard = "call"
  <2>1. "backpressure" \notin said
    <3>1. ~Pressed(a)'
      BY DEF LeasePace, PaceOK
    <3> QED BY <3>1 DEF HostMove, Says
  <2>2. a.op = "release" /\ a.claim = c
    BY <1>1 DEF ReleaseRequest
  <2> QED BY <1>1, <2>1, <2>2 DEF Deals
<1>2. CASE ~(b = a /\ heard = "call")
  <2>1. Call(b) \in Message /\ Call(b).kind = "call" /\ Call(b).of = b
    BY MessageFacts
  <2>2. SomeIn(toHost, {Call(b)}) => SomeIn(toHost', {Call(b)})
    BY <1>2, <2>1 DEF HearsInTurn
  <2> QED BY <1>2, <2>2 DEF Calling, Call
<1> QED BY <1>1, <1>2

LEMMA ActingKeepsTrace ==
  ASSUME Orderly, ProtocolOK, LeasePace', Acted, UNCHANGED stale, LeaseOwned, NEW c \in Mine
  PROVE  TraceOK(c)'
<1>1. PICK a, heard, said, lost :
        /\ a \in Requests
        /\ HostMove(a, heard, said, lost) /\ HearsInTurn(a, heard)
        /\ Disturbs(a) /\ Deals(a, heard, said)
  BY DEF Acted
<1>2. PICK q \in Requests : q = ClaimRequest(c) /\ q.op = "claim" /\ q.claim = c
  BY RequestFacts
<1>3. HostSees(a, heard, said, c, q)
  BY <1>1, <1>2, HostSeesClaim
<1>4. /\ c \in leases /\ handler[q] = "none" => q \notin calls /\ ~Replied(q) /\ ~Cancelled(q)
      /\ Acked(q) => ~Cancelled(q)
  BY <1>2 DEF LeaseOwned, SettledOK
<1>5. RequestOK(q) /\ AnswerOK(c)
  BY DEF ProtocolOK, LeaseOwned
<1>6. handler'[q] \in HandlerStates
  BY <1>1 DEF HostMove, HandlerStates
<1> SUFFICES ASSUME c \in leases', ~Working(q)'
             PROVE  Granting(q)' \/ Cancelled(q)' \/ scope'[runOf[c]].lease = c \/ Returning(c)'
  BY <1>2 DEF TraceOK, ClaimRequest, Working, Granting, Cancelled, Cancel
<1>7. \/ c \in leases /\ Undisturbed(c)
      \/ promise[c] = "waiting" /\ Working(q) /\ handler[q] = "admission" /\ Undisturbed(c)
  BY <1>1, <1>2, <1>5, DisturbedLease DEF Working
<1>8. handler[q] # "resolving" /\ ~Calling(q)
  BY <1>2, <1>5, <1>7, OwnedLease
<1>9. Returning(c) => Returning(c)'
  <2> SUFFICES ASSUME scope[runOf[c]].last = c, ~stale,
                      NEW y \in BOOLEAN, Calling(ReleaseRequest(c, y))
               PROVE  Returning(c)'
    BY <1>3 DEF Returning, HostSees
  <2>1. PICK b \in Requests : b = ReleaseRequest(c, y)
    BY RequestFacts
  <2>2. Calling(b)'
    BY <1>1, <2>1, ReleaseHeard
  <2> QED BY <1>3, <2>1, <2>2 DEF Returning, ReleaseRequest, HostSees, Calling, Call
\* The handler ends with a grant, or with the lease given back.
<1>10. ASSUME Working(q) PROVE Granting(q)'
  <2>1. q = a
    BY <1>3, <1>10 DEF HostSees, Working
  <2>2. handler'[q] \in {"none", "replied"}
    BY <1>6 DEF HandlerStates, Working
  <2>3. heard # "ack"
    BY <1>3, <1>5, <1>10, <2>1 DEF HostSees, RequestOK
  <2>4. handler'[q] # "none"
    BY <1>1, <1>2, <1>8, <1>10, <2>1, <2>3 DEF Deals, Working
  <2>5. "accepted" \in said
    BY <1>1, <1>2, <1>10, <2>1, <2>2, <2>4 DEF Deals
  <2> QED BY <1>3, <2>1, <2>5 DEF HostSees
\* A cancel is heard only once it has nothing left to take back.
<1>11. ASSUME Cancelled(q), ~Working(q) PROVE Cancelled(q)'
  <2>1. c \in leases /\ handler[q] # "none"
    BY <1>4, <1>7, <1>11
  <2>2. ~(q = a /\ heard = "cancel")
    <3> SUFFICES ASSUME q = a, heard = "cancel" PROVE FALSE
      OBVIOUS
    <3>1. handler'[q] = "none"
      BY <1>1, <1>6 DEF Deals, HandlerStates, Working
    <3> QED BY <1>1, <1>2, <1>8, <2>1, <3>1 DEF Deals
  <2> QED BY <1>3, <1>11, <2>2 DEF HostSees
<1>12. CASE c \in leases /\ ~Working(q)
  <2>1. Granting(q) \/ Cancelled(q) \/ scope[runOf[c]].lease = c \/ Returning(c)
    BY <1>2, <1>12 DEF LeaseOwned, TraceOK
  <2> QED BY <1>3, <1>9, <1>11, <1>12, <2>1 DEF HostSees
<1> QED BY <1>7, <1>10, <1>12

LEMMA ActingKeepsAlone ==
  ASSUME Orderly, ProtocolOK, LeasePace', Acted, UNCHANGED stale, LeaseOwned,
         NEW c \in Mine, NEW d \in Mine
  PROVE  AloneOK(c, d)'
<1> SUFFICES ASSUME c # d, runOf[c] = runOf[d], Asking(c)'
             PROVE  /\ Made(d)' => Over(d)'
                    /\ d \in leases' =>
                         /\ Calling(ClaimRequest(c))'
                         /\ stale' \/ \E y \in BOOLEAN :
                              Before(toHost', Call(ReleaseRequest(d, y)), Call(ClaimRequest(c)))
  BY DEF AloneOK, Call, ReleaseRequest, ClaimRequest
<1>1. PICK a, heard, said, lost :
        /\ a \in Requests
        /\ HostMove(a, heard, said, lost) /\ HearsInTurn(a, heard)
        /\ Disturbs(a) /\ Deals(a, heard, said)
  BY DEF Acted
<1>2. PICK q \in Requests : q = ClaimRequest(c) /\ q.op = "claim" /\ q.claim = c
  BY RequestFacts
<1>3. HostSees(a, heard, said, c, q)
  BY <1>1, <1>2, HostSeesClaim
<1>4. Asking(c)
  <2>1. Calling(q)' \/ Working(q)' \/ Granting(q)'
    BY <1>2 DEF Asking, ClaimRequest, Calling, Call, Working, Granting
  <2>2. Working(q)' => Working(q) \/ Calling(q)
    BY <1>1, HostViews
  <2>3. Calling(q) \/ Working(q) \/ Granting(q)
    BY <1>3, <2>1, <2>2 DEF HostSees
  <2> QED BY <1>2, <2>3 DEF Asking
<1>5. /\ Made(d) => Over(d)
      /\ d \in leases =>
           /\ Calling(q)
           /\ stale \/ \E y \in BOOLEAN : Before(toHost, Call(ReleaseRequest(d, y)), Call(q))
  BY <1>2, <1>4 DEF LeaseOwned, AloneOK
<1>6. Made(d)' => Over(d)'
  BY <1>1, <1>5, HostOver
<1>7. ASSUME d \in leases'
      PROVE  /\ Calling(q)'
             /\ stale' \/ \E y \in BOOLEAN : Before(toHost', Call(ReleaseRequest(d, y)), Call(q))
  <2>1. AnswerOK(d)
    BY DEF LeaseOwned
  <2>2. PICK p \in Requests : p = ClaimRequest(d)
    BY RequestFacts
  <2>3. d \in leases
    <3>1. ~Working(p)
      <4>1. Working(p) => Made(d)
        BY <2>2 DEF ProtocolOK, ClaimOK, Unused, Working
      <4> QED BY <1>5, <2>2, <4>1 DEF Over
    <3> QED BY <1>1, <1>7, <2>1, <2>2, <3>1, DisturbedLease DEF Working
\* A stale handler hears the claim only to refuse it.
  <2>4. CASE stale
    <3>1. Calling(q) /\ RequestOK(q)
      BY <1>5, <2>3 DEF ProtocolOK
    <3>2. handler[q] = "none" /\ ~Granting(q)
      BY <3>1, GrantsAreReplies DEF RequestOK
    <3>3. ~(q = a /\ heard = "call")
      <4> SUFFICES ASSUME q = a, heard = "call" PROVE FALSE
        OBVIOUS
      <4>1. handler'[q] = "none"
        BY <1>1, <2>4 DEF Deals
      <4>2. ~Calling(q)'
        BY <1>1, <3>1 DEF HostMove, Hears, RequestOK
      <4>3. "accepted" \notin said
        BY <1>1, <3>2 DEF HostMove, Working
      <4>4. ~Granting(q)'
        BY <1>3, <3>2, <4>3 DEF HostSees
      <4> QED BY <1>2, <4>1, <4>2, <4>4
              DEF Asking, ClaimRequest, Calling, Call, Working, Granting
    <3>4. Call(q) \in Message /\ Call(q).kind = "call" /\ Call(q).of = q
      BY MessageFacts
    <3>5. SomeIn(toHost, {Call(q)}) => SomeIn(toHost', {Call(q)})
      BY <1>1, <3>3, <3>4 DEF HearsInTurn
    <3> QED BY <2>4, <3>1, <3>5 DEF Calling, Call
  <2>5. CASE ~stale
    <3>1. PICK y \in BOOLEAN : Before(toHost, Call(ReleaseRequest(d, y)), Call(q))
      BY <1>5, <2>3, <2>5
    <3>2. PICK b \in Requests : b = ReleaseRequest(d, y)
      BY RequestFacts
    <3>3. Calling(b)
      BY <3>1, <3>2, BothThere DEF Calling
    <3>4. ~(b = a /\ heard = "call")
      BY <1>1, <1>7, <2>5, <3>2, <3>3, ReleaseHeard
    <3>5. /\ Call(b) \in Message /\ Call(b).kind = "call" /\ Call(b).of = b
          /\ Call(q) \in Message
      BY MessageFacts
    <3>6. Before(toHost', Call(b), Call(q))
      BY <1>1, <3>1, <3>2, <3>4, <3>5 DEF HearsInTurn
    <3>7. Calling(q)'
      BY <3>6, BothThere DEF Calling, Call
    <3> QED BY <3>2, <3>6, <3>7
  <2> QED BY <2>4, <2>5
<1> QED BY <1>2, <1>6, <1>7

LEMMA LeaseOwnedStep ==
  ASSUME LeaseInv, LeasePace, LeasePace', LeaseOwned, RoomLeft, [LeaseNext]_leaseVars
  PROVE  LeaseOwned'
<1>1. Orderly /\ ProtocolOK
  BY DEF LeaseInv
<1>2. ASSUME Moved, UNCHANGED stale PROVE LeaseOwned'
  <2>1. ASSUME NEW c \in Mine PROVE TraceOK(c)' /\ SettledOK(c)' /\ AnswerOK(c)'
    <3>1. SettledOK(c) /\ AnswerOK(c)
      BY DEF LeaseOwned
    <3> QED BY <1>1, <1>2, <3>1, MovingKeepsTrace, MovingKeepsSettled, MovingKeepsAnswers
  <2>2. \A c, d \in Mine : AloneOK(c, d)'
    BY <1>1, <1>2, MovingKeepsAlone
  <2> QED BY <2>1, <2>2 DEF LeaseOwned
<1>3. ASSUME Acted, UNCHANGED stale PROVE LeaseOwned'
  <2>1. \A c \in Mine : TraceOK(c)' /\ SettledOK(c)' /\ AnswerOK(c)'
    BY <1>1, <1>3, ActingKeepsTrace, ActingKeepsSettled, ActingKeepsAnswers
  <2>2. \A c, d \in Mine : AloneOK(c, d)'
    BY <1>1, <1>3, ActingKeepsAlone
  <2> QED BY <2>1, <2>2 DEF LeaseOwned
<1>4. ASSUME Aside PROVE LeaseOwned'
  <2>1. /\ scope' = scope /\ made' = made /\ calls' = calls /\ toHost' = toHost
        /\ toWorker' = toWorker /\ handler' = handler /\ (stale => stale')
    BY <1>4 DEF Aside, workerVars, hostVars
  <2>2. ASSUME NEW c \in Mine
        PROVE  /\ Undisturbed(c) /\ TraceOK(c) /\ SettledOK(c) /\ AnswerOK(c) /\ ClaimOK(c)
               /\ promise[c] = "waiting" => handler[ClaimRequest(c)] = "admission" /\ Made(c)
    <3>1. /\ Undisturbed(c) /\ TraceOK(c) /\ SettledOK(c) /\ AnswerOK(c) /\ ClaimOK(c)
      BY <1>1, <1>4 DEF Aside, LeaseOwned, ProtocolOK
    <3> QED BY <1>1, <3>1, OwnedLease
  <2>3. ASSUME NEW c \in Mine PROVE TraceOK(c)'
    <3>1. PICK q \in Requests : q = ClaimRequest(c)
      BY RequestFacts
    <3>2. c \in leases' => c \in leases \/ Working(q)
      BY <2>2, <3>1 DEF Undisturbed, Working
    <3>3. c \in leases' => \/ Working(q) \/ Granting(q) \/ Cancelled(q)
                           \/ scope[runOf[c]].lease = c \/ Returning(c)
      BY <2>2, <3>1, <3>2 DEF TraceOK
    <3> QED BY <2>1, <3>1, <3>3 DEF TraceOK, ClaimRequest, ReleaseRequest, Working, Granting,
                                    Cancelled, Cancel, Returning, Calling, Call
  <2>4. ASSUME NEW c \in Mine PROVE SettledOK(c)'
    <3>1. handler[ClaimRequest(c)] = "none" /\ c \in leases' => c \in leases
      BY <2>2 DEF Undisturbed
    <3> QED BY <2>1, <2>2, <3>1 DEF SettledOK, ClaimRequest, Replied, Replies, Acked, Cancelled,
                                    Ack, Cancel, Finished
  <2>5. ASSUME NEW c \in Mine PROVE AnswerOK(c)'
    BY <2>1, <2>2 DEF AnswerOK, Undisturbed, Made, ClaimRequest, Calling, Call
  <2>6. ASSUME NEW c \in Mine, NEW d \in Mine PROVE AloneOK(c, d)'
    <3> SUFFICES ASSUME c # d, runOf[c] = runOf[d], Asking(c)
                 PROVE  /\ Made(d) => Over(d)
                        /\ d \in leases' =>
                             /\ Calling(ClaimRequest(c))
                             /\ stale \/ \E y \in BOOLEAN :
                                  Before(toHost, Call(ReleaseRequest(d, y)),
                                         Call(ClaimRequest(c)))
      BY <2>1 DEF AloneOK, Asking, Made, Over, Calling, Call, ReleaseRequest, ClaimRequest,
                  Replied, Replies, Working, Granting
    <3>1. AloneOK(c, d)
      BY DEF LeaseOwned
    <3>2. d \in leases' => d \in leases
      <4>1. ~(handler[ClaimRequest(d)] = "admission" /\ Made(d))
        BY <3>1 DEF AloneOK, Over, Working
      <4> QED BY <2>2, <4>1 DEF Undisturbed
    <3> QED BY <3>1, <3>2 DEF AloneOK
  <2> QED BY <2>3, <2>4, <2>5, <2>6 DEF LeaseOwned
<1>5. ASSUME Left PROVE LeaseOwned'
  <2>1. ASSUME NEW c \in Mine
        PROVE  /\ c \notin leases' /\ Undisturbed(c) /\ AnswerOK(c)
               /\ Made(c)' <=> Made(c)
    BY <1>5 DEF Left, LeaseOwned, Made
  <2>2. ASSUME NEW q \in Requests
        PROVE  /\ ~Calling(q)' /\ ~Acked(q)' /\ ~Cancelled(q)' /\ ~Replied(q)' /\ ~Granting(q)'
               /\ q \notin calls'
               /\ Working(q)' <=> Working(q)
               /\ handler'[q] = IF Working(q) THEN handler[q] ELSE "none"
    BY <1>5 DEF Left, Calling, Acked, Cancelled, Replied, Granting, SomeIn, Working
  <2>3. ASSUME NEW c \in Mine
        PROVE  TraceOK(c)' /\ SettledOK(c)' /\ AnswerOK(c)'
    <3>1. PICK q \in Requests : q = ClaimRequest(c)
      BY RequestFacts
    <3>2. TraceOK(c)'
      BY <2>1 DEF TraceOK
    <3>3. SettledOK(c)'
      BY <2>1, <2>2, <3>1 DEF SettledOK, ClaimRequest, Acked, Cancelled, Ack, Cancel
    <3>4. /\ promise'[c] = "waiting" => handler'[q] = "admission"
          /\ ~Made(c)' \/ Calling(q)' \/ handler'[q] = "resolving" => promise'[c] = "idle"
          /\ promise'[c] # "run_exists"
      BY <2>1, <2>2, <3>1 DEF AnswerOK, Undisturbed, Working
    <3>5. AnswerOK(c)'
      BY <3>1, <3>4 DEF AnswerOK, ClaimRequest, Calling, Call
    <3> QED BY <3>2, <3>3, <3>5
  <2>4. ASSUME NEW c \in Mine, NEW d \in Mine PROVE AloneOK(c, d)'
    <3> SUFFICES ASSUME c # d, runOf[c] = runOf[d], Asking(c)', Made(d)' PROVE Over(d)'
      BY <2>1 DEF AloneOK
    <3>1. PICK q \in Requests, p \in Requests : q = ClaimRequest(c) /\ p = ClaimRequest(d)
      BY RequestFacts
    <3>2. ~Calling(q)' /\ ~Granting(q)'
      BY <2>2
    <3>3. Working(q)'
      BY <3>1, <3>2 DEF Asking, ClaimRequest, Calling, Call, Working, Granting
    <3>4. Over(d)
      BY <2>1, <2>2, <3>1, <3>3 DEF LeaseOwned, AloneOK, Asking
    <3>5. p \notin calls' /\ ~Calling(p)' /\ ~Replied(p)' /\ ~Working(p)'
      BY <2>2, <3>1, <3>4 DEF Over
    <3> QED BY <3>1, <3>5 DEF Over, ClaimRequest, Calling, Call, Replied, Replies, Working
  <2> QED BY <2>3, <2>4 DEF LeaseOwned
<1> QED BY <1>2, <1>3, <1>4, <1>5, LeaseStepCases

LEMMA LeaseOwnedStarts == LeaseInit => LeaseOwned
<1> SUFFICES ASSUME LeaseInit PROVE LeaseOwned
  OBVIOUS
<1>1. /\ leases = {} /\ promise = [c \in Claims |-> "idle"]
      /\ toHost = <<>> /\ toWorker = <<>> /\ handler = [q \in Requests |-> "none"]
  BY DEF LeaseInit, Init
<1>2. \A q : ~Calling(q) /\ ~Acked(q) /\ ~Cancelled(q) /\ ~Granting(q)
  BY <1>1 DEF Calling, Acked, Cancelled, Granting, SomeIn
<1>3. ASSUME NEW c \in Mine PROVE TraceOK(c) /\ SettledOK(c) /\ AnswerOK(c) /\ ~Asking(c)
  <2>1. promise[c] = "idle" /\ handler[ClaimRequest(c)] = "none"
    BY <1>1, MineFacts, RequestFacts
  <2> QED BY <1>1, <1>2, <2>1 DEF TraceOK, SettledOK, AnswerOK, Asking, Working
<1> QED BY <1>3 DEF LeaseOwned, AloneOK

-----------------------------------------------------------------------------
\* Nothing a worker asks for is refused for want of room: its pending map is
\* counted as the host's map will be, once the host has read what the worker sent
\* before (requestWorkerHost's limits and those of attachWorkerHostRpc).
THEOREM NeverPressed ==
  LeaseSpec => [](\A i \in 1..Len(toWorker) : toWorker[i].result # "backpressure")
<1>1. ASSUME ProtocolTypes, LeasePace
      PROVE  \A i \in 1..Len(toWorker) : toWorker[i].result # "backpressure"
  <2> SUFFICES ASSUME NEW i \in 1..Len(toWorker), toWorker[i].result = "backpressure"
               PROVE  FALSE
    OBVIOUS
  <2>1. toWorker[i] \in [of : Requests, result : Results]
    BY <1>1, ElementOfSeq DEF ProtocolTypes
  <2>2. toWorker[i] = [of |-> toWorker[i].of, result |-> "backpressure"]
        /\ toWorker[i].of \in Requests
    BY <2>1
  <2>3. Pressed(toWorker[i].of)
    BY <2>2 DEF Pressed, SomeIn
  <2> QED BY <1>1, <2>2, <2>3 DEF LeasePace, PaceOK
<1>2. LeaseInv => ProtocolTypes
  BY DEF LeaseInv, ProtocolOK
<1> QED BY <1>1, <1>2, LeaseInvariant, LeasePaceStarts, LeasePaceStep, PTL DEF LeaseSpec

\* As long as the worker's pending map is not full, so that what it must send can
\* be sent, someone is left to give every lease of the worker back, or its release
\* was refused by a stale handler.
THEOREM LeaseOwnership == LeaseSpec /\ []RoomLeft => []LeaseOwned
BY LeaseInvariant, LeasePaceStarts, LeasePaceStep, LeaseOwnedStarts, LeaseOwnedStep, PTL
   DEF LeaseSpec

\* With room in the pending map, no lease is left behind by a grant that raced a
\* timeout, a cancel, a yield, an invalidation or a disconnect: when nothing is in
\* flight, every lease of the worker is held by a scope that will release it, except,
\* once the bot's activation was invalidated, what a scope released too late to be
\* heard: the last lease of its run.
THEOREM NoOrphans == LeaseSpec /\ []RoomLeft => []NoOrphanLease
<1>1. ASSUME ProtocolOK, LeaseOwned, Quiet
      PROVE  \A c \in leases \cap Mine : c \in Believed \/ Unreturned(c)
  <2> SUFFICES ASSUME NEW c \in Mine, c \in leases PROVE c \in Believed \/ Unreturned(c)
    OBVIOUS
  <2>1. PICK q \in Requests : q = ClaimRequest(c)
    BY RequestFacts
  <2>2. ~Working(q) /\ ~Granting(q) /\ ~Cancelled(q)
    BY <1>1, <2>1 DEF Quiet, Working, Granting, Cancelled, SomeIn
  <2>3. scope[runOf[c]].lease = c \/ Returning(c)
    BY <1>1, <2>1, <2>2 DEF LeaseOwned, TraceOK
  <2>4. Returning(c) => scope[runOf[c]].last = c /\ stale
    BY <1>1 DEF Quiet, Returning, Calling, SomeIn
  <2> QED BY <2>3, <2>4, MineFacts DEF Believed, Unreturned
<1>2. LeaseInv => ProtocolOK
  BY DEF LeaseInv
<1> QED BY <1>1, <1>2, LeaseInvariant, LeaseOwnership, PTL DEF NoOrphanLease

\* Nothing the worker did itself makes the host refuse it: neither for want of room
\* nor, with room in the pending map, because the run already holds a lease or waits
\* for one.  A run that claims anew after yielding sent its release first.
THEOREM NoRefusals == LeaseSpec /\ []RoomLeft => []NoSpuriousRefusals
<1>1. LeaseOwned => \A c \in Mine : promise[c] # "run_exists"
  BY DEF LeaseOwned, AnswerOK
<1>2. /\ \A i \in 1..Len(toWorker) : toWorker[i].result # "backpressure"
      /\ \A c \in Mine : promise[c] # "run_exists"
      => NoSpuriousRefusals
  BY DEF NoSpuriousRefusals
<1> QED BY <1>1, <1>2, NeverPressed, LeaseOwnership, PTL

-----------------------------------------------------------------------------
(* A run has one call in flight, so a worker of few runs always has room *)

\* A run waits for a claim, or for the release it yields with, or it is closed and
\* has sent its last release.
CallsOK ==
  /\ \A q \in calls :
       LET s == scope[runOf[q.claim]] IN
       /\ q.op = "claim" => s.at \in {"claiming", "reclaiming"}
       /\ q.op = "release" /\ q.yielding => s.at = "yielding"
       /\ q.op = "release" /\ ~q.yielding => s.closed
  /\ \A p, q \in calls : runOf[p.claim] = runOf[q.claim] => p = q

\* What a run calls, once what it called is settled, is its only call.
LEMMA OneCallKept ==
  ASSUME ProtocolTypes, CallsOK, NEW r \in Runs, NEW settled,
         \A q \in calls : runOf[q.claim] = r => q \in settled,
         \A p \in Runs \ {r} : scope'[p] = scope[p],
         NEW a \in Requests, runOf[a.claim] = r,
         calls' \subseteq (calls \ settled) \cup {a},
         a \in calls' =>
           /\ a.op = "claim" => scope'[r].at \in {"claiming", "reclaiming"}
           /\ a.op = "release" /\ a.yielding => scope'[r].at = "yielding"
           /\ a.op = "release" /\ ~a.yielding => scope'[r].closed
  PROVE  CallsOK'
<1>1. ASSUME NEW q \in calls', q # a
      PROVE  /\ q \in calls /\ runOf[q.claim] # r
             /\ scope'[runOf[q.claim]] = scope[runOf[q.claim]]
  <2>1. q \in calls /\ q \in Requests /\ runOf[q.claim] # r
    BY <1>1 DEF ProtocolTypes, Fits
  <2>2. runOf[q.claim] \in Runs
    BY <2>1, RequestFacts, MineFacts
  <2> QED BY <2>1, <2>2
<1>2. ASSUME NEW q \in calls'
      PROVE  /\ q.op = "claim" => scope'[runOf[q.claim]].at \in {"claiming", "reclaiming"}
             /\ q.op = "release" /\ q.yielding => scope'[runOf[q.claim]].at = "yielding"
             /\ q.op = "release" /\ ~q.yielding => scope'[runOf[q.claim]].closed
  <2>1. CASE q = a
    BY <2>1
  <2>2. CASE q # a
    BY <1>1, <2>2 DEF CallsOK
  <2> QED BY <2>1, <2>2
<1>3. ASSUME NEW p \in calls', NEW q \in calls', runOf[p.claim] = runOf[q.claim] PROVE p = q
  <2>1. CASE p # a /\ q # a
    BY <1>1, <1>3, <2>1 DEF CallsOK
  <2>2. CASE p = a \/ q = a
    BY <1>1, <1>3, <2>2
  <2> QED BY <2>1, <2>2
<1> QED BY <1>2, <1>3 DEF CallsOK

\* A scope that is open and runs, or is idle or away, waits for no call.
LEMMA NoCallYet ==
  ASSUME ProtocolTypes, CallsOK, NEW r \in Runs, ScopeOK(r),
         \/ scope[r].at \in {"idle", "away"}
         \/ scope[r].at = "running" /\ ~scope[r].closed,
         NEW q \in calls
  PROVE  runOf[q.claim] # r
<1> SUFFICES ASSUME runOf[q.claim] = r PROVE FALSE
  OBVIOUS
<1>1. q \in Requests
  BY DEF ProtocolTypes, Fits
<1>2. q.op = "claim" \/ (q.op = "release" /\ q.yielding \in BOOLEAN)
  BY <1>1, RequestFacts
<1>3. ~scope[r].closed
  BY DEF ScopeOK
<1> QED BY <1>2, <1>3 DEF CallsOK

LEMMA CallsStep ==
  ASSUME LeaseInv, CallsOK, [LeaseNext]_leaseVars
  PROVE  CallsOK'
<1>1. ProtocolOK /\ ProtocolTypes /\ scope \in [Runs -> Scopes]
  BY DEF LeaseInv, ProtocolOK, ProtocolTypes
<1>2. ASSUME NEW r \in Runs, NEW at, NEW settled, NEW messages, NEW held \in Mine,
             runOf[held] = r, ReleaseScope(r, at, settled, messages, held),
             \A q \in calls : runOf[q.claim] = r => q \in settled
      PROVE  CallsOK'
  <2>1. PICK a \in Requests : /\ a = ReleaseRequest(held, FALSE) /\ a.op = "release"
                              /\ a.claim = held
    BY RequestFacts
  <2>2. calls' \subseteq (calls \ settled) \cup {a}
    BY <1>2, <2>1 DEF ReleaseScope, SendAndCall
  <2>3. scope'[r].closed /\ \A p \in Runs \ {r} : scope'[p] = scope[p]
    BY <1>1, <1>2 DEF ReleaseScope
  <2>4. ~a.yielding
    BY <2>1, RequestFacts
  <2> QED BY <1>1, <1>2, <2>1, <2>2, <2>3, <2>4, OneCallKept
<1>3. ASSUME NEW r \in Runs,
             \/ scope[r].at \in {"idle", "away"}
             \/ scope[r].at = "running" /\ ~scope[r].closed
      PROVE  \A q \in calls : runOf[q.claim] # r
  BY <1>1, <1>3, NoCallYet DEF ProtocolOK
<1>4. ASSUME NEW r \in Runs PROVE scope[r].last # NoLease => scope[r].last \in Mine
                                                              /\ runOf[scope[r].last] = r
  BY <1>1, RunOf
\* A claim of r that is asked for, by a scope that waits for none.
<1>5. ASSUME NEW r \in Runs, NEW c \in Mine, runOf[c] = r,
             \/ scope[r].at \in {"idle", "away"}
             \/ scope[r].at = "running" /\ ~scope[r].closed,
             NEW a \in Requests, a.claim = c,
             SendAndCall({}, <<>>, a),
             \A p \in Runs \ {r} : scope'[p] = scope[p],
             a \in calls' =>
               /\ a.op = "claim" => scope'[r].at \in {"claiming", "reclaiming"}
               /\ a.op = "release" => a.yielding /\ scope'[r].at = "yielding"
      PROVE  CallsOK'
  <2>1. calls' \subseteq (calls \ {}) \cup {a}
    BY <1>5 DEF SendAndCall
  <2>2. \A q \in calls : runOf[q.claim] = r => q \in {}
    BY <1>3, <1>5
  <2> QED BY <1>1, <1>5, <2>1, <2>2, OneCallKept
<1>6. ASSUME NEW r \in Runs, Start(r) PROVE CallsOK'
  <2>1. PICK a \in Requests : a = ClaimRequest(claimsOf[r][1]) /\ a.op = "claim"
                              /\ a.claim \in Mine /\ runOf[a.claim] = r
    <3>1. claimsOf[r][1] \in Mine /\ runOf[claimsOf[r][1]] = r
      BY RunFacts
    <3> QED BY <3>1, RequestFacts
  <2>2. scope[r].at = "idle" /\ SendAndCall({}, <<>>, a)
        /\ scope' = [scope EXCEPT ![r].at = "claiming"]
    BY <1>6, <2>1 DEF Start
  <2>3. scope'[r].at = "claiming" /\ \A p \in Runs \ {r} : scope'[p] = scope[p]
    BY <1>1, <2>2
  <2> QED BY <1>5, <2>1, <2>2, <2>3
<1>7. ASSUME NEW r \in Runs, Yield(r) PROVE CallsOK'
  <2>1. ScopeOK(r) /\ scope[r].at = "running" /\ scope[r].lease # NoLease
    BY <1>1, <1>7 DEF ProtocolOK, Yield
  <2>2. ~scope[r].closed /\ scope[r].lease \in Mine /\ runOf[scope[r].lease] = r
    BY <1>4, <2>1 DEF ScopeOK
  <2>3. PICK a \in Requests : /\ a = ReleaseRequest(scope[r].lease, TRUE) /\ a.op = "release"
                              /\ a.claim = scope[r].lease /\ a.yielding = TRUE
    BY <2>2, RequestFacts
  <2>4. /\ SendAndCall({}, <<>>, a)
        /\ scope' = [scope EXCEPT ![r].lease = NoLease,
                       ![r].at = IF Room(calls, a) THEN "yielding" ELSE "away"]
    BY <1>7, <2>3 DEF Yield
  <2>5. \A p \in Runs \ {r} : scope'[p] = scope[p]
    BY <1>1, <2>4
  <2>6. a \in calls' => scope'[r].at = "yielding"
    <3>1. a \notin calls
      BY <1>3, <2>1, <2>2, <2>3
    <3>2. a \in calls' => Room(calls \ {}, a)
      BY <2>4, <3>1 DEF SendAndCall
    <3>3. calls \ {} = calls
      OBVIOUS
    <3> QED BY <1>1, <2>4, <3>2, <3>3
  <2> QED BY <1>5, <2>1, <2>2, <2>3, <2>4, <2>5, <2>6
<1>8. ASSUME NEW r \in Runs, Reclaim(r) PROVE CallsOK'
  <2>1. ScopeOK(r) /\ scope[r].at = "away" /\ made[r] < Len(claimsOf[r])
    BY <1>1, <1>8 DEF ProtocolOK, Reclaim, ScopeOK
  <2>2. PICK c \in Mine : c = claimsOf[r][made[r] + 1] /\ runOf[c] = r
    BY <1>1, <2>1, RunOf
  <2>3. PICK a \in Requests : a = ClaimRequest(c) /\ a.op = "claim" /\ a.claim = c
    BY RequestFacts
  <2>4. CASE Room(calls, a)
    <3>1. SendAndCall({}, <<>>, a) /\ scope' = [scope EXCEPT ![r].at = "reclaiming"]
      BY <1>8, <2>2, <2>3, <2>4 DEF Reclaim
    <3>2. scope'[r].at = "reclaiming" /\ \A p \in Runs \ {r} : scope'[p] = scope[p]
      BY <1>1, <3>1
    <3> QED BY <1>5, <2>1, <2>2, <2>3, <3>1, <3>2
  <2>5. CASE ~Room(calls, a)
    <3>1. ReleaseScope(r, "running", {}, <<>>, scope[r].last)
      BY <1>8, <2>2, <2>3, <2>5 DEF Reclaim
    <3>2. scope[r].last \in Mine /\ runOf[scope[r].last] = r
      BY <1>4, <2>1 DEF ScopeOK
    <3> QED BY <1>2, <1>3, <2>1, <3>1, <3>2
  <2> QED BY <2>4, <2>5
<1>9. ASSUME NEW r \in Runs, MissDeadline(r) PROVE CallsOK'
  <2>1. scope[r].at = "away" /\ ReleaseScope(r, "running", {}, <<>>, scope[r].last)
    BY <1>9 DEF MissDeadline
  <2>2. ScopeOK(r)
    BY <1>1 DEF ProtocolOK
  <2>3. scope[r].last \in Mine /\ runOf[scope[r].last] = r
    BY <1>4, <2>1, <2>2 DEF ScopeOK
  <2> QED BY <1>2, <1>3, <2>1, <2>3
<1>10. ASSUME NEW r \in Runs, End(r) PROVE CallsOK'
  <2>1. ScopeOK(r) /\ scope[r].at = "running"
    BY <1>1, <1>10 DEF ProtocolOK, End
  <2>2. CASE scope[r].closed
    <3>1. calls' = calls /\ scope' = [scope EXCEPT ![r].at = "done"]
      BY <1>10, <2>2 DEF End
    <3>2. ASSUME NEW q \in calls
          PROVE  /\ q.op = "claim" => scope'[runOf[q.claim]].at \in {"claiming", "reclaiming"}
                 /\ q.op = "release" /\ q.yielding => scope'[runOf[q.claim]].at = "yielding"
                 /\ q.op = "release" /\ ~q.yielding => scope'[runOf[q.claim]].closed
      <4>1. runOf[q.claim] \in Runs
        BY <1>1, RequestFacts, MineFacts DEF ProtocolTypes, Fits
      <4>2. CASE runOf[q.claim] = r
        BY <1>1, <2>1, <2>2, <3>1, <4>1, <4>2 DEF CallsOK
      <4>3. CASE runOf[q.claim] # r
        BY <1>1, <3>1, <4>1, <4>3 DEF CallsOK
      <4> QED BY <4>2, <4>3
    <3> QED BY <3>1, <3>2 DEF CallsOK
  <2>3. CASE ~scope[r].closed
    <3>1. ReleaseScope(r, "done", {}, <<>>, scope[r].last)
      BY <1>10, <2>1, <2>3 DEF End, ScopeOK
    <3>2. scope[r].last \in Mine /\ runOf[scope[r].last] = r
      BY <1>4, <2>1, <2>3 DEF ScopeOK
    <3> QED BY <1>2, <1>3, <2>1, <2>3, <3>1, <3>2
  <2> QED BY <2>2, <2>3
<1>11. ASSUME NEW q \in calls, NEW result, NEW message, Resume(q, result, message)
       PROVE  CallsOK'
  <2>1. q \in Requests /\ q.claim \in Mine /\ runOf[q.claim] \in Runs
    BY <1>1, RequestFacts, MineFacts DEF ProtocolTypes, Fits
  <2>2. PICK r \in Runs : r = runOf[q.claim]
    BY <2>1
  <2>3. \A p \in calls : runOf[p.claim] = r => p \in {q}
    BY <2>2 DEF CallsOK
  <2>4. ASSUME calls' = calls \ {q}, \A p \in Runs \ {r} : scope'[p] = scope[p] PROVE CallsOK'
    <3>1. calls' \subseteq (calls \ {q}) \cup {q} /\ q \notin calls'
      BY <2>4
    <3> QED BY <1>1, <2>1, <2>2, <2>3, <2>4, <3>1, OneCallKept
  <2>5. \/ calls' = calls \ {q} /\ \A p \in Runs \ {r} : scope'[p] = scope[p]
        \/ ReleaseScope(r, "done", {q}, <<message>>, q.claim)
        \/ /\ scope[r].at = "reclaiming"
           /\ ReleaseScope(r, "running", {q}, <<message>>, scope[r].last)
    BY <1>1, <1>11, <2>2 DEF Resume
  <2>6. ScopeOK(r)
    BY <1>1 DEF ProtocolOK
  <2>7. scope[r].at = "reclaiming" => scope[r].last \in Mine /\ runOf[scope[r].last] = r
    BY <1>4, <2>6 DEF ScopeOK
  <2> QED BY <1>2, <2>1, <2>2, <2>3, <2>4, <2>5, <2>7
<1>12. ASSUME UNCHANGED <<scope, calls>> PROVE CallsOK'
  BY <1>12 DEF CallsOK
<1>13. ASSUME WorkerReceive PROVE CallsOK'
  BY <1>11, <1>12, <1>13 DEF WorkerReceive
<1>14. ASSUME NEW q \in Requests, GiveUp(q) PROVE CallsOK'
  BY <1>11, <1>14 DEF GiveUp
<1>15. ASSUME NEW q \in Requests, Resolved(q) \/ Admitted(q) \/ Verified(q) \/ MissReceipt(q)
       PROVE  CallsOK'
  BY <1>12, <1>15 DEF Resolved, Admitted, Verified, MissReceipt, workerVars
<1>16. ASSUME HostReceive \/ Invalidate \/ Elsewhere \/ UNCHANGED leaseVars PROVE CallsOK'
  BY <1>12, <1>16 DEF HostReceive, Invalidate, Elsewhere, Apart, leaseVars, workerVars
<1>17. ASSUME Disconnect PROVE CallsOK'
  <2>1. calls' = {}
    BY <1>17 DEF Disconnect
  <2> QED BY <2>1 DEF CallsOK
<1> QED BY <1>6, <1>7, <1>8, <1>9, <1>10, <1>13, <1>14, <1>15, <1>16, <1>17 DEF LeaseNext

\* A worker that runs fewer turns than WORKER_HOST_MAX_PENDING_REQUESTS allows calls
\* always has room for one more, so that no release is ever dropped for want of it.
THEOREM RoomForFewRuns ==
  ASSUME IsFiniteSet(Runs), Cardinality(Runs) < MaxRequests
  PROVE  LeaseSpec => []RoomLeft
<1>1. LeaseInit => CallsOK
  BY DEF LeaseInit, CallsOK
<1>2. ASSUME LeaseInv, CallsOK PROVE RoomLeft
  <2> DEFINE f == [q \in calls |-> runOf[q.claim]]
  <2>1. \A q \in calls : runOf[q.claim] \in Runs
    BY <1>2, RequestFacts, MineFacts DEF LeaseInv, ProtocolOK, ProtocolTypes, Fits
  <2>2. f \in Injection(calls, Runs)
    BY <1>2, <2>1 DEF CallsOK, Injection, IsInjective
  <2> HIDE DEF f
  <2>3. IsFiniteSet(calls) /\ Cardinality(calls) <= Cardinality(Runs)
    BY <2>2, FS_Injection
  <2>4. Cardinality(calls) \in Nat /\ Cardinality(Runs) \in Nat
    BY <2>3, FS_CardinalityType
  <2> QED BY <2>3, <2>4, WorkerAssumption DEF RoomLeft
<1> QED BY <1>1, <1>2, LeaseInvariant, CallsStep, PTL DEF LeaseSpec

\* Of such a worker no lease is ever left behind, but for the last lease of a run
\* whose release met a stale handler, and none of its claims is refused because of
\* what it did itself, however timeouts, cancels and disconnects fall.
THEOREM FewRunsLeaveNothing ==
  ASSUME IsFiniteSet(Runs), Cardinality(Runs) < MaxRequests
  PROVE  LeaseSpec => []NoOrphanLease /\ []NoSpuriousRefusals
BY RoomForFewRuns, NoOrphans, NoRefusals, PTL
=============================================================================
