--------------------------- MODULE ExecutionLease ---------------------------
(***************************************************************************)
(* How a run in a bot's worker process comes to hold a lease of the host's *)
(* ExecutionAdmission, and how it gives it back:                           *)
(*   - acquireExecutionLease and its yieldFor, in the worker;              *)
(*   - requestWorkerHost (worker) and attachWorkerHostRpc (host), the      *)
(*     request/reply/acknowledge/cancel protocol between them;             *)
(*   - the host's handler of execution.claim and execution.release, with   *)
(*     the witness map that vouches for the parent of an ACP child run.    *)
(*                                                                         *)
(* One worker is modelled in full; the claims of other bots and the user's *)
(* own writes reach the admission table directly.  Both channels are       *)
(* first-in first-out (Node IPC), so the host's check that sequence        *)
(* numbers grow always passes, and requests carry none here.  A request is *)
(* known by what it asks for: a run makes each of its claims once, and     *)
(* releases one at most once yielding and once for good.                   *)
(***************************************************************************)
EXTENDS ExecutionAdmission

CONSTANTS
  Worker,          \* the bot whose worker is modelled
  Runs,            \* its runs
  claimsOf,        \* [Runs -> Seq(Claims)], the claims a run makes, in order
  parentOf,        \* [Runs -> Runs or NoRun]: the run that spawns an ACP child
  NoRun, NoLease,
  MaxRequests,     \* WORKER_HOST_MAX_PENDING_REQUESTS
  MaxClaims,       \* WORKER_HOST_MAX_PENDING_EXECUTION_CLAIMS
  SlowReceipts     \* TRUE: a reply or its receipt may take over 55 seconds

Mine == UNION {Range(claimsOf[r]) : r \in Runs}

ASSUME WorkerAssumption ==
  /\ Worker \in Bots
  /\ claimsOf \in [Runs -> Seq(Claims \ Direct)]
  /\ \A r \in Runs : \A c \in Range(claimsOf[r]) :
       /\ runOf[c] = r
       /\ botOf[c] = Worker
       /\ kindOf[c] = "automatic-acp" <=> parentOf[r] # NoRun
  /\ \A r \in Runs : claimsOf[r] # <<>> /\ IsInjective(claimsOf[r])
  /\ parentOf \in [Runs -> Runs \cup {NoRun}]
  /\ \A c \in Claims \ Mine : botOf[c] # Worker /\ runOf[c] \notin Runs
  /\ NoLease \notin Claims
  /\ MaxRequests \in Nat
  /\ MaxClaims \in Nat
  /\ SlowReceipts \in BOOLEAN

VARIABLES
  \* in the worker
  scope,             \* per run: where its coroutine is and the lease it holds
  made,              \* per run: how many of its claims it has made
  calls,             \* the worker's pending map: requests without a reply
  \* the channels
  toHost, toWorker,
  \* in the host
  requests,          \* the host's map: requests not yet acknowledged
  handler,           \* per request, how far its handler has come
  aborted,           \* requests abandoned while their handler was running
  foregroundParents, \* per run: the lease its witness names
  stale              \* the bot's activationGeneration moved under its handler

workerVars == <<scope, made, calls>>
hostVars == <<requests, handler, aborted, foregroundParents>>
leaseVars == <<vars, workerVars, toHost, toWorker, hostVars, stale>>

ClaimRequest(c) == [op |-> "claim", claim |-> c, yielding |-> FALSE]
ReleaseRequest(c, yielding) ==
  [op |-> "release", claim |-> c, yielding |-> yielding]

Requests == {ClaimRequest(c) : c \in Mine}
              \cup {ReleaseRequest(c, y) : c \in Mine, y \in BOOLEAN}

\* The messages to the host; a message to the worker is [of, result].
Call(q) == [kind |-> "call", of |-> q]
Ack(q) == [kind |-> "ack", of |-> q]
Cancel(q) == [kind |-> "cancel", of |-> q]

Results == {"accepted", "refused", "released", "error", "backpressure"}

OfClaims(qs) == {q \in qs : q.op = "claim"}

RoomForOneMore(qs, q) ==
  /\ Cardinality(qs) <= MaxRequests
  /\ q.op = "claim" => Cardinality(OfClaims(qs)) <= MaxClaims

\* The limits on requests in flight, the same on both sides.
Room(qs, q) ==
  /\ Cardinality(qs) < MaxRequests
  /\ q.op = "claim" => Cardinality(OfClaims(qs)) < MaxClaims

-----------------------------------------------------------------------------
(* The worker *)

LeaseInit ==
  /\ Init
  /\ scope = [r \in Runs |-> [at |-> "idle", lease |-> NoLease,
                              last |-> NoLease, closed |-> FALSE]]
  /\ made = [r \in Runs |-> 0]
  /\ calls = {}
  /\ toHost = <<>>
  /\ toWorker = <<>>
  /\ requests = {}
  /\ handler = [q \in Requests |-> "none"]
  /\ aborted = {}
  /\ foregroundParents = [r \in Runs |-> NoLease]
  /\ stale = FALSE

\* A scope another part of the worker can see: getScopedExecutionLease().
Open(r) == ~scope[r].closed /\ scope[r].last # NoLease

\* Send the message and drop the request it settles, if any; then call the
\* host with q unless the worker has too much in flight.
SendAndCall(settled, messages, q) ==
  LET left == calls \ settled IN
  IF Room(left, q)
  THEN /\ calls' = left \cup {q}
       /\ toHost' = toHost \o Append(messages, Call(q))
  ELSE /\ calls' = left
       /\ toHost' = toHost \o messages

\* release(): nothing left to do if the scope is closed.
ReleaseScope(r, at, settled, messages, held) ==
  /\ scope' = [scope EXCEPT ![r] = [at |-> at, lease |-> NoLease,
                                    last |-> held, closed |-> TRUE]]
  /\ SendAndCall(settled, messages, ReleaseRequest(held, FALSE))

\* acquireExecutionLease(): an ACP child is spawned by an active parent.
Start(r) ==
  /\ scope[r].at = "idle"
  /\ parentOf[r] # NoRun => Open(parentOf[r])
  /\ LET q == ClaimRequest(claimsOf[r][1]) IN
     /\ Room(calls, q)
     /\ SendAndCall({}, <<>>, q)
  /\ made' = [made EXCEPT ![r] = 1]
  /\ scope' = [scope EXCEPT ![r].at = "claiming"]
  /\ UNCHANGED <<vars, toWorker, hostVars, stale>>

YieldKeeping(r) ==
  /\ scope[r].at = "running"
  /\ scope[r].lease # NoLease
  /\ made[r] < Len(claimsOf[r])
  /\ SendAndCall({}, <<>>, ReleaseRequest(scope[r].lease, TRUE))
  /\ scope' = [scope EXCEPT ![r].at = "yielding"]
  /\ UNCHANGED <<vars, made, toWorker, hostVars, stale>>

\* yieldFor(): give the lease back while other work runs.  If the release
\* cannot even be sent, the work starts at once.
Yield(r) ==
  /\ scope[r].at = "running"
  /\ scope[r].lease # NoLease
  /\ made[r] < Len(claimsOf[r])
  /\ LET q == ReleaseRequest(scope[r].lease, TRUE) IN
     /\ SendAndCall({}, <<>>, q)
     /\ scope' = [scope EXCEPT
          ![r].lease = NoLease,
          ![r].at = IF Room(calls, q) THEN "yielding" ELSE "away"]
  /\ UNCHANGED <<vars, made, toWorker, hostVars, stale>>

\* The work is over and the deadline is not: claim the lease anew.
Reclaim(r) ==
  /\ scope[r].at = "away"
  /\ made' = [made EXCEPT ![r] = @ + 1]
  /\ LET q == ClaimRequest(claimsOf[r][made[r] + 1]) IN
     IF Room(calls, q)
     THEN /\ SendAndCall({}, <<>>, q)
          /\ scope' = [scope EXCEPT ![r].at = "reclaiming"]
     ELSE ReleaseScope(r, "running", {}, <<>>, scope[r].last)
  /\ UNCHANGED <<vars, toWorker, hostVars, stale>>

\* The work outlasted the deadline: the scope is closed, the turn goes on.
MissDeadline(r) ==
  /\ scope[r].at = "away"
  /\ ReleaseScope(r, "running", {}, <<>>, scope[r].last)
  /\ UNCHANGED <<vars, made, toWorker, hostVars, stale>>

\* The turn is over: the finally of its owner releases the lease.
End(r) ==
  /\ scope[r].at = "running"
  /\ IF scope[r].closed
     THEN /\ scope' = [scope EXCEPT ![r].at = "done"]
          /\ UNCHANGED <<calls, toHost>>
     ELSE ReleaseScope(r, "done", {}, <<>>, scope[r].lease)
  /\ UNCHANGED <<vars, made, toWorker, hostVars, stale>>

\* An ACP child granted a lease after its parent closed gives it back.
Orphaned(r) == parentOf[r] # NoRun /\ ~Open(parentOf[r])

\* The coroutine that awaits call q goes on with its result; the message tells
\* the host that the call is settled.
Resume(q, result, message) ==
  LET r == runOf[q.claim]
      c == q.claim
      settle == /\ calls' = calls \ {q}
                /\ toHost' = Append(toHost, message)
  IN
  \/ /\ q.op = "release"
     /\ settle
     /\ scope' = IF q.yielding /\ scope[r].at = "yielding"
                 THEN [scope EXCEPT ![r].at = "away"] ELSE scope
  \/ /\ q.op = "claim" /\ result = "accepted" /\ ~Orphaned(r)
     /\ settle
     /\ scope' = [scope EXCEPT ![r].at = "running", ![r].lease = c,
                               ![r].last = c]
  \/ /\ q.op = "claim" /\ result = "accepted" /\ Orphaned(r)
     /\ ReleaseScope(r, "done", {q}, <<message>>, c)
  \/ /\ q.op = "claim" /\ result # "accepted" /\ scope[r].at = "claiming"
     /\ settle
     /\ scope' = [scope EXCEPT ![r].at = "done"]
  \/ /\ q.op = "claim" /\ result # "accepted" /\ scope[r].at = "reclaiming"
     /\ ReleaseScope(r, "running", {q}, <<message>>, scope[r].last)

\* The worker's message listener.  A reply nobody waits for is cancelled.
WorkerReceive ==
  /\ toWorker # <<>>
  /\ toWorker' = Tail(toWorker)
  /\ LET m == Head(toWorker) IN
     IF m.of \in calls
     THEN Resume(m.of, m.result, Ack(m.of))
     ELSE /\ toHost' = Append(toHost, Cancel(m.of))
          /\ UNCHANGED <<scope, calls>>
  /\ UNCHANGED <<vars, made, hostVars, stale>>

\* A call's timer fires, or the run's signal aborts it.
GiveUp(q) ==
  /\ q \in calls
  /\ Resume(q, "error", Cancel(q))
  /\ UNCHANGED <<vars, made, toWorker, hostVars, stale>>

-----------------------------------------------------------------------------
(* The host *)

Reply(q, result) == toWorker' = Append(toWorker, [of |-> q, result |-> result])

FailUntold(q) ==
  /\ handler' = [handler EXCEPT ![q] = "none"]
  /\ requests' = requests \ {q}
  /\ aborted' = aborted \ {q}
  /\ UNCHANGED toWorker

\* The handler threw or its promise rejected: an error reply, which the host
\* does not track, or nothing if the request was abandoned.
Fail(q) ==
  /\ IF q \in aborted THEN UNCHANGED toWorker ELSE Reply(q, "error")
  /\ handler' = [handler EXCEPT ![q] = "none"]
  /\ requests' = requests \ {q}
  /\ aborted' = aborted \ {q}

\* A lease given back; a second release of it finds nothing.
GiveBack(c) ==
  IF promise[c] = "accepted" THEN Release(c) ELSE UNCHANGED vars

HandleReleaseAlike(q) ==
  LET r == runOf[q.claim] IN
  /\ GiveBack(q.claim)
  /\ foregroundParents' =
       IF foregroundParents[r] = q.claim
       THEN [foregroundParents EXCEPT ![r] = NoLease] ELSE foregroundParents
  /\ handler' = [handler EXCEPT ![q] = "replied"]
  /\ Reply(q, "released")

\* execution.release: handled before the host reads its next message.
HandleRelease(q) ==
  LET r == runOf[q.claim] IN
  /\ GiveBack(q.claim)
  /\ foregroundParents' =
       IF ~q.yielding /\ foregroundParents[r] = q.claim
       THEN [foregroundParents EXCEPT ![r] = NoLease] ELSE foregroundParents
  /\ handler' = [handler EXCEPT ![q] = "replied"]
  /\ Reply(q, "released")

\* Take back what an abandoned reply granted.
RollbackNothing(q) == UNCHANGED vars

Rollback(q) == IF q.op = "claim" THEN GiveBack(q.claim) ELSE UNCHANGED vars

\* abandon(): abort the handler's signal and take back what it granted.
Abandon(q) ==
  IF q \notin requests
  THEN UNCHANGED <<vars, requests, handler, aborted>>
  ELSE
  /\ requests' = requests \ {q}
  /\ IF handler[q] = "replied"
     THEN /\ handler' = [handler EXCEPT ![q] = "none"]
          /\ UNCHANGED aborted
          /\ Rollback(q)
     ELSE /\ aborted' = aborted \cup {q}
          /\ UNCHANGED handler
          /\ IF handler[q] = "admission" /\ promise[q.claim] = "waiting"
             THEN Abort(q.claim) ELSE UNCHANGED vars

\* The worker has the reply: the host stops answering for it.
AcknowledgeLater(q) == UNCHANGED <<requests, handler>>

Acknowledge(q) ==
  /\ requests' = requests \ {q}
  /\ handler' = IF q \in requests
                THEN [handler EXCEPT ![q] = "none"] ELSE handler

\* A stale handler throws before it looks at the request, be it a claim or a
\* release: nothing changes, and the worker swallows the error.
Refuse(q) ==
  /\ Reply(q, "error")
  /\ UNCHANGED <<vars, hostVars>>

\* onMessage() of attachWorkerHostRpc.
HostReceive ==
  /\ toHost # <<>>
  /\ toHost' = Tail(toHost)
  /\ LET m == Head(toHost)
         q == m.of
     IN
     \/ /\ m.kind = "call" /\ ~Room(requests, q)
        /\ Reply(q, "backpressure")
        /\ UNCHANGED <<vars, hostVars>>
     \/ /\ m.kind = "call" /\ Room(requests, q) /\ stale
        /\ Refuse(q)
     \/ /\ m.kind = "call" /\ Room(requests, q) /\ ~stale /\ q.op = "claim"
        /\ requests' = requests \cup {q}
        /\ handler' = [handler EXCEPT ![q] = "resolving"]
        /\ UNCHANGED <<vars, toWorker, aborted, foregroundParents>>
     \/ /\ m.kind = "call" /\ Room(requests, q) /\ ~stale /\ q.op = "release"
        /\ requests' = requests \cup {q}
        /\ HandleRelease(q)
        /\ UNCHANGED aborted
     \/ /\ m.kind = "cancel"
        /\ Abandon(q)
        /\ UNCHANGED <<toWorker, foregroundParents>>
     \/ /\ m.kind = "ack"
        /\ Acknowledge(q)
        /\ UNCHANGED <<vars, toWorker, aborted, foregroundParents>>
  /\ UNCHANGED <<workerVars, stale>>

\* matchesAutomaticAcpParent(), for claims of ACP children.
ParentMatches(c) ==
  LET p == parentOf[runOf[c]] IN p # NoRun => foregroundParents[p] # NoLease

\* The handler of a claim has resolved its conversation's workspace, or found
\* none, and asks the admission table.
Resolved(q) ==
  /\ handler[q] = "resolving"
  /\ \/ Fail(q) /\ UNCHANGED vars
     \/ /\ q \notin aborted
        /\ ParentMatches(q.claim)
        /\ Acquire(q.claim)
        /\ handler' = [handler EXCEPT ![q] = "admission"]
        /\ UNCHANGED <<requests, aborted, toWorker>>
  /\ UNCHANGED <<workerVars, toHost, foregroundParents, stale>>

\* The admission table has answered.
Admitted(q) ==
  /\ handler[q] = "admission"
  /\ \/ /\ promise[q.claim] = "accepted"
        /\ handler' = [handler EXCEPT ![q] = "verifying"]
        /\ UNCHANGED <<toWorker, requests, aborted>>
     \/ /\ promise[q.claim] \notin {"waiting", "accepted"}
        /\ IF q \in aborted THEN Fail(q)
           ELSE /\ handler' = [handler EXCEPT ![q] = "replied"]
                /\ Reply(q, "refused")
                /\ UNCHANGED <<requests, aborted>>
  /\ UNCHANGED <<vars, workerVars, toHost, foregroundParents, stale>>

\* After the wait the handler resolves the workspace again.  Unless it changed,
\* the bot's activation did, the claim was abandoned or the parent's witness
\* went, the grant stands.
Verified(q) ==
  /\ handler[q] = "verifying"
  /\ \/ /\ Fail(q)
        /\ GiveBack(q.claim)
        /\ UNCHANGED foregroundParents
     \/ /\ q \notin aborted
        /\ ~stale
        /\ ParentMatches(q.claim)
        /\ foregroundParents' =
             IF kindOf[q.claim] = "foreground"
             THEN [foregroundParents EXCEPT ![runOf[q.claim]] = q.claim]
             ELSE foregroundParents
        /\ handler' = [handler EXCEPT ![q] = "replied"]
        /\ Reply(q, "accepted")
        /\ UNCHANGED <<vars, requests, aborted>>
  /\ UNCHANGED <<workerVars, toHost, stale>>

InFlight(q) ==
  \/ \E i \in 1..Len(toWorker) : toWorker[i].of = q
  \/ \E i \in 1..Len(toHost) : toHost[i].of = q

\* The receipt timer: the worker has not acknowledged a reply in time.
MissReceipt(q) ==
  /\ q \in requests
  /\ handler[q] = "replied"
  /\ SlowReceipts \/ ~InFlight(q)
  /\ Abandon(q)
  /\ UNCHANGED <<workerVars, toHost, toWorker, foregroundParents, stale>>

\* invalidateActivation(): the bot is being stopped or archived, or the host
\* stops every execution of the fleet, which the worker outlives.  A bot is
\* edited only while it has no worker.
Invalidate ==
  /\ stale' = TRUE
  /\ UNCHANGED <<vars, workerVars, toHost, toWorker, hostVars>>

\* The worker is gone: the host detaches it, clears the witnesses and releases
\* all that the bot holds.  A new worker, with a handler of its own, starts with
\* the runs not begun yet.
Disconnect ==
  /\ ReleaseBot(Worker)
  /\ requests' = {}
  /\ aborted' = {q \in Requests :
                   handler[q] \in {"resolving", "admission", "verifying"}}
  /\ handler' = [q \in Requests |->
                   IF q \in aborted' THEN handler[q] ELSE "none"]
  /\ foregroundParents' = [r \in Runs |-> NoLease]
  /\ toHost' = <<>>
  /\ toWorker' = <<>>
  /\ calls' = {}
  /\ scope' = [r \in Runs |->
                 IF scope[r].at = "idle" THEN scope[r]
                 ELSE [at |-> "done", lease |-> NoLease, last |-> NoLease,
                       closed |-> TRUE]]
  /\ stale' = FALSE
  /\ UNCHANGED made

\* The claims of everyone else, and the timers of claims that wait.
Apart == UNCHANGED <<workerVars, toHost, toWorker, hostVars, stale>>

Elsewhere ==
  /\ \/ \E c \in Claims \ Mine : Claim(c) \/ Acquire(c) \/ Release(c)
     \/ \E c \in Claims : Expire(c)
  /\ Apart

LeaseNext ==
  \/ \E r \in Runs :
       Start(r) \/ Yield(r) \/ Reclaim(r) \/ MissDeadline(r) \/ End(r)
  \/ WorkerReceive
  \/ HostReceive
  \/ \E q \in Requests :
       GiveUp(q) \/ Resolved(q) \/ Admitted(q) \/ Verified(q) \/ MissReceipt(q)
  \/ Invalidate
  \/ Disconnect
  \/ Elsewhere

LeaseSpec == LeaseInit /\ [][LeaseNext]_leaseVars

\* Messages are delivered, handlers come to an end, work and turns finish and
\* the user's own writes end.  No timer, abort or disconnect is relied upon.
FairLeaseSpec ==
  /\ LeaseSpec
  /\ WF_leaseVars(WorkerReceive)
  /\ WF_leaseVars(HostReceive)
  /\ \A c \in Mine : LET q == ClaimRequest(c) IN
       WF_leaseVars(Resolved(q) \/ Admitted(q) \/ Verified(q))
  /\ \A r \in Runs : WF_leaseVars(Reclaim(r) \/ MissDeadline(r))
  /\ \A r \in Runs : WF_leaseVars(End(r))
  /\ \A c \in Claims \ Mine : WF_leaseVars(Release(c) /\ Apart)

-----------------------------------------------------------------------------
Lease == Mine \cup {NoLease}
Message == [kind : {"call", "ack", "cancel"}, of : Requests]

LeaseTypeOK ==
  /\ TypeOK
  /\ scope \in [Runs -> [at : {"idle", "claiming", "running", "yielding", "away",
                              "reclaiming", "done"},
                        lease : Lease, last : Lease, closed : BOOLEAN]]
  /\ made \in [Runs -> Nat]
  /\ calls \subseteq Requests
  /\ \A qs \in {calls, requests} :
       Cardinality(qs) <= MaxRequests /\ Cardinality(OfClaims(qs)) <= MaxClaims
  /\ toHost \in Seq(Message)
  /\ toWorker \in Seq([of : Requests, result : Results])
  /\ requests \subseteq Requests
  /\ handler \in [Requests -> {"none", "resolving", "admission", "verifying",
                               "replied"}]
  /\ aborted \subseteq Requests
  /\ foregroundParents \in [Runs -> Lease]
  /\ stale \in BOOLEAN

Believed == {scope[r].lease : r \in Runs} \ {NoLease}

\* Whoever executes as a writer, as far as it knows.
Executing == Believed \cup {c \in Claims \ Mine : promise[c] = "accepted"}

\* No run of the worker executes as a writer while anyone else executes as a
\* writer on an overlapping root.  The table excludes leases from each other;
\* this says the worker's idea of what it holds is never ahead of the table,
\* through late replies, cancels, rollbacks and re-claims.
WritersExcluded ==
  \A c, d \in Executing : c # d => ~Conflicting(c, d)

Quiet ==
  /\ toHost = <<>>
  /\ toWorker = <<>>
  /\ \A q \in Requests : handler[q] = "none"

\* What its scope held last and holds no more, when the handler is stale: its
\* release is refused, so that it stays in the table until the worker exits.
Unreturned(c) ==
  stale /\ scope[runOf[c]].last = c /\ scope[runOf[c]].lease # c

\* When nothing is in flight, every lease of the worker belongs to a scope that
\* will release it: a grant that raced a timeout, a cancel or a disconnect was
\* taken back.  A handler that went stale leaves no more than what a scope held
\* when its release was refused, one lease a run; what raced is still taken back.
NoOrphanLease ==
  Quiet => \A c \in leases \cap Mine : c \in Believed \/ Unreturned(c)

\* Nothing the worker did itself makes the host refuse it.  A request it had room
\* for finds room there: what freed it, an acknowledgement or a cancel, arrived
\* before.  And a run that claims anew after yielding never meets its own earlier
\* lease or claim.
NoSpuriousRefusals ==
  /\ \A i \in 1..Len(toWorker) : toWorker[i].result # "backpressure"
  /\ \A c \in Mine : promise[c] # "run_exists"

\* An open foreground scope is vouched for by the lease it got last, also while
\* that lease is given back for the work: its ACP children can be admitted.
WitnessFollowsScope ==
  \A r \in Runs :
    parentOf[r] = NoRun /\ Open(r) /\ scope[r].at # "reclaiming"
      => foregroundParents[r] = scope[r].last

Claiming(r) == scope[r].at \in {"claiming", "reclaiming"}

HoldsLease(r) == \E c \in leases \cap Mine : runOf[c] = r

\* Whatever the worker lost track of, a run that claims or whose lease is in the
\* table comes to have neither a claim unanswered nor a lease in the table, without
\* any timer and without the worker's exit.  The exception is a stale handler: what
\* a scope held last stays, and a claim that waits behind it is left to its timer.
ClaimsAndLeasesEnd ==
  \A r \in Runs : Claiming(r) \/ HoldsLease(r)
                   ~> \/ ~Claiming(r) /\ ~HoldsLease(r)
                      \/ \E c \in leases \cap Mine : Unreturned(c)
=============================================================================
