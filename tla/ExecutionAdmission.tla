------------------------- MODULE ExecutionAdmission -------------------------
(***************************************************************************)
(* DesktopExecutionAdmission of apps/desktop/src/main/execution-admission: *)
(* the process-wide table that decides which bot runs may execute now, the *)
(* per-bot waiting queues and the round-robin drain that serves them.      *)
(*                                                                         *)
(* JavaScript runs each method, timer callback and abort listener to       *)
(* completion, so one action below is one such call, the drain() it ends   *)
(* in included.                                                            *)
(*                                                                         *)
(* A claim is one ClaimInput together with the promise its caller holds.   *)
(* It may be issued again once its promise has been settled and, if it was *)
(* accepted, its caller is done with it.  A lease is known by the claim it *)
(* was granted to: a lease id is a fresh UUID that only that claim's       *)
(* caller learns.                                                          *)
(***************************************************************************)
EXTENDS Naturals, Integers, FiniteSets, SequencesExt

CONSTANTS
  Bots,             \* bot identities attested by the host
  Claims,           \* claims that may be made
  Direct,           \* claims made by claim(): a desktop write, never queued
  botOf,            \* [Claims -> Bots]
  runOf,            \* [Claims -> run ids]
  kindOf,           \* [Claims -> Kinds]
  rootOf,           \* [Claims -> mutation roots, as path segments, or NoRoot]
  NoRoot,           \* the undefined mutation root of a claim that never writes
  DotNames,         \* path segments whose name begins with ".."
  MaxConcurrent, MaxAutomaticAcp, MaxPerBotActive, MaxPending, MaxPendingPerBot

Kinds == {"foreground", "automatic-acp"}

\* What the caller of a claim has been told.  "idle": nothing is outstanding.
Outcomes ==
  {"idle", "waiting", "accepted", "aborted", "run_exists", "total_limit",
   "bot_limit", "automatic_acp_limit", "mutation_conflict", "queue_full",
   "queue_timeout", "bot_stopped"}

ASSUME LimitsAssumption ==
  /\ MaxConcurrent \in Nat \ {0}
  /\ MaxAutomaticAcp \in 1..MaxConcurrent
  /\ MaxPerBotActive \in 1..MaxConcurrent
  /\ MaxPending \in Nat \ {0}
  /\ MaxPendingPerBot \in 1..MaxPending

ASSUME ClaimsAssumption ==
  /\ Direct \subseteq Claims
  /\ botOf \in [Claims -> Bots]
  /\ kindOf \in [Claims -> Kinds]
  /\ DOMAIN runOf = Claims
  /\ DOMAIN rootOf = Claims

\* A desktop write makes up a fresh run id (desktop-write:<uuid>).
ASSUME DirectAssumption ==
  \A c \in Direct, d \in Claims : runOf[c] = runOf[d] => c = d

VARIABLES
  leases,        \* claims that hold a lease
  pending,       \* per bot, its waiting claims in arrival order
  botOrder,      \* bots with waiting claims, next to be served first
  pendingCount,  \* the code's counter of waiting claims
  promise        \* what each claim's caller has been told

vars == <<leases, pending, botOrder, pendingCount, promise>>

-----------------------------------------------------------------------------
(* check() *)

\* Mutants: operators that no definition uses.  Each is a plausible bug in the
\* operator defined after it and shows which property would notice.

\* relative(a, b) descends from a into b.  The code takes a descent through a
\* segment whose name begins with ".." for a path that leaves a.
Inside(a, b) ==
  IsStrictPrefix(a, b) /\ b[Len(a) + 1] \notin DotNames

RootsOverlapOneWay(a, b) == a = b \/ Inside(a, b)

RootsOverlap(a, b) == a = b \/ Inside(a, b) \/ Inside(b, a)

Conflicting(c, d) ==
  /\ rootOf[c] # NoRoot
  /\ rootOf[d] # NoRoot
  /\ RootsOverlap(rootOf[d], rootOf[c])

OfBot(b, ls) == {c \in ls : botOf[c] = b}
Automatic(ls) == {c \in ls : kindOf[c] = "automatic-acp"}

\* The five refusals of check().
ClaimHeld(c, ls) == c \in ls

RunHeld(c, ls) == \E d \in ls : runOf[d] = runOf[c]

TotalFull(c, ls) == Cardinality(ls) >= MaxConcurrent

BotFullLate(c, ls) == Cardinality(OfBot(botOf[c], ls)) > MaxPerBotActive

BotFull(c, ls) == Cardinality(OfBot(botOf[c], ls)) >= MaxPerBotActive

AutomaticFull(c, ls) ==
  kindOf[c] = "automatic-acp" /\ Cardinality(Automatic(ls)) >= MaxAutomaticAcp

RootTaken(c, ls) == \E d \in ls : Conflicting(c, d)

\* check() returns null.
Admissible(c, ls) ==
  /\ ~RunHeld(c, ls)
  /\ ~TotalFull(c, ls)
  /\ ~BotFull(c, ls)
  /\ ~AutomaticFull(c, ls)
  /\ ~RootTaken(c, ls)

\* The reason it returns otherwise: the first that applies.
FirstRefusal(c, ls) ==
  IF RunHeld(c, ls) THEN "run_exists"
  ELSE IF TotalFull(c, ls) THEN "total_limit"
  ELSE IF BotFull(c, ls) THEN "bot_limit"
  ELSE IF AutomaticFull(c, ls) THEN "automatic_acp_limit"
  ELSE "mutation_conflict"

-----------------------------------------------------------------------------
(* The private methods, as functions of the whole store. *)

Store == [leases |-> leases, pending |-> pending, botOrder |-> botOrder,
          pendingCount |-> pendingCount, promise |-> promise]

Become(s) ==
  /\ leases' = s.leases
  /\ pending' = s.pending
  /\ botOrder' = s.botOrder
  /\ pendingCount' = s.pendingCount
  /\ promise' = s.promise

BecomeOneOf(stores) == \E s \in stores : Become(s)

RemovePending(s, c) ==
  LET b == botOf[c]
      rest == RemoveFirst(s.pending[b], c)
  IN [s EXCEPT !.pending[b] = rest,
               !.pendingCount = @ - 1,
               !.botOrder = IF rest = <<>> THEN RemoveFirst(@, b) ELSE @]

GrantUnsaid(s, c) == [s EXCEPT !.leases = @ \cup {c}, !.promise[c] = "idle"]

Grant(s, c) == [s EXCEPT !.leases = @ \cup {c}, !.promise[c] = "accepted"]

RotateNever(order, b) == order

\* The bot just served goes to the end of the order if it still waits.
Rotate(order, b) ==
  IF Contains(order, b) THEN Append(RemoveFirst(order, b), b) ELSE order

First(queue) == Head(queue)

\* Positions in botOrder whose bot's first waiting claim is admissible.
Servable(s) ==
  {i \in 1..Len(s.botOrder) :
     /\ s.pending[s.botOrder[i]] # <<>>
     /\ Admissible(First(s.pending[s.botOrder[i]]), s.leases)}

LastServable(s) == s.botOrder[Max(Servable(s))]

NextServed(s) == s.botOrder[Min(Servable(s))]

\* One pass of drain()'s outer loop: serve the first servable bot.
DrainPass(s) ==
  IF Servable(s) = {} THEN s
  ELSE LET b == NextServed(s)
           c == First(s.pending[b])
           granted == Grant(RemovePending(s, c), c)
       IN [granted EXCEPT !.botOrder = Rotate(@, b)]

\* The stores drain() can leave behind: always exactly one.  The loop ends at
\* the first pass that grants nothing; a pass that grants takes a claim off the
\* queues, so MaxPending passes reach that point.
Drain(s) ==
  LET passes[n \in Nat] ==
        IF n = 0 THEN {s} ELSE {DrainPass(t) : t \in passes[n - 1]}
  IN passes[MaxPending]

-----------------------------------------------------------------------------
Init ==
  /\ leases = {}
  /\ pending = [b \in Bots |-> <<>>]
  /\ botOrder = <<>>
  /\ pendingCount = 0
  /\ promise = [c \in Claims |-> "idle"]

\* The caller has no promise outstanding and no lease it believes in.
Free(c) == promise[c] \notin {"waiting", "accepted"}

Settle(c, outcome) ==
  /\ promise' = [promise EXCEPT ![c] = outcome]
  /\ UNCHANGED <<leases, pending, botOrder, pendingCount>>

\* The run already holds a lease or waits for one, whoever asks again.
RunKnown(c) ==
  \/ RunHeld(c, leases)
  \/ \E b \in Bots : \E i \in 1..Len(pending[b]) : runOf[pending[b][i]] = runOf[c]

QueueFullInTotal(c) == pendingCount >= MaxPending

QueueFull(c) ==
  \/ pendingCount >= MaxPending
  \/ Len(pending[botOf[c]]) >= MaxPendingPerBot

Enqueue(s, c) ==
  LET b == botOf[c] IN
  [s EXCEPT !.pending[b] = Append(@, c),
            !.botOrder = IF s.pending[b] = <<>> THEN Append(@, b) ELSE @,
            !.pendingCount = @ + 1,
            !.promise[c] = "waiting"]

\* claim(): immediate admission of a desktop write, past the queues.
Claim(c) ==
  /\ c \in Direct
  /\ Free(c)
  /\ IF Admissible(c, leases) THEN Become(Grant(Store, c))
                              ELSE Settle(c, FirstRefusal(c, leases))

\* acquire() whose signal is already aborted: the promise rejects at once.
AcquireAborted(c) ==
  /\ c \in Claims \ Direct
  /\ Free(c)
  /\ Settle(c, "aborted")

\* acquire().  Callers pass no deadline, so the wait is queueTimeoutMs > 0.
Acquire(c) ==
  /\ c \in Claims \ Direct
  /\ Free(c)
  /\ \/ RunKnown(c) /\ Settle(c, "run_exists")
     \/ ~RunKnown(c) /\ QueueFull(c) /\ Settle(c, "queue_full")
     \/ ~RunKnown(c) /\ ~QueueFull(c) /\ BecomeOneOf(Drain(Enqueue(Store, c)))

WithdrawOnly(c, outcome) ==
  /\ Contains(pending[botOf[c]], c)
  /\ Become([RemovePending(Store, c) EXCEPT !.promise[c] = outcome])

\* A waiting claim leaves the queue with the given outcome, then drain() runs.
Withdraw(c, outcome) ==
  /\ Contains(pending[botOf[c]], c)
  /\ BecomeOneOf(
       Drain([RemovePending(Store, c) EXCEPT !.promise[c] = outcome]))

Expire(c) == Withdraw(c, "queue_timeout")     \* the claim's timer fires
Abort(c) == Withdraw(c, "aborted")            \* its signal aborts

\* release() by the caller of an accepted claim.  A lease that releaseBot
\* already took away is not found and nothing else changes.
Release(c) ==
  /\ promise[c] = "accepted"
  /\ LET done == [Store EXCEPT !.promise[c] = "idle"] IN
     IF c \in leases THEN BecomeOneOf(Drain([done EXCEPT !.leases = @ \ {c}]))
                     ELSE Become(done)

Waiting(b) == {c \in Claims : Contains(pending[b], c)}

\* releaseBot(): the bot stopped or its worker disconnected.
ReleaseBot(b) ==
  BecomeOneOf(Drain(
    [leases |-> leases \ OfBot(b, leases),
     pending |-> [pending EXCEPT ![b] = <<>>],
     botOrder |-> RemoveFirst(botOrder, b),
     pendingCount |-> pendingCount - Len(pending[b]),
     promise |-> [c \in Claims |->
                    IF c \in Waiting(b) THEN "bot_stopped" ELSE promise[c]]]))

Next ==
  \/ \E c \in Claims :
       \/ Claim(c)
       \/ AcquireAborted(c)
       \/ Acquire(c)
       \/ Expire(c)
       \/ Abort(c)
       \/ Release(c)
  \/ \E b \in Bots : ReleaseBot(b)

Spec == Init /\ [][Next]_vars

\* Every run ends and gives its lease back (the finally of its caller); no
\* timer is relied upon.
ReleaseSpec == Spec /\ \A c \in Claims : WF_vars(Release(c))

-----------------------------------------------------------------------------
TypeOK ==
  /\ leases \in SUBSET Claims
  /\ IsFiniteSet(leases)
  /\ pending \in [Bots -> Seq(Claims)]
  /\ \A b \in Bots : Len(pending[b]) <= MaxPendingPerBot
  /\ botOrder \in Seq(Bots)
  /\ pendingCount \in Int
  /\ promise \in [Claims -> Outcomes]

\* No interleaving of grants, queue drains and direct desktop writes takes
\* the lease table past any of the operator's limits (execution-admission.ts,
\* check: total, per bot and automatic ACP).
LimitsHold ==
  /\ Cardinality(leases) <= MaxConcurrent
  /\ \A b \in Bots : Cardinality(OfBot(b, leases)) <= MaxPerBotActive
  /\ Cardinality(Automatic(leases)) <= MaxAutomaticAcp

\* Two executions that may write never hold overlapping mutation roots at the
\* same time, overlap as rootsOverlap computes it.
MutationExclusion ==
  \A c, d \in leases : c # d => ~Conflicting(c, d)

\* The same for real containment: no writer's root is inside, above or equal
\* to another's.  It follows from MutationExclusion only while no segment's
\* name begins with "..".
WritersDisjoint ==
  \A c, d \in leases :
     c # d /\ rootOf[c] # NoRoot /\ rootOf[d] # NoRoot
       => ~IsPrefix(rootOf[c], rootOf[d])

\* One run never holds two leases: neither a retry of a claim nor a claim that
\* waited while the run was admitted elsewhere gets a second one.
RunExclusive ==
  \A c, d \in leases : c # d => runOf[c] # runOf[d]

\* The three records of who waits agree: a promise is unsettled exactly while
\* its claim is in its own bot's queue, once; botOrder lists the bots that
\* wait, each once; the counter is the number of waiting claims.  A claim
\* dropped from a queue without settling its promise would hang its caller.
\* And every way capacity comes back (release, a stopped bot, a claim that gives
\* up at the head of its queue) ends in a drain that goes as far as it can:
\* at rest no bot's first waiting claim could be admitted.
QueuesServed ==
  /\ \A c \in Claims, b \in Bots :
       Contains(pending[b], c) <=> (promise[c] = "waiting" /\ b = botOf[c])
  /\ \A b \in Bots : IsInjective(pending[b])
  /\ IsInjective(botOrder)
  /\ \A b \in Bots : Contains(botOrder, b) <=> pending[b] # <<>>
  /\ pendingCount = Cardinality({c \in Claims : promise[c] = "waiting"})
  /\ \A b \in Bots :
       pending[b] # <<>> => ~Admissible(Head(pending[b]), leases)

-----------------------------------------------------------------------------
Position(b, c) == CHOOSE i \in 1..Len(pending[b]) : pending[b][i] = c

\* Within one bot claims are admitted in arrival order: when a waiting claim
\* gets its lease, none that arrived before it stays behind.
\* Between bots the order of service decides: if a step serves bot b and not
\* bot a, which stands before it in botOrder, then a's first claim could not
\* have been admitted beside everything else the step left, b's grants aside.
ServiceInOrder ==
  [][/\ \A b \in Bots : \A c, d \in Waiting(b) :
          Position(b, c) < Position(b, d) /\ d \in leases' /\ d \notin leases
            => ~Contains(pending'[b], c)
     /\ \A i, j \in 1..Len(botOrder) :
          LET a == botOrder[i]
              b == botOrder[j]
              served == OfBot(b, leases' \ leases)
          IN i < j /\ served \subseteq Waiting(b) /\ served # {} /\ pending'[a] = pending[a]
               => ~Admissible(Head(pending[a]), leases' \ served)]_vars

\* Every waiting claim is eventually answered, by a grant or by its timer.
WaitEnds ==
  \A c \in Claims : promise[c] = "waiting" ~> promise[c] # "waiting"

-----------------------------------------------------------------------------
\* The table as its callers see it.
Told == [c \in Claims |->
           CASE promise[c] = "accepted" -> "granted"
             [] promise[c] \in {"idle", "waiting"} -> promise[c]
             [] OTHER -> "refused"]

\* The sets of claims whose leases respect every limit and exclude each other
\* as check() has it.
Compatible ==
  {ls \in SUBSET Claims :
     /\ Cardinality(ls) <= MaxConcurrent
     /\ \A b \in Bots : Cardinality(OfBot(b, ls)) <= MaxPerBotActive
     /\ Cardinality(Automatic(ls)) <= MaxAutomaticAcp
     /\ \A c, d \in ls : c # d => runOf[c] # runOf[d] /\ ~Conflicting(c, d)}

Table == INSTANCE LeaseTable
           WITH answer <- Told, held <- leases, MayHold <- Compatible

\* Queues, drains, timers and stopped bots amount to the table callers are
\* promised: one answer to every claim, no lease without a grant, no lease
\* regained, and never two leases that may not be held together.
KeepsTable == Table!TableSpec
=============================================================================
