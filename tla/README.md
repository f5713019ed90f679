# Doolittle: a TLA+ verification project

Doolittle runs one or more agents ("bots"), each in a worker process of a
shared engine, behind a desktop application, an HTTP server, a terminal client
and an ACP endpoint. What is hard in it is not any single computation but the
agreement of several parties, each with its own map of what is going on: who
may execute now, whether a grant was received, whether a run has ended and how,
which worker belongs to which activation. This directory models those parties,
checks them with TLC on small instances, and proves for every instance what
matters most about most of them.

Paths below are relative to the repository, which is `src/` in `PROJECT.json`.

## 1. Inventory

`main/` stands for `apps/desktop/src/main/`, `agent/` for `packages/agent/src/`.

| Component | State it keeps | Operations | Talks to |
|---|---|---|---|
| Execution admission, `main/execution-admission.ts` | leases, per-bot queues, bot order, counter of waiting claims | claim, acquire, release, releaseBot, timers and abort callbacks, drain | called by the IPC handlers and the worker-host handlers of the main process |
| Worker-host protocol, `main/worker-host-rpc.ts` and `agent/runtime/bootstrap/worker-host-rpc.ts` | pending requests on both sides, sequence numbers, receipt timers | request, reply, acknowledge, cancel, abandon, detach | Node IPC between a bot's worker and the main process |
| Execution leases of runs, `agent/runtime/execution-admission.ts`, `main/index.ts`, `main/execution-parent-witness.ts`, `main/execution-receipt.ts` | the scope of each run; the witnesses of foreground parents | acquire, yieldFor, release; handlers of `execution.claim` and `execution.release`; rollback; cleanup after a disconnect | the protocol, admission, the conversation catalogue |
| Run receipts and journals, `agent/services/run-controller/store.ts`, `agent/services/run-controller-service/` | receipt, journal and active run per session, in memory and in `run-receipts.json` | claim, accept, start, progress, finish, cancel, append event, release; debounced and immediate writes; load | chat routes, turns, event subscribers |
| Chat runs, `agent/server/routes/conversation/chat.ts` | the coroutine of each submitted run, its abort controller | submit, wait for the outcome, cancel, event stream | run receipts, turn execution |
| Turn execution, `agent/runtime/chat.ts`, `agent/runtime/chat-turn/` | the room queue, the turn in progress | run a turn, answer, fail, abort | leases, run receipts, models and tools |
| Shared engine, `agent/runtime/engine/host.ts`, `main/engine-client.ts`, `main/engine-bot-backend.ts` | resident workers, start queue, bindings, generations | start, stop, stop all, exit, disconnect | a supervised child process; one worker per bot |
| Bot process registry, `main/bot-process-registry.ts` | catalogue of bots, one backend per active bot, activation generations | activate, stop, delete, route conversations | engine backends, admission (releaseBot) |
| Consultations, `main/bot-consultation-broker.ts`, `main/bot-consultation-ledger.ts`, `agent/actions/consult-bot-action.ts` | dispatch records in two copies of a file; generations of dispatches under way | prepare, update, load; dispatch, wait, cancel, cancelForBot, cancelAll | registry, chat runs of the target bot |
| Gateway inbound path, `agent/gateway/receive/`, `agent/gateway/recording/journal.ts` | the spool of accepted messages and its journal, the worker's drain and timer, executions in flight, known outcomes | accept, set status, compact, load; kick, drain, retry, stop; receive; execute a turn | providers' webhooks, native adapters, run receipts |
| Automations, `main/bot-automation-broker.ts` with its ledger and history | fires, approvals, in two copies of a file | fire, wait, cancel, recover | registry, chat runs of the target bot |
| Application session, `agent/runtime/application/session.ts`, `agent/runtime/bootstrap/app-context-manager.ts` | the context, its generation, its teardown | activate, reload, dispose | everything in the agent process |
| Conversation ledger, routing, project access, knowledge, UI interface, browser renderer, IPC, provider accounts | files and caches of the main process | see `PROJECT.json` | the main process |
| CLI, gateway adapters, plug-ins, evaluations, renderer | presentation, adapters | see `PROJECT.json` | the agent's server and services |

Everything is JavaScript: within a process one callback or one continuation
runs at a time, up to its next `await`. The hard behaviours come from what
happens between two such pieces, from messages between processes, and from
processes that end:

* a **lease** that one side believes granted and the other has taken back
  (timers on both sides of one exchange, late replies, cancels, disconnects);
* **capacity** that comes back in several ways, each of which must wake the
  right waiting claim;
* an **outcome** of a run written by whoever ends it first (completion, failure,
  cancel, restart) into two records, with a crash between them;
* a **write** that fails after memory has been changed;
* a **session** used from two sides at once (a chat and a direct turn);
* a **start** of a worker that completes after it was stopped or replaced;
* a **submission** whose acknowledgement is lost and which must never be made
  twice;
* a **message** delivered again, by a provider that missed the response or by
  another adapter, before, during or long after its turn;
* two **files** replaced one after the other, with a crash between them.

`PROJECT.json` lists these hazards one by one, at the line where each bites,
with the properties aimed at them.

What makes each component correct, in short:

* admission: limits, mutual exclusion of writers, one lease per run, no lost
  waiter, order of service, no starvation;
* protocol and leases: what a run believes to hold it holds; nothing is held
  that nobody will give back; no spurious refusals; every claim answered;
* run receipts and chat runs: one outcome per run, told consistently, kept over
  crashes; accepted means durable; one active run per session; every caller
  answered and every session freed;
* engine: one worker per bot; a stop is a stop; no start slot lost; a stale
  completion never touches its successor;
* consultations and automations: at most one submission per dispatch, after its
  intent is durable; one end; no run goes on for a dispatch that has ended; the
  two copies recover every submission and every end;
* gateway: what was acknowledged is kept until it is settled; a message's turn
  starts once; what is settled stays settled; every message that is pending
  is taken up.

## 2. Plan

In the order of importance; a line says where each module stands.

| Step | Modules | State |
|---|---|---|
| Admission table and its contract; its safety, its queues and the contract proved | `ExecutionAdmission`, `LeaseTable`, `SequenceLemmas`, `ExecutionAdmissionProofs`, `AdmissionQueueProofs` | done |
| A worker's leases over the request protocol, composed with the table, and their safety proved | `ExecutionLease`, `ExecutionLeaseProofs` | done |
| Receipts, journals and the coroutines that write them; their safety proved | `RunController`, `RunControllerProofs` | done |
| Engine host, client, backends and registry; their safety proved | `EngineHost`, `EngineFleet`, `EngineFleetProofs` | done |
| Gateway spool, worker and coordinator, with crashes and failing writes | `IngressSpool`, `GatewayIngress`, `GatewayIngressProofs` | done |
| Consultation broker and its two-copy ledger, with crashes and lost messages | `ConsultationLedger`, `Consultation`, its contract `OneShotDispatch`, `ConsultationProofs` | done |
| The event stream a reader of a chat run gets | an extension of `RunController` | next |
| Automation broker (the consultation's shape, with approvals) | `Automation` | later |
| Application session: activation, reload and disposal | `ApplicationSession` | later |

Theorems: done are all the safety properties of the admission table, and that it
implements `LeaseTable`; that the lease protocol uses the table as its
specification has it, and all its safety properties; the run
receipts' safety properties; the engine's safety properties; the gateway's
safety properties; the consultations' safety properties and that they implement
their contract. Every safety property a passing run checks is stated by a theorem.

No module uses a RECURSIVE operator: loops are recursive functions over `Nat`,
so every one of them can carry theorems.

## 3. Modules and the code they model

One action is one callback or one continuation up to its next `await`, with
every call it makes. Where a continuation may write a file more than once, or
where what a settled promise wakes matters, it is several actions that nothing
but a crash can separate. The modules say which they do; `PROJECT.json` maps
each definition to its lines.

### `ExecutionAdmission`

`leases`, `pending`, `botOrder` and `pendingCount` are the fields of
`DesktopExecutionAdmission`; `promise` is what each caller has been told, which
the code keeps in closures. `Claim`, `Acquire` (and `AcquireAborted`),
`Release`, `ReleaseBot`, `Expire` and `Abort` are its methods, timers and abort
listeners. All but `Claim` end in `Drain`, the code's loop over the bots in
order of service, written as passes that serve one bot each. `check()` is
`Admissible`, and `FirstRefusal` gives the reason in the code's order.
`RootsOverlap` follows the code's text comparison of relative paths, including
its treatment of names that begin with two dots (`DotNames`).

`LeaseTable` is what callers are promised, without queues, limits or paths. It
is checked as the property `KeepsTable` of `ExecutionAdmission`.

### `ExecutionLease`

Composes the admission table with the two ends of the worker-host protocol. In
the worker, `scope` is a run's `acquireExecutionLease` object and coroutine,
`calls` the map of pending requests; in the host, `requests` and `handler` are
the map of `attachWorkerHostRpc` and how far each handler has come, `aborted`
the abort controllers that fired, `foregroundParents` the witnesses.
`toHost` and `toWorker` are the IPC channels.

| Action | Code |
|---|---|
| `Start`, `Yield`, `Reclaim`, `MissDeadline`, `End` | a turn's acquire, yieldFor before and after the child's work, its deadline, release |
| `WorkerReceive`, `GiveUp` | a reply reaches its caller, or finds none and is given back; the caller's timer or abort signal |
| `HostReceive` | a call, an acknowledgement or a cancel arrives; a stale handler refuses the call (`Refuse`) |
| `Resolved`, `Admitted`, `Verified` | the handler of a claim after each of its awaits |
| `MissReceipt` | the host's receipt timer rolls a grant back |
| `Invalidate` | the bot is being stopped, or every execution of the fleet is stopped, while the worker lives |
| `Disconnect` | the worker's process ends |
| `Elsewhere` | everything other callers do with the table |

The handler is that of a named bot (`hostHandler` of the registry). `stale` says that
the bot's `activationGeneration` is no longer the handler's: from then on the handler
throws for every request, a release included, before it looks at it. A new worker has
a new handler. The lead's handler in `main/index.ts` does the same work without that
check, and is the case in which `Invalidate` never happens.

### `RunController`

`store` is `RunControllerStore` in memory, `disk` the file `run-receipts.json`,
`tasks`, `queued` and `aborted` the service's maps of server-owned runs. `turn`
says where a run's coroutine awaits and `rest` which step of the executing
continuation comes next. A journal is kept as its terminal event. `Submit`,
`Admit`, `StartTurn`, `Respond`, `Settle`, `Catch` and `Leave` follow
`startServerOwnedChatRun` and the turn it runs; `SetupThrows`, `Unwind` and
`DirectThrows` the turns that throw; `Cancel` and `CancelRest` a user's cancel;
`TimerFires`, `Exit`, `Restart` and `StopLoading` the debounced write, the end
of the process and the load that closes what the last process left open.

### `EngineHost` and `EngineFleet`

`EngineHost` is the engine's own process: `residents`, `startQueue`
and `starting` are its variables of the same names, and `HandleStart`,
`HandleStop`, `Drain`, `Settle`, `Stop` its functions, where `Settle` is the
ready promise with its `finally`. Workers become ready, fail, exit or resist
termination (`WorkerStep`).

`EngineFleet` extends it with the desktop: `hosts` and `pending` are the
client's maps, `backend` the fields of each `EngineBotBackend` and where its
`start()` and `stop()` await, `backends`, `activations`, `stops` and
`generation` the registry's maps, `act` where each call of `activate()` awaits.
What a settled promise lets run next is `Continue`, which comes before any
other event (`Idle`), as microtasks do. `EngineLost` and `EngineStarts` are the
end of the engine's process and its restart.

Two abstractions need saying. A worker's environment contains its backend's
control token, so the host's comparison of environments is a comparison of
backends. And the disconnect of the client and the exit of the engine are one
step, because the client handles whichever comes first and ignores the other.

### `IngressSpool` and `GatewayIngress`

`IngressSpool` is the spool as a record of the map in memory and of what its
journal would load: `Accept`, `SetStatus`, `Compacted`, `MarkInterrupted` and
`Loaded` are its methods, each with the outcomes of a write that fails (refused,
or in the file and reported as failed). `GatewayIngress` is everything around
it: `worker` is the ingress worker's state, with `Kick`, `TakeNext`, `PutBack`,
`Finish`, `TimerFires`, `Stop` and `Stopped` its methods and callbacks; `exec`
and `outcome` are the coordinator's maps of executions in flight and known
outcomes, `inbox` the journal of outcomes; `run` is the receipt of a message's
run. `Deliver` and `Answered` are the webhook before and after its response,
`HandOver` a native adapter's own receive, and `TurnedAway` to `Throws` the ways
`processGatewayReceive` goes. `owed` and `turns` only record what the properties
speak of.

### `ConsultationLedger` and `Consultation`

`ConsultationLedger` is the ledger as a record of the records in memory, the two
files with their revisions, and the flag of a save that threw. A save replaces
neither file, one, or both before it throws (`Threw`); `Prepared` and `Updated`
are `prepare()` and `update()`, `Loaded` the constructor.

`Consultation` is the broker with the tool that calls it. `call` is where the
caller's `dispatch()` and `wait()` are, `overtaken` stands for the generations
that `assertPending` compares, `caller` for the abort signal and the worker
behind it, `run` for the submission and the run it becomes, `cancels` for the
request to cancel it.

| Action | Code |
|---|---|
| `Dispatch`, `Reject`, `Prepare`, `Confirm`, `Submit`, `Withdraw` | `dispatch()` between its awaits: checks, the durable intent, the binding of the conversation, the origin's answer that its run is still active, the one submission |
| `Responded`, `Uncertain` | the response to the submission, or a transport that fails |
| `Await`, `PollEnds`, `WaitThrows`, `GiveUp`, `Record`, `Leave`, `CancelAborted` | `wait()`, and the tool's `catch` and abort listener |
| `SubmissionArrives`, `CancelArrives`, `SubmissionLost`, `CancelLost` | the target's routes, and messages that overtake one another or are lost |
| `Claim`, `RunEnds` | the target's run asks for its lease, twice looking at the grant, and ends |
| `CancelFor` | `cancelForBot()`, `cancelAll()`: several saves, of which one may throw |
| `Abort`, `WorkerDies`, `Crash` | the caller turns away, workers end, the desktop restarts |

The origin's answer is a step of its own: when it arrives the run may have ended,
which the broker cannot know. `consult.cancel`, which the tool's `catch` asks for,
may be refused, as any request: by the worker, whose map of requests is full, or by
a stale handler. The tool swallows that, and the call is then `"unheard"`.

`OneShotDispatch` is the contract: intend, confirm the origin, submit, end, tell,
over what is durable. `KeepsContract` says that the broker implements it, with the
newer of the two files as what is recorded. Two mutants of the module break it: the
one of `PROJECT.json`, in which the origin's answer is not looked at, and one in
which generations are not compared (`PendingBySignal`).

## 4. Runs

| Run | Configuration | Distinct states | What it shows |
|---|---|---|---|
| `admission` | two bots, five claims and a user's write with nested roots; limits 3 total, 2 a bot, 1 ACP, 3 and 2 waiting | 92,617 | safety of the table, order of service, implementation of `LeaseTable` |
| `admission_fair` | three bots that only read; limits 2 total, 1 a bot, 1 ACP | 15,272 | no waiting claim is forgotten or starved |
| `lease` | a turn that yields once, its child, the user's write; a handler that goes stale; receipts in time | 551,406 | writers exclude one another; every lease returns and every claim is answered, but for what a stale handler leaves |
| `lease_slow` | the turn yields twice; receipts may be late | 1,889,279 | no lease without an owner but what a stale handler leaves, no spurious refusal, witnesses follow scopes |
| `lease_late_grant` | the same | violation | finding 1 below |
| `runs` | two chats of a session, a direct turn of another, a history of two; crashes also while loading | 16,132 | one outcome per run, over cancels, failures, crashes; every caller answered, every session freed |
| `runs_faulty` | two chats and a direct turn of one session; any write may fail | 231,326 | what callers were told holds; acceptance durable, receipts kept; one active run |
| `runs_stranded` | successive direct turns, one of which throws | violation | finding 2 below |
| `engine` | a bot started twice and stopped or edited once; timers may fire | 52,093 | no orphan worker, no replacement beside its predecessor, ready means listening; every request is answered |
| `engine_pair` | two bots started once each for one start slot, one of them stopped or edited once; no timer fires | 20,244 | the slot is passed on; a stop wins over a start it overtakes |
| `gateway` | two messages of a session, one of them also handed over by a native adapter; one tombstone; a write that fails; crashes | 273,099 | nothing acknowledged is lost, no turn starts twice, what is settled stays, every pending message is taken up and let go |
| `consultation` | the lead consults `x`, which consults `y` while it answers; a save that throws; workers that die, bots stopped, crashes | 699,982 | the ledger recovers, revoked runs are cancelled, callers are answered; implementation of `OneShotDispatch` |

Bounds, and why they are enough. *Admission*: in `admission` each limit can be all
that refuses a claim: 2 a bot the lead's third run, 3 in all the fourth of both bots,
1 ACP child the second. In `admission_fair`, with 1 a bot, a's foreground run waits
for a's child alone, b's child for the same one, and c's run for two of other bots.
Each queue fills, and the roots include one above, one below, one beside and one
undefined; the theorems remove the bounds for the safety properties. *Leases*: the
exchange is between one run and the host, so a second run (the child, whose claim
depends on the first's witness) and one outsider are the least that can conflict; two
yields let a late answer of one meet the next; the handler may go stale at any point,
once per worker. `MaxRequests` is kept out of reach (see section 7). *Runs*: a
conflict needs two runs of a session, a third gives the direct turn; a history of one
or two receipts makes trimming happen. Run ids can be used again once forgotten, so
these behaviours do not end. In `runs` the direct turn has a session of its own: in a
session of chats its `catch` may end a chat's run (section 5), and `OutcomesAgree`
does not hold. *Engine*: two attempts give an old and a new worker of a bot; one
overtaking stop separates their generations; another bot is needed only for the start
slot. `MaxGeneration` bounds stops and edits, `attemptsOf` the calls of `activate()`.
*Gateway*: a second message of the session makes the queue, the retry cursor and the
busy session matter; one tombstone makes compaction forget a key that is delivered
again. Deliveries, crashes and retries are not bounded, the writes that fail are
(`MaxFailures`): after a write that reached the file or not, each later step meets
what it left. *Consultations*: a nested consultation is the deepest the code allows
and the least with a grant that depends on another; one throwing save leaves each
combination of old and new files, and only a restart lets the ledger be written again.
Two consultations of a root do not reach its fan-out (`MaxFanOut = 2`; with 1 there
would be no nested one), which `FanOutCorrect` shows instead. Each consultation is
dispatched once, so all calls may be over: the run turns off the deadlock check, and
no other does.

Fairness. *Admission* (`ReleaseSpec`) assumes that an admitted run ends and gives its
lease back, which the `finally` of its caller does. Timers are not relied on, so a
claim that waits is answered by capacity alone. *Leases* (`FairLeaseSpec`): messages
are delivered, handlers go on, runs end, the user's write ends. No timer, cancel or
disconnect is relied on. A handler that is stale is not renewed by fairness either,
and `ClaimsAndLeasesEnd` names what it leaves. *Runs* (`FairRunsSpec`): a coroutine of
a chat whose await is settled goes on. Strong fairness stands for the event loop's
first-in first-out queue: a continuation that is enabled again and again, interrupted
by crashes and by other coroutines' steps, runs in the end. A process that ended is
restarted. *Engine* (`FairFleetSpec`): messages are delivered, microtasks run, awaited
services answer, a worker that boots is ready or fails (the host's startup timer) and
one that is stopping ends. No timer is relied on, and in `engine_pair` none fires, so
that answers are owed to the protocol. *Gateway* (`FairGatewaySpec`): the drain goes
on, the retry timer fires, what a turn awaits comes back, responses are written. No
delivery, no start and no crash is relied on. *Consultations*
(`FairConsultationSpec`): the deadline of a `wait()` passes, what it awaits once a run
is terminal comes back, and the tool's `catch` runs, though its cancel may be refused.
Nothing is asked of the network, of the target's worker or of its run.

Each property of a passing run has a mutant in `PROJECT.json`: a plausible
change of one definition with which TLC finds the property violated.

## 5. Findings

1. `lease_late_grant`: the host rolls an unacknowledged grant back after 55
   seconds and forgets the request, but does not recall its reply, and the
   worker waits up to 150 seconds. A worker that reads the reply after the
   rollback runs as a writer without a lease while another writer is admitted.
   The run `lease` shows that nothing else breaks this exclusion.
2. `runs_stranded`: `runPostCommandTurn` returns the promise of the model stage
   without awaiting it, so its `catch` does not see the stage throw. A direct
   turn whose stage throws leaves its run active: chats of its session are
   refused as `session_active`, and the next direct turn is refused too, after
   which its own `catch` ends the stranded run in its place. A chat's run is
   ended by the coroutine around it.

The hazards with a `note` and no property list smaller disagreements and limits
that the models made visible: names that begin with two dots, a load that ends
between two appends, a terminal event whose write throws, a journal line that a
failing write cut short, a gateway message that is retried for good although its
run cannot start again, a consultation whose run nobody waits for.

A named bot's lease may stay in the table after its turn. Once the bot is being
stopped, or the host stopped every execution of the fleet (`stopAllOwnedExecutions`),
its handler refuses `execution.release` too
(`main/bot-process-registry.ts:1270-1280`), and the worker swallows the error
(`agent/runtime/execution-admission.ts:145`). A stopped bot's worker exits soon, and
with it the lease goes. After an emergency stop the worker lives on:
the lease keeps its place and its root until the worker exits, and claims that
conflict with it wait for their own timers (120 seconds) and are refused. `Unreturned`
is that lease, at most one of each run, and `NoOrphanLease` and `ClaimsAndLeasesEnd`
except it and nothing else. The lead's handler has no such check. In the same way a
refused `consult.cancel` may leave a consultation open, with a ledger that could be
written and a worker that lives; `WaitersAnswered` names the case.

Smaller ones: the witness of a foreground parent outlives a rollback until its
worker disconnects; a release is dropped when 32 requests are in flight, and the
lease stays until the worker exits; after a failed re-claim a turn goes on with a
closed scope. And a direct turn that is refused because a chat of its session still
waits for its lease ends that chat: its `catch` finishes whatever run is active. The
chat is then refused in its turn and its journal says failed, also where its receipt
says cancelled: with a shared session TLC shows `OutcomesAgree` violated, and the
theorem about it has the hypothesis that there is none.

## 6. What is proved

### Admission

`ExecutionAdmissionProofs` proves, for any finite or infinite sets of bots and
claims and any limits that satisfy the assumptions of `ExecutionAdmission`:

* `TypeCorrect`: every reachable state is well typed, queues within their limit;
* `LimitsCorrect`: the total, per-bot and ACP limits hold;
* `RunExclusiveCorrect`: no run holds two leases;
* `MutationExclusionCorrect`: no two leases conflict as `rootsOverlap` has it;
* `WritersDisjointCorrect`: if no segment begins with two dots
  (`DotNames = {}`), no writer's root contains another's.

The assumptions are `LimitsAssumption`, `ClaimsAssumption` and
`DirectAssumption` of the module; TLC evaluates them in every run that extends
it. They say that the limits are positive and ordered as the settings validate
them, and that a desktop write makes up its own run id.

The argument. The four properties are about `leases` alone, but the actions pass
through intermediate stores: `Drain` grants several claims, one after another, before
the next state exists. So the invariant is about stores: `SafeStores` is the set of
well-typed stores whose leases satisfy the policy and whose queues are short, and
`Safe` says the variables form one. The types are part of it because a grant must find
its claim in the queue. Lemmas show that each operation on a store (`RemovePending`,
`Grant`, `Enqueue`, `Rotate`, one pass of the drain) stays in `SafeStores`.
`GrantKeepsPolicy` is the heart: `check()` for one claim is enough for all of them
because conflicts are symmetric. `Drain` is a recursive function over passes;
`IterationExists` of `SequenceLemmas` proves by well-foundedness of `<` on the
naturals that iterating an operation which keeps a set stays in it. `InitSafe` and
`StepSafe` (one step per action) give `SafeAlways`, and each theorem follows from it.

`AdmissionQueueProofs` goes on to the queues:

* `OrderlyAlways` and `QueuesServedCorrect`: the queues, the order of service, the
  counter and the promises agree, and at rest no bot's first claim could be
  admitted;
* `ServiceInOrderHolds`: arrival order within a bot, order of service between bots;
* `KeepsTableHolds`: the table implements `LeaseTable`.

`QueuesServed` is inductive with the types (`Orderly`: a good store at rest), but
`ServiceInOrder` and the contract speak of a step that may grant many claims, so
they need what one step of the table does as a whole. Two relations between stores
say it: `Edited` is what a method does before it drains (one claim enters, leaves
or is answered, or one bot's claims go), `Drained` what any number of passes do
(claims leave the queues by grants, from the front, in the order of service).
`PassDrained` shows that `Drained` survives another pass, `DrainEnds` that the
passes of `Drain` reach a store at rest, because each pass that grants takes a
claim off the counter. `EditedAndDrained` composes the two into `GoodStep`, and
every action is a `GoodStep` (`EveryStep`); both theorems read it off.
`SequenceLemmas` holds what the proofs keep asking of `RemoveFirst`, `Append` and
sequences without repetition.

### Leases

`ExecutionLeaseProofs` proves, for any runs, claims, nesting of ACP children,
limits and other bots:

* `LeaseInvariant`: the inductive invariant `LeaseInv`;
* `LeaseUsesTable`: every behaviour of the protocol is one of the admission table,
  so every theorem above holds while workers come and go, and `LeaseKeepsTable`
  says so of the contract;
* `LeaseTypes`: types, and neither side has more in flight than the limits;
* `WitnessFollows`: an open foreground scope is vouched for by its last lease;
* `WritersExcludedInTime`: if replies and receipts are faster than the host's timer
  (`SlowReceipts = FALSE`) nobody executes as a writer beside another on an
  overlapping root. The hypothesis is what finding 1 is about: without it the
  theorem is false;
* `NeverPressed`: no request is refused for want of room at the host;
* `NoOrphans` and `NoRefusals`: with `[]RoomLeft`, nothing granted is left behind but
  what a scope held when a stale handler refused its release, and no claim meets its
  run's own earlier lease or claim;
* `RoomForFewRuns` and `FewRunsLeaveNothing`: a worker with fewer runs than
  `MaxRequests` always has room, so both hold of it without the hypothesis.

The argument. A request is looked at through what is under way about it, whatever
the order in the channels: `Calling`, `Acked`, `Cancelled`, `Replied`, `Granting`,
and `Working` for its handler. `RequestOK` says that it goes out once, is answered
once and is acknowledged once, and that the host's map agrees. `ScopeOK` ties the
place of a run's coroutine to what its scope holds and waits for, `LastOK`,
`ClaimOK` and `ReleaseOK` tie the requests to the scope: a lease is given back only
when its claim is `Over`, and a claim is under way only for the scope that waits for
it or for one that has finished. `VouchedOK` is `WitnessFollowsScope` for a grant
that has not been read yet. `HeldOK` is the heart of the exclusion: a grant on its
way to a call that still waits is a lease of the table, and so is what a scope
holds, and the host cannot take the reply of that claim for lost since its
acknowledgement is on the way. Each step of the worker is an instance of
`WorkerMove` and `ScopeMove`, each step of the host of `HostMove`, which say what the
step may do to the views of one request; the conjuncts of the invariant are shown
once for each (`MoveKeeps`, `HostMoveKeeps`) and every action is shown to be such a
move. What the table does meanwhile enters only as `Keeps`: which leases a step
may lose.

`LeaseInv` does not speak of the order in the channels, and the two properties about
leases left behind and refusals need it. `LeasePace` adds it: a call is heard before
the acknowledgement or cancel that settles it, and what the host will have to answer
for when it hears a call (`Outstanding`) is no more than what the worker counted when
it sent it. `NeverPressed` follows, since the two maps have the same limits.
`LeaseOwned` says who gives each lease back: `TraceOK` lists the handler that has it,
its grant under way, a cancel under way, the scope that holds it, a release under way,
and, once the handler is stale, the scope that held it last and closed or yielded
since; `SettledOK` says that a claim the host has forgotten has nobody behind it who
still counts on the host; `AnswerOK` that only a claim's own handler asks the table
and waits for it; `AloneOK` that when the table will be asked for a claim, every other
claim of the run is over and the releases of its leases come first in the channel.
`LeaseStepCases` sorts the steps into those of the worker, of the host, of anyone else
(`Aside`) and the disconnect (`Left`), and each conjunct is shown once for each case.

`RoomLeft` (the worker's pending map is not full) is a hypothesis because the code
needs it: `release()` asks with a request, a full map refuses it, and the lease stays
until the worker exits. `RoomForFewRuns` counts requests by runs: a run's coroutine
awaits each request before the next, so that at most one of its requests is in the map.
`Runs` is every run the worker ever has, and so the condition of the last two
theorems is sufficient, not necessary; `NoOrphans` and `NoRefusals` cover a longer life
in which the map never fills.

The assumption is `WorkerAssumption`: a run's claims are its own and distinct, an
ACP child's claims are those of a run that has a parent, and no other bot uses the
worker's runs.

### Run receipts

`RunControllerProofs` proves, for any sessions, runs and length of history:

* `RunsInvariant` and `RunsTypes`;
* `OneActiveRunHolds`, `ToldOutcomesStayHolds` and `ClaimsRecordedHolds`, whatever
  write fails, whatever throws and whenever the process ends;
* `MemoryOutcomesStayHolds`: in one process a terminal receipt is immutable;
* `OutcomesStayHolds`, for `WritesFail = FALSE`: over restarts it is immutable too. A
  write that failed leaves an older file, whose load closes the run anew;
* `ReceiptsDurableHolds`, for `LoadsStop = FALSE`: a load that ends between two
  appends leaves a file that names only the receipts written so far (a hazard
  listed with its note);
* `ActiveRunsHaveTurnsHolds`, for `TurnsThrow = FALSE`: finding 2 is what happens
  otherwise;
* `OutcomesAgreeHolds`, for `WritesFail = FALSE` and `Apart`: no direct turn is
  executed in a session of chats. Section 5 says what happens in a shared one; a
  write that fails leaves receipt and journal apart (a hazard listed with its note).

The hypotheses are the ones under which the runs check the same properties.

The argument. The invariant is about two images, the store in memory and the file,
and the coroutines between them. A step of a live process changes the store in one
of three ways: it ends the active run of a session, makes a run the active one, or
adds an event to a journal. Each keeps the store `Sound` (a run that has not ended is
the active one of its session; the order lists the receipts, once each) and
`Follows` the old one: nothing that ended changes until a full history forgets it.
The file is an earlier store that the present one follows, so what is true of the
file survives a crash, and `Restart` closes what it left open.

`OutcomesAgree` is about the moments between steps, while a run is ended in two
writes by whoever comes first. Its invariant `OutcomeInv` says what receipt and
journal may be at each place of the coroutine and before each step of a continuation
(`Fit`): both open, both closed by a cancel that the coroutine has not met yet, or
the receipt closed and the journal left to the one step that comes next. A claimed
run stays the active one of its session, and its signal has fired exactly if its
receipt says cancelled, so that step appends the event that fits. In the file a
closed journal always fits its receipt (`Matches`), and loading closes the others to
fit.

### Engine

`EngineFleetProofs` proves, for any finite set of bots, any backends, attempts,
limits and slow bots:

* `FleetTypes`: every reachable state of engine and desktop is well typed; a
  backend's start is under way exactly while its control is pending, and nobody
  awaits a control that is not;
* `SlotsAlwaysFollow`: a start slot is taken exactly while a worker boots, never
  more than `MaxStarts` are, and no bot waits in the queue beside a free slot;
* `AlwaysCleanedUp`: the host keeps something for a bot exactly while a backend of
  the bot owns the engine;
* `AlwaysOneWorker`: a bot has one worker or one start on its way, whose owner is
  the registry's backend that the client is bound to, and the host never takes in a
  start beside a worker;
* `ReadyAlwaysListens`: a bot shown ready has its own worker listening, unless the
  news of the worker's end is on its way or its stop has begun.

The argument. One control or one event of a worker runs several of the host's
functions in one go, so the invariant is about the host's variables as one record.
`SlotsFollowBoots` is not inductive: a pass of the drain that took a bot whose
resident already has a worker, or none, would count a slot twice or for nothing.
`QueueInv` adds that the queue holds, once each, exactly the bots whose resident
has no worker, and that such a resident is neither settled nor stopping. It has to
hold between the functions too: `Settle` of a booting worker drains the queue before
its resident is removed. `Hosts` is the set of records with `QueueInv` and `SlotInv`.
That nobody waits beside a free slot (`Filled`) is what the end of a drain gives:
each pass serves the head of the queue, the queue is never longer than there are
bots (`QueueWithin`), so the passes of `Drain` fill the slots or empty the queue
(`DrainKeeps`). `Steady` is `Hosts` with `Filled`; `SettleWorker`, `StopSteady`,
`HandleStartSteady` and `HandleStopSteady` bring each handler back to it.

The desktop's invariant, `Desks`, is about the record of its variables in the same
way. `PendingInv` says of each backend that its start is `"control"` exactly while a
start of it is pending, that there is one such control at most, and that the
controls it awaits are pending; and, which makes it inductive, that an attempt which
has not come to `startNamed()` has sent none. Timers, late answers, exits and the
loss of the engine all go through `Resolve`, `Release` or `EngineLost`, each of which
is shown to keep it.

The last three need to know who answers for a bot. On the desktop's side (`Bonded`):
a binding of the client is that of the registry's backend, which owns the engine,
and only that backend owns it or is being stopped (`Bonds`); a backend shown ready
has its binding, or a stop that took it is about to return (`Shown`); no attempt of
the bot's present generation runs beside a stop or beside another, and none prepares
while the bot has a backend (`Turn`). `CleanedUp` follows from it (`BotKept`). An
event of the desktop runs operators of the client, the backends and the registry one
after the other, so each operator is given a relation between the desktop before and
after: `Quiet` (nothing that is bonded changes), `Binds` (an attempt takes its bot),
`Settles` (stops and starts of some bots come to their end).

That is not enough for the worker, which lives in another process, with two channels
in between. `Wired` relates the host to the desktop's bindings. `Served`: a bot's
resident is that of the binding and only the bot's own controls wait for it. `Sent`:
a start on its way is the bot's only one, the bot has no resident, and no stop that
would release the start's binding is ahead of it. `News`: an exit or a confirmed
stop on its way to the desktop means that the resident is gone and that no start
follows until the desktop has read it. This is where the order in the channels
matters, and why a late exit cannot hit a successor: the client makes a new binding
only when the old one is released, and that message is what releases it. `Heeded`:
while nobody has asked the backend to stop, a stop on its way to the host has a start
behind it, the resident was not asked to stop, and once the start was answered the
resident listens or its exit is on its way. While the host handles a worker's exit
the bot's resident is still there although the news is out, so `Wired` takes the
set of bots for which that is so; between events it is empty.

The assumptions are `HostAssumption` (finitely many bots, positive limits, `None` is
nobody's name) and `FleetAssumption` (each attempt is of its bot and creates a
backend of its own).

### Gateway

`GatewayIngressProofs` proves, for any messages, sessions, tombstones, kinds and
numbers of failing writes:

* `GatewayTypes`: every reachable state is well typed, with lines torn or not;
* `AtMostOneTurnCorrect`: no message's turn starts twice;
* `AcknowledgedKeptHolds`: what was acknowledged is in the journal, payload and
  all, until it is settled;
* `SettledStaysHolds`: what was settled stays so until enough others are settled
  for its tombstone to be discarded.

The last two assume that no write stops within a line (`"torn" \notin Faults`); with
one that does, TLC shows both violated (the second where a compaction fails too).

That a turn starts once rests on run receipts alone (`TurnsInv`): a message whose
turn has started has a receipt, no step forgets one, and `startTurn` refuses a run
that is not new. Neither the spool nor the inbox journal nor the coordinator is
needed for it; they save work, and keep messages from being lost. The assumption
that run receipts outlive the model is the module's, not the code's: after 1024
newer runs the receipt is forgotten.

The other two rest on how the map and its journal may differ (`Agree`): what is
live in the map is in the journal; what is settled in the map is settled so in the
journal, or discarded there by a compaction that was renamed and then failed; what
is settled in the journal is in the map. `KeptInv` adds that what is owed is live
in the map and has its payload in both (`Kept`), and that what the worker has taken
up is live. A settled entry is discarded only while at least `MaxTombstones` newer
ones remain (`DiscardedLeavesEnough`), which is why `Agree` counts. The count is of
those settled in the map *and* in the journal, since a status that reached the file
and was reported as failed can be overwritten. One lemma per method of the spool
(`AppendedShape` to `LoadedShape`, `MarkInterruptedWithin` for its loop) lists what
it leaves; the steps of the worker then follow. The attempt to prove the
property with exactly `MaxTombstones` settled messages failed for a good reason:
after three failing writes there can be more, which TLC confirmed.

### Consultations

`ConsultationProofs` proves, for any dispatches, bots, nesting, limits and number
of throwing saves:

* `ConsultationTypeCorrect`: every reachable state is well typed;
* `RecoveryCorrect`: the two files always load, and hold every submission and
  every end;
* `RevocationCorrect`: no run executes for an ended consultation unless its
  cancel is under way or was lost;
* `FanOutCorrect`: no root exceeds its fan-out, in memory or after a restart;
* `ContractCorrect`: every behaviour of the broker is one of `OneShotDispatch`; in
  particular no run is submitted whose origin was not found active after the intent
  was recorded.

The argument. `LedgerSound` says of a ledger that its primary file is never behind its
backup, that equal revisions are equal copies, and that the primary knows every record
and every end that the memory knows (`Grown`), being equal to it unless a save threw.
Lemmas show that each operation on a ledger keeps it. `ConsultationInv` adds what ties
calls, runs and cancels to the records, one conjunct of `InStep` each. The contract
needs one more fact: a dispatch that is about to be submitted and was not overtaken
has an open intent *in the file*. The memory is not enough, because a save that threw
may have ended the dispatch in the file and not in memory; only the comparison of
generations keeps such a dispatch from being submitted. `Effect` lists what a step may
do to the primary file, the origins found active, the submissions and the callers; one
lemma per group of actions shows `ConsultationInv'` and `Effect` together, and
`ContractStep` turns `Effect` into a step of the contract or a stutter.

The assumptions are `LedgerAssumption` (finitely many dispatches, so that those
of a root can be counted, and a positive fan-out) and `ConsultationAssumption`
(who consults whom, nested at most once).

## 7. What is only checked, and what is not modelled

Only checked: liveness (fairness and `ENABLED` are beyond the prover). Every safety
property of a passing run is proved, some under a hypothesis that section 6 names.

Left out of the modelled components, and why:

* sequence numbers and replay filters: both channels are first-in first-out and
  every request has a fresh id;
* requests other than execution claims and releases in the worker-host
  protocol: the same envelope, other handlers;
* `release()` during a `yieldFor` of the same scope: no caller does it;
* a full map of requests in flight as a case of the runs: the model drops a release
  there, as the code does, and its lease stays until the worker exits; two runs
  cannot fill the map, and the theorems that need room say so (section 6);
* a scope closed by a failed re-claim while its turn goes on;
* transitions between statuses of a run that has not ended, the text and the
  size limits of journals, the room index;
* a history that forgets a run whose coroutine is alive (1024 newer runs);
* runs with the terminal writer "native-run-ended", which automations use;
* `EngineClient.stopAll` and the host's `stop-all`, which have no caller; the
  registry's `stopAll`, `stopAllOwnedExecutions` and `archive`, but for what they do to
  a worker's leases (`Invalidate`);
* a failing `child.send`, which is to its caller what a timeout is;
* in the gateway: messages without an id, which are never deduplicated, slash
  commands, which take no run receipt, the text of answers, and the outbox with
  its own retries. Lines cut short by a failing write are in `IngressSpool`
  (`Faults = {"torn"}`), but the run leaves them out: with them an acknowledged
  message is lost, since the next line is glued to the torn one;
* of consultations: permissions, knowledge, the workspaces a grant covers, and a
  ledger that is full, which only decide whether a check throws.

A limit of the code that the consultations' model made visible: a run whose
acceptance was not read, and whose caller has turned away, is cancelled by
nobody before its deadline; nor is one whose cancel was refused.

Components that are not modelled at all are listed in `PROJECT.json` with the
reason: those of the plan, and those whose substance is rendering, validation,
content or an outside service.
