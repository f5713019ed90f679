----------------------------- MODULE EngineFleet -----------------------------
(***************************************************************************)
(* How a named bot's worker is started and stopped from the desktop:       *)
(*   - BotProcessRegistry.activate(), stop() and update();                 *)
(*   - EngineBotBackend, one object per activation, with its start() and   *)
(*     stop();                                                             *)
(*   - EngineClient, which binds a bot's RPC channel to one backend and    *)
(*     sends start and stop to the shared engine (module EngineHost).      *)
(*                                                                         *)
(* The promises these objects hand to each other are the subject.  What a  *)
(* settled promise lets run is a microtask: actions of their own here, and *)
(* while one is due no other event happens ("Idle").                       *)
(*                                                                         *)
(* registry.activate() is called for a bot at most once per member of      *)
(* attemptsOf[bot]; the member also names the backend it may create, and a *)
(* backend is started once, so its generation is a flag here.              *)
(***************************************************************************)
EXTENDS EngineHost

CONSTANTS
  attemptsOf,      \* [Bots -> Seq(Backends)]
  MaxGeneration    \* [Bots -> Nat], bound on stops and updates of a bot

ASSUME FleetAssumption ==
  /\ attemptsOf \in [Bots -> Seq(Backends)]
  /\ \A b \in Bots : IsInjective(attemptsOf[b])
                     /\ \A k \in Range(attemptsOf[b]) : botOf[k] = b
  /\ MaxGeneration \in [Bots -> Nat]

VARIABLES
  generation,    \* activationGeneration, per bot
  backends,      \* the registry's backend of a bot, or None
  activations,   \* the attempt whose promise a second activate() would share
  stops,         \* per bot, how far the registry's stop() is
  act,           \* per attempt, where activate() awaits
  backend,       \* per attempt, its EngineBotBackend
  hosts,         \* the client's binding: per bot, a backend or None
  pending,       \* controls the client has no answer to
  up,            \* the engine process is running and its client connected
  holding        \* bots whose leases and witnesses onHostDisconnect must clear

deskVars == <<generation, backends, activations, stops, act, backend, hosts,
              pending, up, holding>>
fleetVars == <<hostVars, deskVars>>

Desk == [generation |-> generation, backends |-> backends,
         activations |-> activations, stops |-> stops, act |-> act,
         backend |-> backend, hosts |-> hosts, pending |-> pending,
         holding |-> holding, up |-> up, toHost |-> toHost]

BecomeDesk(s) ==
  /\ generation' = s.generation
  /\ backends' = s.backends
  /\ activations' = s.activations
  /\ stops' = s.stops
  /\ act' = s.act
  /\ backend' = s.backend
  /\ hosts' = s.hosts
  /\ pending' = s.pending
  /\ holding' = s.holding
  /\ up' = s.up
  /\ toHost' = s.toHost

NotStopping == [at |-> "none", target |-> None, failed |-> FALSE]

-----------------------------------------------------------------------------
(* EngineClient *)

\* Mutants: see EngineHost.

\* A control: start, stop, or the stop that undoes a failed start; the binding
\* it was sent for; and a number that makes it unique (the code's UUID).
Control(op, k, s) ==
  [op |-> op, by |-> k,
   bound |-> s.hosts[botOf[k]], n |-> s.backend[k].calls + 1]

Call(s, c) ==
  [s EXCEPT !.pending = @ \cup {c}, !.toHost = Append(@, c),
            !.backend[c.by].calls = @ + 1]

\* The stop under way for the binding of k's bot, whoever asked for it.
SharedStops(s, k) ==
  {c \in s.pending : /\ c.op # "start"
                     /\ c.bound # None
                     /\ c.bound = s.hosts[botOf[k]]}

\* releaseHost().  The callback of startNamed() clears what the host keeps for
\* the worker, unless its backend gave the engine up already.
Release(s, b, notify) ==
  LET k == s.hosts[b]
      released == [s EXCEPT !.hosts[b] = None]
  IN IF k = None THEN s
     ELSE IF notify /\ s.backend[k].owner
     THEN [released EXCEPT !.backend[k].owner = FALSE,
                           !.backend[k].phase = "degraded",
                           !.holding = @ \ {b}]
     ELSE released

\* stopBot() called in startBot()'s catch or in stopNamed(); "awaited" is the
\* control whose answer the caller waits for.
StopBot(s, k, op) ==
  IF SharedStops(s, k) # {}
  THEN [s EXCEPT !.backend[k].awaited[op] = CHOOSE c \in SharedStops(s, k) : TRUE]
  ELSE LET c == Control(op, k, s) IN
       [Call(s, c) EXCEPT !.backend[k].awaited[op] = c]

\* The promises of the controls in C settle: the coroutines that await one of
\* them may go on.
Resolve(s, C, ok) ==
  [s EXCEPT
     !.pending = @ \ C,
     !.backend = [k \in Backends |->
        LET one == s.backend[k] IN
        [one EXCEPT
           !.awaited.undo = IF @ \in C THEN None ELSE @,
           !.awaited.stop = IF @ \in C THEN None ELSE @,
           !.start = IF @ = "control" /\ \E c \in C : c.op = "start" /\ c.by = k
                     THEN IF ok THEN "returned" ELSE "refused"
                     ELSE IF @ = "undo" /\ one.awaited.undo \in C THEN "undone"
                     ELSE @,
           !.stop = IF @ = "control" /\ one.awaited.stop \in C
                    THEN IF ok THEN "confirmed" ELSE "unconfirmed"
                    ELSE @]]]

PendingStarts(s, b) == {c \in s.pending : c.op = "start" /\ botOf[c.by] = b}

\* A start whose worker died may still be pending beside its successor's.
CancelPendingStart(s, b) == Resolve(s, PendingStarts(s, b), FALSE)

\* A confirmed stop releases the binding it was sent for, if it is still the
\* bot's, and the start that waits on it.
SettleControl(s, c, ok) ==
  LET b == botOf[c.by] IN
  IF ok /\ c.op # "start" /\ c.bound # None /\ s.hosts[b] = c.bound
  THEN Resolve(CancelPendingStart(Release(s, b, FALSE), b), {c}, TRUE)
  ELSE Resolve(s, {c}, ok)

-----------------------------------------------------------------------------
(* EngineBotBackend *)

\* stopNamed() calls the engine, or a client that is disconnected.
AskToStop(s, k) ==
  IF s.up THEN [StopBot(s, k, "stop") EXCEPT !.backend[k].stop = "control"]
  ELSE [s EXCEPT !.backend[k].stop = "unconfirmed"]

\* stop(): callers share the one under way.  Without an engine there is
\* nothing to await.
StopBackend(s, k) ==
  LET moved == [s EXCEPT !.backend[k].moved = TRUE] IN
  IF s.backend[k].stop # "none" THEN s
  ELSE IF ~s.backend[k].owner THEN [moved EXCEPT !.backend[k].stop = "idle"]
  ELSE IF s.backend[k].phase = "ready"
  THEN [moved EXCEPT !.backend[k].stop = "executions"]
  ELSE AskToStop(moved, k)

\* startNamed() up to its await.  currentEngine() throws if the engine is gone;
\* startBot() throws if the bot has a binding.
StartNamed(s, k) ==
  LET b == botOf[k]
      booting == [s EXCEPT !.backend[k].phase = "booting",
                           !.backend[k].startup = TRUE,
                           !.backend[k].owner = s.up]
      bound == [booting EXCEPT !.hosts[b] = k, !.holding = @ \cup {b}]
  IN IF ~s.up \/ s.hosts[b] # None
     THEN [booting EXCEPT !.backend[k].start = "undone"]
     ELSE [Call(bound, Control("start", k, bound)) EXCEPT !.backend[k].start = "control"]

\* The catch of startNamed().
StartFailed(s, k) ==
  LET b == botOf[k]
      lost == s.backend[k].owner /\ s.hosts[b] = None
      settled == [s EXCEPT !.backend[k].start = "settled",
                           !.backend[k].startup = FALSE]
  IN IF s.backend[k].moved THEN settled
     ELSE [settled EXCEPT !.backend[k].phase = "degraded",
                          !.backend[k].owner = @ /\ ~lost,
                          !.holding = IF lost THEN @ \ {b} ELSE @]

\* startBot() returned.
StartReturned(s, k) ==
  IF ~s.backend[k].owner THEN StartFailed(s, k)
  ELSE [s EXCEPT !.backend[k].start = "settled",
                 !.backend[k].startup = FALSE,
                 !.backend[k].phase = IF s.backend[k].moved THEN @ ELSE "ready"]

\* The catch of startBot(): the worker that may run nevertheless is stopped.
StartRefused(s, k) ==
  IF s.hosts[botOf[k]] = k
  THEN [StopBot(s, k, "undo") EXCEPT !.backend[k].start = "undo"]
  ELSE StartFailed(s, k)

-----------------------------------------------------------------------------
(* BotProcessRegistry *)

\* activate()'s promise settles; a later activation's stays.
Finished(s, k) ==
  LET b == botOf[k] IN
  [s EXCEPT !.act[k].at = "done",
            !.activations[b] = IF @ = k THEN None ELSE @]

\* activate() when no stop is under way: activateRuntime() up to its first
\* await, or the promise of the activation under way.
Begin(s, k) ==
  LET b == botOf[k]
      old == s.backends[b]
      begun == [s EXCEPT !.activations[b] = k, !.act[k].gen = s.generation[b]]
  IN IF s.activations[b] # None THEN [s EXCEPT !.act[k].at = "done"]
     ELSE IF old = None THEN [begun EXCEPT !.act[k].at = "preparing"]
     ELSE [StopBackend(begun, old) EXCEPT !.act[k].at = "stoppingOld",
                                          !.act[k].old = old]

WaitingAt(s, b) ==
  {i \in 1..Len(attemptsOf[b]) : s.act[attemptsOf[b][i]].at = "waiting"}

WakeConfirmed(s, b, ok) ==
  IF ~ok \/ WaitingAt(s, b) = {} THEN s
  ELSE LET k == attemptsOf[b][Min(WaitingAt(s, b))] IN
       IF s.act[k].gen = s.generation[b] THEN Begin(s, k)
       ELSE [s EXCEPT !.act[k].at = "done"]

\* The attempts that waited for the stop: those of the present generation try
\* again, of which the first one begins and the others share its promise.
Wake(s, b, ok) ==
  LET again == {i \in WaitingAt(s, b) :
                  ok /\ s.act[attemptsOf[b][i]].gen = s.generation[b]}
      woken == [s EXCEPT !.act = [k \in Backends |->
                  IF botOf[k] = b /\ s.act[k].at = "waiting"
                  THEN [s.act[k] EXCEPT !.at = "done"] ELSE s.act[k]]]
  IN IF again = {} THEN woken ELSE Begin(woken, attemptsOf[b][Min(again)])

\* The registry's stop() has seen its backend stop, or has none to stop.
StopFinished(s, b, ok) ==
  LET confirmed == ok /\ ~s.stops[b].failed
      done == [s EXCEPT !.stops[b] = NotStopping]
  IN IF confirmed THEN Wake([done EXCEPT !.activations[b] = None], b, TRUE)
     ELSE Wake(done, b, FALSE)

Forget(s, k) ==
  [s EXCEPT !.backends[botOf[k]] = IF @ = k THEN None ELSE @]

\* Every coroutine that awaits k's stop goes on: an activation that replaces
\* the backend, the one that undoes its own, and the registry's stop().
StopSettled(s, k, ok) ==
  LET b == botOf[k]
      resumed == [IF ok THEN Forget(s, k) ELSE s EXCEPT
        !.backend[k].stop = "none",
        !.act = [j \in Backends |->
          CASE s.act[j].at = "stoppingOld" /\ s.act[j].old = k ->
                 [s.act[j] EXCEPT !.at = IF ok THEN "preparing" ELSE "done"]
            [] s.act[j].at = "undoing" /\ j = k ->
                 [s.act[j] EXCEPT !.at = "done"]
            [] OTHER -> s.act[j]]]
      over == [resumed EXCEPT !.activations[b] =
                 IF @ # None /\ resumed.act[@].at = "done" THEN None ELSE @]
  IN IF s.stops[b].at = "backend" /\ s.stops[b].target = k
     THEN StopFinished(over, b, ok) ELSE over

StopConfirmedUncleaned(s, k) ==
  StopSettled([s EXCEPT !.backend[k].owner = FALSE,
                        !.backend[k].startup = FALSE,
                        !.backend[k].phase = "stopped"], k, TRUE)

\* stopNamed() after the engine confirmed, or without an engine.
StopConfirmed(s, k) ==
  StopSettled([s EXCEPT !.backend[k].owner = FALSE,
                        !.backend[k].startup = FALSE,
                        !.backend[k].phase = "stopped",
                        !.holding = IF s.backend[k].stop = "idle" THEN @
                                    ELSE @ \ {botOf[k]}],
              k, TRUE)

StopUnconfirmed(s, k) ==
  StopSettled([s EXCEPT !.backend[k].phase = "degraded"], k, FALSE)

\* activateRuntime() after backend.start().
Started(s, k) ==
  LET b == botOf[k] IN
  IF s.act[k].gen # s.generation[b] /\ s.backends[b] = k
  THEN [StopBackend(s, k) EXCEPT !.act[k].at = "undoing"]
  ELSE Finished(s, k)

-----------------------------------------------------------------------------
NewBackend == [phase |-> "none", owner |-> FALSE, moved |-> FALSE,
               startup |-> FALSE, start |-> "none", stop |-> "none",
               awaited |-> [undo |-> None, stop |-> None], calls |-> 0]

FleetInit ==
  /\ HostInit
  /\ generation = [b \in Bots |-> 0]
  /\ backends = [b \in Bots |-> None]
  /\ activations = [b \in Bots |-> None]
  /\ stops = [b \in Bots |-> NotStopping]
  /\ act = [k \in Backends |-> [at |-> "unused", gen |-> 0, old |-> None]]
  /\ backend = [k \in Backends |-> NewBackend]
  /\ hosts = [b \in Bots |-> None]
  /\ pending = {}
  /\ up = TRUE
  /\ holding = {}

OnHost == <<residents, startQueue, starting, toDesktop>>

\* The microtasks that are due for a backend.
Due(k) ==
  \/ backend[k].start \in {"returned", "refused", "undone"}
  \/ backend[k].start = "settled" /\ act[k].at = "starting"
  \/ backend[k].stop \in {"idle", "confirmed", "unconfirmed"}

Idle == \A k \in Backends : ~Due(k)

StartContinues(k) ==
  \/ backend[k].start = "returned" /\ BecomeDesk(StartReturned(Desk, k))
  \/ backend[k].start = "refused" /\ BecomeDesk(StartRefused(Desk, k))
  \/ backend[k].start = "undone" /\ BecomeDesk(StartFailed(Desk, k))
  \/ /\ backend[k].start = "settled" /\ act[k].at = "starting"
     /\ BecomeDesk(Started(Desk, k))

StopContinues(k) ==
  \/ backend[k].stop \in {"idle", "confirmed"} /\ BecomeDesk(StopConfirmed(Desk, k))
  \/ backend[k].stop = "unconfirmed" /\ BecomeDesk(StopUnconfirmed(Desk, k))

Continue(k) ==
  /\ StartContinues(k) \/ StopContinues(k)
  /\ UNCHANGED OnHost

Unused(b) == {i \in 1..Len(attemptsOf[b]) : act[attemptsOf[b][i]].at = "unused"}

\* activate() of a bot that is not ready.
Activate(b) ==
  /\ Idle
  /\ Unused(b) # {}
  /\ backends[b] # None => backend[backends[b]].phase # "ready"
  /\ LET k == attemptsOf[b][Min(Unused(b))] IN
     IF stops[b].at # "none"
     THEN BecomeDesk([Desk EXCEPT !.act[k] = [at |-> "waiting", old |-> None,
                                              gen |-> generation[b]]])
     ELSE BecomeDesk(Begin(Desk, k))
  /\ UNCHANGED OnHost

\* The engine is up and the account's grant resolved, or one of them failed.
\* Unless a stop or an update came meanwhile the backend is created.
Prepared(k) ==
  LET b == botOf[k]
      created == [Desk EXCEPT !.backends[b] = k, !.act[k].at = "starting"]
  IN /\ Idle
     /\ act[k].at = "preparing"
     /\ \/ BecomeDesk(Finished(Desk, k))
        \/ act[k].gen = generation[b] /\ BecomeDesk(StartNamed(created, k))
     /\ UNCHANGED OnHost

\* stop(): the activation is invalidated at once, then the bot's automations
\* and consultations are cancelled.
StopBotRuntime(b) ==
  /\ Idle
  /\ generation[b] < MaxGeneration[b]
  /\ BecomeDesk([Desk EXCEPT
       !.generation[b] = @ + 1,
       !.stops[b].at = IF @ = "none" THEN "cancelling" ELSE @])
  /\ UNCHANGED OnHost

CancelledOrNot(b) ==
  /\ Idle
  /\ stops[b].at = "cancelling"
  /\ \E failed \in BOOLEAN :
       LET k == backends[b]
           s == [Desk EXCEPT !.stops[b] =
                   [at |-> "backend", target |-> k, failed |-> failed]]
       IN BecomeDesk(IF k = None \/ failed THEN StopFinished(s, b, TRUE)
                                            ELSE StopBackend(s, k))
  /\ UNCHANGED OnHost

\* They are, or that failed; either way the backend is stopped next.
Cancelled(b) ==
  /\ Idle
  /\ stops[b].at = "cancelling"
  /\ \E failed \in BOOLEAN :
       LET k == backends[b]
           s == [Desk EXCEPT !.stops[b] =
                   [at |-> "backend", target |-> k, failed |-> failed]]
       IN BecomeDesk(IF k = None THEN StopFinished(s, b, TRUE)
                                 ELSE StopBackend(s, k))
  /\ UNCHANGED OnHost

\* The worker was asked to stop its executions; whatever it said, the engine
\* is asked next.
ExecutionsStopped(k) ==
  /\ Idle
  /\ \/ backend[k].stop = "executions" /\ BecomeDesk(AskToStop(Desk, k))
     \/ /\ backend[k].stop = "disconnected"
        /\ BecomeDesk([Desk EXCEPT !.backend[k].stop = "unconfirmed"])
  /\ UNCHANGED OnHost

HasLiveRuntime(k) == backend[k].owner \/ backend[k].startup

\* update() of a bot whose backend, if any, has no live runtime.
Update(b) ==
  LET k == backends[b] IN
  /\ Idle
  /\ generation[b] < MaxGeneration[b]
  /\ k # None => /\ ~HasLiveRuntime(k)
                 /\ backend[k].phase \in {"none", "stopped", "degraded"}
  /\ BecomeDesk([Desk EXCEPT !.generation[b] = @ + 1, !.activations[b] = None])
  /\ UNCHANGED OnHost

\* onMessage() of the client.  An exit names only the bot.  A start's answer
\* may come from a worker of another identity.
DesktopReceive ==
  /\ Idle
  /\ toDesktop # <<>>
  /\ toDesktop' = Tail(toDesktop)
  /\ LET m == Head(toDesktop) IN
     \/ /\ m.kind = "bot-exit"
        /\ BecomeDesk(Release(Desk, m.bot, TRUE))
     \/ /\ m.kind = "answer" /\ m.of \in pending
        /\ \E ok \in {m.ok, m.ok /\ m.of.op # "start"} :
             BecomeDesk(SettleControl(Desk, m.of, ok))
     \/ /\ m.kind = "answer" /\ m.of \notin pending
        /\ UNCHANGED deskVars
        /\ UNCHANGED toHost
  /\ UNCHANGED <<residents, startQueue, starting>>

ControlForgotten(c) ==
  /\ Idle
  /\ botOf[c.by] \in SlowBots
  /\ BecomeDesk([Resolve(Desk, {c}, FALSE) EXCEPT !.pending = pending])
  /\ UNCHANGED OnHost

\* A control's timer fires before its answer comes.
ControlTimesOut(c) ==
  /\ Idle
  /\ botOf[c.by] \in SlowBots
  /\ BecomeDesk(Resolve(Desk, {c}, FALSE))
  /\ UNCHANGED OnHost

\* The engine's process ends and its workers with it; the client disconnects:
\* every control is refused, every binding released.
EngineLost ==
  /\ Idle
  /\ up
  /\ up' = FALSE
  /\ residents' = [b \in Bots |-> None]
  /\ startQueue' = <<>>
  /\ starting' = 0
  /\ toHost' = <<>>
  /\ toDesktop' = <<>>
  /\ pending' = {}
  /\ hosts' = [b \in Bots |-> None]
  /\ backend' = [k \in Backends |->
       LET one == backend[k]
           told == one.owner /\ hosts[botOf[k]] = k
       IN [one EXCEPT
            !.owner = @ /\ ~told,
            !.phase = IF told THEN "degraded" ELSE @,
            !.awaited = [undo |-> None, stop |-> None],
            !.start = CASE @ = "control" -> "refused" [] @ = "undo" -> "undone"
                        [] OTHER -> @,
            !.stop = CASE @ = "control" -> "unconfirmed"
                       [] @ = "executions" -> "disconnected" [] OTHER -> @]]
  /\ holding' = holding \ {b \in Bots : hosts[b] # None /\ backend[hosts[b]].owner}
  /\ UNCHANGED <<generation, backends, activations, stops, act>>

\* The lead's backend starts a new one.
EngineStarts ==
  /\ Idle
  /\ ~up
  /\ up' = TRUE
  /\ UNCHANGED <<hostVars, generation, backends, activations, stops, act, backend,
                 hosts, pending, holding>>

FleetNext ==
  \/ \E b \in Bots :
       \/ Activate(b) \/ StopBotRuntime(b) \/ Cancelled(b) \/ Update(b)
       \/ Idle /\ WorkerStep(b) /\ UNCHANGED deskVars
  \/ \E k \in Backends : Continue(k) \/ Prepared(k) \/ ExecutionsStopped(k)
  \/ \E c \in pending : ControlTimesOut(c)
  \/ Idle /\ HostReceive /\ UNCHANGED deskVars
  \/ DesktopReceive
  \/ EngineLost
  \/ EngineStarts

FleetSpec == FleetInit /\ [][FleetNext]_fleetVars

\* Messages are delivered, microtasks run, what is awaited answers, a worker
\* that stops ends and one that boots is ready, fails or ends in time (the
\* host's startup timer).  No stop, update or loss of the engine is relied on.
FairFleetSpec ==
  /\ FleetSpec
  /\ WF_fleetVars(Idle /\ HostReceive /\ UNCHANGED deskVars)
  /\ WF_fleetVars(DesktopReceive)
  /\ \A b \in Bots :
       /\ WF_fleetVars(Cancelled(b))
       /\ WF_fleetVars(/\ Idle /\ HasWorker(b) /\ ~residents[b].settled
                       /\ WorkerReady(b) \/ WorkerFails(b)
                       /\ UNCHANGED deskVars)
       /\ WF_fleetVars(/\ Idle /\ HasWorker(b) /\ residents[b].stopping
                       /\ WorkerExits(b) /\ UNCHANGED deskVars)
  /\ \A k \in Backends :
       /\ WF_fleetVars(Continue(k))
       /\ WF_fleetVars(Prepared(k) \/ ExecutionsStopped(k))

-----------------------------------------------------------------------------
FleetTypeOK ==
  /\ HostTypeOK
  /\ generation \in [Bots -> Nat]
  /\ \A b \in Bots : generation[b] <= MaxGeneration[b]
  /\ {backends, activations, hosts} \subseteq [Bots -> Backends \cup {None}]
  /\ stops \in [Bots -> [at : {"none", "cancelling", "backend"},
                         target : Backends \cup {None}, failed : BOOLEAN]]
  /\ act \in [Backends ->
       [at : {"unused", "waiting", "stoppingOld", "preparing", "starting",
              "undoing", "done"},
        gen : Nat, old : Backends \cup {None}]]
  /\ backend \in [Backends ->
       [phase : {"none", "booting", "ready", "degraded", "stopped"},
        owner : BOOLEAN, moved : BOOLEAN, startup : BOOLEAN,
        start : {"none", "control", "returned", "refused", "undo", "undone",
                 "settled"},
        stop : {"none", "idle", "executions", "disconnected", "control",
                "confirmed", "unconfirmed"},
        awaited : [undo : Controls \cup {None}, stop : Controls \cup {None}],
        calls : Nat]]
  /\ pending \subseteq Controls
  /\ \A k \in Backends :
       /\ backend[k].start = "control"
            <=> \E c \in pending : c.op = "start" /\ c.by = k
       /\ {backend[k].awaited.undo, backend[k].awaited.stop}
            \subseteq pending \cup {None}
  /\ holding \subseteq Bots

\* A bot has one worker at most, and somebody who answers for it.
\* Every worker belongs to a backend that knows it and that the registry knows:
\* the bot's binding is that backend's, which holds the engine and will stop
\* the worker.  No start that failed, timed out or was overtaken by a stop
\* leaves a worker behind.
\* A replacement is started only when nothing of its predecessor is left,
\* neither a binding on the desktop nor a resident on the host, booting or
\* still shutting down: the host refuses no start but for capacity.
OneWorkerPerBot ==
  /\ \A b \in Bots : residents[b] # None =>
       /\ backends[b] = residents[b].by
       /\ hosts[b] = residents[b].by
       /\ backend[residents[b].by].owner
  /\ toHost # <<>> /\ Head(toHost).op = "start"
       => residents[botOf[Head(toHost).by]] = None
  /\ \A k \in Backends : hosts[botOf[k]] # None /\ backend[k].owner
       => hosts[botOf[k]] = k

Leaving(b) == BotExit(b) \in Range(toDesktop)

\* A bot that is shown ready has its own worker listening, or the news of the
\* worker's end is on its way: no late exit, answer or start makes one of a
\* replaced worker ready, and no exit is lost.
ReadyMeansListening ==
  \A k \in Backends : Idle /\ backend[k].phase = "ready" =>
    /\ backends[botOf[k]] = k
    /\ hosts[botOf[k]] = k
    /\ \/ Leaving(botOf[k])
       \/ /\ residents[botOf[k]] # None
          /\ residents[botOf[k]].by = k /\ residents[botOf[k]].settled
       \/ backend[k].stop # "none"

\* What the host keeps for a bot (leases, parent witnesses) is cleared exactly
\* once nobody owns a worker of it: not before, under the replacement, and not
\* left to it.
CleanedUp ==
  Idle => \A b \in Bots :
    b \in holding <=> \E k \in Backends : botOf[k] = b /\ backend[k].owner

\* A worker whose activation was overtaken by a stop does not stay.
OvertakenStop ==
  \A k \in Backends :
    backend[k].owner /\ act[k].gen < generation[botOf[k]] ~> ~backend[k].owner

\* Whoever activates or stops a bot is answered.
RequestsSettle ==
  /\ \A k \in Backends : act[k].at \notin {"unused", "done"} ~> act[k].at = "done"
  /\ \A b \in Bots : stops[b].at # "none" ~> stops[b].at = "none"
=============================================================================
