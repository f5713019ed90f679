--------------------------- MODULE GatewayIngress ---------------------------
(***************************************************************************)
(* From a provider's callback to the end of its turn: the webhook that     *)
(* acknowledges a message once it is in the spool, the worker that drains  *)
(* the spool one message at a time (gateway/receive/ingress-worker.ts),    *)
(* the coordinator that runs a message once however often it is received   *)
(* (gateway/receive/idempotency.ts), and the turn it runs                  *)
(* (gateway/receive/index.ts), down to the receipt of its run, whose id is *)
(* a hash of the message's key.  The process may end at any moment.        *)
(*                                                                         *)
(* Left out: messages without an id, which are not deduplicated, and slash *)
(* commands, which take no run receipt; aborting a turn, which only makes  *)
(* it more likely to throw, and any turn may throw here; the retry delays. *)
(* Run receipts are written without fault and outlive the model: module    *)
(* RunController is about them.                                            *)
(***************************************************************************)
EXTENDS IngressSpool

CONSTANTS
  Direct,       \* messages that a native adapter may hand over as well
  Sessions,
  sessionOf,    \* the session a message is routed to
  NoMessage

ASSUME GatewayAssumption ==
  /\ Direct \subseteq Messages
  /\ sessionOf \in [Messages -> Sessions]
  /\ NoMessage \notin Messages

VARIABLES
  spool,
  worker,     \* the ingress worker
  exec,       \* where the coordinated execution of a message is
  run,        \* the receipt of a message's run
  outcome,    \* messages whose outcome the process knows
  inbox,      \* messages whose outcome is in the inbox journal
  unanswered, \* an accepted message's provider has had no response
  owed,       \* accepted messages that have not been settled
  turns       \* how often a message's turn was started

gatewayVars ==
  <<spool, worker, exec, run, outcome, inbox, unanswered, owed, turns>>

OffWorker ==
  [on |-> "off", drain |-> "none", cur |-> NoMessage, answer |-> "none",
   stalled |-> FALSE, timer |-> FALSE, cursor |-> NoMessage, failed |-> FALSE]

GatewayInit ==
  /\ spool = EmptySpool
  /\ worker = OffWorker
  /\ exec = [m \in Messages |-> "none"]
  /\ run = [m \in Messages |-> "none"]
  /\ outcome = {}
  /\ inbox = {}
  /\ unanswered = FALSE
  /\ owed = {}
  /\ turns = [m \in Messages |-> 0]

-----------------------------------------------------------------------------
\* The worker.

Kick(w) ==
  IF w.on = "on" /\ w.drain = "none" THEN [w EXCEPT !.drain = "loop"] ELSE w

\* start(): the entries a previous worker left in processing are interrupted;
\* if that throws, the worker is on but nothing has been kicked.
StartIngress(w) ==
  IF w.on = "off"
  THEN \E o \in MarkInterrupted(spool) :
         LET started == [w EXCEPT !.on = "on", !.stalled = FALSE, !.failed = ~o.ok]
         IN /\ spool' = o.spool
            /\ worker' = IF o.ok THEN Kick(started) ELSE started
  ELSE /\ worker' = Kick(w)
       /\ UNCHANGED spool

\* The entries the worker may claim: none that waits for the retry timer.
Pending(es, w) ==
  Selected(es, {i \in DOMAIN es : \/ es[i].status = "queued"
                                  \/ es[i].status = "retrying" /\ ~w.timer})

\* The oldest of those to retry, whoever failed last.
NextPendingOldest(es, w) ==
  LET p == Pending(es, w)
      queued == {i \in DOMAIN p : p[i].status = "queued"}
  IN IF queued # {} THEN p[CHOOSE i \in queued : \A j \in queued : i <= j].msg
     ELSE p[1].msg

\* New messages first, then those to retry in turn, from the one after the
\* last that failed.
NextPending(es, w) ==
  LET p == Pending(es, w)
      queued == {i \in DOMAIN p : p[i].status = "queued"}
      cursor == {i \in DOMAIN p : p[i].msg = w.cursor}
  IN CASE queued # {} -> p[CHOOSE i \in queued : \A j \in queued : i <= j].msg
       [] queued = {} /\ cursor = {} -> p[1].msg
       [] queued = {} /\ cursor # {} ->
            p[((CHOOSE i \in cursor : TRUE) % Len(p)) + 1].msg

\* The finally of a drain: go on at once, unless a write failed or the timer
\* will go on.
EndDrain(w, es) ==
  [w EXCEPT !.drain = IF /\ w.on = "on" /\ ~w.stalled /\ ~w.timer
                         /\ Pending(es, w) # <<>>
                      THEN "loop" ELSE "none",
            !.cur = NoMessage, !.answer = "none"]

\* setStatus() in which a throw is swallowed.
SafeStatus(s, m, status) == {o.spool : o \in SetStatus(s, m, status)}

\* What is owed once the map of the spool is es, as far as m goes.
StillOwed(es, m) ==
  IF StatusOf(es, m) \in Live THEN owed ELSE owed \ {m}

\* The worker gives m to the coordinator: a known outcome is the answer, an
\* execution in flight is joined, otherwise one begins.
Receive(m, w) ==
  LET waiting == [w EXCEPT !.drain = "receiving", !.cur = m] IN
  IF m \in outcome
  THEN /\ worker' = [waiting EXCEPT !.answer = "completed"]
       /\ UNCHANGED exec
  ELSE /\ worker' = waiting
       /\ exec' = [exec EXCEPT ![m] = IF @ = "none" THEN "setup" ELSE @]

\* One round of the drain's loop, up to the await.
TakeNext ==
  /\ worker.drain = "loop"
  /\ IF worker.on # "on" \/ Pending(spool.mem, worker) = <<>>
     THEN /\ worker' = EndDrain(worker, spool.mem)
          /\ UNCHANGED <<spool, exec, owed>>
     ELSE LET m == NextPending(spool.mem, worker) IN
          \E o \in SetStatus(spool, m, "processing") :
            \/ /\ o.ok
               /\ spool' = o.spool
               /\ Receive(m, worker)
               /\ UNCHANGED owed
            \/ /\ ~o.ok
               /\ spool' \in SafeStatus(o.spool, m, "failed")
               /\ owed' = StillOwed(spool'.mem, m)
               /\ worker' = EndDrain([worker EXCEPT !.stalled = TRUE,
                                                   !.failed = TRUE], spool'.mem)
               /\ UNCHANGED exec
  /\ UNCHANGED <<run, outcome, inbox, unanswered, turns>>

\* The worker's turn came back.  A failed or transient one is put back for the
\* timer, or interrupted if the worker is being stopped.
PutBack(m) ==
  \/ /\ worker.on = "stopping"
     /\ spool' \in SafeStatus(spool, m, "interrupted")
     /\ worker' = EndDrain(worker, spool'.mem)
     /\ UNCHANGED owed
  \/ /\ worker.on = "on"
     /\ \E o \in SetStatus(spool, m, "retrying") :
          \/ /\ o.ok
             /\ spool' = o.spool
             /\ worker' = EndDrain([worker EXCEPT !.cursor = m, !.timer = TRUE],
                                   spool'.mem)
             /\ UNCHANGED owed
          \/ /\ ~o.ok
             /\ spool' \in SafeStatus(o.spool, m, "failed")
             /\ owed' = StillOwed(spool'.mem, m)
             /\ worker' = EndDrain([worker EXCEPT !.failed = TRUE], spool'.mem)

\* The outcome is written down, and the drain goes on.
Finish(m) ==
  \E o \in SetStatus(spool, m, "completed") :
    /\ spool' \in IF o.ok THEN {o.spool} ELSE SafeStatus(o.spool, m, "failed")
    /\ owed' = StillOwed(spool'.mem, m)
    /\ worker' = [worker EXCEPT !.drain = "loop", !.cur = NoMessage,
                                !.answer = "none",
                                !.stalled = @ \/ ~o.ok, !.failed = @ \/ ~o.ok]

Settle ==
  /\ worker.drain = "receiving"
  /\ worker.answer # "none"
  /\ IF worker.answer = "completed" THEN Finish(worker.cur) ELSE PutBack(worker.cur)
  /\ UNCHANGED <<exec, run, outcome, inbox, unanswered, turns>>

TimerFires ==
  /\ worker.timer
  /\ worker' = Kick([worker EXCEPT !.timer = FALSE])
  /\ UNCHANGED <<spool, exec, run, outcome, inbox, unanswered, owed, turns>>

\* stop() aborts and drops the timer, then awaits the drain.
Stop ==
  /\ worker.on = "on"
  /\ worker' = [worker EXCEPT !.on = "stopping", !.timer = FALSE]
  /\ UNCHANGED <<spool, exec, run, outcome, inbox, unanswered, owed, turns>>

Stopped ==
  /\ worker.on = "stopping"
  /\ worker.drain = "none"
  /\ worker' = [worker EXCEPT !.on = "off", !.timer = FALSE]
  /\ UNCHANGED <<spool, exec, run, outcome, inbox, unanswered, owed, turns>>

-----------------------------------------------------------------------------
\* The webhook, the control route and the native adapters.

\* The provider delivers m, for the first time or again.
Deliver(m) ==
  /\ \E o \in Accept(spool, m) :
       /\ spool' = o.spool
       /\ unanswered' = (unanswered \/ o.ok)
       /\ owed' = IF o.ok /\ ~Has(spool.mem, m) THEN owed \cup {m} ELSE owed
  /\ UNCHANGED <<worker, exec, run, outcome, inbox, turns>>

\* A response has been written.  A provider that hung up before delivers again.
Answered ==
  /\ unanswered
  /\ unanswered' = FALSE
  /\ StartIngress(worker)
  /\ UNCHANGED <<exec, run, outcome, inbox, owed, turns>>

\* POST /gateway/start, or the command.
Start ==
  /\ StartIngress(worker)
  /\ UNCHANGED <<exec, run, outcome, inbox, unanswered, owed, turns>>

\* A native adapter receives m itself.  If its outcome is known or it is being
\* executed, nothing begins.
HandOver(m) ==
  /\ m \in Direct
  /\ m \notin outcome /\ exec[m] = "none"
  /\ exec' = [exec EXCEPT ![m] = "setup"]
  /\ UNCHANGED <<spool, worker, run, outcome, inbox, unanswered, owed, turns>>

-----------------------------------------------------------------------------
\* The execution of a message, processGatewayReceive under the coordinator.

\* Only a worker that began the execution is told, not one that joined it.
EndUntold(m, answer) ==
  /\ exec' = [exec EXCEPT ![m] = "none"]
  /\ worker' = IF worker.cur = m /\ worker.answer = "none" /\ m \notin Direct
               THEN [worker EXCEPT !.answer = answer] ELSE worker

\* It is over, and whoever joined it is told.
End(m, answer) ==
  /\ exec' = [exec EXCEPT ![m] = "none"]
  /\ worker' = IF worker.cur = m /\ worker.answer = "none"
               THEN [worker EXCEPT !.answer = answer] ELSE worker

\* The adapter is not ready, or there is no session: nothing is remembered.
TurnedAway(m) ==
  /\ exec[m] = "setup"
  /\ End(m, "transient")
  /\ UNCHANGED <<spool, run, outcome, inbox, unanswered, owed, turns>>

\* The outcome, delivered or not, is known from now on, and written to the
\* inbox journal; if that throws, the execution fails all the same.
Record(m) ==
  /\ outcome' = outcome \cup {m}
  /\ \/ /\ inbox' = inbox \cup {m}
        /\ End(m, "completed")
        /\ UNCHANGED spool
     \/ /\ MayFail(spool) # {}
        /\ inbox' \in {inbox, inbox \cup {m}}
        /\ End(m, "threw")
        /\ spool' = OneLess(spool)

\* The sender is not authorized: settled without a turn.
Unauthorized(m) ==
  /\ exec[m] = "setup"
  /\ Record(m)
  /\ UNCHANGED <<run, unanswered, owed, turns>>

RoomFree(m) ==
  \A x \in Messages : sessionOf[x] = sessionOf[m] => exec[x] # "turn"

\* Only the session is looked at.
StartableAgain(m) ==
  \A x \in Messages : sessionOf[x] = sessionOf[m] => run[x] # "active"

\* startTurn() accepts m: its run has not ended, and its session has no run
\* that has not.
Startable(m) ==
  /\ run[m] # "ended"
  /\ \A x \in Messages : sessionOf[x] = sessionOf[m] => run[x] # "active"

StartTurn(m) ==
  /\ exec[m] = "setup"
  /\ RoomFree(m)
  /\ Startable(m)
  /\ exec' = [exec EXCEPT ![m] = "turn"]
  /\ run' = [run EXCEPT ![m] = "active"]
  /\ turns' = [turns EXCEPT ![m] = @ + 1]
  /\ UNCHANGED <<spool, worker, outcome, inbox, unanswered, owed>>

\* startTurn() throws, and the catch around it ends whatever run is active in
\* the session.
Refused(m) ==
  /\ exec[m] = "setup"
  /\ RoomFree(m)
  /\ ~Startable(m)
  /\ run' = [x \in Messages |->
               IF sessionOf[x] = sessionOf[m] /\ run[x] = "active"
               THEN "ended" ELSE run[x]]
  /\ End(m, "threw")
  /\ UNCHANGED <<spool, outcome, inbox, unanswered, owed, turns>>

\* The model answered; failures of the provider are answers too.
TurnEnds(m) ==
  /\ exec[m] = "turn"
  /\ exec' = [exec EXCEPT ![m] = "deliver"]
  /\ run' = [run EXCEPT ![m] = "ended"]
  /\ UNCHANGED <<spool, worker, outcome, inbox, unanswered, owed, turns>>

\* The turn throws: where the catch sees it, or in the model stage, where it
\* does not and the run stays active.
TurnThrows(m) ==
  /\ exec[m] = "turn"
  /\ run' \in {run, [run EXCEPT ![m] = "ended"]}
  /\ End(m, "threw")
  /\ UNCHANGED <<spool, outcome, inbox, unanswered, owed, turns>>

\* The response is sent, or kept in the outbox for a retry of the delivery.
Delivered(m) ==
  /\ exec[m] = "deliver"
  /\ Record(m)
  /\ UNCHANGED <<run, unanswered, owed, turns>>

\* Anything else before or after the turn throws.
Throws(m) ==
  /\ exec[m] \in {"setup", "deliver"}
  /\ End(m, "threw")
  /\ UNCHANGED <<spool, run, outcome, inbox, unanswered, owed, turns>>

Execute(m) ==
  \/ TurnedAway(m) \/ Unauthorized(m) \/ StartTurn(m) \/ Refused(m)
  \/ TurnEnds(m) \/ TurnThrows(m) \/ Delivered(m) \/ Throws(m)

-----------------------------------------------------------------------------
\* The process ends, and another reads the files: the spool, the outcomes, and
\* the run receipts, of which it ends those left open.
Crash ==
  /\ spool' \in Loaded(spool)
  /\ owed' = {m \in owed : StatusOf(spool.disk, m) \notin Terminal}
  /\ worker' = OffWorker
  /\ exec' = [m \in Messages |-> "none"]
  /\ run' = [m \in Messages |-> IF run[m] = "none" THEN "none" ELSE "ended"]
  /\ outcome' = inbox
  /\ UNCHANGED <<inbox, unanswered, turns>>

GatewayNext ==
  \/ \E m \in Messages :
       Deliver(m) \/ HandOver(m) \/ Execute(m)
  \/ TakeNext \/ Settle \/ TimerFires \/ Answered \/ Start \/ Stop \/ Stopped
  \/ Crash

GatewaySpec == GatewayInit /\ [][GatewayNext]_gatewayVars

\* The drain runs on, timers fire, and what a turn awaits comes back one way or
\* the other.  A provider that has had no response delivers again until it has
\* one; no other delivery, start, hand-over or crash is relied upon.
FairGatewaySpec ==
  /\ GatewaySpec
  /\ WF_gatewayVars(TakeNext \/ Settle)
  /\ WF_gatewayVars(TimerFires)
  /\ WF_gatewayVars(Stopped)
  /\ WF_gatewayVars(Answered)
  /\ \A m \in Messages : WF_gatewayVars(Execute(m))

-----------------------------------------------------------------------------
WorkerType ==
  [on : {"off", "on", "stopping"}, drain : {"none", "loop", "receiving"},
   cur : Messages \cup {NoMessage},
   answer : {"none", "transient", "threw", "completed"},
   stalled : BOOLEAN, timer : BOOLEAN,
   cursor : Messages \cup {NoMessage}, failed : BOOLEAN]

\* Every variable has its type, an entry appears once, and the worker awaits a
\* turn exactly while it has a message whose execution is going on or which
\* it was told the end of.
GatewayTypeOK ==
  /\ spool \in Spool
  /\ \A es \in {spool.mem, spool.disk} :
       IsInjective([i \in DOMAIN es |-> es[i].msg])
  /\ worker \in WorkerType
  /\ exec \in [Messages -> {"none", "setup", "turn", "deliver"}]
  /\ run \in [Messages -> {"none", "active", "ended"}]
  /\ outcome \subseteq Messages
  /\ inbox \subseteq Messages
  /\ unanswered \in BOOLEAN
  /\ owed \subseteq Messages
  /\ turns \in [Messages -> Nat]
  /\ worker.drain = "receiving" <=> worker.cur # NoMessage
  /\ worker.drain = "receiving" =>
       worker.answer # "none" \/ exec[worker.cur] # "none"

\* "Durably acknowledge provider callbacks before their model turn begins": a
\* message whose callback was accepted is in the journal, payload and all,
\* until it is settled, whatever write fails and whenever the process ends.
AcknowledgedKept ==
  \A m \in owed : \E i \in DOMAIN spool.disk :
    spool.disk[i].msg = m /\ spool.disk[i].payload

\* "No duplicate agent run was started": the turn of a message is started at
\* most once, over redeliveries, retries, hand-overs, discarded tombstones,
\* outcomes that could not be written, and restarts.
AtMostOneTurn == \A m \in Messages : turns[m] <= 1

\* A message that was settled stays as it was settled, also over restarts,
\* until enough others were settled for its tombstone to be discarded.  Where
\* compactions failed, there may be more of them.
SettledStays ==
  [][\A m \in Messages :
       LET was == StatusOf(spool.mem, m)
           is == StatusOf(spool'.mem, m)
       IN was \in Terminal /\ is # was =>
            /\ is = "none"
            /\ Cardinality({x \in Messages : StatusOf(spool'.mem, x) \in Terminal})
                 >= MaxTombstones]_gatewayVars

\* While the worker is on and its writes succeed: "one transient provider turn
\* cannot starve later work".  Every message that waits, new or put back, is
\* taken up again.
Waits(m) ==
  /\ worker.on = "on" /\ ~worker.failed
  /\ StatusOf(spool.mem, m) \in {"queued", "retrying"}

TakenUp == \A m \in Messages : Waits(m) ~> ~Waits(m)

\* What the worker has taken up, it lets go of, and a stop comes to its end.
LetGo ==
  /\ []<>(worker.cur = NoMessage)
  /\ worker.on = "stopping" ~> worker.on = "off"
=============================================================================
