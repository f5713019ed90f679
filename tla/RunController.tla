---------------------------- MODULE RunController ----------------------------
(***************************************************************************)
(* RunControllerService and RunControllerStore: the receipt and the event  *)
(* journal of every run, kept in memory and in run-receipts.json, and the  *)
(* coroutines that drive them: the server-owned chat run of POST /chat,    *)
(* and the turns the CLI and ACP execute directly.                         *)
(*                                                                         *)
(* JavaScript runs a continuation up to its next await; nothing but a      *)
(* crash comes between its steps.  A continuation that may write the file  *)
(* more than once is several actions here, tied together by "rest": while  *)
(* it names a step, only that step or a crash is possible.                 *)
(***************************************************************************)
EXTENDS Naturals, FiniteSets, SequencesExt

CONSTANTS
  Sessions, Runs,
  Served,        \* runs submitted to POST /chat; the others are direct turns
  sessionOf,     \* [Runs -> Sessions]
  NoRun,
  MaxReceipts,   \* RunControllerStore.MAX_RECEIPTS
  WritesFail,    \* TRUE: a write of run-receipts.json may throw
  LoadsStop,     \* TRUE: the process may end while it loads the file
  TurnsThrow     \* TRUE: the model stage of a direct turn may throw

ASSUME RunsAssumption ==
  /\ Served \subseteq Runs
  /\ sessionOf \in [Runs -> Sessions]
  /\ NoRun \notin Runs
  /\ MaxReceipts \in Nat \ {0}
  /\ {WritesFail, LoadsStop, TurnsThrow} \subseteq BOOLEAN

VARIABLES
  store,     \* RunControllerStore, as [receipts, order, journals, active, dirty, timer]
  disk,      \* run-receipts.json
  tasks,     \* served runs claimed and not released, abort controller included
  queued,    \* accepted runs whose model turn has not started
  aborted,   \* runs whose abort signal has fired
  turn,      \* per run, where its coroutine awaits
  rest,      \* the next step of the continuation that is executing
  answer,    \* per served run, what the caller of POST /chat was told
  up         \* the process is running

runVars == <<store, disk, tasks, queued, aborted, turn, rest, answer, up>>

Ended == {"complete", "cancelled", "error"}
Unended == {"waiting", "running"}
Statuses == {"none"} \cup Unended \cup Ended

\* A journal is kept as its terminal event, "open" if it has none yet.
EventOf == [complete |-> "response.completed", cancelled |-> "response.cancelled",
            error |-> "response.failed"]
TerminalEvents == {EventOf[e] : e \in Ended}

-----------------------------------------------------------------------------
(* RunControllerStore *)

EmptyImage == [receipts |-> [r \in Runs |-> "none"], order |-> <<>>,
               journals |-> [r \in Runs |-> "none"]]

StoreOf(image) ==
  [receipts |-> image.receipts, order |-> image.order,
   journals |-> image.journals, active |-> [s \in Sessions |-> NoRun],
   dirty |-> FALSE, timer |-> FALSE]

Image(s) == [receipts |-> s.receipts, order |-> s.order, journals |-> s.journals]

\* Positions of the ended runs, oldest first in the order.
EndedIn(s) == {i \in DOMAIN s.order : s.receipts[s.order[i]] \in Ended}

\* trimReceipts(): the oldest ended run gives way.  Receipts come one at a
\* time, so one is enough.
Trim(s) ==
  IF Len(s.order) <= MaxReceipts \/ EndedIn(s) = {} THEN s
  ELSE LET oldest == s.order[Min(EndedIn(s))] IN
       [s EXCEPT !.receipts[oldest] = "none", !.journals[oldest] = "none",
                 !.order = RemoveFirst(@, oldest)]

\* The part save() and apply() share: activeRuns.set, receipts.set, trim.
Put(s, r, status) ==
  Trim([s EXCEPT !.active[sessionOf[r]] = r,
                 !.receipts[r] = status,
                 !.order = IF s.receipts[r] = "none" THEN Append(@, r) ELSE @])

\* The capacity check of save().
HasRoom(r) ==
  \/ store.receipts[r] # "none"
  \/ Len(store.order) < MaxReceipts
  \/ EndedIn(store) # {}

\* flushPersistence(): the file is replaced, or the write throws.
Flush(s, saved) ==
  /\ saved \in {TRUE, ~WritesFail}
  /\ store' = [s EXCEPT !.dirty = ~saved, !.timer = FALSE]
  /\ disk' = IF saved THEN Image(s) ELSE disk

\* appendEvent() of an event that is not terminal: written 50 ms later.
AppendEvent(s, r) ==
  IF s.journals[r] \in TerminalEvents THEN s
  ELSE [s EXCEPT !.journals[r] = "open", !.dirty = TRUE, !.timer = TRUE]

\* Mutants: operators that no definition uses.  Each is a plausible bug in the
\* operator defined after it and shows which property would notice.
TellAlways(r, event, saved) ==
  answer' = IF answer[r] = "waiting" THEN [answer EXCEPT ![r] = event] ELSE answer

TellUnlessCancelled(r, event, saved) ==
  answer' = IF saved /\ answer[r] = "waiting" /\ event # "response.cancelled"
            THEN [answer EXCEPT ![r] = event] ELSE answer

\* The task event is emitted once it is written; waitForTerminalEvent() hears it.
Tell(r, event, saved) ==
  answer' = IF saved /\ answer[r] = "waiting"
            THEN [answer EXCEPT ![r] = event] ELSE answer

\* appendTaskEvent() of a terminal event.  The first one stays.
AppendTerminal(r, event, saved) ==
  IF store.journals[r] \in TerminalEvents
  THEN saved = TRUE /\ UNCHANGED <<store, disk, answer>>
  ELSE /\ Flush([store EXCEPT !.journals[r] = event], saved)
       /\ Tell(r, event, saved)

-----------------------------------------------------------------------------
(* RunControllerService *)

\* getActive()
Active(s) ==
  store.active[s] # NoRun /\ store.receipts[store.active[s]] \in Unended

IsActive(r) == Active(sessionOf[r]) /\ store.active[sessionOf[r]] = r

\* finishTurn(): ends whatever run is active in the session.
FinishAgain(s, status, saved) ==
  IF store.active[s] # NoRun
  THEN /\ Flush(Put(store, store.active[s], status), saved)
       /\ queued' = IF saved THEN queued \ {store.active[s]} ELSE queued
  ELSE saved = TRUE /\ UNCHANGED <<store, disk, queued>>

Finish(s, status, saved) ==
  IF Active(s)
  THEN /\ Flush(Put(store, store.active[s], status), saved)
       /\ queued' = IF saved THEN queued \ {store.active[s]} ELSE queued
  ELSE /\ saved = TRUE
       /\ queued' = queued \ {store.active[s]}
       /\ UNCHANGED <<store, disk>>

NoRest == [step |-> "none", run |-> NoRun]
Then(step, r) == rest' = [step |-> step, run |-> r]
Idle == up /\ rest = NoRest

ClaimableByTask(r) ==
  /\ r \notin tasks
  /\ store.receipts[r] = "none" /\ store.journals[r] = "none"
  /\ \A t \in tasks : sessionOf[t] # sessionOf[r]

\* claimTaskRun() accepts.
Claimable(r) ==
  /\ r \notin tasks
  /\ store.receipts[r] = "none" /\ store.journals[r] = "none"
  /\ \A t \in tasks : sessionOf[t] # sessionOf[r]
  /\ ~Active(sessionOf[r])

\* Bound: history outlasts every coroutine, so that no run is trimmed while
\* its coroutine is still there (1024 newer runs would have to come and go).
OutlastsCoroutines(s) ==
  \A r \in Runs : turn[r] # "none" /\ store.receipts[r] # "none"
                    => s.receipts[r] # "none"

\* saveAccepted() threw and undid what it had done.
LeavePhantom(s, image) == store' = s /\ disk' = image

Undo(s, image) == UNCHANGED <<store, disk>>

\* saveAccepted() returns only when the receipt is in the file.
WriteAcceptedLater(s) == UNCHANGED disk

WriteAccepted(s) == disk' = Image(s)

RunsInit ==
  /\ store = StoreOf(EmptyImage)
  /\ disk = EmptyImage
  /\ tasks = {}
  /\ queued = {}
  /\ aborted = {}
  /\ turn = [r \in Runs |-> "none"]
  /\ rest = NoRest
  /\ answer = [r \in Runs |-> "none"]
  /\ up = TRUE

\* startServerOwnedChatRun() up to its first await: the run is claimed, its
\* acceptance written, its controller registered and response.created appended.
Submit(r) ==
  LET accepted == Put(store, r, "waiting") IN
  /\ Idle
  /\ r \in Served
  /\ turn[r] = "none"
  /\ Claimable(r)
  /\ OutlastsCoroutines(accepted)
  /\ \/ /\ HasRoom(r)
        /\ WriteAccepted(accepted)
        /\ store' = AppendEvent([accepted EXCEPT !.dirty = FALSE, !.timer = FALSE], r)
        /\ tasks' = tasks \cup {r}
        /\ queued' = queued \cup {r}
        /\ turn' = [turn EXCEPT ![r] = "admission"]
        /\ answer' = [answer EXCEPT ![r] = "waiting"]
     \/ /\ ~HasRoom(r) \/ WritesFail
        /\ Undo(accepted, disk)
        /\ answer' = [answer EXCEPT ![r] = "turn_failed"]
        /\ UNCHANGED <<tasks, queued, turn>>
  /\ UNCHANGED <<aborted, rest, up>>

\* cancelRun(): of a served run, its turn is aborted; of any run, its receipt
\* is ended first and the terminal event appended next.
Cancel(r) ==
  /\ Idle
  /\ r \in tasks \/ store.receipts[r] # "none"
  /\ store.journals[r] \notin TerminalEvents
  /\ aborted' = IF r \in tasks /\ store.receipts[r] \notin Ended
                THEN aborted \cup {r} ELSE aborted
  /\ \E saved \in BOOLEAN :
       /\ IF IsActive(r) THEN Finish(sessionOf[r], "cancelled", saved)
                         ELSE saved /\ UNCHANGED <<store, disk, queued>>
       /\ IF saved THEN Then("cancel", r) ELSE UNCHANGED rest
  /\ UNCHANGED <<tasks, turn, answer, up>>

CancelRest(r) ==
  /\ rest = [step |-> "cancel", run |-> r]
  /\ \E saved \in BOOLEAN : AppendTerminal(r, "response.cancelled", saved)
  /\ rest' = NoRest
  /\ UNCHANGED <<tasks, queued, aborted, turn, up>>

-----------------------------------------------------------------------------
(* The coroutines *)

\* roomHandlerQueue: one turn of a session at a time.
RoomFree(s) ==
  \A r \in Runs : sessionOf[r] = s => turn[r] \notin {"setup", "working"}

Moves(r, from, to) ==
  /\ Idle
  /\ turn[r] = from
  /\ turn' = [turn EXCEPT ![r] = to]

\* The lease is granted and the room is free.
Admit(r) ==
  /\ r \notin aborted
  /\ RoomFree(sessionOf[r])
  /\ Moves(r, "admission", "setup")
  /\ UNCHANGED <<store, disk, tasks, queued, aborted, rest, answer, up>>

\* A direct turn: a CLI line or an ACP prompt, with a fresh run id.
Begin(r) ==
  /\ r \notin Served
  /\ store.receipts[r] = "none" /\ store.journals[r] = "none"
  /\ RoomFree(sessionOf[r])
  /\ Moves(r, "none", "setup")
  /\ UNCHANGED <<store, disk, tasks, queued, aborted, rest, answer, up>>

\* The continuation of r's await goes on with the given step.
Resume(r, step) ==
  /\ Then(step, r)
  /\ UNCHANGED <<store, disk, tasks, queued, aborted, turn, answer, up>>

\* startTurn() may go ahead: of a queued run if it is still the active one,
\* of any other if its session has none.
Startable(r) ==
  /\ store.receipts[r] \notin Ended
  /\ IF r \in queued THEN IsActive(r) ELSE ~Active(sessionOf[r]) /\ HasRoom(r)

StartTurn(r) ==
  LET started == Put(store, r, "running") IN
  /\ Idle
  /\ turn[r] = "setup"
  /\ \/ /\ ~Startable(r)
        /\ Resume(r, "unwind")
     \/ /\ Startable(r)
        /\ OutlastsCoroutines(started)
        /\ \E saved \in BOOLEAN :
             /\ Flush(started, saved)
             /\ IF saved
                THEN /\ queued' = queued \ {r}
                     /\ turn' = [turn EXCEPT ![r] = "working"]
                     /\ UNCHANGED rest
                ELSE Then("unwind", r) /\ UNCHANGED <<queued, turn>>
        /\ UNCHANGED <<tasks, aborted, answer, up>>

\* An await of the setup throws inside runPostCommandTurn.
SetupThrows(r) == Idle /\ turn[r] = "setup" /\ Resume(r, "unwind")

\* The catch of runPostCommandTurn ends the session's active run, whichever it
\* is, and throws again.
Unwind(r) ==
  /\ rest = [step |-> "unwind", run |-> r]
  /\ \E saved \in BOOLEAN :
       \E status \in IF r \notin Served THEN {"cancelled", "error"}
                     ELSE IF r \in aborted THEN {"cancelled"} ELSE {"error"} :
         Finish(sessionOf[r], status, saved)
  /\ IF r \in Served THEN Then("catch", r) /\ UNCHANGED turn
     ELSE rest' = NoRest /\ turn' = [turn EXCEPT ![r] = "none"]
  /\ UNCHANGED <<tasks, aborted, answer, up>>

\* The admission is refused, the signal has fired, or the turn throws where no
\* catch of its own sees it: also in the model stage, whose promise is returned
\* without an await.
Throws(r) ==
  /\ Idle
  /\ r \in Served
  /\ turn[r] \in {"admission", "working"} \/ (turn[r] = "setup" /\ r \in aborted)
  /\ Resume(r, "catch")

DirectThrows(r) ==
  /\ TurnsThrow
  /\ r \notin Served
  /\ Moves(r, "working", "none")
  /\ UNCHANGED <<store, disk, tasks, queued, aborted, rest, answer, up>>

\* A text delta or a progress event of a served run.
Progress(r) ==
  /\ Idle
  /\ r \in Served
  /\ turn[r] = "working"
  /\ store' = AppendEvent(store, r)
  /\ UNCHANGED <<disk, tasks, queued, aborted, turn, rest, answer, up>>

\* finalizePostProviderTurn() writes the outcome of the turn and returns.
Respond(r) ==
  /\ Idle
  /\ turn[r] = "working"
  /\ \E saved \in BOOLEAN, status \in {"complete", "error"} :
       /\ Finish(sessionOf[r], status, saved)
       /\ IF r \notin Served
          THEN turn' = [turn EXCEPT ![r] = "none"] /\ UNCHANGED rest
          ELSE Then(IF saved THEN "settle" ELSE "catch", r) /\ UNCHANGED turn
  /\ UNCHANGED <<tasks, aborted, answer, up>>

\* A turn that answers without the model: /retry with nothing to retry.
ReturnEarly(r) ==
  /\ Idle
  /\ r \in Served
  /\ turn[r] = "setup"
  /\ Resume(r, "settle")

Close(r) == turn' = [turn EXCEPT ![r] = "closing"]

\* The turn returned: chat.ts appends the terminal event that fits.
Outcome(r) ==
  IF r \in aborted THEN "response.cancelled"
  ELSE IF store.receipts[r] = "error" THEN "response.failed"
  ELSE "response.completed"

Settle(r) ==
  /\ rest = [step |-> "settle", run |-> r]
  /\ \E saved \in BOOLEAN :
       IF Outcome(r) = "response.completed" /\ IsActive(r)
       THEN /\ Finish(sessionOf[r], "complete", saved)
            /\ Then(IF saved THEN "settle" ELSE "catch", r)
            /\ UNCHANGED <<turn, answer>>
       ELSE /\ AppendTerminal(r, Outcome(r), saved)
            /\ IF saved THEN rest' = NoRest /\ Close(r)
                        ELSE Then("catch", r) /\ UNCHANGED turn
            /\ UNCHANGED queued
  /\ UNCHANGED <<tasks, aborted, up>>

\* The catch of chat.ts.  What it throws itself is an unhandled rejection that
\* ends the process.
Catch(r) ==
  /\ rest = [step |-> "catch", run |-> r]
  /\ \E saved \in BOOLEAN :
       IF r \notin aborted /\ IsActive(r)
       THEN /\ Finish(sessionOf[r], "error", saved)
            /\ IF saved THEN UNCHANGED <<rest, turn>>
               ELSE rest' = NoRest /\ turn' = [turn EXCEPT ![r] = "dying"]
            /\ UNCHANGED answer
       ELSE /\ AppendTerminal(r, IF r \in aborted THEN "response.cancelled"
                                 ELSE "response.failed", saved)
            /\ rest' = NoRest
            /\ IF saved THEN Close(r) ELSE turn' = [turn EXCEPT ![r] = "dying"]
            /\ UNCHANGED queued
  /\ UNCHANGED <<tasks, aborted, up>>

\* releaseTaskRun() and the abort controller's unregistering.
ReleaseTaskOnly(r) == tasks' = tasks \ {r} /\ UNCHANGED <<queued, aborted>>

ReleaseTask(r) ==
  /\ tasks' = tasks \ {r}
  /\ queued' = queued \ {r}
  /\ aborted' = aborted \ {r}

\* The finally of chat.ts, once the lease is released.
Leave(r) ==
  /\ Moves(r, "closing", "none")
  /\ IF r \in aborted /\ IsActive(r)
     THEN Flush(Put(store, r, "cancelled"), TRUE)
     ELSE UNCHANGED <<store, disk>>
  /\ ReleaseTask(r)
  /\ UNCHANGED <<rest, answer, up>>

-----------------------------------------------------------------------------
(* The debounce timer, the end of the process and the next start *)

\* If its write throws, nothing catches it: the process ends.
TimerFires ==
  /\ Idle
  /\ store.timer
  /\ Flush(store, TRUE)
  /\ UNCHANGED <<tasks, queued, aborted, turn, rest, answer, up>>

\* A crash at any time, or an orderly shutdown, which flushes what is dirty.
Exit ==
  /\ up
  /\ \/ UNCHANGED disk
     \/ Idle /\ store.dirty /\ disk' = Image(store)
  /\ up' = FALSE
  /\ store' = StoreOf(EmptyImage)
  /\ tasks' = {} /\ queued' = {} /\ aborted' = {}
  /\ turn' = [r \in Runs |-> "none"]
  /\ rest' = NoRest
  /\ answer' = [r \in Runs |-> IF answer[r] = "waiting" THEN "lost" ELSE answer[r]]

\* A run that had not ended did so with the restart.
Restored(image, r) ==
  IF image.receipts[r] \in Unended THEN "error" ELSE image.receipts[r]

\* loadReceipts() after n receipts: each gets the terminal event its journal
\* lacks.
LoadedFirst(image, n) ==
  LET order == SubSeq(image.order, 1, n)
      receipts == [r \in Runs |-> IF Contains(order, r) THEN Restored(image, r)
                                  ELSE "none"]
  IN [receipts |-> receipts,
      order |-> order,
      journals |-> [r \in Runs |->
        IF Contains(order, r) /\ image.journals[r] \notin TerminalEvents
        THEN EventOf[receipts[r]] ELSE image.journals[r]]]

LoadedFailed(image) ==
  LET all == LoadedFirst(image, Len(image.order)) IN
  [all EXCEPT !.journals = [r \in Runs |->
     IF all.journals[r] # "none" /\ image.journals[r] \notin TerminalEvents
     THEN "response.failed" ELSE all.journals[r]]]

\* Journals without a receipt are closed last.
Loaded(image) ==
  LET all == LoadedFirst(image, Len(image.order)) IN
  [all EXCEPT !.journals = [r \in Runs |->
     IF all.journals[r] = "open" THEN "response.failed" ELSE all.journals[r]]]

Restart ==
  /\ ~up
  /\ store' = StoreOf(Loaded(disk))
  /\ disk' = Loaded(disk)
  /\ up' = TRUE
  /\ UNCHANGED <<tasks, queued, aborted, turn, rest, answer>>

\* Every terminal event appended while loading writes the file, with the
\* receipts loaded so far; the process ends before the next.
StopLoading ==
  /\ ~up
  /\ LoadsStop
  /\ \E n \in 1..Len(disk.order) :
       /\ disk.journals[disk.order[n]] \notin TerminalEvents
       /\ disk' = LoadedFirst(disk, n)
  /\ UNCHANGED <<store, tasks, queued, aborted, turn, rest, answer, up>>

RunsNext ==
  \/ \E r \in Runs :
       \/ Submit(r) \/ Cancel(r) \/ CancelRest(r)
       \/ Admit(r) \/ Begin(r) \/ StartTurn(r) \/ SetupThrows(r) \/ Unwind(r)
       \/ Throws(r) \/ DirectThrows(r) \/ Progress(r) \/ Respond(r)
       \/ ReturnEarly(r) \/ Settle(r) \/ Catch(r) \/ Leave(r)
  \/ TimerFires
  \/ Exit
  \/ Restart
  \/ StopLoading

RunsSpec == RunsInit /\ [][RunsNext]_runVars

\* Continuations run on, awaits come back, and a process that ended is started
\* again.  The event loop serves its queue in order, so what is ready time and
\* again, whenever no other continuation is executing, gets its turn: hence
\* strong fairness.  A direct turn may take for ever, and no cancel and no timer
\* is relied upon.
FairRunsSpec ==
  /\ RunsSpec
  /\ \A r \in Runs :
       WF_runVars(CancelRest(r) \/ Unwind(r) \/ Settle(r) \/ Catch(r))
  /\ \A r \in Served :
       /\ SF_runVars(Admit(r) \/ Throws(r))
       /\ SF_runVars(StartTurn(r) \/ SetupThrows(r) \/ ReturnEarly(r))
       /\ SF_runVars(Respond(r) \/ Throws(r))
       /\ SF_runVars(Leave(r))
  /\ WF_runVars(Restart)

-----------------------------------------------------------------------------
Steps == {"none", "unwind", "settle", "catch", "cancel"}
ImageType ==
  [receipts : [Runs -> Statuses], order : Seq(Runs),
   journals : [Runs -> {"none", "open"} \cup TerminalEvents]]

RunsTypeOK ==
  /\ Image(store) \in ImageType
  /\ store.active \in [Sessions -> Runs \cup {NoRun}]
  /\ {store.dirty, store.timer} \subseteq BOOLEAN
  /\ disk \in ImageType
  /\ tasks \subseteq Served /\ queued \subseteq tasks /\ aborted \subseteq tasks
  /\ turn \in [Runs -> {"none", "admission", "setup", "working", "closing", "dying"}]
  /\ rest \in [step : Steps, run : Runs \cup {NoRun}]
  /\ answer \in [Runs -> {"none", "waiting", "lost", "turn_failed"} \cup TerminalEvents]
  /\ up \in BOOLEAN

\* The receipt and the journal tell the same outcome of a served run, also
\* after cancels that race its end and after crashes between their two writes;
\* and no run whose coroutine is gone is without an outcome.
OutcomesAgree ==
  Idle => \A r \in Served :
    /\ store.receipts[r] \in Ended /\ store.journals[r] \in TerminalEvents
         => store.journals[r] = EventOf[store.receipts[r]]
    /\ store.receipts[r] # "none" /\ turn[r] = "none"
         => store.receipts[r] \in Ended /\ store.journals[r] \in TerminalEvents

\* "A terminal receipt is immutable": no late failure or completion rewrites
\* it, and no run comes back to life, not even by a restart.
OutcomesStay ==
  [][\A r \in Runs :
       /\ up /\ up' /\ store.receipts[r] \in Ended
            => store'.receipts[r] \in {store.receipts[r], "none"}
       /\ disk.receipts[r] \in Ended
            => disk'.receipts[r] \in {disk.receipts[r], "none"}]_runVars

\* What the caller of POST /chat was told about a run's end is what the file
\* says from then on, whatever write fails and whenever the process ends.
ToldOutcomesStay ==
  \A r \in Served : answer[r] \in TerminalEvents
    => disk.journals[r] \in {answer[r], "none"}

\* A session never has two runs that have not ended, be they submitted over
\* HTTP or executed directly.
OneActiveRun ==
  \A q, r \in Runs :
    /\ q # r /\ sessionOf[q] = sessionOf[r]
    /\ store.receipts[q] \in Unended
    => store.receipts[r] \notin Unended

\* A run that has not ended has a coroutine that will end it: neither a failed
\* acceptance nor a turn that threw leaves one that blocks its session.
ActiveRunsHaveTurns ==
  Idle => \A r \in Runs : store.receipts[r] \in Unended => turn[r] # "none"

\* A run that is accepted is in the file before anything else happens to it, and
\* receipts leave the file only to make room in a full history.
ReceiptsDurable ==
  [][\A r \in Runs :
       /\ r \in tasks' => disk'.receipts[r] # "none"
       /\ disk.receipts[r] # "none" /\ disk'.receipts[r] = "none"
            => Len(disk'.order) = MaxReceipts]_runVars

\* Whoever waits for a run's end is told, or loses the connection to a process
\* that ended; and every claim on a session is given up.
RunsLetGo ==
  \A r \in Served :
    /\ answer[r] = "waiting" ~> answer[r] # "waiting"
    /\ r \in tasks ~> r \notin tasks
=============================================================================
