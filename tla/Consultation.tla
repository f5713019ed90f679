---------------------------- MODULE Consultation ----------------------------
(***************************************************************************)
(* One bot consults another: the broker's dispatch, wait and cancel        *)
(* (bot-consultation-broker.ts), the tool of the worker that calls them    *)
(* (consult-bot-action.ts), the run they start in the target's worker, as  *)
(* far as the host's admission of it goes, and the messages between them.  *)
(* Submissions and cancels travel by connections of their own: they may    *)
(* overtake one another or be lost.  Workers die and bots are stopped; the *)
(* desktop's process may end and start again.                              *)
(*                                                                         *)
(* One call of dispatch() stands for its consultation, whose id it makes   *)
(* up, and one wait() for the caller's, as the tool makes them.  Left out: *)
(* what permissions, knowledge and workspaces a consultation gets, which   *)
(* decide only whether the checks throw; and a ledger that is full.        *)
(***************************************************************************)
EXTENDS ConsultationLedger

CONSTANTS
  Bots,
  lead,         \* the bot that the root runs belong to
  originBot, targetBot,
  parentOf,     \* the consultation whose run makes this one
  NoParent

ASSUME ConsultationAssumption ==
  /\ lead \in Bots
  /\ originBot \in [Dispatches -> Bots]
  /\ targetBot \in [Dispatches -> Bots]
  /\ \A d \in Dispatches : originBot[d] # targetBot[d]
  /\ NoParent \notin Dispatches
  /\ parentOf \in [Dispatches -> Dispatches \cup {NoParent}]
  /\ \A d \in Dispatches :
       IF parentOf[d] = NoParent THEN originBot[d] = lead
       ELSE /\ parentOf[parentOf[d]] = NoParent
            /\ rootOf[parentOf[d]] = rootOf[d]
            /\ originBot[d] = targetBot[parentOf[d]]
            /\ targetBot[d] # originBot[parentOf[d]]

VARIABLES
  ledger,
  call,       \* where the caller's dispatch() and wait() are
  run,        \* its submission, and then the run in the target's worker
  cancels,    \* the request to cancel that run
  caller,     \* whether the caller of a call listens to it
  overtaken   \* dispatches whose generation is no longer the current one

consultationVars ==
  <<ledger, call, run, cancels, caller, overtaken>>

ConsultationInit ==
  /\ ledger = EmptyLedger
  /\ call = [d \in Dispatches |-> "idle"]
  /\ run = [d \in Dispatches |-> "none"]
  /\ cancels = [d \in Dispatches |-> "none"]
  /\ caller = [d \in Dispatches |-> "listens"]
  /\ overtaken = {}

\* A run that has been accepted and has not ended.
Going == {"claiming", "waiting", "active"}

IsActive(d) == ledger.mem[d] \in Active
Ended(d) == ledger.mem[d] \in Terminal

\* The run that consults is active; the runs at the roots end at any time.
OriginActive(d) ==
  parentOf[d] # NoParent => run[parentOf[d]] = "active"

\* Mutant: the generation is not compared.
PendingBySignal(d) == caller[d] = "listens"

\* assertPending()
Pending(d) == caller[d] = "listens" /\ d \notin overtaken

\* Where dispatch() compares generations.
Dispatching == {"checking", "bound", "confirmed"}

\* The call goes on to the next of its awaits, or is over.
Over == {"told", "threw", "unheard", "dropped"}
Goes(d, to) ==
  /\ call' = [call EXCEPT ![d] =
                IF to = "threw" /\ caller[d] = "gone" THEN "dropped" ELSE to]
  /\ caller' = IF to \in Over THEN [caller EXCEPT ![d] = "listens"] ELSE caller
  /\ overtaken' = IF to \in Dispatching THEN overtaken ELSE overtaken \ {d}

-----------------------------------------------------------------------------
\* dispatch()

Dispatch(d) ==
  /\ call[d] = "idle"
  /\ OriginActive(d)
  /\ Goes(d, "checking")
  /\ UNCHANGED <<ledger, run, cancels>>

\* One of the checks throws, or finds the dispatch no longer pending.
Reject(d) ==
  /\ call[d] = "checking"
  /\ Goes(d, "threw")
  /\ UNCHANGED <<ledger, run, cancels>>

\* The checks pass, for the origin's run was active when it answered, and the
\* intent is recorded; the run may have ended since.
Prepare(d) ==
  /\ call[d] = "checking"
  /\ Pending(d)
  /\ \E o \in Prepared(ledger, d) :
       /\ ledger' = o.ledger
       /\ Goes(d, IF o.ok THEN "bound" ELSE "threw")
  /\ UNCHANGED <<run, cancels>>

\* Mutant: what the origin answers is not looked at.
ConfirmAny(d) ==
  /\ call[d] = "bound"
  /\ Goes(d, "confirmed")
  /\ UNCHANGED <<ledger, run, cancels>>

\* The target's conversation is bound, and the origin answers that its run is
\* still active; the answer is on its way.
Confirm(d) ==
  /\ call[d] = "bound"
  /\ OriginActive(d)
  /\ Goes(d, "confirmed")
  /\ UNCHANGED <<ledger, run, cancels>>

\* Nobody has cancelled meanwhile: the one submission.
Submit(d) ==
  /\ call[d] = "confirmed"
  /\ Pending(d)
  /\ ledger.mem[d] = "prepared"
  /\ run' = [run EXCEPT ![d] = "sent"]
  /\ Goes(d, "posted")
  /\ UNCHANGED <<ledger, cancels>>

\* Or one of that fails.
Withdraw(d) ==
  /\ call[d] \in {"bound", "confirmed"}
  /\ ledger' \in IF IsActive(d)
                 THEN {o.ledger : o \in Updated(ledger, d, "error")}
                 ELSE {ledger}
  /\ Goes(d, "threw")
  /\ UNCHANGED <<run, cancels>>

Accepted(d) == run[d] \in Going \cup Terminal

\* The response arrives; what has become terminal meanwhile makes it throw.
Responded(d) ==
  /\ call[d] = "posted"
  /\ \/ /\ Accepted(d)
        /\ \E o \in Updated(ledger, d, "accepted") :
             /\ ledger' = o.ledger
             /\ Goes(d, IF o.ok THEN "returned" ELSE "threw")
     \/ /\ run[d] = "refused"
        /\ ledger' \in {o.ledger : o \in Updated(ledger, d, "error")}
        /\ Goes(d, "threw")
  /\ UNCHANGED <<run, cancels>>

\* The transport fails: the run may have been accepted, and the caller is told
\* to wait for it.  If only the receipt cannot be read, dispatch() throws.
Uncertain(d) ==
  /\ call[d] = "posted"
  /\ \/ Goes(d, "returned")
     \/ Accepted(d) /\ Goes(d, "threw")
  /\ UNCHANGED <<ledger, run, cancels>>

-----------------------------------------------------------------------------
\* wait() and cancel()

\* The caller learns the dispatch id and waits, unless it has turned away.
Await(d) ==
  /\ call[d] = "returned"
  /\ Goes(d, IF caller[d] # "listens" THEN "threw"
             ELSE IF Ended(d) THEN "leaving" ELSE "polling")
  /\ UNCHANGED <<ledger, run, cancels>>

\* Mutant: the poll does not look whether the run is terminal.
PollEndsAny(d) ==
  /\ call[d] = "polling"
  /\ Accepted(d)
  /\ Goes(d, "reading")
  /\ UNCHANGED <<ledger, run, cancels>>

\* A poll finds the run terminal; the transcript is read next.
PollEnds(d) ==
  /\ call[d] = "polling"
  /\ run[d] \in Terminal
  /\ Goes(d, "reading")
  /\ UNCHANGED <<ledger, run, cancels>>

\* A request of wait() throws, for one because the signal fires under it.
WaitThrows(d) ==
  /\ call[d] \in {"polling", "reading"}
  /\ Goes(d, "leaving")
  /\ UNCHANGED <<ledger, run, cancels>>

\* cancel(): the grant is revoked before the worker is told.
CancelNow(d, status) ==
  IF ~IsActive(d)
  THEN UNCHANGED <<ledger, cancels>>
  ELSE \E o \in Updated(ledger, d, status) :
         /\ ledger' = o.ledger
         /\ cancels' = IF o.ok THEN [cancels EXCEPT ![d] = "sent"] ELSE cancels

\* Between two polls the signal has fired, or the deadline passed, which it may
\* at any time.
GiveUp(d) ==
  /\ call[d] = "polling"
  /\ CancelNow(d, IF caller[d] # "listens" THEN "cancelled" ELSE "timeout")
  /\ Goes(d, "leaving")
  /\ UNCHANGED run

\* The outcome is recorded, and only then told.
Record(d) ==
  /\ call[d] = "reading"
  /\ \E o \in Updated(ledger, d, run[d]) :
       /\ ledger' = o.ledger
       /\ Goes(d, IF ~o.ok THEN "leaving"
                  ELSE IF caller[d] = "listens" THEN "told" ELSE "threw")
  /\ UNCHANGED <<run, cancels>>

\* Mutant: the tool's catch does not cancel.
LeaveOpen(d) ==
  /\ call[d] = "leaving"
  /\ Goes(d, "threw")
  /\ UNCHANGED <<ledger, run, cancels>>

\* The tool's catch, if its worker is there to run it: consult.cancel.  The
\* request may be refused, by the worker which has too much in flight or by a
\* host whose handler is stale, and the tool swallows that: whoever called is
\* answered, but was not heard.
Leave(d) ==
  /\ call[d] = "leaving"
  /\ \/ /\ IF caller[d] = "gone" THEN UNCHANGED <<ledger, cancels>>
           ELSE CancelNow(d, "cancelled")
        /\ Goes(d, "threw")
     \/ /\ caller[d] # "gone"
        /\ IsActive(d)
        /\ Goes(d, "unheard")
        /\ UNCHANGED <<ledger, cancels>>
  /\ UNCHANGED run

\* A tool that turned away does not wait for wait() to notice.
CancelAborted(d) ==
  /\ call[d] \in {"polling", "reading"}
  /\ caller[d] = "aborted"
  /\ IsActive(d)
  /\ CancelNow(d, "cancelled")
  /\ UNCHANGED <<call, run, caller, overtaken>>

Call(d) ==
  \/ Dispatch(d) \/ Reject(d) \/ Prepare(d) \/ Confirm(d) \/ Submit(d)
  \/ Withdraw(d) \/ Responded(d) \/ Uncertain(d) \/ Await(d) \/ PollEnds(d)
  \/ WaitThrows(d) \/ GiveUp(d) \/ Record(d) \/ Leave(d) \/ CancelAborted(d)

-----------------------------------------------------------------------------
\* The target's worker, its run, and the messages.

\* POST /chat/runs: the run is accepted, or refused for the worker's own
\* reasons.
SubmissionArrives(d) ==
  /\ run[d] = "sent"
  /\ run' \in {[run EXCEPT ![d] = r] : r \in {"claiming", "refused"}}
  /\ UNCHANGED <<ledger, call, cancels, caller, overtaken>>

CancelArrives(d) ==
  /\ cancels[d] = "sent"
  /\ cancels' = [cancels EXCEPT ![d] = "arrived"]
  /\ run' = [run EXCEPT ![d] = IF @ \in Going THEN "cancelled" ELSE @]
  /\ UNCHANGED <<ledger, call, caller, overtaken>>

\* Either is lost; cancel() swallows it.
SubmissionLost(d) ==
  /\ run[d] = "sent"
  /\ run' = [run EXCEPT ![d] = "lost"]
  /\ UNCHANGED <<ledger, call, cancels, caller, overtaken>>

CancelLost(d) ==
  /\ cancels[d] = "sent"
  /\ cancels' = [cancels EXCEPT ![d] = "lost"]
  /\ UNCHANGED <<ledger, call, run, caller, overtaken>>

\* Mutant: a grant is good as long as there is a record.
GrantedEver(d) == \A e \in {d, parentOf[d]} \ {NoParent} : ledger.mem[e] # "none"

\* The grant of d's workspace holds, and so does that of the consultation
\* it was made from, as far as the ledger goes.
Granted(d) == \A e \in {d, parentOf[d]} \ {NoParent} : IsActive(e)

\* The run claims its lease: the grant is looked at when the claim arrives,
\* and again when the admission table has granted it.
Claim(d) ==
  /\ \/ /\ run[d] = "claiming"
        /\ run' = [run EXCEPT ![d] = IF Granted(d) THEN "waiting" ELSE "error"]
     \/ /\ run[d] = "waiting"
        /\ run' = [run EXCEPT ![d] = IF Granted(d) THEN "active" ELSE "error"]
  /\ UNCHANGED <<ledger, call, cancels, caller, overtaken>>

\* Done, failed, or refused its lease: for capacity, or since its deadline has
\* passed.
RunEnds(d) ==
  /\ \/ run[d] = "active" /\ run' = [run EXCEPT ![d] = "complete"]
     \/ run[d] \in Going /\ run' = [run EXCEPT ![d] = "error"]
  /\ UNCHANGED <<ledger, call, cancels, caller, overtaken>>

Calling(d) == call[d] \notin {"idle"} \cup Over

\* The caller's turn is cancelled, or its own timer fires.
Abort(d) ==
  /\ Calling(d)
  /\ caller[d] = "listens"
  /\ caller' = [caller EXCEPT ![d] = "aborted"]
  /\ UNCHANGED <<ledger, call, run, cancels, overtaken>>

-----------------------------------------------------------------------------
\* Bots are stopped, workers die, the process ends.

Of(B) == {d \in Dispatches : originBot[d] \in B \/ targetBot[d] \in B}

\* cancel() of all active consultations of the bots B, in any order: those of T
\* are saved, and if that is not all of them the save of the next one threw.
CancelEach(B, T) ==
  LET A == {d \in Of(B) : IsActive(d)}
      After == [d \in Dispatches |-> IF d \in T THEN "cancelled" ELSE ledger.mem[d]]
      saved == IF T = {} THEN ledger ELSE Written(ledger, After)
  IN /\ T \subseteq A
     /\ ledger.failed => T = {}
     /\ \/ T = A /\ ledger' = saved
        \/ \E d \in A \ T :
             ledger' \in Unsaved(saved, [After EXCEPT ![d] = "cancelled"])
     /\ cancels' = [d \in Dispatches |-> IF d \in T THEN "sent" ELSE cancels[d]]

\* cancelForBot() and cancelAll(), when there is something to cancel: dispatches
\* under way are overtaken.
CancelFor(B) ==
  /\ \E d \in Of(B) : IsActive(d) \/ call[d] \in Dispatching
  /\ \E T \in SUBSET Of(B) : CancelEach(B, T)
  /\ overtaken' = overtaken \cup {d \in Of(B) : call[d] \in Dispatching}
  /\ UNCHANGED <<call, run, caller>>

\* What the dying workers of the bots B take with them.
Dead(B) ==
  LET Ending(f, from, to) ==
        [d \in Dispatches |->
           IF targetBot[d] \in B /\ f[d] \in from THEN to ELSE f[d]]
  IN /\ run' = Ending(Ending(run, Going, "error"), {"sent"}, "lost")
     /\ cancels' = Ending(cancels, {"sent"}, "lost")

\* The worker of b dies, when something of a consultation goes on in it.
WorkerDies(b) ==
  /\ \E d \in Of({b}) :
       Calling(d) \/ run[d] \in Going \cup {"sent"} \/ cancels[d] = "sent"
  /\ Dead({b})
  /\ caller' = [d \in Dispatches |->
                  IF originBot[d] = b /\ Calling(d) THEN "gone" ELSE caller[d]]
  /\ UNCHANGED <<ledger, call, overtaken>>

\* With the desktop's process its workers end; another reads the ledger.
Crash ==
  /\ Loadable(ledger)
  /\ ledger' = Loaded(ledger)
  /\ Dead(Bots)
  /\ call' = [d \in Dispatches |-> IF Calling(d) THEN "dropped" ELSE call[d]]
  /\ caller' = [d \in Dispatches |-> "listens"]
  /\ overtaken' = {}

ConsultationNext ==
  \/ \E d \in Dispatches :
       \/ Call(d) \/ SubmissionArrives(d) \/ SubmissionLost(d) \/ CancelArrives(d)
       \/ CancelLost(d) \/ Claim(d) \/ RunEnds(d) \/ Abort(d)
  \/ \E b \in Bots : CancelFor({b}) \/ WorkerDies(b)
  \/ CancelFor(Bots)
  \/ Crash

ConsultationSpec == ConsultationInit /\ [][ConsultationNext]_consultationVars

\* Deadlines pass, what wait() awaits comes back, and the tool's catch runs.
FairConsultationSpec ==
  /\ ConsultationSpec
  /\ \A d \in Dispatches :
       /\ WF_consultationVars(GiveUp(d) \/ PollEnds(d))
       /\ WF_consultationVars(call[d] = "reading" /\ (Record(d) \/ WaitThrows(d)))
       /\ WF_consultationVars(Leave(d))

-----------------------------------------------------------------------------
ConsultationTypeOK ==
  /\ ledger \in Ledger
  /\ call \in [Dispatches -> {"idle", "posted", "returned", "polling", "reading",
                              "leaving"} \cup Dispatching \cup Over]
  /\ run \in [Dispatches -> {"none", "sent", "lost", "refused"} \cup Going \cup Terminal]
  /\ cancels \in [Dispatches -> {"none", "sent", "arrived", "lost"}]
  /\ caller \in [Dispatches -> {"listens", "aborted", "gone"}]
  /\ overtaken \subseteq Dispatches

\* "Durable intent before dispatch": whichever save throws and wherever the
\* process ends, the ledger loads again, and gives every submission that was
\* made and every end that was recorded.
LedgerRecovers ==
  /\ Loadable(ledger)
  /\ \A d \in Dispatches :
       /\ run[d] # "none" => Loaded(ledger).mem[d] # "none"
       /\ Ended(d) => Loaded(ledger).mem[d] = ledger.mem[d]

\* A run executes for a consultation that has ended only while the request to
\* cancel it is on its way, or was lost: also if the request overtook the
\* submission, or the claim was waiting.
RevokedRunsCancelled ==
  \A d \in Dispatches :
    run[d] = "active" /\ Ended(d) => cancels[d] \in {"sent", "lost"}

\* A caller that knows its consultation is answered, and leaves none open
\* behind it unless the ledger cannot be written, its worker has died, or its
\* request to cancel was refused.
WaitersAnswered ==
  \A d \in Dispatches :
    call[d] = "polling" ~>
      \/ call[d] \in {"told", "threw"} /\ (Ended(d) \/ ledger.failed)
      \/ call[d] \in {"dropped", "unheard"}

-----------------------------------------------------------------------------
\* What the next start would make of the files.
Recorded ==
  LET recs == Newer(ledger).recs
  IN [d \in Dispatches |-> IF recs[d] \in Active THEN "open" ELSE recs[d]]

Submitted == {d \in Dispatches : run[d] # "none"}

Confirmed == {d \in Dispatches : call[d] = "confirmed"}

OriginsActive == {d \in Dispatches : OriginActive(d)}

ToldOutcome == [d \in Dispatches |-> IF call[d] = "told" THEN run[d] ELSE "none"]

Contract == INSTANCE OneShotDispatch
              WITH Outcomes <- Terminal, recorded <- Recorded,
                   submitted <- Submitted, told <- ToldOutcome,
                   confirmed <- Confirmed, originActive <- OriginsActive

\* "Durable intent before dispatch; uncertain submissions are never replayed":
\* over failing saves, restarts, stopped bots and lost answers the consultations
\* keep to the contract of a one-shot dispatch.  A dispatch whose end is in a
\* file is never submitted, even if the save of that end threw and the memory
\* does not know it; nor is one whose origin was not found active once more
\* after the intent was recorded.
KeepsContract == Contract!DispatchSpec
=============================================================================
