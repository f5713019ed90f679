------------------------- MODULE ConsultationProofs -------------------------
(***************************************************************************)
(* What is proved of the consultations, for any dispatches, bots, nesting  *)
(* and limits, and any number of failing saves.                            *)
(*                                                                         *)
(* LedgerSound is the inductive invariant of the two files: the primary is *)
(* never behind the backup, and knows every consultation and every end     *)
(* that the memory knows.  ConsultationInv adds what ties the runs to it,  *)
(* and Effect says what a step does to the files, the runs and the callers *)
(* as far as the contract of a one-shot dispatch goes.                     *)
(***************************************************************************)
EXTENDS Consultation, TLAPS, FiniteSetTheorems

\* recs knows what old knows, and what was terminal in it is as it was.
Grown(old, recs) ==
  \A d \in Dispatches :
    /\ old[d] # "none" => recs[d] # "none"
    /\ old[d] \in Terminal => recs[d] = old[d]

FanOut(recs) ==
  \A d \in Dispatches : Cardinality(OfRoot(recs, rootOf[d])) <= MaxFanOut

LedgerSound(l) ==
  /\ l \in Ledger
  /\ l.primary.rev >= l.backup.rev
  /\ Loadable(l)
  /\ ~l.failed => l.mem = l.primary.recs /\ l.rev = l.primary.rev
  /\ Grown(l.mem, l.primary.recs)
  /\ FanOut(l.mem) /\ FanOut(l.primary.recs)

-----------------------------------------------------------------------------
\* The ledger

\* Whatever a save leaves is a sound ledger, with the new records if it
\* returned and the old ones in memory if it did not.
LEMMA WrittenSound ==
  ASSUME NEW l, LedgerSound(l), NEW recs \in Records, FanOut(recs)
  PROVE  /\ LedgerSound(Written(l, recs))
         /\ Written(l, recs).mem = recs /\ Written(l, recs).primary.recs = recs
  BY DEF LedgerSound, Ledger, Copy, Written, Loadable, Grown

LEMMA ThrewSound ==
  ASSUME NEW l, LedgerSound(l), NEW recs \in Records, FanOut(recs),
         Grown(l.mem, recs), ~l.failed, l.left # 0,
         NEW t \in Threw(l, recs)
  PROVE  /\ LedgerSound(t) /\ t.mem = l.mem
         /\ t.primary.recs \in {l.primary.recs, recs}
<1> DEFINE next == [rev |-> l.rev + 1, recs |-> recs]
<1>1. l.left - 1 \in 0 .. MaxFailures /\ l.rev + 1 \in Nat /\ next \in Copy
  BY LedgerAssumption DEF LedgerSound, Ledger, Copy
<1>2. PICK f \in {<<l.primary, l.backup>>, <<next, l.backup>>, <<next, next>>} :
        t = [mem |-> l.mem, rev |-> l.rev, primary |-> f[1], backup |-> f[2],
             failed |-> TRUE, left |-> l.left - 1]
  BY DEF Threw
<1>3. f[1] \in Copy /\ f[2] \in Copy
  BY <1>1, <1>2 DEF LedgerSound, Ledger
<1>4. t \in Ledger
  BY <1>1, <1>2, <1>3 DEF LedgerSound, Ledger
<1>5. f[1].rev >= f[2].rev /\ (f[1].rev = f[2].rev => f[1] = f[2])
  BY <1>1, <1>2 DEF LedgerSound, Ledger, Copy, Loadable
<1>6. Grown(l.mem, f[1].recs) /\ FanOut(f[1].recs)
  BY <1>2 DEF LedgerSound
<1> QED
  BY <1>2, <1>4, <1>5, <1>6 DEF LedgerSound, Loadable

LEMMA SaveSound ==
  ASSUME NEW l, LedgerSound(l), NEW recs \in Records, FanOut(recs),
         Grown(l.mem, recs), NEW o \in Save(l, recs)
  PROVE  /\ LedgerSound(o.ledger)
         /\ o.ok => o.ledger.mem = recs /\ o.ledger.primary.recs = recs
         /\ ~o.ok => o.ledger.mem = l.mem
         /\ o.ok \/ o.ledger.primary.recs # l.primary.recs =>
              ~l.failed /\ o.ledger.primary.recs = recs
<1>1. CASE \E s \in Saved(l, recs) : o = [ledger |-> s, ok |-> TRUE]
  BY <1>1, WrittenSound DEF Saved
<1>2. CASE \E u \in Unsaved(l, recs) : o = [ledger |-> u, ok |-> FALSE]
  BY <1>2, ThrewSound DEF Unsaved
<1> QED BY <1>1, <1>2 DEF Save

\* A status changes, but no record comes or goes: the fan-out is what it was.
LEMMA StatusKeepsFanOut ==
  ASSUME NEW recs, FanOut(recs), NEW next,
         \A d \in Dispatches : next[d] # "none" <=> recs[d] # "none"
  PROVE  FanOut(next)
<1>1. \A r : OfRoot(next, r) = OfRoot(recs, r)
  BY DEF OfRoot
<1> QED BY <1>1 DEF FanOut

LEMMA UpdatedSound ==
  ASSUME NEW l, LedgerSound(l), NEW d \in Dispatches,
         NEW status \in Active \cup Terminal, NEW o \in Updated(l, d, status)
  PROVE  /\ LedgerSound(o.ledger)
         /\ o.ok => /\ l.mem[d] \in Active
                    /\ o.ledger.mem = [l.mem EXCEPT ![d] = status]
         /\ ~o.ok => o.ledger.mem = l.mem
         /\ \/ ~o.ok /\ o.ledger.primary.recs = l.primary.recs
            \/ /\ l.primary.recs[d] \in Active
               /\ o.ledger.primary.recs = [l.primary.recs EXCEPT ![d] = status]
<1>1. CASE l.mem[d] \notin Active
  BY <1>1 DEF Updated
<1>2. CASE l.mem[d] \in Active
  <2> DEFINE recs == [l.mem EXCEPT ![d] = status]
  <2>1. l.mem \in Records
    BY DEF LedgerSound, Ledger
  <2>2. recs \in Records /\ Grown(l.mem, recs)
    BY <1>2, <2>1 DEF Records, Grown, Active, Terminal
  <2>3. \A e \in Dispatches : recs[e] # "none" <=> l.mem[e] # "none"
    BY <1>2, <2>1 DEF Records, Active, Terminal
  <2>4. FanOut(recs)
    BY <2>3, StatusKeepsFanOut DEF LedgerSound
  <2>5. o \in Save(l, recs)
    BY <1>2 DEF Updated
  <2>6. ~l.failed => l.primary.recs = l.mem
    BY DEF LedgerSound
  <2> QED BY <1>2, <2>2, <2>4, <2>5, <2>6, SaveSound
<1> QED BY <1>1, <1>2

\* A place of a root is taken only if it is free.
LEMMA PreparedSound ==
  ASSUME NEW l, LedgerSound(l), NEW d \in Dispatches, NEW o \in Prepared(l, d)
  PROVE  /\ LedgerSound(o.ledger)
         /\ o.ok => /\ l.mem[d] = "none"
                    /\ o.ledger.mem = [l.mem EXCEPT ![d] = "prepared"]
         /\ ~o.ok => o.ledger.mem = l.mem
         /\ \/ ~o.ok /\ o.ledger.primary.recs = l.primary.recs
            \/ /\ l.primary.recs[d] = "none"
               /\ o.ledger.primary.recs = [l.primary.recs EXCEPT ![d] = "prepared"]
<1> DEFINE recs == [l.mem EXCEPT ![d] = "prepared"]
<1>1. CASE \/ l.mem[d] # "none"
           \/ Cardinality(OfRoot(l.mem, rootOf[d])) >= MaxFanOut
  BY <1>1 DEF Prepared
<1>2. CASE ~ \/ l.mem[d] # "none"
             \/ Cardinality(OfRoot(l.mem, rootOf[d])) >= MaxFanOut
  <2>1. l.mem \in Records
    BY DEF LedgerSound, Ledger
  <2>2. recs \in Records /\ Grown(l.mem, recs)
    BY <1>2, <2>1 DEF Records, Grown, Active, Terminal
  <2>3. \A r : IsFiniteSet(OfRoot(l.mem, r))
    BY LedgerAssumption, FS_Subset DEF OfRoot
  <2>4. \A e \in Dispatches :
          OfRoot(recs, rootOf[e]) = IF rootOf[e] = rootOf[d]
                                    THEN OfRoot(l.mem, rootOf[d]) \cup {d}
                                    ELSE OfRoot(l.mem, rootOf[e])
    BY <2>1 DEF OfRoot, Records
  <2>5. /\ Cardinality(OfRoot(l.mem, rootOf[d]) \cup {d})
             = Cardinality(OfRoot(l.mem, rootOf[d])) + 1
        /\ Cardinality(OfRoot(l.mem, rootOf[d])) \in Nat
    <3> DEFINE S == OfRoot(l.mem, rootOf[d])
    <3>1. IsFiniteSet(S) /\ d \notin S
      BY <1>2, <2>3 DEF OfRoot
    <3> HIDE DEF S
    <3>2. Cardinality(S \cup {d}) = Cardinality(S) + 1
      BY <3>1, FS_AddElement
    <3>3. Cardinality(S) \in Nat
      BY <3>1, FS_CardinalityType
    <3> QED BY <3>2, <3>3 DEF S
  <2>6. FanOut(recs)
    BY <1>2, <2>4, <2>5, LedgerAssumption DEF FanOut, LedgerSound
  <2>7. o \in Save(l, recs)
    BY <1>2 DEF Prepared
  <2>8. ~l.failed => l.primary.recs = l.mem
    BY DEF LedgerSound
  <2> QED BY <1>2, <2>2, <2>6, <2>7, <2>8, SaveSound
<1> QED BY <1>1, <1>2

\* A restart finds a sound ledger: the primary copy.
LEMMA LoadedSound ==
  ASSUME NEW l, LedgerSound(l)
  PROVE  /\ LedgerSound(Loaded(l)) /\ Loaded(l).mem = l.primary.recs
         /\ Loaded(l).primary = l.primary
<1>1. Newer(l) = l.primary
  BY DEF LedgerSound, Newer
<1>2. Loaded(l) = [mem |-> l.primary.recs, rev |-> l.primary.rev,
                   primary |-> l.primary, backup |-> l.backup,
                   failed |-> FALSE, left |-> l.left]
  BY <1>1 DEF Loaded
<1>3. Loaded(l) \in Ledger
  BY <1>2 DEF LedgerSound, Ledger, Copy
<1> QED BY <1>2, <1>3 DEF LedgerSound, Loadable, Grown

-----------------------------------------------------------------------------
\* The broker

CallStates ==
  {"idle", "posted", "returned", "polling", "reading", "leaving"}
    \cup Dispatching \cup Over
RunStates == {"none", "sent", "lost", "refused"} \cup Going \cup Terminal

\* ConsultationTypeOK, but for the ledger.
TypesOK ==
  /\ call \in [Dispatches -> CallStates]
  /\ run \in [Dispatches -> RunStates]
  /\ cancels \in [Dispatches -> {"none", "sent", "arrived", "lost"}]
  /\ caller \in [Dispatches -> {"listens", "aborted", "gone"}]
  /\ overtaken \subseteq Dispatches

\* The intent is recorded, and the run not submitted.
Intended == {"bound", "confirmed"}

\* What d's call, run and record say of each other.  A call whose intent was
\* recorded and which is not overtaken finds it in the file.
InStep(d) ==
  /\ call[d] \in Intended => ledger.mem[d] # "none"
  /\ call[d] \in Intended /\ d \notin overtaken => ledger.primary.recs[d] \in Active
  /\ run[d] # "none" => ledger.mem[d] # "none"
  /\ call[d] \in {"idle"} \cup Dispatching => run[d] = "none"
  /\ call[d] = "reading" => run[d] \in Terminal
  /\ call[d] = "told" => run[d] \in Terminal /\ ledger.mem[d] = run[d]
  /\ cancels[d] # "none" => Ended(d)
  /\ run[d] = "active" /\ Ended(d) => cancels[d] \in {"sent", "lost"}

ConsultationInv ==
  /\ LedgerSound(ledger)
  /\ TypesOK
  /\ \A d \in Dispatches : InStep(d)

\* The files after a step: the end of some dispatches is recorded, ...
Durable == ledger.primary.recs
Ends(D, outcome) ==
  /\ \A d \in D : Durable[d] \in Active
  /\ Durable' = [d \in Dispatches |-> IF d \in D THEN outcome ELSE Durable[d]]

\* ... while nobody is told, nothing submitted and no origin asked, ...
Calm ==
  \A e \in Dispatches :
    /\ call'[e] = "told" <=> call[e] = "told"
    /\ run'[e] = "none" <=> run[e] = "none"
    /\ call[e] = "told" => run'[e] = run[e]
    /\ call'[e] = "confirmed" => call[e] = "confirmed"

\* ... or the origin of one is found active, or one is submitted, or the caller of
\* one is told.
Effect ==
  \/ Calm /\ Durable' = Durable
  \/ Calm /\ \E d \in Dispatches :
              /\ Durable[d] = "none"
              /\ Durable' = [Durable EXCEPT ![d] = "prepared"]
  \/ Calm /\ \E d \in Dispatches :
              /\ Durable[d] \in Active
              /\ Durable' = [Durable EXCEPT ![d] = "accepted"]
  \/ Calm /\ \E D \in SUBSET Dispatches, outcome \in Terminal : Ends(D, outcome)
  \/ \E d \in Dispatches :
       /\ Durable[d] # "none" /\ Durable' = Durable
       /\ OriginActive(d) /\ run' = run
       /\ \A e \in Dispatches :
            /\ call'[e] = "told" <=> call[e] = "told"
            /\ call'[e] = "confirmed" <=> call[e] = "confirmed" \/ e = d
  \/ \E d \in Dispatches :
       /\ Durable[d] \in Active /\ Durable' = Durable
       /\ call[d] = "confirmed"
       /\ run[d] = "none" /\ run' = [run EXCEPT ![d] = "sent"]
       /\ \A e \in Dispatches :
            /\ call'[e] = "told" <=> call[e] = "told"
            /\ call'[e] = "confirmed" => call[e] = "confirmed"
  \/ \E d \in Dispatches :
       /\ run[d] \in Terminal /\ run' = run
       /\ Durable[d] \in Active /\ Durable' = [Durable EXCEPT ![d] = run[d]]
       /\ \A e \in Dispatches :
            /\ call'[e] = "told" <=> call[e] = "told" \/ e = d
            /\ call'[e] = "confirmed" => call[e] = "confirmed"

LEMMA InvImplies ==
  ASSUME ConsultationInv
  PROVE  ConsultationTypeOK /\ LedgerRecovers /\ RevokedRunsCancelled
<1>1. ConsultationTypeOK
  BY DEF ConsultationInv, TypesOK, LedgerSound, ConsultationTypeOK, CallStates, RunStates
<1>2. LedgerRecovers
  BY LoadedSound DEF ConsultationInv, LedgerSound, LedgerRecovers, Grown, InStep, Ended
<1>3. RevokedRunsCancelled
  BY DEF ConsultationInv, InStep, RevokedRunsCancelled
<1> QED BY <1>1, <1>2, <1>3

LEMMA InitInv == ConsultationInit => ConsultationInv
<1> SUFFICES ASSUME ConsultationInit PROVE ConsultationInv
  OBVIOUS
<1>1. NoRecords \in Records /\ EmptyLedger \in Ledger
  BY LedgerAssumption DEF NoRecords, Records, EmptyLedger, EmptyCopy, Ledger, Copy
<1>2. FanOut(NoRecords)
  <2>1. \A r : OfRoot(NoRecords, r) = {}
    BY DEF OfRoot, NoRecords
  <2> QED BY <2>1, FS_EmptySet, LedgerAssumption DEF FanOut
<1>3. LedgerSound(EmptyLedger)
  BY <1>1, <1>2 DEF LedgerSound, EmptyLedger, EmptyCopy, Loadable, Grown
<1>4. TypesOK /\ \A d \in Dispatches : InStep(d)
  BY DEF ConsultationInit, TypesOK, CallStates, RunStates, InStep, Intended, Dispatching, Ended, EmptyLedger,
         NoRecords, Terminal, Going
<1> QED BY <1>3, <1>4 DEF ConsultationInv, ConsultationInit

LEMMA GoesTypes ==
  ASSUME TypesOK, NEW d \in Dispatches, NEW to \in CallStates, Goes(d, to)
  PROVE  /\ call' \in [Dispatches -> CallStates]
         /\ caller' \in [Dispatches -> {"listens", "aborted", "gone"}]
         /\ overtaken' \subseteq Dispatches
         /\ call'[d] = to \/ (to = "threw" /\ call'[d] = "dropped")
         /\ \A e \in Dispatches \ {d} : call'[e] = call[e]
  BY DEF Goes, TypesOK, CallStates, Dispatching, Over

\* A step that tells and submits nothing keeps to the contract as far as the file
\* does.
LEMMA CalmIfUntold ==
  ASSUME NEW d \in Dispatches, run' = run, call[d] # "told",
         call'[d] \notin {"told", "confirmed"} \/ call'[d] = call[d],
         \A e \in Dispatches \ {d} : call'[e] = call[e]
  PROVE  Calm
  BY DEF Calm

LEMMA EndsOne ==
  ASSUME Calm, NEW d \in Dispatches, NEW outcome \in Terminal,
         ledger.primary.recs \in Records, ledger.primary.recs[d] \in Active,
         ledger'.primary.recs = [ledger.primary.recs EXCEPT ![d] = outcome]
  PROVE  Effect
<1>1. Ends({d}, outcome)
  BY DEF Ends, Durable, Records
<1> QED BY <1>1 DEF Effect

\* cancel() leaves everything as it was, or ends the consultation and asks.
LEMMA CancelNowSound ==
  ASSUME ConsultationInv, NEW d \in Dispatches, NEW status \in Terminal,
         CancelNow(d, status)
  PROVE  /\ LedgerSound(ledger')
         /\ \/ ledger'.mem = ledger.mem /\ cancels' = cancels
            \/ /\ ledger'.mem = [ledger.mem EXCEPT ![d] = status]
               /\ cancels' = [cancels EXCEPT ![d] = "sent"]
               /\ ledger.mem[d] \in Active
         /\ \/ ledger'.primary.recs = ledger.primary.recs
            \/ /\ ledger.primary.recs[d] \in Active
               /\ ledger'.primary.recs = [ledger.primary.recs EXCEPT ![d] = status]
<1>1. CASE IsActive(d)
  <2>1. PICK o \in Updated(ledger, d, status) :
          /\ ledger' = o.ledger
          /\ cancels' = IF o.ok THEN [cancels EXCEPT ![d] = "sent"] ELSE cancels
    BY <1>1 DEF CancelNow
  <2> QED BY <2>1, UpdatedSound DEF ConsultationInv
<1>2. CASE ~IsActive(d)
  BY <1>2 DEF CancelNow, ConsultationInv
<1> QED BY <1>1, <1>2

\* The steps of a call up to its submission.
LEMMA DispatchInv ==
  ASSUME ConsultationInv, NEW d \in Dispatches,
         \/ Dispatch(d) \/ Reject(d) \/ Prepare(d) \/ Confirm(d) \/ Submit(d)
         \/ Withdraw(d)
  PROVE  ConsultationInv' /\ Effect
<1> USE DEF ConsultationInv
<1>0. /\ ledger.mem \in [Dispatches -> {"none"} \cup Active \cup Terminal]
      /\ ledger.primary.recs \in [Dispatches -> {"none"} \cup Active \cup Terminal]
      /\ run \in [Dispatches -> RunStates]
      /\ call \in [Dispatches -> CallStates]
      /\ \A e \in Dispatches : InStep(e)
  BY DEF LedgerSound, Ledger, Copy, Records, TypesOK
<1>1. CASE Dispatch(d)
  <2>1. call[d] = "idle" /\ Goes(d, "checking") /\ UNCHANGED <<ledger, run, cancels>>
    BY <1>1 DEF Dispatch
  <2>2. /\ TypesOK' /\ call'[d] = "checking" /\ overtaken' = overtaken
        /\ \A e \in Dispatches \ {d} : call'[e] = call[e]
    BY <2>1, GoesTypes DEF TypesOK, CallStates, Dispatching, Goes
  <2>3. \A e \in Dispatches : InStep(e)'
    BY <1>0, <2>1, <2>2 DEF InStep, Intended, Dispatching, Ended
  <2>4. Calm
    BY <2>1, <2>2, CalmIfUntold
  <2> QED BY <1>0, <2>1, <2>2, <2>3, <2>4 DEF Effect, Durable
<1>2. CASE Reject(d)
  <2>1. call[d] = "checking" /\ Goes(d, "threw") /\ UNCHANGED <<ledger, run, cancels>>
    BY <1>2 DEF Reject
  <2>2. /\ TypesOK' /\ call'[d] \in {"threw", "dropped"}
        /\ overtaken' = overtaken \ {d}
        /\ \A e \in Dispatches \ {d} : call'[e] = call[e]
    BY <2>1, GoesTypes DEF TypesOK, CallStates, Dispatching, Over, Goes
  <2>3. \A e \in Dispatches : InStep(e)'
    BY <1>0, <2>1, <2>2 DEF InStep, Intended, Dispatching, Ended
  <2>4. Calm
    BY <2>1, <2>2, CalmIfUntold
  <2> QED BY <1>0, <2>1, <2>2, <2>3, <2>4 DEF Effect, Durable
<1>3. CASE Prepare(d)
  <2>1. PICK o \in Prepared(ledger, d) :
          ledger' = o.ledger /\ Goes(d, IF o.ok THEN "bound" ELSE "threw")
    BY <1>3 DEF Prepare
  <2>2. call[d] = "checking" /\ UNCHANGED <<run, cancels>>
    BY <1>3 DEF Prepare
  <2>3. /\ LedgerSound(ledger')
        /\ o.ok => /\ ledger.mem[d] = "none"
                   /\ ledger'.mem = [ledger.mem EXCEPT ![d] = "prepared"]
        /\ ~o.ok => ledger'.mem = ledger.mem
        /\ \/ ~o.ok /\ ledger'.primary.recs = ledger.primary.recs
           \/ /\ ledger.primary.recs[d] = "none"
              /\ ledger'.primary.recs = [ledger.primary.recs EXCEPT ![d] = "prepared"]
    BY <2>1, PreparedSound
  <2>4. /\ TypesOK' /\ call'[d] \in {"bound", "threw", "dropped"}
        /\ call'[d] = "bound" => o.ok
        /\ overtaken \ {d} \subseteq overtaken'
        /\ \A e \in Dispatches \ {d} : call'[e] = call[e]
    <3>1. CASE o.ok
      BY <2>1, <2>2, <3>1, GoesTypes DEF TypesOK, CallStates, Dispatching, Over, Goes
    <3>2. CASE ~o.ok
      BY <2>1, <2>2, <3>2, GoesTypes DEF TypesOK, CallStates, Dispatching, Over, Goes
    <3> QED BY <3>1, <3>2
  <2>5. \A e \in Dispatches : InStep(e)'
    BY <1>0, <2>2, <2>3, <2>4 DEF InStep, Intended, Dispatching, Ended, Terminal, Active
  <2>6. Calm
    BY <2>2, <2>4, CalmIfUntold
  <2> QED BY <2>3, <2>4, <2>5, <2>6 DEF Effect, Durable
<1>4. CASE Submit(d)
  <2>1. /\ call[d] = "confirmed" /\ ledger.mem[d] = "prepared" /\ d \notin overtaken
        /\ run' = [run EXCEPT ![d] = "sent"] /\ Goes(d, "posted")
        /\ UNCHANGED <<ledger, cancels>>
    BY <1>4 DEF Submit, Pending
  <2>2. /\ TypesOK' /\ call'[d] = "posted" /\ overtaken' = overtaken
        /\ \A e \in Dispatches \ {d} : call'[e] = call[e]
    BY <2>1, GoesTypes DEF TypesOK, CallStates, RunStates, Dispatching, Goes
  <2>3. \A e \in Dispatches : InStep(e)'
    BY <1>0, <2>1, <2>2 DEF InStep, Intended, Dispatching, Ended, Terminal, Active
  <2>4. /\ ledger.primary.recs[d] \in Active /\ run[d] = "none"
        /\ \A e \in Dispatches :
             /\ call'[e] = "told" <=> call[e] = "told"
             /\ call'[e] = "confirmed" => call[e] = "confirmed"
    BY <1>0, <2>1, <2>2 DEF InStep, Intended, Dispatching
  <2>5. Effect
    BY <2>1, <2>4 DEF Effect, Durable
  <2> QED BY <2>1, <2>2, <2>3, <2>5
<1>5. CASE Withdraw(d)
  <2>1. /\ call[d] \in Intended /\ Goes(d, "threw") /\ UNCHANGED <<run, cancels>>
        /\ \/ ledger' = ledger
           \/ \E o \in Updated(ledger, d, "error") : ledger' = o.ledger
    BY <1>5 DEF Withdraw, Intended
  <2>2. /\ LedgerSound(ledger')
        /\ \/ ledger'.mem = ledger.mem
           \/ /\ ledger.mem[d] \in Active
              /\ ledger'.mem = [ledger.mem EXCEPT ![d] = "error"]
        /\ \/ ledger'.primary.recs = ledger.primary.recs
           \/ /\ ledger.primary.recs[d] \in Active
              /\ ledger'.primary.recs = [ledger.primary.recs EXCEPT ![d] = "error"]
    BY <2>1, UpdatedSound DEF Terminal
  <2>3. /\ TypesOK' /\ call'[d] \in {"threw", "dropped"}
        /\ overtaken' = overtaken \ {d}
        /\ \A e \in Dispatches \ {d} : call'[e] = call[e]
    BY <2>1, GoesTypes DEF TypesOK, CallStates, Dispatching, Over, Goes
  <2>4. \A e \in Dispatches : InStep(e)'
    BY <1>0, <2>1, <2>2, <2>3 DEF InStep, Intended, Dispatching, Ended, Terminal, Active
  <2>5. Calm
    BY <2>1, <2>3, CalmIfUntold DEF Intended
  <2>6. Effect
    <3>1. CASE ledger'.primary.recs = ledger.primary.recs
      BY <2>5, <3>1 DEF Effect, Durable
    <3>2. CASE ledger'.primary.recs # ledger.primary.recs
      BY <1>0, <2>2, <2>5, <3>2, EndsOne DEF Records, Terminal
    <3> QED BY <3>1, <3>2
  <2> QED BY <2>2, <2>3, <2>4, <2>6
<1>6. CASE Confirm(d)
  <2>1. /\ call[d] = "bound" /\ Goes(d, "confirmed") /\ OriginActive(d)
        /\ UNCHANGED <<ledger, run, cancels>>
    BY <1>6 DEF Confirm
  <2>2. /\ TypesOK' /\ call'[d] = "confirmed" /\ overtaken' = overtaken
        /\ \A e \in Dispatches \ {d} : call'[e] = call[e]
    BY <2>1, GoesTypes DEF TypesOK, CallStates, Dispatching, Goes
  <2>3. \A e \in Dispatches : InStep(e)'
    BY <1>0, <2>1, <2>2 DEF InStep, Intended, Dispatching, Ended
  <2>4. ledger.primary.recs[d] # "none"
    BY <1>0, <2>1 DEF InStep, Intended, LedgerSound, Grown
  <2>5. \A e \in Dispatches :
          /\ call'[e] = "told" <=> call[e] = "told"
          /\ call'[e] = "confirmed" <=> call[e] = "confirmed" \/ e = d
    BY <2>1, <2>2
  <2> QED BY <2>1, <2>2, <2>3, <2>4, <2>5 DEF Effect, Durable
<1> QED BY <1>1, <1>2, <1>3, <1>4, <1>5, <1>6

\* The response to the submission.
LEMMA ResponseInv ==
  ASSUME ConsultationInv, NEW d \in Dispatches, Responded(d) \/ Uncertain(d)
  PROVE  ConsultationInv' /\ Effect
<1> USE DEF ConsultationInv
<1>0. /\ ledger.mem \in [Dispatches -> {"none"} \cup Active \cup Terminal]
      /\ ledger.primary.recs \in [Dispatches -> {"none"} \cup Active \cup Terminal]
      /\ run \in [Dispatches -> RunStates]
      /\ call \in [Dispatches -> CallStates]
      /\ \A e \in Dispatches : InStep(e)
  BY DEF LedgerSound, Ledger, Copy, Records, TypesOK
<1>1. /\ call[d] = "posted" /\ UNCHANGED <<run, cancels>>
      /\ Goes(d, "returned") \/ Goes(d, "threw")
  BY DEF Responded, Uncertain
<1>2. /\ TypesOK' /\ call'[d] \in {"returned", "threw", "dropped"}
      /\ overtaken' = overtaken \ {d}
      /\ \A e \in Dispatches \ {d} : call'[e] = call[e]
  BY <1>1, GoesTypes DEF TypesOK, CallStates, Dispatching, Over, Goes
<1>3. Calm
  BY <1>1, <1>2, CalmIfUntold
<1>4. CASE ledger' = ledger
  <2>1. \A e \in Dispatches : InStep(e)'
    BY <1>0, <1>1, <1>2, <1>4 DEF InStep, Intended, Dispatching, Ended
  <2> QED BY <1>2, <1>3, <1>4, <2>1 DEF Effect, Durable
<1>5. CASE ledger' # ledger
  <2>1. PICK status \in {"accepted", "error"} :
          /\ status = "error" => run[d] = "refused"
          /\ \E o \in Updated(ledger, d, status) : ledger' = o.ledger
    BY <1>5 DEF Responded, Uncertain
  <2>2. PICK o \in Updated(ledger, d, status) : ledger' = o.ledger
    BY <2>1
  <2>3. status \in Active \cup Terminal
    BY DEF Active, Terminal
  <2>4. /\ LedgerSound(ledger')
        /\ \/ ledger'.mem = ledger.mem
           \/ /\ ledger.mem[d] \in Active
              /\ ledger'.mem = [ledger.mem EXCEPT ![d] = status]
        /\ \/ ledger'.primary.recs = ledger.primary.recs
           \/ /\ ledger.primary.recs[d] \in Active
              /\ ledger'.primary.recs = [ledger.primary.recs EXCEPT ![d] = status]
    BY <2>2, <2>3, UpdatedSound
  <2>5. \A e \in Dispatches : InStep(e)'
    BY <1>0, <1>1, <1>2, <2>1, <2>4 DEF InStep, Intended, Dispatching, Ended, Terminal, Active
  <2>6. Effect
    <3>1. CASE ledger'.primary.recs = ledger.primary.recs
      BY <1>3, <3>1 DEF Effect, Durable
    <3>2. CASE ledger'.primary.recs # ledger.primary.recs /\ status = "accepted"
      BY <1>3, <2>4, <3>2 DEF Effect, Durable
    <3>3. CASE ledger'.primary.recs # ledger.primary.recs /\ status = "error"
      BY <1>0, <1>3, <2>4, <3>3, EndsOne DEF Records, Terminal
    <3> QED BY <3>1, <3>2, <3>3
  <2> QED BY <1>2, <2>4, <2>5, <2>6
<1> QED BY <1>4, <1>5

\* wait(), cancel() and the tool's end of them.
LEMMA WaitInv ==
  ASSUME ConsultationInv, NEW d \in Dispatches,
         \/ Await(d) \/ PollEnds(d) \/ WaitThrows(d)
         \/ GiveUp(d) \/ Record(d) \/ Leave(d) \/ CancelAborted(d)
  PROVE  ConsultationInv' /\ Effect
<1> USE DEF ConsultationInv
<1>0. /\ ledger.mem \in [Dispatches -> {"none"} \cup Active \cup Terminal]
      /\ ledger.primary.recs \in [Dispatches -> {"none"} \cup Active \cup Terminal]
      /\ run \in [Dispatches -> RunStates]
      /\ call \in [Dispatches -> CallStates]
      /\ cancels \in [Dispatches -> {"none", "sent", "arrived", "lost"}]
      /\ \A e \in Dispatches : InStep(e)
  BY DEF LedgerSound, Ledger, Copy, Records, TypesOK
<1>1. CASE Await(d) \/ WaitThrows(d)
  <2>1. /\ UNCHANGED <<ledger, run, cancels>>
        /\ call[d] \in {"returned", "polling", "reading"}
        /\ \E to \in {"threw", "leaving", "polling"} : Goes(d, to)
    BY <1>1 DEF Await, WaitThrows
  <2>2. /\ TypesOK' /\ call'[d] \in {"threw", "dropped", "leaving", "polling"}
        /\ overtaken' = overtaken \ {d}
        /\ \A e \in Dispatches \ {d} : call'[e] = call[e]
    BY <2>1, GoesTypes DEF TypesOK, CallStates, Dispatching, Over, Goes
  <2>3. \A e \in Dispatches : InStep(e)'
    BY <1>0, <2>1, <2>2 DEF InStep, Intended, Dispatching, Ended
  <2>4. Calm
    BY <2>1, <2>2, CalmIfUntold
  <2> QED BY <1>0, <2>1, <2>2, <2>3, <2>4 DEF Effect, Durable
<1>2. CASE PollEnds(d)
  <2>1. /\ call[d] = "polling" /\ run[d] \in Terminal /\ Goes(d, "reading")
        /\ UNCHANGED <<ledger, run, cancels>>
    BY <1>2 DEF PollEnds
  <2>2. /\ TypesOK' /\ call'[d] = "reading" /\ overtaken' = overtaken \ {d}
        /\ \A e \in Dispatches \ {d} : call'[e] = call[e]
    BY <2>1, GoesTypes DEF TypesOK, CallStates, Dispatching, Goes
  <2>3. \A e \in Dispatches : InStep(e)'
    BY <1>0, <2>1, <2>2 DEF InStep, Intended, Dispatching, Ended
  <2>4. Calm
    BY <2>1, <2>2, CalmIfUntold
  <2> QED BY <1>0, <2>1, <2>2, <2>3, <2>4 DEF Effect, Durable
<1>3. CASE GiveUp(d) \/ Leave(d) \/ CancelAborted(d)
  <2>1. /\ run' = run /\ call[d] \in {"polling", "leaving", "reading"}
        /\ \/ \E status \in Terminal : CancelNow(d, status)
           \/ UNCHANGED <<ledger, cancels>>
        /\ \/ \E to \in {"leaving", "threw", "unheard"} : Goes(d, to)
           \/ UNCHANGED <<call, caller, overtaken>>
    BY <1>3 DEF GiveUp, Leave, CancelAborted, Terminal
  <2>2. PICK status \in Terminal :
          /\ LedgerSound(ledger')
          /\ \/ ledger'.mem = ledger.mem /\ cancels' = cancels
             \/ /\ ledger'.mem = [ledger.mem EXCEPT ![d] = status]
                /\ cancels' = [cancels EXCEPT ![d] = "sent"]
                /\ ledger.mem[d] \in Active
          /\ \/ ledger'.primary.recs = ledger.primary.recs
             \/ /\ ledger.primary.recs[d] \in Active
                /\ ledger'.primary.recs = [ledger.primary.recs EXCEPT ![d] = status]
    <3>1. CASE UNCHANGED <<ledger, cancels>>
      BY <3>1 DEF Terminal
    <3>2. CASE \E status \in Terminal : CancelNow(d, status)
      BY <3>2, CancelNowSound
    <3> QED BY <2>1, <3>1, <3>2
  <2>3. /\ call' \in [Dispatches -> CallStates]
        /\ caller' \in [Dispatches -> {"listens", "aborted", "gone"}]
        /\ overtaken' \subseteq Dispatches /\ overtaken \ {d} \subseteq overtaken'
        /\ \/ call'[d] \in {"leaving", "threw", "unheard", "dropped"}
           \/ call'[d] = call[d]
        /\ \A e \in Dispatches \ {d} : call'[e] = call[e]
    BY <2>1, GoesTypes DEF TypesOK, CallStates, Dispatching, Over, Goes
  <2>4. TypesOK'
    BY <1>0, <2>1, <2>2, <2>3 DEF TypesOK
  <2>5. \A e \in Dispatches : InStep(e)'
    BY <1>0, <2>1, <2>2, <2>3 DEF InStep, Intended, Dispatching, Ended, Terminal, Active
  <2>6. Calm
    BY <2>1, <2>3, CalmIfUntold
  <2>7. Effect
    <3>1. CASE ledger'.primary.recs = ledger.primary.recs
      BY <2>6, <3>1 DEF Effect, Durable
    <3>2. CASE ledger'.primary.recs # ledger.primary.recs
      BY <1>0, <2>2, <2>6, <3>2, EndsOne DEF Records
    <3> QED BY <3>1, <3>2
  <2> QED BY <2>2, <2>4, <2>5, <2>7
<1>4. CASE Record(d)
  <2>1. PICK o \in Updated(ledger, d, run[d]) :
          /\ ledger' = o.ledger
          /\ Goes(d, IF ~o.ok THEN "leaving"
                     ELSE IF caller[d] = "listens" THEN "told" ELSE "threw")
    BY <1>4 DEF Record
  <2>2. call[d] = "reading" /\ run[d] \in Terminal /\ UNCHANGED <<run, cancels>>
    BY <1>0, <1>4 DEF Record, InStep
  <2>3. /\ LedgerSound(ledger')
        /\ o.ok => /\ ledger.mem[d] \in Active
                   /\ ledger'.mem = [ledger.mem EXCEPT ![d] = run[d]]
        /\ ~o.ok => ledger'.mem = ledger.mem
        /\ \/ ~o.ok /\ ledger'.primary.recs = ledger.primary.recs
           \/ /\ ledger.primary.recs[d] \in Active
              /\ ledger'.primary.recs = [ledger.primary.recs EXCEPT ![d] = run[d]]
    BY <2>1, <2>2, UpdatedSound
  <2>4. /\ TypesOK'
        /\ call'[d] \in {"leaving", "told", "threw", "dropped"}
        /\ ~o.ok => call'[d] = "leaving"
        /\ overtaken' = overtaken \ {d}
        /\ \A e \in Dispatches \ {d} : call'[e] = call[e]
    <3>1. PICK to \in {"leaving", "told", "threw"} :
            Goes(d, to) /\ (~o.ok => to = "leaving")
      BY <2>1
    <3> QED BY <2>2, <3>1, GoesTypes DEF TypesOK, CallStates, Dispatching, Over, Goes
  <2>5. \A e \in Dispatches : InStep(e)'
    BY <1>0, <2>2, <2>3, <2>4 DEF InStep, Intended, Dispatching, Ended, Terminal, Active
  <2>6. CASE call'[d] = "told"
    <3>1. \A e \in Dispatches :
            /\ call'[e] = "told" <=> call[e] = "told" \/ e = d
            /\ call'[e] = "confirmed" => call[e] = "confirmed"
      BY <2>4, <2>6
    <3> QED BY <2>2, <2>3, <2>4, <2>5, <2>6, <3>1 DEF Effect, Durable
  <2>7. CASE call'[d] # "told"
    <3>1. Calm
      BY <2>2, <2>4, <2>7, CalmIfUntold
    <3>2. CASE ledger'.primary.recs = ledger.primary.recs
      BY <2>3, <2>4, <2>5, <3>1, <3>2 DEF Effect, Durable
    <3>3. CASE ledger'.primary.recs # ledger.primary.recs
      BY <1>0, <2>2, <2>3, <2>4, <2>5, <3>1, <3>3, EndsOne DEF Records
    <3> QED BY <3>2, <3>3
  <2> QED BY <2>6, <2>7
<1> QED BY <1>1, <1>2, <1>3, <1>4

\* The target's run and the messages to it.
LEMMA RunInv ==
  ASSUME ConsultationInv, NEW d \in Dispatches,
         \/ SubmissionArrives(d) \/ SubmissionLost(d) \/ CancelArrives(d)
         \/ CancelLost(d) \/ Claim(d) \/ RunEnds(d) \/ Abort(d)
  PROVE  ConsultationInv' /\ Effect
<1> USE DEF ConsultationInv
<1>0. /\ run \in [Dispatches -> RunStates]
      /\ cancels \in [Dispatches -> {"none", "sent", "arrived", "lost"}]
      /\ \A e \in Dispatches : InStep(e)
  BY DEF TypesOK
<1>1. UNCHANGED <<ledger, call, overtaken>>
  BY DEF SubmissionArrives, SubmissionLost, CancelArrives, CancelLost, Claim, RunEnds, Abort
<1>2. TypesOK'
  BY <1>0, <1>1 DEF TypesOK, RunStates, Going, Terminal, SubmissionArrives,
                    SubmissionLost, CancelArrives, CancelLost, Claim, RunEnds, Abort
<1>3. Claim(d) /\ run'[d] = "active" => ~Ended(d)
  BY <1>0, ConsultationAssumption DEF Claim, Granted, IsActive, Ended, Active, Terminal
<1>4. \A e \in Dispatches : InStep(e)'
  <2> SUFFICES ASSUME NEW e \in Dispatches PROVE InStep(e)'
    OBVIOUS
  <2>1. CASE SubmissionArrives(d) \/ SubmissionLost(d)
    BY <1>0, <1>1, <2>1 DEF InStep, Intended, Dispatching, Ended, Terminal, SubmissionArrives, SubmissionLost
  <2>2. CASE CancelArrives(d) \/ CancelLost(d)
    BY <1>0, <1>1, <2>2 DEF InStep, Intended, Dispatching, Ended, Terminal, Going, CancelArrives, CancelLost
  <2>3. CASE Claim(d)
    BY <1>0, <1>1, <1>3, <2>3 DEF InStep, Intended, Dispatching, Ended, Terminal, Claim
  <2>4. CASE RunEnds(d)
    BY <1>0, <1>1, <2>4 DEF InStep, Intended, Dispatching, Ended, Terminal, Going, RunEnds
  <2>5. CASE Abort(d)
    BY <1>0, <1>1, <2>5 DEF InStep, Intended, Dispatching, Ended, Abort
  <2> QED BY <2>1, <2>2, <2>3, <2>4, <2>5
<1>5. \A e \in Dispatches :
        /\ run'[e] = "none" <=> run[e] = "none"
        /\ run[e] \in Terminal => run'[e] = run[e]
  BY <1>0 DEF SubmissionArrives, SubmissionLost, CancelArrives, CancelLost, Claim,
              RunEnds, Abort, Going, Terminal, RunStates
<1>6. Calm
  BY <1>0, <1>1, <1>5 DEF Calm, InStep
<1> QED BY <1>1, <1>2, <1>4, <1>6 DEF Effect, Durable

\* cancelForBot() and cancelAll() end the consultations of T, and a save that
\* throws ends no other.
LEMMA CancelForInv ==
  ASSUME ConsultationInv, NEW B, CancelFor(B)
  PROVE  ConsultationInv' /\ Effect
<1> USE DEF ConsultationInv
<1>0. /\ ledger.mem \in Records /\ ledger.primary.recs \in Records
      /\ ~ledger.failed => ledger.primary.recs = ledger.mem
      /\ cancels \in [Dispatches -> {"none", "sent", "arrived", "lost"}]
      /\ \A e \in Dispatches : InStep(e)
  BY DEF LedgerSound, Ledger, Copy, TypesOK
<1>1. PICK T \in SUBSET Of(B) : CancelEach(B, T)
  BY DEF CancelFor
<1> DEFINE A == {d \in Of(B) : IsActive(d)}
           After == [d \in Dispatches |-> IF d \in T THEN "cancelled" ELSE ledger.mem[d]]
           saved == IF T = {} THEN ledger ELSE Written(ledger, After)
<1>2. /\ T \subseteq A
      /\ ledger.failed => T = {}
      /\ \/ T = A /\ ledger' = saved
         \/ \E d \in A \ T : ledger' \in Unsaved(saved, [After EXCEPT ![d] = "cancelled"])
      /\ cancels' = [d \in Dispatches |-> IF d \in T THEN "sent" ELSE cancels[d]]
  BY <1>1 DEF CancelEach
<1>3. A \subseteq Dispatches /\ \A d \in A : ledger.mem[d] \in Active
  BY DEF Of, IsActive
<1>4. After \in Records /\ Grown(ledger.mem, After)
  BY <1>0, <1>2, <1>3 DEF Records, Grown, Active, Terminal
<1>5. FanOut(After)
  <2>1. \A e \in Dispatches : After[e] # "none" <=> ledger.mem[e] # "none"
    BY <1>2, <1>3 DEF Active
  <2> QED BY <2>1, StatusKeepsFanOut DEF LedgerSound
<1>6. /\ LedgerSound(saved) /\ saved.mem = After
      /\ ~ledger.failed => ~saved.failed /\ saved.primary.recs = After
  <2>1. CASE T = {}
    BY <1>0, <2>1 DEF Records
  <2>2. CASE T # {}
    BY <1>4, <1>5, <2>2, WrittenSound DEF Written
  <2> QED BY <2>1, <2>2
<1>7. /\ LedgerSound(ledger') /\ ledger'.mem = After
      /\ \/ ledger'.primary.recs = ledger.primary.recs
         \/ /\ ~ledger.failed
            /\ \E E \in SUBSET A :
                 ledger'.primary.recs =
                   [d \in Dispatches |-> IF d \in E THEN "cancelled" ELSE ledger.mem[d]]
  <2>1. CASE ledger' = saved
    <3>1. CASE ledger.failed
      BY <1>2, <1>6, <2>1, <3>1
    <3>2. CASE ~ledger.failed
      BY <1>2, <1>6, <2>1, <3>2
    <3> QED BY <3>1, <3>2
  <2>2. CASE \E d \in A \ T : ledger' \in Unsaved(saved, [After EXCEPT ![d] = "cancelled"])
    <3>1. PICK d \in A \ T : ledger' \in Unsaved(saved, [After EXCEPT ![d] = "cancelled"])
      BY <2>2
    <3> DEFINE next == [After EXCEPT ![d] = "cancelled"]
    <3>2. After[d] \in Active
      BY <1>3, <3>1
    <3>3. next \in Records /\ Grown(After, next)
      BY <1>4, <3>2 DEF Records, Grown, Active, Terminal
    <3>4. \A e \in Dispatches : next[e] # "none" <=> After[e] # "none"
      BY <1>4, <3>2 DEF Records, Active
    <3>5. FanOut(next)
      BY <1>5, <3>4, StatusKeepsFanOut
    <3>6. next = [e \in Dispatches |-> IF e \in T \cup {d} THEN "cancelled" ELSE ledger.mem[e]]
      BY <1>3, <3>1
    <3>7. ledger' \in Unsaved(saved, next)
      BY <3>1
    <3>8. CASE ledger.failed
      <4>1. T = {}
        BY <1>2, <3>8
      <4>2. saved = ledger
        BY <4>1
      <4> QED BY <1>6, <3>7, <3>8, <4>2 DEF Unsaved
    <3>9. CASE ~ledger.failed
      <4> HIDE DEF next, saved, After
      <4>1. /\ LedgerSound(ledger') /\ ledger'.mem = After
            /\ ledger'.primary.recs \in {After, next}
        BY <1>6, <3>3, <3>5, <3>7, <3>9, ThrewSound DEF Unsaved
      <4>2. T \in SUBSET A /\ T \cup {d} \in SUBSET A
        BY <1>2, <3>1
      <4>3. After = [e \in Dispatches |-> IF e \in T THEN "cancelled" ELSE ledger.mem[e]]
        BY DEF After
      <4> QED BY <3>6, <3>9, <4>1, <4>2, <4>3
    <3> QED BY <3>8, <3>9
  <2> QED BY <1>2, <2>1, <2>2
<1>8. /\ UNCHANGED <<call, run, caller>>
      /\ overtaken' = overtaken \cup {d \in Of(B) : call[d] \in Dispatching}
  BY DEF CancelFor
<1>9. TypesOK'
  BY <1>0, <1>2, <1>8 DEF TypesOK, Of
<1>10. Calm
  BY <1>8 DEF Calm
<1>11. CASE ledger'.primary.recs = ledger.primary.recs
  <2>1. \A e \in Dispatches : InStep(e)'
    BY <1>0, <1>2, <1>3, <1>7, <1>8, <1>11 DEF InStep, Intended, Dispatching, Ended, Terminal, Active
  <2> QED BY <1>7, <1>9, <1>10, <1>11, <2>1 DEF Effect, Durable
<1>12. CASE ledger'.primary.recs # ledger.primary.recs
  <2>1. PICK E \in SUBSET A :
          ledger'.primary.recs =
            [d \in Dispatches |-> IF d \in E THEN "cancelled" ELSE ledger.mem[d]]
    BY <1>7, <1>12
  <2>2. ledger.primary.recs = ledger.mem
    BY <1>0, <1>7, <1>12
  <2>3. \A e \in E : call[e] \in Intended => e \in overtaken'
    BY <1>8 DEF Intended, Dispatching
  <2>4. \A e \in Dispatches : InStep(e)'
    BY <1>0, <1>2, <1>3, <1>7, <1>8, <2>1, <2>2, <2>3 DEF InStep, Intended, Dispatching, Ended, Terminal, Active
  <2>5. Ends(E, "cancelled") /\ E \in SUBSET Dispatches /\ "cancelled" \in Terminal
    BY <1>3, <2>1, <2>2 DEF Ends, Durable, Terminal
  <2> QED BY <1>7, <1>9, <1>10, <2>4, <2>5 DEF Effect
<1> QED BY <1>11, <1>12

\* Workers die; the desktop's process ends and another loads the ledger.
LEMMA CrashInv ==
  ASSUME ConsultationInv, Crash \/ \E b \in Bots : WorkerDies(b)
  PROVE  ConsultationInv' /\ Effect
<1> USE DEF ConsultationInv
<1>0. /\ run \in [Dispatches -> RunStates]
      /\ cancels \in [Dispatches -> {"none", "sent", "arrived", "lost"}]
      /\ call \in [Dispatches -> CallStates]
      /\ caller \in [Dispatches -> {"listens", "aborted", "gone"}]
      /\ \A e \in Dispatches : InStep(e)
  BY DEF TypesOK
<1>1. ASSUME NEW B, Dead(B)
      PROVE  /\ run' \in [Dispatches -> RunStates]
             /\ cancels' \in [Dispatches -> {"none", "sent", "arrived", "lost"}]
             /\ \A e \in Dispatches :
                  /\ run'[e] = "none" <=> run[e] = "none"
                  /\ run[e] \in Terminal => run'[e] = run[e]
                  /\ run'[e] = "active" => run[e] = "active" /\ targetBot[e] \notin B
                  /\ cancels[e] = "none" <=> cancels'[e] = "none"
                  /\ cancels[e] = "lost" => cancels'[e] = "lost"
                  /\ targetBot[e] \notin B => cancels'[e] = cancels[e]
  BY <1>0, <1>1 DEF Dead, RunStates, Going, Terminal
<1>2. CASE \E b \in Bots : WorkerDies(b)
  <2>1. PICK b \in Bots : WorkerDies(b)
    BY <1>2
  <2>2. Dead({b}) /\ UNCHANGED <<ledger, call, overtaken>>
        /\ caller' = [d \in Dispatches |->
                       IF originBot[d] = b /\ Calling(d) THEN "gone" ELSE caller[d]]
    BY <2>1 DEF WorkerDies
  <2>3. TypesOK'
    BY <1>0, <1>1, <2>2 DEF TypesOK
  <2>4. \A e \in Dispatches : InStep(e)'
    BY <1>0, <1>1, <2>2 DEF InStep, Intended, Dispatching, Ended
  <2>5. Calm
    BY <1>0, <1>1, <2>2 DEF Calm, InStep
  <2> QED BY <2>2, <2>3, <2>4, <2>5 DEF Effect, Durable
<1>3. CASE Crash
  <2>1. /\ ledger' = Loaded(ledger) /\ Dead(Bots) /\ overtaken' = {}
        /\ call' = [d \in Dispatches |-> IF Calling(d) THEN "dropped" ELSE call[d]]
        /\ caller' = [d \in Dispatches |-> "listens"]
    BY <1>3 DEF Crash
  <2>2. LedgerSound(ledger') /\ Grown(ledger.mem, ledger'.mem)
        /\ ledger'.primary = ledger.primary
    BY <2>1, LoadedSound DEF LedgerSound
  <2>3. TypesOK'
    BY <1>0, <1>1, <2>1 DEF TypesOK, CallStates, Dispatching, Over
  <2>4. \A e \in Dispatches : targetBot[e] \in Bots
    BY ConsultationAssumption
  <2>5. \A e \in Dispatches : run'[e] # "active"
    BY <1>1, <2>1, <2>4
  <2>6. \A e \in Dispatches : call'[e] \notin {"reading"} \cup Dispatching
    BY <1>0, <2>1 DEF CallStates, Dispatching, Calling, Over
  <2>7. \A e \in Dispatches : call'[e] \in {"idle", "told"} => call[e] = call'[e]
    BY <1>0, <2>1 DEF CallStates
  <2>8. \A e \in Dispatches : InStep(e)'
    BY <1>0, <1>1, <2>1, <2>2, <2>5, <2>6, <2>7 DEF InStep, Intended, Dispatching, Ended, Grown
  <2>9. \A e \in Dispatches : call'[e] = "told" <=> call[e] = "told"
    BY <1>0, <2>1 DEF CallStates, Dispatching, Calling, Over
  <2>10. Calm
    BY <1>0, <1>1, <2>1, <2>9 DEF Calm, InStep
  <2> QED BY <2>2, <2>3, <2>8, <2>10 DEF Effect, Durable
<1> QED BY <1>2, <1>3

LEMMA NextInv ==
  ConsultationInv /\ [ConsultationNext]_consultationVars => ConsultationInv' /\ Effect
<1> SUFFICES ASSUME ConsultationInv, [ConsultationNext]_consultationVars
             PROVE  ConsultationInv' /\ Effect
  OBVIOUS
<1>1. CASE UNCHANGED consultationVars
  BY <1>1 DEF consultationVars, ConsultationInv, TypesOK, InStep, Ended, Effect, Calm,
              Durable
<1>2. CASE \E d \in Dispatches : Call(d)
  BY <1>2, DispatchInv, ResponseInv, WaitInv DEF Call
<1>3. CASE \E d \in Dispatches :
             \/ SubmissionArrives(d) \/ SubmissionLost(d) \/ CancelArrives(d)
             \/ CancelLost(d) \/ Claim(d) \/ RunEnds(d) \/ Abort(d)
  BY <1>3, RunInv
<1>4. CASE CancelFor(Bots) \/ \E b \in Bots : CancelFor({b})
  BY <1>4, CancelForInv
<1>5. CASE Crash \/ \E b \in Bots : WorkerDies(b)
  BY <1>5, CrashInv
<1> QED BY <1>1, <1>2, <1>3, <1>4, <1>5 DEF ConsultationNext

THEOREM InvariantHolds == ConsultationSpec => []ConsultationInv
BY InitInv, NextInv, PTL DEF ConsultationSpec

-----------------------------------------------------------------------------
\* The contract

LEMMA ContractStep ==
  ASSUME ConsultationInv, ConsultationInv', Effect
  PROVE  [Contract!DispatchNext]_(Contract!dispatchVars)
<1> DEFINE Shown(recs) ==
             [d \in Dispatches |-> IF recs[d] \in Active THEN "open" ELSE recs[d]]
<1>1. /\ Durable \in Records /\ Durable' \in Records
      /\ Recorded = Shown(Durable) /\ Recorded' = Shown(Durable')
  BY DEF ConsultationInv, LedgerSound, Ledger, Copy, Durable, Recorded, Newer
<1>2. /\ run \in [Dispatches -> RunStates] /\ run' \in [Dispatches -> RunStates]
      /\ \A d \in Dispatches : call[d] = "told" => run[d] \in Terminal
  BY DEF ConsultationInv, TypesOK, InStep
<1>3. ASSUME Calm
      PROVE  /\ Submitted' = Submitted /\ ToldOutcome' = ToldOutcome
             /\ Confirmed' \subseteq Confirmed
  BY <1>3 DEF Calm, Submitted, ToldOutcome, Confirmed
<1> USE DEF Contract!dispatchVars, Contract!DispatchNext, Contract!Forgetful
<1>10. ASSUME Calm, Recorded' = Recorded
       PROVE  Contract!End({}, "error") /\ {} \in SUBSET Dispatches /\ "error" \in Terminal
  <2>1. Recorded = [d \in Dispatches |-> Recorded[d]]
    BY DEF Recorded
  <2> QED BY <1>3, <1>10, <2>1 DEF Contract!End, Terminal
<1>4. CASE Calm /\ Durable' = Durable
  BY <1>1, <1>4, <1>10
<1>5. CASE Calm /\ \E d \in Dispatches : /\ Durable[d] = "none"
                                       /\ Durable' = [Durable EXCEPT ![d] = "prepared"]
  <2>1. PICK d \in Dispatches : /\ Durable[d] = "none"
                                /\ Durable' = [Durable EXCEPT ![d] = "prepared"]
    BY <1>5
  <2>2. Recorded[d] = "none" /\ Recorded' = [Recorded EXCEPT ![d] = "open"]
    BY <1>1, <2>1 DEF Records, Active
  <2>3. Contract!Intend(d)
    BY <1>3, <1>5, <2>2 DEF Contract!Intend
  <2> QED BY <2>3
<1>6. CASE Calm /\ \E d \in Dispatches : /\ Durable[d] \in Active
                                       /\ Durable' = [Durable EXCEPT ![d] = "accepted"]
  <2>1. Recorded' = Recorded
    BY <1>1, <1>6 DEF Records, Active
  <2> QED BY <1>6, <1>10, <2>1
<1>7. CASE Calm /\ \E D \in SUBSET Dispatches, outcome \in Terminal : Ends(D, outcome)
  <2>1. PICK D \in SUBSET Dispatches, outcome \in Terminal : Ends(D, outcome)
    BY <1>7
  <2>2. /\ \A d \in D : Recorded[d] = "open"
        /\ Recorded' = [d \in Dispatches |-> IF d \in D THEN outcome ELSE Recorded[d]]
    BY <1>1, <2>1 DEF Ends, Records, Active, Terminal
  <2>3. Contract!End(D, outcome)
    BY <1>3, <1>7, <2>2 DEF Contract!End
  <2> QED BY <2>1, <2>3
<1>8. CASE \E d \in Dispatches :
             /\ Durable[d] \in Active /\ Durable' = Durable
             /\ call[d] = "confirmed"
             /\ run[d] = "none" /\ run' = [run EXCEPT ![d] = "sent"]
             /\ \A e \in Dispatches :
                  /\ call'[e] = "told" <=> call[e] = "told"
                  /\ call'[e] = "confirmed" => call[e] = "confirmed"
  <2>1. PICK d \in Dispatches :
             /\ Durable[d] \in Active /\ Durable' = Durable
             /\ call[d] = "confirmed"
             /\ run[d] = "none" /\ run' = [run EXCEPT ![d] = "sent"]
             /\ \A e \in Dispatches :
                  /\ call'[e] = "told" <=> call[e] = "told"
                  /\ call'[e] = "confirmed" => call[e] = "confirmed"
    BY <1>8
  <2>2. Recorded[d] = "open" /\ Recorded' = Recorded
    BY <1>1, <2>1
  <2>3. d \notin Submitted /\ Submitted' = Submitted \cup {d}
    BY <1>2, <2>1 DEF Submitted
  <2>4. ToldOutcome' = ToldOutcome
    BY <1>2, <2>1 DEF ToldOutcome, Terminal
  <2>5. d \in Confirmed /\ Confirmed' \subseteq Confirmed
    BY <2>1 DEF Confirmed
  <2>6. Contract!Submit(d)
    BY <2>2, <2>3, <2>4, <2>5 DEF Contract!Submit
  <2> QED BY <2>6
<1>9. CASE \E d \in Dispatches :
             /\ run[d] \in Terminal /\ run' = run
             /\ Durable[d] \in Active /\ Durable' = [Durable EXCEPT ![d] = run[d]]
             /\ \A e \in Dispatches :
                  /\ call'[e] = "told" <=> call[e] = "told" \/ e = d
                  /\ call'[e] = "confirmed" => call[e] = "confirmed"
  <2>1. PICK d \in Dispatches :
             /\ run[d] \in Terminal /\ run' = run
             /\ Durable[d] \in Active /\ Durable' = [Durable EXCEPT ![d] = run[d]]
             /\ \A e \in Dispatches :
                  /\ call'[e] = "told" <=> call[e] = "told" \/ e = d
                  /\ call'[e] = "confirmed" => call[e] = "confirmed"
    BY <1>9
  <2>2. Recorded[d] = "open" /\ Recorded' = [Recorded EXCEPT ![d] = run[d]]
    BY <1>1, <2>1 DEF Records, Active, Terminal
  <2>3. d \in Submitted /\ Submitted' = Submitted
    BY <2>1 DEF Submitted, Terminal
  <2>4. ToldOutcome' = [ToldOutcome EXCEPT ![d] = run[d]]
    BY <2>1 DEF ToldOutcome
  <2>5. Confirmed' \subseteq Confirmed
    BY <2>1 DEF Confirmed
  <2>6. Contract!Tell(d, run[d])
    BY <2>2, <2>3, <2>4, <2>5 DEF Contract!Tell
  <2> QED BY <2>1, <2>6
<1>11. CASE \E d \in Dispatches :
              /\ Durable[d] # "none" /\ Durable' = Durable
              /\ OriginActive(d) /\ run' = run
              /\ \A e \in Dispatches :
                   /\ call'[e] = "told" <=> call[e] = "told"
                   /\ call'[e] = "confirmed" <=> call[e] = "confirmed" \/ e = d
  <2>1. PICK d \in Dispatches :
              /\ Durable[d] # "none" /\ Durable' = Durable
              /\ OriginActive(d) /\ run' = run
              /\ \A e \in Dispatches :
                   /\ call'[e] = "told" <=> call[e] = "told"
                   /\ call'[e] = "confirmed" <=> call[e] = "confirmed" \/ e = d
    BY <1>11
  <2>2. Recorded[d] # "none" /\ Recorded' = Recorded
    BY <1>1, <2>1
  <2>3. Submitted' = Submitted /\ ToldOutcome' = ToldOutcome
    BY <2>1 DEF Submitted, ToldOutcome
  <2>4. d \in OriginsActive /\ Confirmed' = Confirmed \cup {d}
    BY <2>1 DEF OriginsActive, Confirmed
  <2>5. Contract!Confirm(d)
    BY <2>2, <2>3, <2>4 DEF Contract!Confirm
  <2> QED BY <2>5
<1> QED BY <1>4, <1>5, <1>6, <1>7, <1>8, <1>9, <1>11 DEF Effect

\* "Uncertain submissions are never replayed" and the rest of the contract: over
\* failing saves, restarts and lost messages a consultation is submitted at most
\* once, after its intent is durable and its origin was found active since, ends
\* once, and its caller is told that end.
THEOREM ContractCorrect == ConsultationSpec => KeepsContract
<1>1. ConsultationInit => Contract!DispatchInit
  BY DEF ConsultationInit, Contract!DispatchInit, Recorded, Submitted, ToldOutcome, Confirmed, Newer,
         EmptyLedger, EmptyCopy, NoRecords, Active
<1>2. ConsultationInv /\ ConsultationInv' /\ [ConsultationNext]_consultationVars
        => [Contract!DispatchNext]_(Contract!dispatchVars)
  BY NextInv, ContractStep
<1> QED BY <1>1, <1>2, InvariantHolds, PTL
        DEF ConsultationSpec, KeepsContract, Contract!DispatchSpec

\* The state is well typed: in particular a recorded outcome is a terminal one.
THEOREM ConsultationTypeCorrect == ConsultationSpec => []ConsultationTypeOK
BY InvariantHolds, InvImplies, PTL

\* However often saves throw and the process ends, the constructor of the ledger
\* accepts the two files, and they hold every submission and every end.
THEOREM RecoveryCorrect == ConsultationSpec => []LedgerRecovers
BY InvariantHolds, InvImplies, PTL

\* No run executes for an ended consultation unless its cancel is on the way
\* or was lost.
THEOREM RevocationCorrect == ConsultationSpec => []RevokedRunsCancelled
BY InvariantHolds, InvImplies, PTL

\* "Parallel dispatches cannot all spend the same remaining root fan-out slot":
\* no root ever has more consultations than its limit, also after a restart.
THEOREM FanOutCorrect ==
  ConsultationSpec => [](FanOut(ledger.mem) /\ FanOut(Loaded(ledger).mem))
<1>1. ConsultationInv => FanOut(ledger.mem) /\ FanOut(Loaded(ledger).mem)
  BY LoadedSound DEF ConsultationInv, LedgerSound
<1> QED BY <1>1, InvariantHolds, PTL
=============================================================================
