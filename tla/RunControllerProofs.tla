------------------------- MODULE RunControllerProofs -------------------------
(***************************************************************************)
(* What is proved of the run receipts and journals, for any sessions, runs *)
(* and length of history, whatever write fails and whenever the process    *)
(* ends.                                                                   *)
(*                                                                         *)
(* A step of a live process changes the store in one of three ways: it     *)
(* ends the active run of a session, it makes a run the active one, or it  *)
(* adds an event to a journal.  Each way keeps the store sound ("Sound")   *)
(* and forgets nothing but ended runs of a full history ("Follows").  The  *)
(* file is an earlier store, or this one.                                  *)
(***************************************************************************)
EXTENDS RunController, SequenceLemmas, TLAPS

Journals == {"none", "open"} \cup TerminalEvents

StoreType ==
  [receipts : [Runs -> Statuses], order : Seq(Runs), journals : [Runs -> Journals],
   active : [Sessions -> Runs \cup {NoRun}], dirty : BOOLEAN, timer : BOOLEAN]

\* The order lists the runs with a receipt, once each.
Listed(i) ==
  /\ \A r \in Runs : Contains(i.order, r) <=> i.receipts[r] # "none"
  /\ IsInjective(i.order)

Ordered(i) == Listed(i) /\ Len(i.order) <= MaxReceipts

\* A run that has not ended is the active one of its session.
OnlyActive(s) ==
  /\ \A r \in Runs : s.receipts[r] \in Unended => s.active[sessionOf[r]] = r
  /\ \A x \in Sessions : s.active[x] # NoRun => sessionOf[s.active[x]] = x

Sound(s) ==
  /\ s \in StoreType
  /\ Ordered(s)
  /\ OnlyActive(s)
  /\ \A r \in Served : s.receipts[r] # "none" => s.journals[r] # "none"

\* What changes from the store s to a later one, t: what ended stays as it is
\* until a full history forgets it.
Follows(s, t) ==
  /\ Len(s.order) <= Len(t.order)
  /\ \A r \in Runs : s.receipts[r] # "none" /\ t.receipts[r] = "none" =>
       s.receipts[r] \in Ended /\ t.journals[r] = "none" /\ Len(t.order) = MaxReceipts
  /\ \A r \in Runs : s.receipts[r] \in Ended => t.receipts[r] \in {s.receipts[r], "none"}
  /\ \A r \in Runs : s.journals[r] \in TerminalEvents =>
       \/ t.journals[r] = s.journals[r]
       \/ t.journals[r] = "none" /\ t.receipts[r] = "none"

-----------------------------------------------------------------------------
LEMMA StatusFacts ==
  /\ Statuses = {"none", "waiting", "running", "complete", "cancelled", "error"}
  /\ Ended = {"complete", "cancelled", "error"} /\ Unended = {"waiting", "running"}
  /\ TerminalEvents = {"response.completed", "response.cancelled", "response.failed"}
  /\ \A e \in Ended : EventOf[e] \in TerminalEvents
BY DEF Statuses, Ended, Unended, TerminalEvents, EventOf

\* trimReceipts() makes room by forgetting one ended run.
LEMMA TrimSound ==
  ASSUME NEW s \in StoreType, Listed(s), Len(s.order) <= MaxReceipts + 1,
         Len(s.order) <= MaxReceipts \/ EndedIn(s) # {},
         NEW t, t = Trim(s)
  PROVE  /\ t \in StoreType /\ Ordered(t)
         /\ t.active = s.active
         /\ Len(t.order) = IF Len(s.order) <= MaxReceipts THEN Len(s.order) ELSE MaxReceipts
         /\ \A q \in Runs :
              \/ t.receipts[q] = s.receipts[q] /\ t.journals[q] = s.journals[q]
              \/ /\ s.receipts[q] \in Ended /\ t.receipts[q] = "none"
                 /\ t.journals[q] = "none" /\ Len(t.order) = MaxReceipts
<1>0. MaxReceipts \in Nat /\ s.order \in Seq(Runs) /\ Len(s.order) \in Nat
  BY RunsAssumption DEF StoreType
<1>1. CASE Len(s.order) <= MaxReceipts
  BY <1>0, <1>1 DEF Trim, Ordered
<1>2. CASE ~(Len(s.order) <= MaxReceipts)
  <2> DEFINE i == Min(EndedIn(s))
             oldest == s.order[i]
  <2>1. EndedIn(s) \subseteq Nat /\ EndedIn(s) # {}
    BY <1>0, <1>2 DEF EndedIn
  <2>2. i \in EndedIn(s)
    BY <2>1, LeastExists DEF Min
  <2>3. i \in 1..Len(s.order) /\ s.receipts[oldest] \in Ended
    BY <1>0, <2>2 DEF EndedIn
  <2>4. oldest \in Runs /\ Contains(s.order, oldest)
    BY <1>0, <2>3, ElementOfSeq DEF Contains
  <2>5. t = [s EXCEPT !.receipts[oldest] = "none", !.journals[oldest] = "none",
                      !.order = RemoveFirst(@, oldest)]
    BY <1>2, <2>1 DEF Trim
  <2> HIDE DEF i, oldest
  <2>6. /\ t.receipts = [s.receipts EXCEPT ![oldest] = "none"]
        /\ t.journals = [s.journals EXCEPT ![oldest] = "none"]
        /\ t.order = RemoveFirst(s.order, oldest)
        /\ t.active = s.active
    BY <2>5 DEF StoreType
  <2>7. RemoveFirst(s.order, oldest) \in Seq(Runs)
        /\ Len(RemoveFirst(s.order, oldest)) = Len(s.order) - 1
    BY <1>0, <2>4, RemoveFirstShape
  <2>8. /\ IsInjective(RemoveFirst(s.order, oldest))
        /\ \A x : Contains(RemoveFirst(s.order, oldest), x)
                    <=> Contains(s.order, x) /\ x # oldest
    BY <1>0, RemoveFirstOnce DEF Listed
  <2>9. t \in StoreType
    <3>1. t.receipts \in [Runs -> Statuses] /\ t.journals \in [Runs -> Journals]
      BY <2>4, <2>6 DEF StoreType, Statuses, Journals
    <3>2. t = [s EXCEPT !.receipts = t.receipts, !.journals = t.journals, !.order = t.order]
      BY <2>5, <2>6 DEF StoreType
    <3> QED BY <2>6, <2>7, <3>1, <3>2 DEF StoreType
  <2>10. Len(t.order) = MaxReceipts
    BY <1>0, <1>2, <2>6, <2>7
  <2>11. Listed(t)
    <3>1. \A r \in Runs : t.receipts[r] = IF r = oldest THEN "none" ELSE s.receipts[r]
      BY <2>6 DEF StoreType
    <3> QED BY <2>6, <2>8, <3>1 DEF Listed
  <2>12. ASSUME NEW q \in Runs
         PROVE  \/ t.receipts[q] = s.receipts[q] /\ t.journals[q] = s.journals[q]
                \/ /\ s.receipts[q] \in Ended /\ t.receipts[q] = "none"
                   /\ t.journals[q] = "none" /\ Len(t.order) = MaxReceipts
    BY <2>3, <2>6, <2>10 DEF StoreType, oldest
  <2> QED BY <1>0, <1>2, <2>6, <2>9, <2>10, <2>11, <2>12 DEF Ordered
<1> QED BY <1>1, <1>2

\* Ending a run that is listed: no receipt comes or goes.
LEMMA EndSound ==
  ASSUME NEW s, Sound(s), NEW r \in Runs, s.receipts[r] \in Unended,
         NEW status \in Ended, NEW t, t = Put(s, r, status)
  PROVE  /\ Sound(t) /\ Follows(s, t)
         /\ \A q \in Runs : t.receipts[q] = IF q = r THEN status ELSE s.receipts[q]
         /\ t.journals = s.journals /\ t.order = s.order /\ t.active = s.active
<1> USE StatusFacts
<1>0. s \in StoreType /\ s.order \in Seq(Runs) /\ Len(s.order) <= MaxReceipts
      /\ s.active[sessionOf[r]] = r /\ sessionOf[r] \in Sessions
  BY RunsAssumption DEF Sound, StoreType, Ordered, OnlyActive
<1>1. s.receipts[r] # "none"
  OBVIOUS
<1> DEFINE u == [s EXCEPT !.active[sessionOf[r]] = r,
                          !.receipts[r] = status,
                          !.order = IF s.receipts[r] = "none" THEN Append(@, r) ELSE @]
<1>2. u \in StoreType /\ u.order = s.order /\ u.active = s.active
      /\ u.receipts = [s.receipts EXCEPT ![r] = status] /\ u.journals = s.journals
  BY <1>0, <1>1 DEF StoreType
<1>3. t = Trim(u)
  BY DEF Put
<1> HIDE DEF u
<1>4. t = u
  BY <1>0, <1>2, <1>3 DEF Trim
<1>5. Ordered(t) /\ OnlyActive(t)
  BY <1>0, <1>1, <1>2, <1>4 DEF Sound, Ordered, Listed, OnlyActive, StoreType
<1>6. Sound(t)
  BY <1>0, <1>2, <1>4, <1>5, RunsAssumption DEF Sound, StoreType
<1>7. Follows(s, t)
  <2>1. Len(s.order) <= Len(t.order)
    BY <1>0, <1>2, <1>4
  <2> QED BY <1>0, <1>2, <1>4, <2>1 DEF Follows, StoreType
<1> QED BY <1>0, <1>2, <1>4, <1>6, <1>7 DEF StoreType

\* Putting a run that has not ended where no other is active.
LEMMA NewSound ==
  ASSUME NEW s, Sound(s), NEW r \in Runs, s.receipts[r] \notin Ended,
         s.receipts[r] # "none" \/ Len(s.order) < MaxReceipts \/ EndedIn(s) # {},
         \A q \in Runs : sessionOf[q] = sessionOf[r] /\ s.receipts[q] \in Unended => q = r,
         NEW status \in Unended, NEW t, t = Put(s, r, status)
  PROVE  /\ t \in StoreType /\ Ordered(t) /\ OnlyActive(t) /\ Follows(s, t)
         /\ t.receipts[r] = status /\ t.journals[r] = s.journals[r]
         /\ \A q \in Runs \ {r} :
              \/ t.receipts[q] = s.receipts[q] /\ t.journals[q] = s.journals[q]
              \/ /\ s.receipts[q] \in Ended
                 /\ t.receipts[q] = "none" /\ t.journals[q] = "none"
<1> USE StatusFacts
<1>0. /\ s \in StoreType /\ s.order \in Seq(Runs) /\ Listed(s)
      /\ MaxReceipts \in Nat /\ Len(s.order) \in Nat /\ Len(s.order) <= MaxReceipts
      /\ sessionOf[r] \in Sessions
  BY RunsAssumption DEF Sound, StoreType, Ordered
<1> DEFINE u == [s EXCEPT !.active[sessionOf[r]] = r,
                          !.receipts[r] = status,
                          !.order = IF s.receipts[r] = "none" THEN Append(@, r) ELSE @]
<1>1. t = Trim(u)
  BY DEF Put
<1>2. /\ u.receipts = [s.receipts EXCEPT ![r] = status]
      /\ u.active = [s.active EXCEPT ![sessionOf[r]] = r]
      /\ u.journals = s.journals
      /\ u.order = IF s.receipts[r] = "none" THEN Append(s.order, r) ELSE s.order
      /\ u.dirty = s.dirty /\ u.timer = s.timer
  BY <1>0 DEF StoreType
<1>3. u \in StoreType
  <2>1. u.receipts \in [Runs -> Statuses] /\ u.active \in [Sessions -> Runs \cup {NoRun}]
    BY <1>0, <1>2 DEF StoreType
  <2>2. u.order \in Seq(Runs)
    BY <1>0, <1>2, AppendProperties
  <2>3. u = [s EXCEPT !.receipts = u.receipts, !.active = u.active, !.order = u.order]
    BY <1>0, <1>2 DEF StoreType
  <2> HIDE DEF u
  <2> QED BY <1>0, <2>1, <2>2, <2>3 DEF StoreType
<1> HIDE DEF u
<1>4. Listed(u) /\ Len(u.order) = IF s.receipts[r] = "none" THEN Len(s.order) + 1 ELSE Len(s.order)
  <2>1. CASE s.receipts[r] = "none"
    <3>1. ~Contains(s.order, r)
      BY <1>0, <2>1 DEF Listed
    <3>2. IsInjective(u.order) /\ \A x : Contains(u.order, x) <=> Contains(s.order, x) \/ x = r
      BY <1>0, <1>2, <2>1, <3>1, AppendOnce DEF Listed
    <3>3. Len(u.order) = Len(s.order) + 1
      BY <1>0, <1>2, <2>1, AppendProperties
    <3> QED BY <1>0, <1>2, <2>1, <3>2, <3>3 DEF Listed, StoreType
  <2>2. CASE s.receipts[r] # "none"
    BY <1>0, <1>2, <2>2 DEF Listed, StoreType
  <2> QED BY <2>1, <2>2
<1>5. Len(u.order) <= MaxReceipts \/ EndedIn(u) # {}
  <2>1. SUFFICES ASSUME s.receipts[r] = "none", EndedIn(s) # {} PROVE EndedIn(u) # {}
    BY <1>0, <1>4
  <2>2. PICK i \in 1..Len(s.order) : s.receipts[s.order[i]] \in Ended
    BY <1>0, <2>1 DEF EndedIn
  <2>3. s.order[i] \in Runs /\ s.order[i] # r /\ u.order[i] = s.order[i]
    BY <1>0, <1>2, <2>1, <2>2, ElementOfSeq, AppendProperties
  <2>4. i \in DOMAIN u.order /\ u.receipts[u.order[i]] \in Ended
    BY <1>0, <1>2, <1>3, <1>4, <2>1, <2>2, <2>3 DEF StoreType
  <2> QED BY <2>4 DEF EndedIn
<1>6. /\ t \in StoreType /\ Ordered(t) /\ t.active = u.active
      /\ Len(t.order) = IF Len(u.order) <= MaxReceipts THEN Len(u.order) ELSE MaxReceipts
      /\ \A q \in Runs :
           \/ t.receipts[q] = u.receipts[q] /\ t.journals[q] = u.journals[q]
           \/ /\ u.receipts[q] \in Ended /\ t.receipts[q] = "none"
              /\ t.journals[q] = "none" /\ Len(t.order) = MaxReceipts
  BY <1>0, <1>1, <1>3, <1>4, <1>5, TrimSound
<1>7. /\ u.receipts[r] = status
      /\ \A q \in Runs \ {r} : u.receipts[q] = s.receipts[q]
  BY <1>0, <1>2 DEF StoreType
<1>8. t.receipts[r] = status /\ t.journals[r] = s.journals[r]
  BY <1>2, <1>6, <1>7
<1>9. ASSUME NEW q \in Runs \ {r}
      PROVE  \/ t.receipts[q] = s.receipts[q] /\ t.journals[q] = s.journals[q]
             \/ /\ s.receipts[q] \in Ended /\ t.receipts[q] = "none"
                /\ t.journals[q] = "none" /\ Len(t.order) = MaxReceipts
  BY <1>2, <1>6, <1>7
<1>10. OnlyActive(t)
  <2>1. ASSUME NEW q \in Runs, t.receipts[q] \in Unended
        PROVE  t.active[sessionOf[q]] = q
    <3>1. q # r => s.receipts[q] \in Unended
      BY <1>9, <2>1
    <3>2. q # r => sessionOf[q] # sessionOf[r]
      BY <3>1
    <3>3. sessionOf[q] \in Sessions
      BY RunsAssumption
    <3> QED BY <1>0, <1>2, <1>6, <3>1, <3>2, <3>3 DEF Sound, OnlyActive, StoreType
  <2>2. ASSUME NEW x \in Sessions, t.active[x] # NoRun
        PROVE  sessionOf[t.active[x]] = x
    BY <1>0, <1>2, <1>6, <2>2 DEF Sound, OnlyActive, StoreType
  <2> QED BY <2>1, <2>2 DEF OnlyActive
<1>11. Follows(s, t)
  <2>1. Len(s.order) <= Len(t.order)
    BY <1>0, <1>4, <1>6
  <2>2. \A q \in Runs : q = r \/ q \in Runs \ {r}
    OBVIOUS
  <2> QED BY <1>8, <1>9, <2>1, <2>2 DEF Follows
<1> QED BY <1>6, <1>8, <1>9, <1>10, <1>11

-----------------------------------------------------------------------------
(* What a step of the live process does to the store and the file. *)

\* The file holds the receipts of the store; of the journals it may lack the
\* first event of a run that is just accepted.
Recorded ==
  /\ disk'.receipts = store'.receipts /\ disk'.order = store'.order
  /\ disk' \in ImageType
  /\ \A r \in Served : disk'.journals[r] = store'.journals[r] \/ answer'[r] = "waiting"

LiveStep ==
  /\ up /\ up'
  /\ Sound(store') /\ Follows(store, store')
  /\ \/ Recorded
     \/ /\ disk' = disk
        /\ WritesFail = FALSE => store'.receipts = store.receipts /\ store'.order = store.order
  /\ \A r \in Served :
       /\ store.journals[r] = "none" /\ store'.journals[r] # "none" => answer'[r] = "waiting"
       /\ answer'[r] \in TerminalEvents =>
            \/ answer'[r] = answer[r]
            \/ Recorded /\ store'.journals[r] = answer'[r]
  /\ \A r \in tasks' : store'.receipts[r] # "none" /\ (r \in tasks \/ Recorded)

\* The store and the file after a write of store', or without one.
Written ==
  \/ disk' = Image(store')
  \/ disk' = disk /\ (WritesFail = TRUE \/ (store'.receipts = store.receipts
                                          /\ store'.order = store.order))

LEMMA SoundFacts ==
  ASSUME NEW s, Sound(s)
  PROVE  /\ s \in StoreType /\ s.receipts \in [Runs -> Statuses] /\ s.order \in Seq(Runs)
         /\ s.journals \in [Runs -> Journals] /\ s.active \in [Sessions -> Runs \cup {NoRun}]
         /\ Image(s) \in ImageType /\ Image(s).receipts = s.receipts
         /\ Image(s).order = s.order /\ Image(s).journals = s.journals
         /\ Ordered(s) /\ OnlyActive(s)
         /\ Follows(s, s)
<1>1. s \in StoreType /\ Len(s.order) \in Nat
  BY DEF Sound, StoreType
<1>2. Follows(s, s)
  BY <1>1 DEF Follows
<1> QED BY <1>1, <1>2 DEF Sound, StoreType, Image, ImageType, Journals

LEMMA FlushEffect ==
  ASSUME NEW s, Sound(s), NEW saved, Flush(s, saved)
  PROVE  /\ Sound(store') /\ saved \in BOOLEAN
         /\ store'.receipts = s.receipts /\ store'.order = s.order
         /\ store'.journals = s.journals /\ store'.active = s.active
         /\ \/ saved = TRUE /\ disk' = Image(store')
            \/ saved = FALSE /\ disk' = disk /\ WritesFail = TRUE
<1>1. s \in StoreType /\ saved \in BOOLEAN /\ (saved = FALSE => WritesFail = TRUE)
      /\ store' = [s EXCEPT !.dirty = ~saved, !.timer = FALSE]
      /\ disk' = IF saved THEN Image(s) ELSE disk
  BY RunsAssumption DEF Flush, Sound
<1>2. /\ store'.receipts = s.receipts /\ store'.order = s.order
      /\ store'.journals = s.journals /\ store'.active = s.active
      /\ store' \in StoreType
  BY <1>1 DEF StoreType
<1>3. Sound(store')
  BY <1>2 DEF Sound, Ordered, Listed, OnlyActive
<1>4. Image(s) = Image(store')
  BY <1>2 DEF Image
<1> QED BY <1>1, <1>2, <1>3, <1>4

\* finishTurn() ends the active run of the session, if there is one.
LEMMA FinishEffect ==
  ASSUME Sound(store), NEW s \in Sessions, NEW status \in Ended, NEW saved,
         Finish(s, status, saved)
  PROVE  /\ Sound(store') /\ Follows(store, store') /\ Written
         /\ saved \in BOOLEAN
         /\ store'.journals = store.journals
         /\ \A q \in Runs :
              /\ store'.receipts[q] = "none" <=> store.receipts[q] = "none"
              /\ store'.receipts[q] \in Unended =>
                   store.receipts[q] \in Unended /\ sessionOf[q] # s
         /\ queued' \subseteq queued
<1> USE StatusFacts
<1>0. Follows(store, store) /\ store.active \in [Sessions -> Runs \cup {NoRun}]
      /\ store.receipts \in [Runs -> Statuses] /\ OnlyActive(store)
  BY SoundFacts
<1>1. CASE Active(s)
  <2> DEFINE r == store.active[s]
             t == Put(store, r, status)
  <2>1. r \in Runs /\ store.receipts[r] \in Unended /\ sessionOf[r] = s
    BY <1>0, <1>1 DEF Active, OnlyActive
  <2>2. /\ Sound(t) /\ Follows(store, t)
        /\ \A q \in Runs : t.receipts[q] = IF q = r THEN status ELSE store.receipts[q]
        /\ t.journals = store.journals
    BY <2>1, EndSound
  <2>3. Flush(t, saved) /\ queued' \subseteq queued
    BY <1>1 DEF Finish
  <2> HIDE DEF r, t
  <2>4. /\ Sound(store') /\ saved \in BOOLEAN /\ Written
        /\ store'.receipts = t.receipts /\ store'.order = t.order
        /\ store'.journals = t.journals
    BY <2>2, <2>3, FlushEffect DEF Written
  <2>5. Follows(store, store')
    BY <2>2, <2>4 DEF Follows
  <2>6. \A q \in Runs :
          /\ store'.receipts[q] = "none" <=> store.receipts[q] = "none"
          /\ store'.receipts[q] \in Unended =>
               store.receipts[q] \in Unended /\ sessionOf[q] # s
    <3>1. \A q \in Runs : store'.receipts[q] = IF q = r THEN status ELSE store.receipts[q]
      BY <1>0, <2>2, <2>4
    <3>2. \A q \in Runs : store.receipts[q] \in Unended /\ sessionOf[q] = s => q = r
      BY <1>0 DEF OnlyActive, r
    <3> QED BY <2>1, <3>1, <3>2
  <2> QED BY <2>2, <2>3, <2>4, <2>5, <2>6
<1>2. CASE ~Active(s)
  <2>1. saved = TRUE /\ queued' \subseteq queued /\ store' = store /\ disk' = disk
    BY <1>2 DEF Finish
  <2>2. \A q \in Runs : store.receipts[q] \in Unended => sessionOf[q] # s
    BY <1>0, <1>2, RunsAssumption DEF Active, OnlyActive
  <2> QED BY <1>0, <2>1, <2>2 DEF Written
<1> QED BY <1>1, <1>2

\* A terminal event goes to a journal that has none, and is told once written.
LEMMA AppendTerminalEffect ==
  ASSUME Sound(store), NEW r \in Runs, NEW event \in TerminalEvents, NEW saved,
         AppendTerminal(r, event, saved), store.receipts[r] # "none",
         NEW A, answer \in [Runs -> A]
  PROVE  /\ Sound(store') /\ Follows(store, store') /\ Written
         /\ saved \in BOOLEAN
         /\ store'.receipts = store.receipts
         /\ \A q \in Served : store'.journals[q] # "none" => store.journals[q] # "none"
         /\ \A q \in Runs : answer'[q] # answer[q] =>
              disk' = Image(store') /\ store'.journals[q] = answer'[q]
         /\ answer' \in [Runs -> A \cup TerminalEvents]
<1> USE StatusFacts
<1>0. /\ Follows(store, store) /\ store.journals \in [Runs -> Journals]
      /\ store \in StoreType
  BY SoundFacts
<1>1. CASE store.journals[r] \in TerminalEvents
  BY <1>0, <1>1 DEF AppendTerminal, Written
<1>2. CASE store.journals[r] \notin TerminalEvents
  <2> DEFINE t == [store EXCEPT !.journals[r] = event]
  <2>1. Flush(t, saved) /\ Tell(r, event, saved)
    BY <1>2 DEF AppendTerminal
  <2>2. /\ t \in StoreType /\ t.receipts = store.receipts /\ t.order = store.order
        /\ t.active = store.active
        /\ \A q \in Runs : t.journals[q] = IF q = r THEN event ELSE store.journals[q]
    BY <1>0 DEF StoreType, Journals
  <2> HIDE DEF t
  <2>3. Sound(t)
    BY <2>2, RunsAssumption DEF Sound, Ordered, Listed, OnlyActive
  <2>4. /\ Sound(store') /\ saved \in BOOLEAN /\ store'.receipts = t.receipts
        /\ store'.order = t.order /\ store'.journals = t.journals
        /\ \/ saved = TRUE /\ disk' = Image(store')
           \/ saved = FALSE /\ disk' = disk /\ WritesFail = TRUE
    BY <2>1, <2>3, FlushEffect
  <2>5. Follows(store, store')
    BY <1>0, <1>2, <2>2, <2>4 DEF Follows
  <2>6. /\ \A q \in Runs : answer'[q] # answer[q] =>
              saved = TRUE /\ q = r /\ answer'[q] = event
        /\ answer' \in [Runs -> A \cup TerminalEvents]
    BY <2>1, <2>4 DEF Tell
  <2>7. \A q \in Served : store'.journals[q] # "none" => store.journals[q] # "none"
    BY <2>2, <2>4, RunsAssumption DEF Sound
  <2> QED BY <1>0, <2>2, <2>4, <2>5, <2>6, <2>7 DEF Written
<1> QED BY <1>1, <1>2

\* An event that is not terminal opens a journal, or is dropped after its end.
LEMMA AppendEventEffect ==
  ASSUME NEW s \in StoreType, Ordered(s), OnlyActive(s), NEW r \in Runs,
         NEW t, t = AppendEvent(s, r)
  PROVE  /\ t \in StoreType /\ Ordered(t) /\ OnlyActive(t)
         /\ t.receipts = s.receipts /\ t.order = s.order /\ t.active = s.active
         /\ t.journals[r] # "none"
         /\ \A q \in Runs \ {r} : t.journals[q] = s.journals[q]
         /\ s.journals[r] \in TerminalEvents => t.journals[r] = s.journals[r]
<1> USE StatusFacts
<1>1. CASE s.journals[r] \in TerminalEvents
  BY <1>1 DEF AppendEvent
<1>2. CASE s.journals[r] \notin TerminalEvents
  <2>1. t = [s EXCEPT !.journals[r] = "open", !.dirty = TRUE, !.timer = TRUE]
    BY <1>2 DEF AppendEvent
  <2>2. /\ t \in StoreType /\ t.receipts = s.receipts /\ t.order = s.order
        /\ t.active = s.active
        /\ \A q \in Runs : t.journals[q] = IF q = r THEN "open" ELSE s.journals[q]
    <3>1. /\ t.journals = [s.journals EXCEPT ![r] = "open"]
          /\ t.dirty = TRUE /\ t.timer = TRUE
          /\ t.receipts = s.receipts /\ t.order = s.order /\ t.active = s.active
      BY <2>1 DEF StoreType
    <3>2. t.journals \in [Runs -> Journals]
      BY <3>1 DEF StoreType, Journals
    <3>3. t = [s EXCEPT !.journals = t.journals, !.dirty = TRUE, !.timer = TRUE]
      BY <2>1, <3>1 DEF StoreType
    <3>4. t \in StoreType
      BY <3>2, <3>3 DEF StoreType
    <3>5. \A q \in Runs : t.journals[q] = IF q = r THEN "open" ELSE s.journals[q]
      BY <3>1 DEF StoreType
    <3> QED BY <3>1, <3>4, <3>5
  <2> QED BY <1>2, <2>2 DEF Ordered, Listed, OnlyActive
<1> QED BY <1>1, <1>2

-----------------------------------------------------------------------------
(* The invariant of the store and the file. *)

\* What the caller was told of the end of r is in the file and in the store,
\* unless the full history forgot the run.
Told(r) ==
  answer[r] \in TerminalEvents =>
    /\ disk.journals[r] \in {answer[r], "none"}
    /\ store.journals[r] \in {answer[r], "none"}
    /\ disk.journals[r] = "none" => disk.receipts[r] = "none"

StoreInv ==
  /\ Sound(store)
  /\ disk \in ImageType /\ Ordered(disk)
  /\ up => \A r \in Runs : disk.receipts[r] # "none" /\ store.receipts[r] = "none"
                            => Len(store.order) = MaxReceipts
  /\ \A r \in Served : Told(r)
  /\ up /\ WritesFail = FALSE => disk.receipts = store.receipts /\ disk.order = store.order
  /\ ~up => store = StoreOf(EmptyImage) /\ tasks = {}
  /\ \A r \in tasks : store.receipts[r] # "none" /\ disk.receipts[r] # "none"

LEMMA LiveStore ==
  ASSUME StoreInv, LiveStep, tasks \subseteq Served, tasks' \subseteq Served
  PROVE  StoreInv'
<1> USE StatusFacts
<1>0. /\ Sound(store) /\ Sound(store') /\ Follows(store, store') /\ up'
      /\ Ordered(store) /\ Ordered(store')
      /\ Len(store.order) \in Nat /\ Len(store'.order) \in Nat /\ MaxReceipts \in Nat
      /\ store.receipts \in [Runs -> Statuses] /\ store'.receipts \in [Runs -> Statuses]
      /\ store.journals \in [Runs -> Journals] /\ store'.journals \in [Runs -> Journals]
      /\ Served \subseteq Runs
  BY SoundFacts, RunsAssumption DEF StoreInv, LiveStep
<1>1. CASE Recorded
  <2>1. Ordered(disk)'
    BY <1>0, <1>1 DEF Recorded, Ordered, Listed
  <2>2. ASSUME NEW r \in Served PROVE Told(r)'
    BY <1>0, <1>1 DEF StoreInv, Told, LiveStep, Recorded, Follows, Sound
  <2>3. \A r \in tasks' : store'.receipts[r] # "none" /\ disk'.receipts[r] # "none"
    BY <1>1 DEF LiveStep, Recorded
  <2> QED BY <1>0, <1>1, <2>1, <2>2, <2>3 DEF StoreInv, Recorded
<1>2. CASE ~Recorded
  <2>0. /\ disk' = disk
        /\ WritesFail = FALSE => store'.receipts = store.receipts /\ store'.order = store.order
    BY <1>2 DEF LiveStep
  <2>1. disk' \in ImageType /\ Ordered(disk)'
    BY <2>0 DEF StoreInv
  <2>2. ASSUME NEW r \in Served PROVE Told(r)'
    BY <1>0, <1>2, <2>0 DEF StoreInv, Told, LiveStep, Follows
  <2>3. \A r \in tasks' : store'.receipts[r] # "none" /\ disk'.receipts[r] # "none"
    BY <1>2, <2>0 DEF LiveStep, StoreInv
  <2>4. ASSUME NEW r \in Runs, disk'.receipts[r] # "none", store'.receipts[r] = "none"
        PROVE  Len(store'.order) = MaxReceipts
    <3>1. CASE store.receipts[r] = "none"
      <4>1. Len(store.order) = MaxReceipts
        BY <2>0, <2>4, <3>1 DEF StoreInv, LiveStep
      <4> QED BY <1>0, <4>1 DEF Follows, Ordered
    <3>2. CASE store.receipts[r] # "none"
      BY <1>0, <2>4, <3>2 DEF Follows
    <3> QED BY <3>1, <3>2
  <2>5. up /\ (WritesFail = FALSE => disk'.receipts = store'.receipts /\ disk'.order = store'.order)
    BY <2>0 DEF StoreInv, LiveStep
  <2> QED BY <1>0, <2>1, <2>2, <2>3, <2>4, <2>5 DEF StoreInv
<1> QED BY <1>1, <1>2

\* What a start makes of the first receipts of the file.
LEMMA LoadedFacts ==
  ASSUME NEW image \in ImageType, Ordered(image), NEW n \in 0..Len(image.order)
  PROVE  LET i == LoadedFirst(image, n) IN
         /\ i \in ImageType /\ Ordered(i) /\ Len(i.order) = n
         /\ \A r \in Runs :
              /\ i.receipts[r] \notin Unended
              /\ i.receipts[r] # "none" => image.receipts[r] # "none" /\ i.journals[r] \in TerminalEvents
              /\ n = Len(image.order) /\ image.receipts[r] # "none" => i.receipts[r] # "none"
              /\ image.receipts[r] \in Ended => i.receipts[r] \in {image.receipts[r], "none"}
              /\ i.receipts[r] = "none" => i.journals[r] = image.journals[r]
              /\ image.journals[r] \in TerminalEvents => i.journals[r] = image.journals[r]
              /\ i.journals[r] = "none" => image.journals[r] = "none"
<1> USE StatusFacts
<1> DEFINE i == LoadedFirst(image, n)
           order == SubSeq(image.order, 1, n)
<1>0. /\ image.order \in Seq(Runs) /\ IsInjective(image.order)
      /\ image.receipts \in [Runs -> Statuses] /\ image.journals \in [Runs -> Journals]
      /\ Len(image.order) \in Nat /\ MaxReceipts \in Nat /\ Len(image.order) <= MaxReceipts
      /\ \A r \in Runs : Contains(image.order, r) <=> image.receipts[r] # "none"
  BY RunsAssumption DEF ImageType, Ordered, Listed, Journals
<1>1. /\ order \in Seq(Runs) /\ Len(order) = n /\ IsInjective(order)
      /\ \A r \in Runs : Contains(order, r) => image.receipts[r] # "none"
  BY <1>0, PrefixOnce
<1>2. n = Len(image.order) => order = image.order
  BY <1>0, SubSeqFull
<1> HIDE DEF order
<1> DEFINE receipts == [r \in Runs |-> IF Contains(order, r) THEN Restored(image, r) ELSE "none"]
           journals == [r \in Runs |->
             IF Contains(order, r) /\ image.journals[r] \notin TerminalEvents
             THEN EventOf[receipts[r]] ELSE image.journals[r]]
<1>3. i.order = order /\ i.receipts = receipts /\ i.journals = journals
      /\ i = [receipts |-> receipts, order |-> order, journals |-> journals]
  BY DEF LoadedFirst, order
<1>4. \A r \in Runs :
        /\ Contains(order, r) => receipts[r] \in Ended
        /\ Contains(order, r) /\ image.receipts[r] \in Ended => receipts[r] = image.receipts[r]
        /\ ~Contains(order, r) => receipts[r] = "none"
  BY <1>0, <1>1 DEF Restored
<1> HIDE DEF receipts
<1>5. \A r \in Runs :
        /\ image.journals[r] \in TerminalEvents \/ ~Contains(order, r) => journals[r] = image.journals[r]
        /\ Contains(order, r) => journals[r] \in TerminalEvents
  BY <1>4
<1>6. i \in ImageType
  <2>1. receipts \in [Runs -> Statuses]
    BY <1>4 DEF receipts
  <2>2. journals \in [Runs -> Journals]
    BY <1>0, <1>4, <1>5 DEF Journals
  <2> QED BY <1>1, <1>3, <2>1, <2>2 DEF ImageType, Journals
<1>7. Ordered(i) /\ Len(i.order) = n
  BY <1>0, <1>1, <1>3, <1>4 DEF Ordered, Listed
<1> HIDE DEF journals
<1>8. ASSUME NEW r \in Runs
      PROVE  /\ receipts[r] \notin Unended
             /\ receipts[r] # "none" => image.receipts[r] # "none" /\ journals[r] \in TerminalEvents
             /\ n = Len(image.order) /\ image.receipts[r] # "none" => receipts[r] # "none"
             /\ image.receipts[r] \in Ended => receipts[r] \in {image.receipts[r], "none"}
             /\ receipts[r] = "none" => journals[r] = image.journals[r]
             /\ image.journals[r] \in TerminalEvents => journals[r] = image.journals[r]
             /\ journals[r] = "none" => image.journals[r] = "none"
  BY <1>0, <1>1, <1>2, <1>4, <1>5
<1> QED BY <1>3, <1>6, <1>7, <1>8

\* The store a start begins with: what had not ended has failed, and every
\* journal is closed.
LEMMA RestartStore ==
  ASSUME NEW image \in ImageType, Ordered(image), NEW i, i = Loaded(image)
  PROVE  /\ i \in ImageType /\ Ordered(i) /\ Sound(StoreOf(i))
         /\ StoreOf(i).receipts = i.receipts /\ StoreOf(i).order = i.order
         /\ StoreOf(i).journals = i.journals
         /\ \A r \in Runs :
              /\ i.receipts[r] \notin Unended
              /\ i.receipts[r] = "none" <=> image.receipts[r] = "none"
              /\ image.receipts[r] \in Ended => i.receipts[r] = image.receipts[r]
              /\ image.journals[r] \in TerminalEvents => i.journals[r] = image.journals[r]
              /\ i.journals[r] = "none" <=> image.journals[r] = "none" /\ image.receipts[r] = "none"
<1> USE StatusFacts
<1> DEFINE all == LoadedFirst(image, Len(image.order))
<1>0. Len(image.order) \in 0..Len(image.order)
  BY DEF ImageType
<1>1. /\ all \in ImageType /\ Ordered(all)
      /\ \A r \in Runs :
           /\ all.receipts[r] \notin Unended
           /\ all.receipts[r] # "none" => image.receipts[r] # "none" /\ all.journals[r] \in TerminalEvents
           /\ image.receipts[r] # "none" => all.receipts[r] # "none"
           /\ image.receipts[r] \in Ended => all.receipts[r] \in {image.receipts[r], "none"}
           /\ all.receipts[r] = "none" => all.journals[r] = image.journals[r]
           /\ image.journals[r] \in TerminalEvents => all.journals[r] = image.journals[r]
           /\ all.journals[r] = "none" => image.journals[r] = "none"
  BY <1>0, LoadedFacts
<1>2. i = [all EXCEPT !.journals = [r \in Runs |->
             IF all.journals[r] = "open" THEN "response.failed" ELSE all.journals[r]]]
  BY DEF Loaded
<1> HIDE DEF all
<1>3. /\ i.receipts = all.receipts /\ i.order = all.order
      /\ i.journals = [r \in Runs |->
             IF all.journals[r] = "open" THEN "response.failed" ELSE all.journals[r]]
      /\ i \in ImageType
  <2>1. all.journals \in [Runs -> Journals]
    BY <1>1 DEF ImageType, Journals
  <2>2. [r \in Runs |-> IF all.journals[r] = "open" THEN "response.failed" ELSE all.journals[r]]
          \in [Runs -> Journals]
    BY <2>1 DEF Journals
  <2> QED BY <1>1, <1>2, <2>2 DEF ImageType, Journals
<1>4. Ordered(i)
  BY <1>1, <1>3 DEF Ordered, Listed
<1>5. \A r \in Runs :
        i.journals[r] = IF all.journals[r] = "open" THEN "response.failed" ELSE all.journals[r]
  BY <1>3
<1>6. \A r \in Runs :
        /\ i.receipts[r] \notin Unended
        /\ i.receipts[r] # "none" => i.journals[r] # "none"
        /\ i.receipts[r] = "none" <=> image.receipts[r] = "none"
        /\ image.receipts[r] \in Ended => i.receipts[r] = image.receipts[r]
        /\ image.journals[r] \in TerminalEvents => i.journals[r] = image.journals[r]
        /\ i.journals[r] = "none" <=> image.journals[r] = "none" /\ image.receipts[r] = "none"
  BY <1>1, <1>3, <1>5
<1> DEFINE s == StoreOf(i)
<1>7. /\ s.receipts = i.receipts /\ s.order = i.order /\ s.journals = i.journals
      /\ s.active = [x \in Sessions |-> NoRun]
      /\ s \in StoreType
  BY <1>3 DEF StoreOf, StoreType, ImageType, Journals
<1> HIDE DEF s
<1>8. Sound(s)
  BY <1>4, <1>6, <1>7, RunsAssumption DEF Sound, Ordered, Listed, OnlyActive
<1> QED BY <1>3, <1>4, <1>6, <1>7, <1>8 DEF s

LEMMA EmptyStore ==
  /\ EmptyImage \in ImageType /\ Ordered(EmptyImage) /\ Sound(StoreOf(EmptyImage))
  /\ StoreOf(EmptyImage).order = <<>> /\ StoreOf(EmptyImage).receipts = EmptyImage.receipts
  /\ StoreOf(EmptyImage).journals = EmptyImage.journals /\ EmptyImage.order = <<>>
  /\ \A r \in Runs : EmptyImage.receipts[r] = "none" /\ EmptyImage.journals[r] = "none"
<1> USE StatusFacts
<1>1. /\ EmptyImage.order = <<>> /\ EmptyImage \in ImageType
      /\ EmptyImage.receipts = [r \in Runs |-> "none"]
      /\ EmptyImage.journals = [r \in Runs |-> "none"]
  BY DEF EmptyImage, ImageType
<1>2. <<>> \in Seq(Runs) /\ Len(<<>>) = 0 /\ IsInjective(<<>>) /\ \A x : ~Contains(<<>>, x)
  BY DEF IsInjective, Contains
<1>3. Ordered(EmptyImage)
  BY <1>1, <1>2, RunsAssumption DEF Ordered, Listed
<1> DEFINE s == StoreOf(EmptyImage)
<1>4. /\ s.receipts = EmptyImage.receipts /\ s.order = <<>>
      /\ s.journals = EmptyImage.journals
      /\ s.active = [x \in Sessions |-> NoRun]
      /\ s \in StoreType
  BY <1>1 DEF StoreOf, StoreType, ImageType, Journals
<1> HIDE DEF s
<1>5. Sound(s)
  BY <1>1, <1>3, <1>4, RunsAssumption DEF Sound, Ordered, Listed, OnlyActive
<1> QED BY <1>1, <1>3, <1>4, <1>5 DEF s

-----------------------------------------------------------------------------
(* The invariant of the coroutines. *)

Places == {"none", "admission", "setup", "working", "closing", "dying"}
Answers == {"none", "waiting", "lost", "turn_failed"} \cup TerminalEvents

\* A claimed run has a coroutine; a run that has not ended has one too, unless
\* the model stage of a direct turn threw; a coroutine that is about to leave
\* has ended its run, or will as its signal has fired.
ControlInv ==
  /\ tasks \subseteq Served /\ queued \subseteq tasks /\ aborted \subseteq tasks
  /\ turn \in [Runs -> Places]
  /\ rest \in [step : Steps, run : Runs \cup {NoRun}]
  /\ answer \in [Runs -> Answers]
  /\ up \in BOOLEAN
  /\ \A r \in Served : r \in tasks <=> turn[r] # "none"
  /\ \A r \in Runs :
       /\ store.receipts[r] \in Unended /\ turn[r] = "none" => r \notin Served /\ TurnsThrow = TRUE
       /\ turn[r] = "closing" => r \in Served /\ (store.receipts[r] \in Unended => r \in aborted)
  /\ rest.step # "none" => rest.run \in Runs
  /\ rest.step = "unwind" => turn[rest.run] = "setup"
  /\ rest.step \in {"settle", "catch"} => rest.run \in tasks
  /\ rest.step = "cancel" => store.receipts[rest.run] # "none"
  /\ ~up => tasks = {} /\ rest = NoRest /\ turn = [r \in Runs |-> "none"]

RunsInv == StoreInv /\ ControlInv

\* The steps that accept no run.
LEMMA SettledLive ==
  ASSUME StoreInv, up, up', tasks' \subseteq tasks,
         Sound(store'), Follows(store, store'), Written,
         \A r \in Served : store'.journals[r] # "none" => store.journals[r] # "none",
         \A r \in Served : answer'[r] # answer[r] =>
           disk' = Image(store') /\ store'.journals[r] = answer'[r],
         \A r \in tasks' : store'.receipts[r] # "none"
  PROVE  LiveStep
<1>1. disk' = Image(store') => Recorded
  BY SoundFacts DEF Recorded
<1> QED BY <1>1, RunsAssumption DEF LiveStep, Written

\* The steps that leave the store and the file alone.
LEMMA QuietLive ==
  ASSUME StoreInv, up, up', tasks' = tasks, store' = store, disk' = disk, answer' = answer
  PROVE  LiveStep
<1>1. Sound(store) /\ Follows(store, store) /\ \A r \in tasks : store.receipts[r] # "none"
  BY SoundFacts DEF StoreInv
<1>2. Written
  BY DEF Written
<1> QED BY <1>1, <1>2, SettledLive

-----------------------------------------------------------------------------
(* The actions *)

LEMMA SubmitStep ==
  ASSUME RunsInv, NEW r \in Runs, Submit(r)
  PROVE  LiveStep /\ ControlInv'
<1> USE StatusFacts
<1> DEFINE accepted == Put(store, r, "waiting")
<1>0. /\ up /\ up' /\ rest = NoRest /\ r \in Served /\ turn[r] = "none" /\ Claimable(r)
      /\ Sound(store) /\ r \notin tasks /\ UNCHANGED <<aborted, rest, up>>
      /\ Served \subseteq Runs /\ answer \in [Runs -> Answers]
      /\ store.receipts[r] = "none" /\ ~Active(sessionOf[r])
  BY RunsAssumption DEF Submit, Idle, RunsInv, StoreInv, ControlInv, Claimable
<1>1. CASE /\ HasRoom(r)
           /\ WriteAccepted(accepted)
           /\ store' = AppendEvent([accepted EXCEPT !.dirty = FALSE, !.timer = FALSE], r)
           /\ tasks' = tasks \cup {r}
           /\ queued' = queued \cup {r}
           /\ turn' = [turn EXCEPT ![r] = "admission"]
           /\ answer' = [answer EXCEPT ![r] = "waiting"]
  <2>1. \A q \in Runs : ~ (sessionOf[q] = sessionOf[r] /\ store.receipts[q] \in Unended)
    BY <1>0, RunsAssumption DEF Active, Sound, OnlyActive
  <2>2. /\ accepted \in StoreType /\ Ordered(accepted) /\ OnlyActive(accepted)
        /\ Follows(store, accepted)
        /\ accepted.receipts[r] = "waiting" /\ accepted.journals[r] = store.journals[r]
        /\ \A q \in Runs \ {r} :
             \/ /\ accepted.receipts[q] = store.receipts[q]
                /\ accepted.journals[q] = store.journals[q]
             \/ /\ store.receipts[q] \in Ended
                /\ accepted.receipts[q] = "none" /\ accepted.journals[q] = "none"
    BY <1>0, <1>1, <2>1, NewSound DEF HasRoom
  <2> DEFINE s == [accepted EXCEPT !.dirty = FALSE, !.timer = FALSE]
  <2>3. OutlastsCoroutines(accepted)
    BY DEF Submit
  <2>4. disk' = Image(accepted)
    BY <1>1 DEF WriteAccepted
  <2> HIDE DEF accepted
  <2>5. /\ s \in StoreType /\ s.receipts = accepted.receipts /\ s.order = accepted.order
        /\ s.journals = accepted.journals /\ s.active = accepted.active
    BY <2>2 DEF StoreType
  <2> HIDE DEF s
  <2>6. Ordered(s) /\ OnlyActive(s)
    BY <2>2, <2>5 DEF Ordered, Listed, OnlyActive
  <2>7. /\ store' \in StoreType /\ Ordered(store') /\ OnlyActive(store')
        /\ store'.receipts = accepted.receipts /\ store'.order = accepted.order
        /\ store'.journals[r] # "none"
        /\ \A q \in Runs \ {r} : store'.journals[q] = accepted.journals[q]
        /\ accepted.journals[r] \in TerminalEvents => store'.journals[r] = accepted.journals[r]
    <3>1. store' = AppendEvent(s, r)
      BY <1>1 DEF s
    <3> QED BY <2>5, <2>6, <3>1, AppendEventEffect
  <2>8. Sound(store')
    <3> SUFFICES ASSUME NEW q \in Served, store'.receipts[q] # "none"
                 PROVE  store'.journals[q] # "none"
      BY <2>7 DEF Sound
    <3> QED BY <1>0, <2>2, <2>7 DEF Sound
  <2>9. Follows(store, store')
    BY <2>2, <2>7 DEF Follows
  <2>10. answer'[r] = "waiting" /\ \A q \in Runs \ {r} : answer'[q] = answer[q]
    BY <1>0, <1>1
  <2>11. /\ disk' \in ImageType /\ disk'.receipts = store'.receipts
         /\ disk'.order = store'.order /\ disk'.journals = accepted.journals
    BY <2>2, <2>4, <2>7 DEF Image, ImageType, StoreType, Journals
  <2>12. Recorded
    BY <1>0, <2>7, <2>10, <2>11 DEF Recorded
  <2>13. \A q \in Served :
           /\ store.journals[q] = "none" /\ store'.journals[q] # "none" => answer'[q] = "waiting"
           /\ answer'[q] \in TerminalEvents => answer'[q] = answer[q]
    BY <1>0, <2>2, <2>7, <2>10
  <2>14. \A q \in tasks' : store'.receipts[q] # "none"
    <3>1. \A q \in tasks : turn[q] # "none" /\ store.receipts[q] # "none"
      BY DEF RunsInv, StoreInv, ControlInv
    <3>2. tasks \subseteq Runs
      BY RunsAssumption DEF RunsInv, ControlInv
    <3> QED BY <1>1, <2>2, <2>3, <2>7, <3>1, <3>2 DEF OutlastsCoroutines
  <2>15. LiveStep
    BY <1>0, <2>8, <2>9, <2>12, <2>13, <2>14 DEF LiveStep
  <2>16. \A q \in Runs \ {r} : store'.receipts[q] \in Unended => store.receipts[q] \in Unended
    BY <2>2, <2>7
  <2>17. ControlInv'
    BY <1>0, <1>1, <2>10, <2>16 DEF RunsInv, ControlInv, NoRest, Places, Answers
  <2> QED BY <2>15, <2>17
<1>2. CASE /\ Undo(accepted, disk)
           /\ answer' = [answer EXCEPT ![r] = "turn_failed"]
           /\ UNCHANGED <<tasks, queued, turn>>
  <2>1. store' = store /\ disk' = disk
    BY <1>2 DEF Undo
  <2>2. answer'[r] = "turn_failed" /\ \A q \in Runs \ {r} : answer'[q] = answer[q]
    BY <1>0, <1>2
  <2>3. LiveStep
    <3>1. Follows(store, store) /\ \A q \in tasks : store.receipts[q] # "none"
      BY <1>0, SoundFacts DEF RunsInv, StoreInv
    <3> QED BY <1>0, <1>2, <2>1, <2>2, <3>1 DEF LiveStep
  <2>4. ControlInv'
    BY <1>0, <1>2, <2>1, <2>2 DEF RunsInv, ControlInv, NoRest, Answers
  <2> QED BY <2>3, <2>4
<1> QED BY <1>1, <1>2 DEF Submit

LEMMA CancelStep ==
  ASSUME RunsInv, NEW r \in Runs, Cancel(r)
  PROVE  LiveStep /\ ControlInv'
<1> USE StatusFacts
<1>0. /\ up /\ up' /\ rest = NoRest /\ Sound(store) /\ Served \subseteq Runs
      /\ UNCHANGED <<tasks, turn, answer, up>>
      /\ r \in tasks \/ store.receipts[r] # "none"
      /\ sessionOf[r] \in Sessions
      /\ aborted \subseteq aborted' /\ aborted' \subseteq tasks
      /\ \A q \in tasks : store.receipts[q] # "none"
  BY RunsAssumption DEF Cancel, Idle, RunsInv, StoreInv, ControlInv
<1>1. PICK saved \in BOOLEAN :
        /\ IF IsActive(r) THEN Finish(sessionOf[r], "cancelled", saved)
                          ELSE saved /\ UNCHANGED <<store, disk, queued>>
        /\ IF saved THEN Then("cancel", r) ELSE UNCHANGED rest
  BY DEF Cancel
<1>2. /\ Sound(store') /\ Follows(store, store') /\ Written
      /\ store'.journals = store.journals
      /\ \A q \in Runs :
           /\ store'.receipts[q] = "none" <=> store.receipts[q] = "none"
           /\ store'.receipts[q] \in Unended => store.receipts[q] \in Unended
      /\ queued' \subseteq queued
  <2>1. CASE IsActive(r)
    BY <1>0, <1>1, <2>1, FinishEffect
  <2>2. CASE ~IsActive(r)
    BY <1>0, <1>1, <2>2, SoundFacts DEF Written
  <2> QED BY <2>1, <2>2
<1>3. LiveStep
  <2>1. \A q \in tasks' : store'.receipts[q] # "none"
    BY <1>0, <1>2 DEF RunsInv, ControlInv
  <2> QED BY <1>0, <1>2, <2>1, SettledLive DEF RunsInv
<1>4. rest' = NoRest \/ rest' = [step |-> "cancel", run |-> r]
  BY <1>0, <1>1 DEF Then
<1>5. ControlInv'
  BY <1>0, <1>2, <1>4 DEF RunsInv, ControlInv, NoRest, Steps
<1> QED BY <1>3, <1>5

LEMMA InvFacts ==
  ASSUME RunsInv
  PROVE  /\ Sound(store) /\ Follows(store, store)
         /\ Served \subseteq Runs /\ tasks \subseteq Runs
         /\ sessionOf \in [Runs -> Sessions]
         /\ answer \in [Runs -> Answers] /\ turn \in [Runs -> Places]
         /\ \A q \in tasks : store.receipts[q] # "none" /\ store.journals[q] # "none"
         /\ store.receipts \in [Runs -> Statuses] /\ store.order \in Seq(Runs)
         /\ store.active \in [Sessions -> Runs \cup {NoRun}]
         /\ OnlyActive(store) /\ Ordered(store) /\ store \in StoreType
<1>1. Sound(store) /\ tasks \subseteq Served /\ Served \subseteq Runs
      /\ \A q \in tasks : store.receipts[q] # "none"
  BY RunsAssumption DEF RunsInv, StoreInv, ControlInv
<1>2. \A q \in tasks : store.journals[q] # "none"
  BY <1>1 DEF Sound
<1> QED BY <1>1, <1>2, SoundFacts, RunsAssumption DEF RunsInv, ControlInv

LEMMA CancelRestStep ==
  ASSUME RunsInv, NEW r \in Runs, CancelRest(r)
  PROVE  LiveStep /\ ControlInv'
<1> USE StatusFacts
<1>0. /\ rest = [step |-> "cancel", run |-> r] /\ rest.step = "cancel" /\ rest.run = r
      /\ up /\ up'
      /\ rest' = NoRest /\ UNCHANGED <<tasks, queued, aborted, turn, up>>
      /\ store.receipts[r] # "none"
  BY DEF CancelRest, NoRest, RunsInv, ControlInv
<1>1. PICK saved \in BOOLEAN : AppendTerminal(r, "response.cancelled", saved)
  BY DEF CancelRest
<1>2. /\ Sound(store') /\ Follows(store, store') /\ Written
      /\ store'.receipts = store.receipts
      /\ \A q \in Served : store'.journals[q] # "none" => store.journals[q] # "none"
      /\ \A q \in Runs : answer'[q] # answer[q] =>
            disk' = Image(store') /\ store'.journals[q] = answer'[q]
      /\ answer' \in [Runs -> Answers \cup TerminalEvents]
  BY <1>0, <1>1, InvFacts, AppendTerminalEffect
<1>3. LiveStep
  BY <1>0, <1>2, InvFacts, SettledLive DEF RunsInv
<1>4. ControlInv'
  BY <1>0, <1>2 DEF RunsInv, ControlInv, NoRest, Answers, Steps
<1> QED BY <1>3, <1>4

LEMMA QuietStep ==
  ASSUME RunsInv, NEW r \in Runs,
         \/ Admit(r) \/ Begin(r) \/ SetupThrows(r) \/ Throws(r) \/ DirectThrows(r) \/ ReturnEarly(r)
  PROVE  LiveStep /\ ControlInv'
<1> USE StatusFacts
<1>1. /\ up /\ up' /\ rest = NoRest
      /\ UNCHANGED <<store, disk, tasks, queued, aborted, answer, up>>
      /\ \/ /\ turn' = [turn EXCEPT ![r] = "setup"] /\ rest' = NoRest
            /\ turn[r] = "admission" \/ (turn[r] = "none" /\ r \notin Served)
         \/ /\ turn' = [turn EXCEPT ![r] = "none"] /\ rest' = NoRest
            /\ r \notin Served /\ TurnsThrow
         \/ turn' = turn /\ rest' = [step |-> "unwind", run |-> r] /\ turn[r] = "setup"
         \/ /\ turn' = turn
            /\ rest' \in {[step |-> "catch", run |-> r], [step |-> "settle", run |-> r]}
            /\ r \in Served /\ turn[r] \in {"admission", "setup", "working"}
  BY DEF Admit, Begin, SetupThrows, Throws, DirectThrows, ReturnEarly, Moves, Resume, Then, Idle
<1>2. LiveStep
  BY <1>1, QuietLive DEF RunsInv
<1>3. ControlInv'
  BY <1>1, InvFacts, RunsAssumption DEF RunsInv, ControlInv, NoRest, Places, Steps
<1> QED BY <1>2, <1>3

LEMMA StartTurnStep ==
  ASSUME RunsInv, NEW r \in Runs, StartTurn(r)
  PROVE  LiveStep /\ ControlInv'
<1> USE StatusFacts
<1> DEFINE started == Put(store, r, "running")
<1>0. /\ up /\ rest = NoRest /\ turn[r] = "setup"
  BY DEF StartTurn, Idle
<1>1. CASE Resume(r, "unwind")
  <2>1. /\ UNCHANGED <<store, disk, tasks, queued, aborted, turn, answer, up>>
        /\ rest' = [step |-> "unwind", run |-> r]
    BY <1>1 DEF Resume, Then
  <2>2. LiveStep
    BY <1>0, <2>1, QuietLive DEF RunsInv
  <2>3. ControlInv'
    BY <1>0, <2>1, InvFacts DEF RunsInv, ControlInv, NoRest, Steps
  <2> QED BY <2>2, <2>3
<1>2. CASE /\ Startable(r)
           /\ OutlastsCoroutines(started)
           /\ \E saved \in BOOLEAN :
                /\ Flush(started, saved)
                /\ IF saved
                   THEN /\ queued' = queued \ {r}
                        /\ turn' = [turn EXCEPT ![r] = "working"]
                        /\ UNCHANGED rest
                   ELSE Then("unwind", r) /\ UNCHANGED <<queued, turn>>
           /\ UNCHANGED <<tasks, aborted, answer, up>>
  <2>1. /\ store.receipts[r] \notin Ended
        /\ store.receipts[r] # "none" \/ Len(store.order) < MaxReceipts \/ EndedIn(store) # {}
        /\ \A q \in Runs : sessionOf[q] = sessionOf[r] /\ store.receipts[q] \in Unended => q = r
    <3>1. sessionOf[r] \in Sessions
      BY InvFacts
    <3>2. CASE IsActive(r)
      BY <1>2, <3>1, <3>2, InvFacts DEF Startable, IsActive, Active, OnlyActive
    <3>3. CASE ~Active(sessionOf[r]) /\ HasRoom(r)
      BY <1>2, <3>1, <3>3, InvFacts, RunsAssumption DEF Startable, Active, OnlyActive, HasRoom
    <3> QED BY <1>2, <3>2, <3>3 DEF Startable
  <2>2. /\ started \in StoreType /\ Ordered(started) /\ OnlyActive(started)
        /\ Follows(store, started)
        /\ started.receipts[r] = "running" /\ started.journals[r] = store.journals[r]
        /\ \A q \in Runs \ {r} :
             \/ /\ started.receipts[q] = store.receipts[q]
                /\ started.journals[q] = store.journals[q]
             \/ /\ store.receipts[q] \in Ended
                /\ started.receipts[q] = "none" /\ started.journals[q] = "none"
    BY <2>1, InvFacts, NewSound
  <2>3. PICK saved \in BOOLEAN :
          /\ Flush(started, saved)
          /\ IF saved
             THEN /\ queued' = queued \ {r}
                  /\ turn' = [turn EXCEPT ![r] = "working"]
                  /\ UNCHANGED rest
             ELSE Then("unwind", r) /\ UNCHANGED <<queued, turn>>
    BY <1>2
  <2>4. OutlastsCoroutines(started) /\ UNCHANGED <<tasks, aborted, answer, up>>
    BY <1>2
  <2> HIDE DEF started
  <2>5. r \in Served => store.journals[r] # "none"
    BY <1>0, InvFacts DEF RunsInv, ControlInv
  <2>6. Sound(started)
    BY <2>2, <2>5, InvFacts DEF Sound
  <2>7. /\ Sound(store') /\ Written
        /\ store'.receipts = started.receipts /\ store'.order = started.order
        /\ store'.journals = started.journals
    BY <2>3, <2>6, FlushEffect DEF Written
  <2>8. Follows(store, store')
    BY <2>2, <2>7 DEF Follows
  <2>9. \A q \in tasks : store'.receipts[q] # "none"
    BY <2>4, <2>7, InvFacts DEF OutlastsCoroutines, RunsInv, ControlInv
  <2>10. \A q \in Served : store'.journals[q] # "none" => store.journals[q] # "none"
    BY <2>2, <2>7, InvFacts
  <2>11. LiveStep
    BY <1>0, <2>4, <2>7, <2>8, <2>9, <2>10, SettledLive DEF RunsInv
  <2>12. \A q \in Runs \ {r} : store'.receipts[q] \in Unended => store.receipts[q] \in Unended
    BY <2>2, <2>7
  <2>13. \/ queued' \subseteq queued /\ turn' = [turn EXCEPT ![r] = "working"] /\ rest' = NoRest
         \/ queued' = queued /\ turn' = turn /\ rest' = [step |-> "unwind", run |-> r]
    BY <1>0, <2>3 DEF Then
  <2>14. ControlInv'
    <3>1. CASE queued' \subseteq queued /\ turn' = [turn EXCEPT ![r] = "working"] /\ rest' = NoRest
      BY <1>0, <2>4, <2>12, <3>1, InvFacts DEF RunsInv, ControlInv, NoRest, Places, Steps
    <3>2. CASE queued' = queued /\ turn' = turn /\ rest' = [step |-> "unwind", run |-> r]
      BY <1>0, <2>4, <2>12, <3>2, InvFacts DEF RunsInv, ControlInv, NoRest, Places, Steps
    <3> QED BY <2>13, <3>1, <3>2
  <2> QED BY <2>11, <2>14
<1> QED BY <1>1, <1>2 DEF StartTurn

\* What ending the active run of a session does within a step.
LEMMA FinishLive ==
  ASSUME RunsInv, up, up', tasks' \subseteq tasks, answer' = answer,
         NEW r \in Runs, NEW status \in Ended, NEW saved,
         Finish(sessionOf[r], status, saved)
  PROVE  /\ LiveStep /\ saved \in BOOLEAN /\ queued' \subseteq queued
         /\ store'.receipts[r] \notin Unended
         /\ \A q \in Runs : store'.receipts[q] \in Unended => store.receipts[q] \in Unended
<1>1. sessionOf[r] \in Sessions
  BY RunsAssumption
<1>2. /\ Sound(store') /\ Follows(store, store') /\ Written
      /\ saved \in BOOLEAN
      /\ store'.journals = store.journals
      /\ \A q \in Runs :
           /\ store'.receipts[q] = "none" <=> store.receipts[q] = "none"
           /\ store'.receipts[q] \in Unended =>
                store.receipts[q] \in Unended /\ sessionOf[q] # sessionOf[r]
      /\ queued' \subseteq queued
  BY <1>1, InvFacts, FinishEffect
<1>3. \A q \in tasks' : store'.receipts[q] # "none"
  BY <1>2, InvFacts
<1>4. LiveStep
  BY <1>2, <1>3, InvFacts, SettledLive DEF RunsInv
<1> QED BY <1>2, <1>4

\* What appending a terminal event does within a step.
LEMMA AppendLive ==
  ASSUME RunsInv, up, up', tasks' \subseteq tasks,
         NEW r \in tasks, NEW event \in TerminalEvents, NEW saved,
         AppendTerminal(r, event, saved)
  PROVE  /\ LiveStep /\ saved \in BOOLEAN
         /\ store'.receipts = store.receipts
         /\ answer' \in [Runs -> Answers]
<1>1. /\ Sound(store') /\ Follows(store, store') /\ Written
      /\ saved \in BOOLEAN
      /\ store'.receipts = store.receipts
      /\ \A q \in Served : store'.journals[q] # "none" => store.journals[q] # "none"
      /\ \A q \in Runs : answer'[q] # answer[q] =>
            disk' = Image(store') /\ store'.journals[q] = answer'[q]
      /\ answer' \in [Runs -> Answers \cup TerminalEvents]
  BY InvFacts, AppendTerminalEffect
<1>2. LiveStep
  BY <1>1, InvFacts, SettledLive DEF RunsInv
<1> QED BY <1>1, <1>2 DEF Answers

LEMMA UnwindStep ==
  ASSUME RunsInv, NEW r \in Runs, Unwind(r)
  PROVE  LiveStep /\ ControlInv'
<1> USE StatusFacts
<1>0. /\ rest = [step |-> "unwind", run |-> r] /\ rest.step = "unwind" /\ rest.run = r
      /\ up /\ up' /\ turn[r] = "setup"
      /\ UNCHANGED <<tasks, aborted, answer, up>>
  BY DEF Unwind, NoRest, RunsInv, ControlInv
<1>1. PICK saved \in BOOLEAN, status \in Ended : Finish(sessionOf[r], status, saved)
  BY DEF Unwind
<1>2. /\ LiveStep /\ queued' \subseteq queued
      /\ store'.receipts[r] \notin Unended
      /\ \A q \in Runs : store'.receipts[q] \in Unended => store.receipts[q] \in Unended
  BY <1>0, <1>1, FinishLive
<1>3. CASE r \in Served /\ rest' = [step |-> "catch", run |-> r] /\ turn' = turn
  BY <1>0, <1>2, <1>3, InvFacts DEF RunsInv, ControlInv, NoRest, Places, Steps
<1>4. CASE r \notin Served /\ rest' = NoRest /\ turn' = [turn EXCEPT ![r] = "none"]
  BY <1>0, <1>2, <1>4, InvFacts DEF RunsInv, ControlInv, NoRest, Places, Steps
<1> QED BY <1>3, <1>4 DEF Unwind, Then

LEMMA ProgressStep ==
  ASSUME RunsInv, NEW r \in Runs, Progress(r)
  PROVE  LiveStep /\ ControlInv'
<1> USE StatusFacts
<1>0. /\ up /\ up' /\ rest = NoRest /\ r \in Served /\ turn[r] = "working"
      /\ store' = AppendEvent(store, r)
      /\ UNCHANGED <<disk, tasks, queued, aborted, turn, rest, answer, up>>
  BY DEF Progress, Idle
<1>1. /\ store' \in StoreType /\ Ordered(store') /\ OnlyActive(store')
      /\ store'.receipts = store.receipts /\ store'.order = store.order
      /\ store'.journals[r] # "none"
      /\ \A q \in Runs \ {r} : store'.journals[q] = store.journals[q]
      /\ store.journals[r] \in TerminalEvents => store'.journals[r] = store.journals[r]
  BY <1>0, InvFacts, AppendEventEffect
<1>2. r \in tasks /\ store.journals[r] # "none"
  BY <1>0, InvFacts DEF RunsInv, ControlInv
<1>3. Sound(store') /\ Follows(store, store') /\ Written
  BY <1>0, <1>1, <1>2, InvFacts DEF Sound, Follows, Written
<1>4. LiveStep
  BY <1>0, <1>1, <1>2, <1>3, InvFacts, SettledLive DEF RunsInv
<1>5. ControlInv'
  BY <1>0, <1>1 DEF RunsInv, ControlInv
<1> QED BY <1>4, <1>5

LEMMA RespondStep ==
  ASSUME RunsInv, NEW r \in Runs, Respond(r)
  PROVE  LiveStep /\ ControlInv'
<1> USE StatusFacts
<1>0. /\ up /\ up' /\ rest = NoRest /\ turn[r] = "working"
      /\ UNCHANGED <<tasks, aborted, answer, up>>
  BY DEF Respond, Idle
<1>1. PICK saved \in BOOLEAN, status \in {"complete", "error"} :
        /\ Finish(sessionOf[r], status, saved)
        /\ IF r \notin Served
           THEN turn' = [turn EXCEPT ![r] = "none"] /\ UNCHANGED rest
           ELSE Then(IF saved THEN "settle" ELSE "catch", r) /\ UNCHANGED turn
  BY DEF Respond
<1>2. /\ LiveStep /\ queued' \subseteq queued
      /\ store'.receipts[r] \notin Unended
      /\ \A q \in Runs : store'.receipts[q] \in Unended => store.receipts[q] \in Unended
  BY <1>0, <1>1, FinishLive
<1>3. CASE r \notin Served /\ turn' = [turn EXCEPT ![r] = "none"] /\ rest' = rest
  BY <1>0, <1>2, <1>3, InvFacts DEF RunsInv, ControlInv, NoRest, Places, Steps
<1>4. CASE /\ r \in Served /\ turn' = turn
           /\ \/ rest' = [step |-> "settle", run |-> r]
              \/ rest' = [step |-> "catch", run |-> r]
  BY <1>0, <1>2, <1>4, InvFacts DEF RunsInv, ControlInv, NoRest, Places, Steps
<1> QED BY <1>1, <1>3, <1>4 DEF Then

LEMMA SettleStep ==
  ASSUME RunsInv, NEW r \in Runs, Settle(r)
  PROVE  LiveStep /\ ControlInv'
<1> USE StatusFacts
<1>0. /\ rest = [step |-> "settle", run |-> r] /\ rest.step = "settle" /\ rest.run = r
      /\ up /\ up' /\ r \in tasks /\ r \in Served /\ turn[r] # "none"
      /\ UNCHANGED <<tasks, aborted, up>>
  BY DEF Settle, NoRest, RunsInv, ControlInv
<1>1. CASE Outcome(r) = "response.completed" /\ IsActive(r)
  <2>1. PICK saved \in BOOLEAN :
          /\ Finish(sessionOf[r], "complete", saved)
          /\ Then(IF saved THEN "settle" ELSE "catch", r)
          /\ UNCHANGED <<turn, answer>>
    BY <1>1 DEF Settle
  <2>2. /\ LiveStep /\ queued' \subseteq queued
        /\ \A q \in Runs : store'.receipts[q] \in Unended => store.receipts[q] \in Unended
    BY <1>0, <2>1, FinishLive
  <2>3. \/ rest' = [step |-> "settle", run |-> r]
        \/ rest' = [step |-> "catch", run |-> r]
    BY <2>1 DEF Then
  <2> QED BY <1>0, <2>1, <2>2, <2>3, InvFacts DEF RunsInv, ControlInv, NoRest, Places, Steps
<1>2. CASE ~(Outcome(r) = "response.completed" /\ IsActive(r))
  <2>1. PICK saved \in BOOLEAN :
          /\ AppendTerminal(r, Outcome(r), saved)
          /\ IF saved THEN rest' = NoRest /\ Close(r)
                      ELSE Then("catch", r) /\ UNCHANGED turn
          /\ UNCHANGED queued
    BY <1>2 DEF Settle
  <2>2. /\ LiveStep /\ store'.receipts = store.receipts /\ answer' \in [Runs -> Answers]
    <3>1. Outcome(r) \in TerminalEvents
      BY DEF Outcome
    <3> QED BY <1>0, <2>1, <3>1, AppendLive
  <2>3. store.receipts[r] \in Unended => r \in aborted
    BY <1>0, <1>2, InvFacts, RunsAssumption DEF Outcome, IsActive, Active, OnlyActive
  <2>4. \/ rest' = NoRest /\ turn' = [turn EXCEPT ![r] = "closing"]
        \/ rest' = [step |-> "catch", run |-> r] /\ turn' = turn
    BY <2>1 DEF Then, Close
  <2>5. ControlInv'
    <3>1. CASE rest' = NoRest /\ turn' = [turn EXCEPT ![r] = "closing"]
      BY <1>0, <2>1, <2>2, <2>3, <3>1, InvFacts DEF RunsInv, ControlInv, NoRest, Places, Steps
    <3>2. CASE rest' = [step |-> "catch", run |-> r] /\ turn' = turn
      BY <1>0, <2>1, <2>2, <2>3, <3>2, InvFacts DEF RunsInv, ControlInv, NoRest, Places, Steps
    <3> QED BY <2>4, <3>1, <3>2
  <2> QED BY <2>2, <2>5
<1> QED BY <1>1, <1>2

LEMMA CatchStep ==
  ASSUME RunsInv, NEW r \in Runs, Catch(r)
  PROVE  LiveStep /\ ControlInv'
<1> USE StatusFacts
<1>0. /\ rest = [step |-> "catch", run |-> r] /\ rest.step = "catch" /\ rest.run = r
      /\ up /\ up' /\ r \in tasks /\ r \in Served /\ turn[r] # "none"
      /\ UNCHANGED <<tasks, aborted, up>>
  BY DEF Catch, NoRest, RunsInv, ControlInv
<1>1. CASE r \notin aborted /\ IsActive(r)
  <2>1. PICK saved \in BOOLEAN :
          /\ Finish(sessionOf[r], "error", saved)
          /\ IF saved THEN UNCHANGED <<rest, turn>>
             ELSE rest' = NoRest /\ turn' = [turn EXCEPT ![r] = "dying"]
          /\ UNCHANGED answer
    BY <1>1 DEF Catch
  <2>2. /\ LiveStep /\ queued' \subseteq queued
        /\ \A q \in Runs : store'.receipts[q] \in Unended => store.receipts[q] \in Unended
    BY <1>0, <2>1, FinishLive
  <2>3. \/ rest' = rest /\ turn' = turn
        \/ rest' = NoRest /\ turn' = [turn EXCEPT ![r] = "dying"]
    BY <2>1
  <2>5. ControlInv'
    <3>1. CASE rest' = rest /\ turn' = turn
      BY <1>0, <2>1, <2>2, <3>1, InvFacts DEF RunsInv, ControlInv, NoRest, Places, Steps
    <3>2. CASE rest' = NoRest /\ turn' = [turn EXCEPT ![r] = "dying"]
      BY <1>0, <2>1, <2>2, <3>2, InvFacts DEF RunsInv, ControlInv, NoRest, Places, Steps
    <3> QED BY <2>3, <3>1, <3>2
  <2> QED BY <2>2, <2>5
<1>2. CASE ~(r \notin aborted /\ IsActive(r))
  <2>1. PICK saved \in BOOLEAN :
          /\ AppendTerminal(r, IF r \in aborted THEN "response.cancelled"
                                ELSE "response.failed", saved)
          /\ rest' = NoRest
          /\ IF saved THEN Close(r) ELSE turn' = [turn EXCEPT ![r] = "dying"]
          /\ UNCHANGED queued
    BY <1>2 DEF Catch
  <2>2. /\ LiveStep /\ store'.receipts = store.receipts /\ answer' \in [Runs -> Answers]
    BY <1>0, <2>1, AppendLive
  <2>3. store.receipts[r] \in Unended => r \in aborted
    BY <1>0, <1>2, InvFacts, RunsAssumption DEF IsActive, Active, OnlyActive
  <2>4. \/ rest' = NoRest /\ turn' = [turn EXCEPT ![r] = "closing"]
        \/ rest' = NoRest /\ turn' = [turn EXCEPT ![r] = "dying"]
    BY <2>1 DEF Close
  <2>5. ControlInv'
    <3>1. CASE rest' = NoRest /\ turn' = [turn EXCEPT ![r] = "closing"]
      BY <1>0, <2>1, <2>2, <2>3, <3>1, InvFacts DEF RunsInv, ControlInv, NoRest, Places, Steps
    <3>2. CASE rest' = NoRest /\ turn' = [turn EXCEPT ![r] = "dying"]
      BY <1>0, <2>1, <2>2, <2>3, <3>2, InvFacts DEF RunsInv, ControlInv, NoRest, Places, Steps
    <3> QED BY <2>4, <3>1, <3>2
  <2> QED BY <2>2, <2>5
<1> QED BY <1>1, <1>2

LEMMA LeaveStep ==
  ASSUME RunsInv, NEW r \in Runs, Leave(r)
  PROVE  LiveStep /\ ControlInv'
<1> USE StatusFacts
<1>0. /\ up /\ up' /\ rest = NoRest /\ turn[r] = "closing"
      /\ turn' = [turn EXCEPT ![r] = "none"]
      /\ tasks' = tasks \ {r} /\ queued' = queued \ {r} /\ aborted' = aborted \ {r}
      /\ UNCHANGED <<rest, answer, up>>
  BY DEF Leave, Moves, Idle, ReleaseTask
<1>1. store.receipts[r] \in Unended => r \in aborted /\ IsActive(r)
  BY <1>0, InvFacts, RunsAssumption DEF RunsInv, ControlInv, IsActive, Active, OnlyActive
<1>2. CASE r \in aborted /\ IsActive(r)
  <2> DEFINE t == Put(store, r, "cancelled")
  <2>1. store.receipts[r] \in Unended
    BY <1>2 DEF IsActive, Active
  <2>2. /\ Sound(t) /\ Follows(store, t)
        /\ \A q \in Runs : t.receipts[q] = IF q = r THEN "cancelled" ELSE store.receipts[q]
        /\ t.journals = store.journals
    BY <2>1, InvFacts, EndSound
  <2>3. Flush(t, TRUE)
    BY <1>2 DEF Leave
  <2> HIDE DEF t
  <2>4. /\ Sound(store') /\ Written
        /\ store'.receipts = t.receipts /\ store'.order = t.order
        /\ store'.journals = t.journals
    BY <2>2, <2>3, FlushEffect DEF Written
  <2>5. Follows(store, store')
    BY <2>2, <2>4 DEF Follows
  <2>6. \A q \in tasks' : store'.receipts[q] # "none"
    BY <1>0, <2>2, <2>4, InvFacts
  <2>7. LiveStep
    BY <1>0, <2>2, <2>4, <2>5, <2>6, InvFacts, SettledLive DEF RunsInv
  <2>8. ControlInv'
    BY <1>0, <2>2, <2>4, InvFacts DEF RunsInv, ControlInv, NoRest, Places
  <2> QED BY <2>7, <2>8
<1>3. CASE ~(r \in aborted /\ IsActive(r))
  <2>1. store' = store /\ disk' = disk
    BY <1>3 DEF Leave
  <2>2. LiveStep
    BY <1>0, <2>1, InvFacts, SettledLive DEF RunsInv, Written
  <2>3. ControlInv'
    BY <1>0, <1>1, <1>3, <2>1, InvFacts DEF RunsInv, ControlInv, NoRest, Places
  <2> QED BY <2>2, <2>3
<1> QED BY <1>2, <1>3

LEMMA TimerStep ==
  ASSUME RunsInv, TimerFires
  PROVE  LiveStep /\ ControlInv'
<1>1. /\ up /\ up' /\ Flush(store, TRUE)
      /\ UNCHANGED <<tasks, queued, aborted, turn, rest, answer, up>>
  BY DEF TimerFires, Idle
<1>2. /\ Sound(store') /\ Written
      /\ store'.receipts = store.receipts /\ store'.order = store.order
      /\ store'.journals = store.journals
  BY <1>1, InvFacts, FlushEffect DEF Written
<1>3. Follows(store, store')
  BY <1>2, InvFacts DEF Follows
<1>4. LiveStep
  BY <1>1, <1>2, <1>3, InvFacts, SettledLive DEF RunsInv
<1>5. ControlInv'
  BY <1>1, <1>2 DEF RunsInv, ControlInv
<1> QED BY <1>4, <1>5

LEMMA ExitStep ==
  ASSUME RunsInv, Exit
  PROVE  RunsInv'
<1> USE StatusFacts
<1>0. /\ up /\ up' = FALSE /\ store' = StoreOf(EmptyImage)
      /\ tasks' = {} /\ queued' = {} /\ aborted' = {}
      /\ turn' = [q \in Runs |-> "none"] /\ rest' = NoRest
      /\ answer' = [q \in Runs |-> IF answer[q] = "waiting" THEN "lost" ELSE answer[q]]
      /\ disk' = disk \/ disk' = Image(store)
  BY DEF Exit
<1>1. /\ Sound(store') /\ \A q \in Runs : store'.receipts[q] = "none" /\ store'.journals[q] = "none"
  BY <1>0, EmptyStore
<1>2. disk' \in ImageType /\ Ordered(disk)'
  <2>1. CASE disk' = disk
    BY <2>1 DEF RunsInv, StoreInv
  <2>2. CASE disk' = Image(store)
    BY <2>2, InvFacts, SoundFacts DEF Ordered, Listed
  <2> QED BY <1>0, <2>1, <2>2
<1>3. ASSUME NEW q \in Served PROVE Told(q)'
  <2>1. q \in Runs /\ (answer'[q] \in TerminalEvents => answer'[q] = answer[q])
    BY <1>0, RunsAssumption
  <2>2. Told(q)
    BY DEF RunsInv, StoreInv
  <2>3. CASE disk' = disk
    BY <1>1, <2>1, <2>2, <2>3 DEF Told
  <2>4. CASE disk' = Image(store)
    <3>1. disk'.journals[q] = store.journals[q] /\ disk'.receipts[q] = store.receipts[q]
      BY <2>4 DEF Image
    <3>2. store.receipts[q] # "none" => store.journals[q] # "none"
      BY InvFacts DEF Sound
    <3> QED BY <1>1, <2>1, <2>2, <3>1, <3>2 DEF Told
  <2> QED BY <1>0, <2>3, <2>4
<1>4. StoreInv'
  BY <1>0, <1>1, <1>2, <1>3 DEF StoreInv
<1>5. ControlInv'
  <2>1. answer' \in [Runs -> Answers]
    BY <1>0, InvFacts DEF Answers
  <2>2. turn' \in [Runs -> Places] /\ \A q \in Runs : turn'[q] = "none"
    BY <1>0 DEF Places
  <2>3. rest' \in [step : Steps, run : Runs \cup {NoRun}] /\ rest'.step = "none"
    BY <1>0 DEF NoRest, Steps
  <2> QED BY <1>0, <1>1, <2>1, <2>2, <2>3, RunsAssumption DEF ControlInv
<1> QED BY <1>4, <1>5 DEF RunsInv

LEMMA DownFacts ==
  ASSUME RunsInv, ~up
  PROVE  /\ tasks = {} /\ queued = {} /\ aborted = {} /\ rest = NoRest
         /\ \A q \in Runs : /\ turn[q] = "none" /\ store.receipts[q] = "none"
                            /\ store.journals[q] = "none"
         /\ disk \in ImageType /\ Ordered(disk)
         /\ \A q \in Served : Told(q)
<1>1. store = StoreOf(EmptyImage) /\ disk \in ImageType /\ Ordered(disk)
      /\ \A q \in Served : Told(q)
  BY DEF RunsInv, StoreInv
<1>2. tasks = {} /\ rest = NoRest /\ queued = {} /\ aborted = {}
      /\ \A q \in Runs : turn[q] = "none"
  BY DEF RunsInv, ControlInv
<1> QED BY <1>1, <1>2, EmptyStore

LEMMA RestartStep ==
  ASSUME RunsInv, Restart
  PROVE  RunsInv'
<1> USE StatusFacts
<1> DEFINE i == Loaded(disk)
<1>0. /\ ~up /\ up' = TRUE /\ store' = StoreOf(i) /\ disk' = i
      /\ UNCHANGED <<tasks, queued, aborted, turn, rest, answer>>
  BY DEF Restart
<1>1. /\ i \in ImageType /\ Ordered(i) /\ Sound(StoreOf(i))
      /\ StoreOf(i).receipts = i.receipts /\ StoreOf(i).order = i.order
      /\ StoreOf(i).journals = i.journals
      /\ \A r \in Runs :
           /\ i.receipts[r] \notin Unended
           /\ i.receipts[r] = "none" <=> disk.receipts[r] = "none"
           /\ disk.receipts[r] \in Ended => i.receipts[r] = disk.receipts[r]
           /\ disk.journals[r] \in TerminalEvents => i.journals[r] = disk.journals[r]
           /\ i.journals[r] = "none" <=> disk.journals[r] = "none" /\ disk.receipts[r] = "none"
  BY <1>0, DownFacts, RestartStore
<1> HIDE DEF i
<1>2. \A q \in Served : Told(q)'
  BY <1>0, <1>1, DownFacts, RunsAssumption DEF Told
<1>3. StoreInv'
  BY <1>0, <1>1, <1>2, DownFacts DEF StoreInv
<1>4. ControlInv'
  BY <1>0, <1>1, DownFacts DEF RunsInv, ControlInv, NoRest
<1> QED BY <1>3, <1>4 DEF RunsInv

LEMMA StopLoadingStep ==
  ASSUME RunsInv, StopLoading
  PROVE  RunsInv'
<1> USE StatusFacts
<1>0. /\ ~up /\ UNCHANGED <<store, tasks, queued, aborted, turn, rest, answer, up>>
  BY DEF StopLoading
<1>1. PICK n \in 1..Len(disk.order) : disk' = LoadedFirst(disk, n)
  BY DEF StopLoading
<1>2. n \in 0..Len(disk.order) /\ disk \in ImageType /\ Ordered(disk)
  BY <1>0, DownFacts DEF ImageType
<1>3. /\ disk' \in ImageType /\ Ordered(disk)'
      /\ \A r \in Runs :
           /\ disk'.receipts[r] # "none" => disk.receipts[r] # "none" /\ disk'.journals[r] \in TerminalEvents
           /\ disk'.receipts[r] = "none" => disk'.journals[r] = disk.journals[r]
           /\ disk.journals[r] \in TerminalEvents => disk'.journals[r] = disk.journals[r]
  BY <1>1, <1>2, LoadedFacts
<1>4. \A q \in Served : Told(q)'
  BY <1>0, <1>3, DownFacts, RunsAssumption DEF Told
<1>5. StoreInv'
  BY <1>0, <1>3, <1>4, DownFacts DEF RunsInv, StoreInv
<1>6. ControlInv'
  BY <1>0 DEF RunsInv, ControlInv
<1> QED BY <1>5, <1>6 DEF RunsInv

-----------------------------------------------------------------------------
(* The theorems *)

LEMMA NextStep ==
  ASSUME RunsInv, RunsNext
  PROVE  RunsInv' /\ (LiveStep \/ Exit \/ Restart \/ StopLoading)
<1>1. (LiveStep /\ ControlInv') \/ Exit \/ Restart \/ StopLoading
  <2>1. CASE \E r \in Runs :
               \/ Submit(r) \/ Cancel(r) \/ CancelRest(r)
               \/ Admit(r) \/ Begin(r) \/ StartTurn(r) \/ SetupThrows(r) \/ Unwind(r)
               \/ Throws(r) \/ DirectThrows(r) \/ Progress(r) \/ Respond(r)
               \/ ReturnEarly(r) \/ Settle(r) \/ Catch(r) \/ Leave(r)
    BY <2>1, SubmitStep, CancelStep, CancelRestStep, QuietStep, StartTurnStep, UnwindStep,
       ProgressStep, RespondStep, SettleStep, CatchStep, LeaveStep
  <2> QED BY <2>1, TimerStep DEF RunsNext
<1>2. ASSUME LiveStep, ControlInv' PROVE RunsInv'
  <2>1. tasks \subseteq Served /\ tasks' \subseteq Served /\ StoreInv
    BY <1>2 DEF RunsInv, ControlInv
  <2> QED BY <1>2, <2>1, LiveStore DEF RunsInv
<1> QED BY <1>1, <1>2, ExitStep, RestartStep, StopLoadingStep

\* The store, the file and the coroutines stay consistent: the invariant of
\* RunControllerStore, of its file and of the coroutines that drive them.
THEOREM RunsInvariant == RunsSpec => []RunsInv
<1>1. RunsInit => RunsInv
  <2> SUFFICES ASSUME RunsInit PROVE RunsInv
    OBVIOUS
  <2> USE StatusFacts
  <2>0. /\ store = StoreOf(EmptyImage) /\ disk = EmptyImage /\ up = TRUE /\ tasks = {}
        /\ answer = [r \in Runs |-> "none"]
        /\ \A r \in Runs : store.receipts[r] = "none" /\ disk.receipts[r] = "none"
    BY EmptyStore DEF RunsInit
  <2>1. StoreInv
    BY <2>0, EmptyStore, RunsAssumption DEF StoreInv, Told
  <2>2. ControlInv
    BY <2>0, RunsAssumption DEF RunsInit, ControlInv, NoRest, Places, Steps, Answers
  <2> QED BY <2>1, <2>2 DEF RunsInv
<1>2. RunsInv /\ [RunsNext]_runVars => RunsInv'
  <2> SUFFICES ASSUME RunsInv, [RunsNext]_runVars PROVE RunsInv'
    OBVIOUS
  <2>1. CASE RunsNext
    BY <2>1, NextStep
  <2>2. CASE UNCHANGED runVars
    <3>1. StoreInv'
      BY <2>2 DEF RunsInv, StoreInv, Told, runVars
    <3>2. ControlInv'
      BY <2>2 DEF RunsInv, ControlInv, runVars
    <3> QED BY <3>1, <3>2 DEF RunsInv
  <2> QED BY <2>1, <2>2
<1> QED BY <1>1, <1>2, PTL DEF RunsSpec

\* Every component of the state keeps its type.
THEOREM RunsTypes == RunsSpec => []RunsTypeOK
<1>1. RunsInv => RunsTypeOK
  <2> SUFFICES ASSUME RunsInv PROVE RunsTypeOK
    OBVIOUS
  <2>1. Image(store) \in ImageType /\ store \in StoreType
    BY InvFacts, SoundFacts
  <2>2. store.active \in [Sessions -> Runs \cup {NoRun}] /\ {store.dirty, store.timer} \subseteq BOOLEAN
    BY <2>1 DEF StoreType
  <2>3. disk \in ImageType
    BY DEF RunsInv, StoreInv
  <2> QED BY <2>1, <2>2, <2>3 DEF RunsTypeOK, RunsInv, ControlInv, Places, Answers
<1> QED BY <1>1, RunsInvariant, PTL

\* However chats, direct turns, cancels, restarts and failing writes come
\* together, a session never has two runs that have not ended.
THEOREM OneActiveRunHolds == RunsSpec => []OneActiveRun
<1>1. RunsInv => OneActiveRun
  BY InvFacts DEF OneActiveRun, OnlyActive
<1> QED BY <1>1, RunsInvariant, PTL

\* What a caller of POST /chat was told of its run's end is never contradicted
\* by the file, even if later writes fail and the process ends while it loads.
THEOREM ToldOutcomesStayHolds == RunsSpec => []ToldOutcomesStay
<1>1. RunsInv => ToldOutcomesStay
  BY DEF ToldOutcomesStay, RunsInv, StoreInv, Told
<1> QED BY <1>1, RunsInvariant, PTL

\* While the model stage of a direct turn does not throw, every run that has
\* not ended has a coroutine.  (It may be thrown out of: see the finding.)
THEOREM ActiveRunsHaveTurnsHolds ==
  ASSUME TurnsThrow = FALSE
  PROVE  RunsSpec => []ActiveRunsHaveTurns
<1>1. RunsInv => ActiveRunsHaveTurns
  BY DEF ActiveRunsHaveTurns, RunsInv, ControlInv
<1> QED BY <1>1, RunsInvariant, PTL

\* Of a chat, the claim, the coroutine and the receipt in memory and in the file
\* go together, and no chat blocks its session once its coroutine is gone.
ClaimsRecorded ==
  \A r \in Served :
    /\ r \in tasks <=> turn[r] # "none"
    /\ r \in tasks => store.receipts[r] # "none" /\ disk.receipts[r] # "none"
    /\ store.receipts[r] \in Unended => turn[r] # "none"

\* It holds whatever is thrown by direct turns, by writes and while loading.
THEOREM ClaimsRecordedHolds == RunsSpec => []ClaimsRecorded
<1>1. RunsInv => ClaimsRecorded
  BY RunsAssumption DEF ClaimsRecorded, RunsInv, StoreInv, ControlInv
<1> QED BY <1>1, RunsInvariant, PTL

\* Unless the process ends in the middle of loading the file, receipts leave the
\* file only to make room in a full history, whatever write fails.
THEOREM ReceiptsDurableHolds ==
  ASSUME LoadsStop = FALSE
  PROVE  RunsSpec => ReceiptsDurable
<1> DEFINE Durable ==
      \A r \in Runs :
        /\ r \in tasks' => disk'.receipts[r] # "none"
        /\ disk.receipts[r] # "none" /\ disk'.receipts[r] = "none"
             => Len(disk'.order) = MaxReceipts
<1>1. RunsInv /\ RunsInv' /\ [RunsNext]_runVars => [Durable]_runVars
  <2> SUFFICES ASSUME RunsInv, RunsInv', RunsNext PROVE Durable
    OBVIOUS
  <2>1. \A r \in Runs : r \in tasks' => disk'.receipts[r] # "none"
    BY DEF RunsInv, StoreInv
  <2>2. ASSUME NEW r \in Runs, disk.receipts[r] # "none", disk'.receipts[r] = "none"
        PROVE  Len(disk'.order) = MaxReceipts
    <3>1. CASE LiveStep
      <4>1. Recorded
        BY <2>2, <3>1 DEF LiveStep
      <4>2. CASE store.receipts[r] = "none"
        <5>1. Len(store.order) = MaxReceipts
          BY <2>2, <3>1, <4>2 DEF RunsInv, StoreInv, LiveStep
        <5>2. /\ Len(store'.order) <= MaxReceipts /\ Len(store.order) <= Len(store'.order)
              /\ Len(store'.order) \in Nat /\ MaxReceipts \in Nat
          BY <3>1, SoundFacts, RunsAssumption DEF LiveStep, Follows, Ordered
        <5> QED BY <4>1, <5>1, <5>2 DEF Recorded
      <4>3. CASE store.receipts[r] # "none"
        BY <2>2, <3>1, <4>1, <4>3 DEF LiveStep, Follows, Recorded
      <4> QED BY <4>2, <4>3
    <3>2. CASE Exit
      <4>1. disk' = Image(store) /\ up
        BY <2>2, <3>2 DEF Exit
      <4>2. store.receipts[r] = "none"
        BY <2>2, <4>1 DEF Image
      <4> QED BY <2>2, <4>1, <4>2 DEF RunsInv, StoreInv, Image
    <3>3. CASE Restart
      <4>1. disk' = Loaded(disk) /\ disk \in ImageType /\ Ordered(disk)
        BY <3>3 DEF Restart, RunsInv, StoreInv
      <4> QED BY <2>2, <4>1, RestartStore
    <3>4. CASE StopLoading
      BY <3>4 DEF StopLoading
    <3> QED BY <3>1, <3>2, <3>3, <3>4, NextStep
  <2> QED BY <2>1, <2>2
<1> QED BY <1>1, RunsInvariant, PTL DEF RunsSpec, ReceiptsDurable

\* In a live process an ended run stays as it ended until the full history
\* forgets it, whatever write fails.
MemoryOutcomesStay ==
  [][\A r \in Runs : up /\ up' /\ store.receipts[r] \in Ended
        => store'.receipts[r] \in {store.receipts[r], "none"}]_runVars

LEMMA MemoryStays ==
  ASSUME RunsInv, RunsNext, up, up', NEW r \in Runs, store.receipts[r] \in Ended
  PROVE  store'.receipts[r] \in {store.receipts[r], "none"}
<1>1. LiveStep
  BY NextStep DEF Exit, Restart, StopLoading
<1> QED BY <1>1 DEF LiveStep, Follows

THEOREM MemoryOutcomesStayHolds == RunsSpec => MemoryOutcomesStay
<1> DEFINE Stay ==
      \A r \in Runs : up /\ up' /\ store.receipts[r] \in Ended
        => store'.receipts[r] \in {store.receipts[r], "none"}
<1>1. RunsInv /\ [RunsNext]_runVars => [Stay]_runVars
  BY MemoryStays
<1> QED BY <1>1, RunsInvariant, PTL DEF RunsSpec, MemoryOutcomesStay

\* While no write fails, a terminal receipt is immutable in the file too: no
\* late end, restart or crash while loading rewrites it.
THEOREM OutcomesStayHolds ==
  ASSUME WritesFail = FALSE
  PROVE  RunsSpec => OutcomesStay
<1> DEFINE Stay ==
      \A r \in Runs :
        /\ up /\ up' /\ store.receipts[r] \in Ended
             => store'.receipts[r] \in {store.receipts[r], "none"}
        /\ disk.receipts[r] \in Ended
             => disk'.receipts[r] \in {disk.receipts[r], "none"}
<1>1. RunsInv /\ RunsInv' /\ [RunsNext]_runVars => [Stay]_runVars
  <2> SUFFICES ASSUME RunsInv, RunsInv', RunsNext PROVE Stay
    OBVIOUS
  <2>1. ASSUME NEW r \in Runs, disk.receipts[r] \in Ended
        PROVE  disk'.receipts[r] \in {disk.receipts[r], "none"}
    <3>1. CASE LiveStep
      <4>1. disk.receipts = store.receipts /\ disk'.receipts = store'.receipts
        BY <3>1 DEF LiveStep, RunsInv, StoreInv
      <4> QED BY <2>1, <3>1, <4>1 DEF LiveStep, Follows
    <3>2. CASE Exit
      BY <3>2 DEF Exit, Image, RunsInv, StoreInv
    <3>3. CASE Restart
      <4>1. disk' = Loaded(disk) /\ disk \in ImageType /\ Ordered(disk)
        BY <3>3 DEF Restart, RunsInv, StoreInv
      <4> QED BY <2>1, <4>1, RestartStore
    <3>4. CASE StopLoading
      <4>1. disk \in ImageType /\ Ordered(disk)
        BY DEF RunsInv, StoreInv
      <4>2. PICK n \in 1..Len(disk.order) : disk' = LoadedFirst(disk, n)
        BY <3>4 DEF StopLoading
      <4>3. n \in 0..Len(disk.order)
        BY <4>1 DEF ImageType
      <4> QED BY <2>1, <4>1, <4>2, <4>3, LoadedFacts
    <3> QED BY <3>1, <3>2, <3>3, <3>4, NextStep
  <2> QED BY <2>1, MemoryStays
<1> QED BY <1>1, RunsInvariant, PTL DEF RunsSpec, OutcomesStay

-----------------------------------------------------------------------------
(* The outcome of a chat, told by its receipt and by its journal.          *)
(*                                                                         *)
(* It is written in two steps, by whoever ends the run first: the          *)
(* invariant says for each place of the coroutine what the two may be.     *)

\* No direct turn is executed in a session of chats.
Apart == \A q \in Runs \ Served, r \in Served : sessionOf[q] # sessionOf[r]

Closed(status, journal) == status \in Ended /\ journal = EventOf[status]

\* A run that goes on is open; one that somebody cancelled is closed, but for
\* the event that the cancel appends next; one that ended itself is closed by
\* the rest of its continuation.
Fit(status, journal, at, step) ==
  IF at \in {"none", "closing"}
  THEN /\ step = "none"
       /\ Closed(status, journal) \/ (at = "none" /\ status = "none")
  ELSE /\ at # "dying"
       /\ \/ status \in Unended /\ journal = "open" /\ step # "cancel"
          \/ status = "cancelled" /\ Closed(status, journal) /\ step # "cancel"
          \/ /\ journal = "open"
             /\ \/ step = "settle" /\ status \in {"complete", "error"}
                \/ step = "catch" /\ status = "error"
                \/ step = "cancel" /\ status = "cancelled"

StepOf(r) == IF rest.run = r THEN rest.step ELSE "none"
Fits(r) == Fit(store.receipts[r], store.journals[r], turn[r], StepOf(r))

Matches(i) ==
  \A r \in Served : i.receipts[r] # "none" /\ i.journals[r] \in TerminalEvents
    => Closed(i.receipts[r], i.journals[r])

OutcomeInv ==
  /\ Matches(disk)
  /\ \A r \in Served : Fits(r)
  /\ \A r \in tasks : /\ store.active[sessionOf[r]] = r
                      /\ r \in aborted <=> store.receipts[r] = "cancelled"

LEMMA PutActive ==
  ASSUME NEW s \in StoreType, NEW r \in Runs, NEW status
  PROVE  Put(s, r, status).active = [s.active EXCEPT ![sessionOf[r]] = r]
<1> DEFINE u == [s EXCEPT !.active[sessionOf[r]] = r,
                          !.receipts[r] = status,
                          !.order = IF s.receipts[r] = "none" THEN Append(@, r) ELSE @]
<1>1. u.active = [s.active EXCEPT ![sessionOf[r]] = r]
  BY DEF StoreType
<1>2. u = [s EXCEPT !.receipts = u.receipts, !.active = u.active, !.order = u.order]
  BY DEF StoreType
<1>3. Put(s, r, status) = Trim(u)
  BY DEF Put
<1> HIDE DEF u
<1>4. Trim(u).active = u.active
  BY <1>2 DEF Trim, StoreType
<1> QED BY <1>1, <1>3, <1>4

LEMMA EventFacts ==
  /\ EventOf["complete"] = "response.completed"
  /\ EventOf["cancelled"] = "response.cancelled"
  /\ EventOf["error"] = "response.failed"
BY DEF EventOf

LEMMA FitMatches ==
  ASSUME NEW status, NEW journal, NEW at, NEW step, Fit(status, journal, at, step),
         status # "none", journal \in TerminalEvents
  PROVE  Closed(status, journal)
BY StatusFacts DEF Fit

\* Ending the active run of a session, when writes succeed.
LEMMA FinishNow ==
  ASSUME RunsInv, WritesFail = FALSE, NEW r \in Runs, NEW status \in Ended, NEW saved,
         Finish(sessionOf[r], status, saved)
  PROVE  /\ saved = TRUE
         /\ store'.journals = store.journals /\ store'.active = store.active
         /\ \A q \in Runs : store'.receipts[q] =
              IF sessionOf[q] = sessionOf[r] /\ store.receipts[q] \in Unended
              THEN status ELSE store.receipts[q]
         /\ disk' = disk \/ disk' = Image(store')
<1> USE StatusFacts
<1> DEFINE s == sessionOf[r]
<1>0. /\ Sound(store) /\ OnlyActive(store) /\ s \in Sessions
      /\ store.active \in [Sessions -> Runs \cup {NoRun}]
      /\ sessionOf \in [Runs -> Sessions]
  BY InvFacts
<1>1. CASE Active(s)
  <2> DEFINE a == store.active[s]
             t == Put(store, a, status)
  <2>1. a \in Runs /\ store.receipts[a] \in Unended /\ sessionOf[a] = s
    BY <1>0, <1>1 DEF Active, OnlyActive
  <2>2. /\ Sound(t) /\ t.journals = store.journals /\ t.active = store.active
        /\ \A q \in Runs : t.receipts[q] = IF q = a THEN status ELSE store.receipts[q]
    BY <1>0, <2>1, EndSound
  <2>3. Flush(t, saved)
    BY <1>1 DEF Finish
  <2>4. \A q \in Runs : sessionOf[q] = s /\ store.receipts[q] \in Unended <=> q = a
    BY <1>0, <2>1 DEF OnlyActive
  <2> HIDE DEF a, t
  <2>5. /\ store'.receipts = t.receipts /\ store'.journals = t.journals
        /\ store'.active = t.active
        /\ \/ saved = TRUE /\ disk' = Image(store')
           \/ saved = FALSE /\ disk' = disk /\ WritesFail = TRUE
    BY <2>2, <2>3, FlushEffect
  <2>6. saved = TRUE /\ disk' = Image(store')
    BY <2>5
  <2> QED BY <2>2, <2>4, <2>5, <2>6
<1>2. CASE ~Active(s)
  <2>1. saved = TRUE /\ store' = store /\ disk' = disk
    BY <1>2 DEF Finish
  <2>2. \A q \in Runs : store.receipts[q] \in Unended => sessionOf[q] # s
    BY <1>0, <1>2, RunsAssumption DEF Active, OnlyActive
  <2> QED BY <2>1, <2>2
<1> QED BY <1>1, <1>2

LEMMA AppendNow ==
  ASSUME RunsInv, WritesFail = FALSE, NEW r \in Runs, NEW event \in TerminalEvents,
         NEW saved, AppendTerminal(r, event, saved)
  PROVE  /\ saved = TRUE
         /\ store'.receipts = store.receipts /\ store'.active = store.active
         /\ \A q \in Runs : store'.journals[q] =
              IF q = r /\ store.journals[q] \notin TerminalEvents
              THEN event ELSE store.journals[q]
         /\ disk' = disk \/ disk' = Image(store')
<1>1. CASE store.journals[r] \in TerminalEvents
  BY <1>1 DEF AppendTerminal
<1>2. CASE store.journals[r] \notin TerminalEvents
  <2>0. store \in StoreType
    BY InvFacts
  <2>1. /\ saved \in {TRUE, ~WritesFail}
        /\ store' = [store EXCEPT !.journals[r] = event, !.dirty = ~saved, !.timer = FALSE]
        /\ disk' = IF saved THEN Image([store EXCEPT !.journals[r] = event]) ELSE disk
    BY <1>2, <2>0 DEF AppendTerminal, Flush, StoreType
  <2>2. saved = TRUE
    BY <2>1
  <2>3. /\ store'.receipts = store.receipts /\ store'.active = store.active
        /\ store'.order = store.order
        /\ store'.journals = [store.journals EXCEPT ![r] = event]
    BY <2>0, <2>1 DEF StoreType
  <2>4. disk' = Image(store')
    BY <2>0, <2>1, <2>2, <2>3 DEF Image, StoreType
  <2>5. store.journals \in [Runs -> Journals]
    BY <2>0 DEF StoreType
  <2> QED BY <1>2, <2>2, <2>3, <2>4, <2>5
<1> QED BY <1>1, <1>2

\* A step of the run r that leaves the other runs alone, or forgets one whose
\* coroutine is gone.
LEMMA OutcomeKept ==
  ASSUME RunsInv, OutcomeInv, NEW r,
         \A q \in Served \ {r} :
           /\ \/ /\ store'.receipts[q] = store.receipts[q]
                 /\ store'.journals[q] = store.journals[q]
              \/ turn[q] = "none" /\ store'.receipts[q] = "none"
           /\ turn'[q] = turn[q]
           /\ q \in aborted' <=> q \in aborted,
         rest.run \in {r, NoRun}, rest'.run \in {r, NoRun},
         r \in Served => Fits(r)',
         tasks' \subseteq tasks \cup {r}, tasks' \subseteq Served,
         \A q \in tasks' : store'.active[sessionOf[q]] = q,
         r \in tasks' => (r \in aborted' <=> store'.receipts[r] = "cancelled"),
         \/ disk' = disk
         \/ \A q \in Served : /\ disk'.receipts[q] = store'.receipts[q]
                              /\ disk'.journals[q] \in {store'.journals[q], "none"}
  PROVE  OutcomeInv'
<1> USE StatusFacts
<1>0. Served \subseteq Runs /\ NoRun \notin Runs
  BY RunsAssumption
<1>1. ASSUME NEW q \in Served PROVE Fits(q)'
  <2>1. CASE q = r
    BY <2>1
  <2>2. CASE q # r
    <3>1. StepOf(q) = "none" /\ StepOf(q)' = "none"
      BY <1>0, <2>2 DEF StepOf
    <3>2. CASE /\ store'.receipts[q] = store.receipts[q]
               /\ store'.journals[q] = store.journals[q]
      <4>1. Fits(q) /\ turn'[q] = turn[q]
        BY <2>2 DEF OutcomeInv
      <4> QED BY <3>1, <3>2, <4>1 DEF Fits
    <3>3. CASE turn[q] = "none" /\ store'.receipts[q] = "none"
      BY <2>2, <3>1, <3>3 DEF Fits, Fit
    <3> QED BY <2>2, <3>2, <3>3
  <2> QED BY <2>1, <2>2
<1>2. Matches(disk)'
  <2>1. CASE disk' = disk
    BY <2>1 DEF OutcomeInv, Matches
  <2>2. CASE \A q \in Served : /\ disk'.receipts[q] = store'.receipts[q]
                               /\ disk'.journals[q] \in {store'.journals[q], "none"}
    <3> SUFFICES ASSUME NEW q \in Served, disk'.receipts[q] # "none",
                        disk'.journals[q] \in TerminalEvents
                 PROVE  Closed(disk'.receipts[q], disk'.journals[q])
      BY DEF Matches
    <3>1. /\ disk'.receipts[q] = store'.receipts[q]
          /\ disk'.journals[q] = store'.journals[q]
      BY <2>2
    <3>2. Fit(store'.receipts[q], store'.journals[q], turn'[q], StepOf(q)')
      BY <1>1 DEF Fits
    <3> QED BY <3>1, <3>2, FitMatches
  <2> QED BY <2>1, <2>2
<1>3. ASSUME NEW q \in tasks' PROVE q \in aborted' <=> store'.receipts[q] = "cancelled"
  <2>1. CASE q = r
    BY <1>3, <2>1
  <2>2. CASE q # r
    <3>1. q \in Served /\ q \in tasks /\ (q \in aborted <=> store.receipts[q] = "cancelled")
      BY <1>3, <2>2 DEF OutcomeInv
    <3>2. turn[q] # "none"
      BY <3>1 DEF RunsInv, ControlInv
    <3> QED BY <2>2, <3>1, <3>2
  <2> QED BY <2>1, <2>2
<1> QED BY <1>1, <1>2, <1>3 DEF OutcomeInv

\* What the invariant says of a chat whose continuation may execute.
LEMMA ChatFacts ==
  ASSUME RunsInv, OutcomeInv, NEW r \in Served
  PROVE  /\ r \in Runs /\ sessionOf[r] \in Sessions
         /\ Fit(store.receipts[r], store.journals[r], turn[r], StepOf(r))
         /\ r \in tasks <=> turn[r] # "none"
         /\ r \in tasks => /\ store.active[sessionOf[r]] = r
                           /\ r \in aborted <=> store.receipts[r] = "cancelled"
                           /\ store.receipts[r] # "none"
         /\ r \notin tasks => r \notin aborted
         /\ store.receipts[r] \in Statuses
         /\ \A q \in tasks : q # r /\ r \in tasks => sessionOf[q] # sessionOf[r]
<1>1. /\ r \in Runs /\ sessionOf[r] \in Sessions /\ store.receipts[r] \in Statuses
      /\ \A q \in tasks : store.receipts[q] # "none"
  BY InvFacts
<1>2. (r \in tasks <=> turn[r] # "none") /\ aborted \subseteq tasks
  BY DEF RunsInv, ControlInv
<1>3. /\ Fit(store.receipts[r], store.journals[r], turn[r], StepOf(r))
      /\ \A q \in tasks : /\ store.active[sessionOf[q]] = q
                          /\ q \in aborted <=> store.receipts[q] = "cancelled"
  BY DEF OutcomeInv, Fits
<1>4. \A q \in tasks : q # r /\ r \in tasks => sessionOf[q] # sessionOf[r]
  BY <1>3
<1> QED BY <1>1, <1>2, <1>3, <1>4

LEMMA RestOf ==
  /\ NoRest.run = NoRun /\ NoRest.step = "none"
  /\ \A step, r : [step |-> step, run |-> r].run = r /\ [step |-> step, run |-> r].step = step
BY DEF NoRest

\* What ends with a step of r is a run of its session: r itself, or a direct turn.
LEMMA EndsOwn ==
  ASSUME RunsInv, OutcomeInv, Apart, NEW r \in Runs,
         r \in tasks \/ r \notin Served \/ IsActive(r),
         NEW q \in Served, q # r, sessionOf[q] = sessionOf[r]
  PROVE  store.receipts[q] \notin Unended
<1> SUFFICES ASSUME store.receipts[q] \in Unended PROVE FALSE
  OBVIOUS
<1>1. store.active[sessionOf[q]] = q /\ q \in Runs
  BY InvFacts DEF OnlyActive
<1>2. CASE r \in tasks
  BY <1>1, <1>2 DEF OutcomeInv
<1>3. CASE r \notin Served
  BY <1>3 DEF Apart
<1>4. CASE IsActive(r)
  BY <1>1, <1>4 DEF IsActive
<1> QED BY <1>2, <1>3, <1>4

LEMMA QuietKept ==
  ASSUME RunsInv, OutcomeInv, NEW r,
         store' = store, disk' = disk, tasks' = tasks, aborted' = aborted,
         rest.run \in {r, NoRun}, rest'.run \in {r, NoRun},
         \A q \in Served \ {r} : turn'[q] = turn[q],
         r \in Served => Fit(store.receipts[r], store.journals[r], turn'[r], StepOf(r)')
  PROVE  OutcomeInv'
<1>1. \A q \in tasks' : store'.active[sessionOf[q]] = q
  BY DEF OutcomeInv
<1>2. tasks' \subseteq Served /\ tasks' \subseteq tasks \cup {r}
  BY DEF RunsInv, ControlInv
<1>3. r \in tasks' => (r \in aborted' <=> store'.receipts[r] = "cancelled")
  BY DEF OutcomeInv
<1>4. r \in Served => Fits(r)'
  BY DEF Fits
<1> QED BY <1>1, <1>2, <1>3, <1>4, OutcomeKept

LEMMA EndKept ==
  ASSUME RunsInv, OutcomeInv, Apart, WritesFail = FALSE, NEW r \in Runs,
         r \in tasks \/ r \notin Served \/ IsActive(r),
         NEW status \in Ended, NEW saved, Finish(sessionOf[r], status, saved),
         tasks' = tasks, rest.run \in {r, NoRun}, rest'.run \in {r, NoRun},
         \A q \in Served \ {r} : turn'[q] = turn[q] /\ (q \in aborted' <=> q \in aborted),
         NEW ended,
         ended = IF store.receipts[r] \in Unended THEN status ELSE store.receipts[r],
         r \in Served => Fit(ended, store.journals[r], turn'[r], StepOf(r)'),
         r \in tasks => (r \in aborted' <=> ended = "cancelled")
  PROVE  OutcomeInv'
<1>1. /\ store'.journals = store.journals /\ store'.active = store.active
      /\ \A q \in Runs : store'.receipts[q] =
           IF sessionOf[q] = sessionOf[r] /\ store.receipts[q] \in Unended
           THEN status ELSE store.receipts[q]
      /\ disk' = disk \/ disk' = Image(store')
  BY FinishNow
<1>2. store'.receipts[r] = ended
  BY <1>1
<1>3. ASSUME NEW q \in Served \ {r} PROVE store'.receipts[q] = store.receipts[q]
  BY <1>1, EndsOwn, InvFacts
<1>4. \A q \in tasks' : store'.active[sessionOf[q]] = q
  BY <1>1 DEF OutcomeInv
<1>5. tasks' \subseteq Served /\ tasks' \subseteq tasks \cup {r}
  BY DEF RunsInv, ControlInv
<1>6. r \in Served => Fits(r)'
  BY <1>1, <1>2 DEF Fits
<1>7. \/ disk' = disk
      \/ \A q \in Served : /\ disk'.receipts[q] = store'.receipts[q]
                           /\ disk'.journals[q] \in {store'.journals[q], "none"}
  BY <1>1 DEF Image
<1> QED BY <1>1, <1>2, <1>3, <1>4, <1>5, <1>6, <1>7, OutcomeKept

LEMMA EventKept ==
  ASSUME RunsInv, OutcomeInv, WritesFail = FALSE, NEW r \in Runs,
         NEW event \in TerminalEvents, NEW saved, AppendTerminal(r, event, saved),
         tasks' = tasks, rest.run \in {r, NoRun}, rest'.run \in {r, NoRun},
         aborted' = aborted, \A q \in Served \ {r} : turn'[q] = turn[q],
         NEW told,
         told = IF store.journals[r] \notin TerminalEvents THEN event ELSE store.journals[r],
         r \in Served => Fit(store.receipts[r], told, turn'[r], StepOf(r)')
  PROVE  OutcomeInv'
<1>1. /\ store'.receipts = store.receipts /\ store'.active = store.active
      /\ \A q \in Runs : store'.journals[q] =
           IF q = r /\ store.journals[q] \notin TerminalEvents
           THEN event ELSE store.journals[q]
      /\ disk' = disk \/ disk' = Image(store')
  BY AppendNow
<1>2. store'.journals[r] = told /\ \A q \in Runs \ {r} : store'.journals[q] = store.journals[q]
  BY <1>1
<1>3. \A q \in Served \ {r} : store'.journals[q] = store.journals[q]
  BY <1>2, InvFacts
<1>4. \A q \in tasks' : store'.active[sessionOf[q]] = q
  BY <1>1 DEF OutcomeInv
<1>5. tasks' \subseteq Served /\ tasks' \subseteq tasks \cup {r}
  BY DEF RunsInv, ControlInv
<1>6. r \in Served => Fits(r)'
  BY <1>1, <1>2 DEF Fits
<1>7. \/ disk' = disk
      \/ \A q \in Served : /\ disk'.receipts[q] = store'.receipts[q]
                           /\ disk'.journals[q] \in {store'.journals[q], "none"}
  BY <1>1 DEF Image
<1>8. r \in tasks' => (r \in aborted' <=> store'.receipts[r] = "cancelled")
  BY <1>1 DEF OutcomeInv
<1> QED BY <1>1, <1>3, <1>4, <1>5, <1>6, <1>7, <1>8, OutcomeKept

-----------------------------------------------------------------------------
(* The actions, when writes succeed and direct turns have sessions of their own *)

LEMMA SubmitOutcome ==
  ASSUME RunsInv, OutcomeInv, NEW r \in Runs, Submit(r) PROVE OutcomeInv'
<1> USE StatusFacts
<1> DEFINE accepted == Put(store, r, "waiting")
<1>0. /\ rest = NoRest /\ r \in Served /\ turn[r] = "none" /\ Claimable(r)
      /\ Sound(store) /\ r \notin tasks /\ UNCHANGED <<aborted, rest>>
      /\ store.receipts[r] = "none" /\ store.journals[r] = "none"
      /\ ~Active(sessionOf[r]) /\ sessionOf[r] \in Sessions
  BY InvFacts DEF Submit, Idle, Claimable
<1>1. CASE /\ HasRoom(r)
           /\ WriteAccepted(accepted)
           /\ store' = AppendEvent([accepted EXCEPT !.dirty = FALSE, !.timer = FALSE], r)
           /\ tasks' = tasks \cup {r}
           /\ turn' = [turn EXCEPT ![r] = "admission"]
  <2>1. \A q \in Runs : ~ (sessionOf[q] = sessionOf[r] /\ store.receipts[q] \in Unended)
    BY <1>0, InvFacts, RunsAssumption DEF Active, OnlyActive
  <2>2. /\ accepted \in StoreType
        /\ accepted.receipts[r] = "waiting" /\ accepted.journals[r] = store.journals[r]
        /\ \A q \in Runs \ {r} :
             \/ /\ accepted.receipts[q] = store.receipts[q]
                /\ accepted.journals[q] = store.journals[q]
             \/ /\ store.receipts[q] \in Ended
                /\ accepted.receipts[q] = "none" /\ accepted.journals[q] = "none"
    BY <1>0, <1>1, <2>1, NewSound DEF HasRoom
  <2>3. accepted.active = [store.active EXCEPT ![sessionOf[r]] = r]
    BY InvFacts, PutActive
  <2>4. OutlastsCoroutines(accepted) /\ disk' = Image(accepted)
    BY <1>1 DEF Submit, WriteAccepted
  <2> HIDE DEF accepted
  <2>5. /\ store'.receipts = accepted.receipts /\ store'.active = accepted.active
        /\ store'.journals = [accepted.journals EXCEPT ![r] = "open"]
    BY <1>0, <1>1, <2>2 DEF AppendEvent, StoreType
  <2>6. /\ store'.journals[r] = "open"
        /\ \A q \in Runs \ {r} : store'.journals[q] = accepted.journals[q]
    BY <2>2, <2>5 DEF StoreType
  <2>7. turn'[r] = "admission" /\ \A q \in Runs \ {r} : turn'[q] = turn[q]
    BY <1>1, InvFacts
  <2>8. ASSUME NEW q \in Served \ {r}
        PROVE  \/ /\ store'.receipts[q] = store.receipts[q]
                  /\ store'.journals[q] = store.journals[q]
               \/ turn[q] = "none" /\ store'.receipts[q] = "none"
    BY <2>2, <2>4, <2>5, <2>6, InvFacts DEF OutlastsCoroutines
  <2>9. Fits(r)'
    BY <1>0, <2>2, <2>5, <2>6, <2>7, RestOf, RunsAssumption DEF Fits, Fit, StepOf
  <2>10. ASSUME NEW q \in tasks' PROVE store'.active[sessionOf[q]] = q
    <3>1. CASE q = r
      BY <1>0, <2>3, <2>5, <3>1, InvFacts
    <3>2. CASE q # r
      <4>1. q \in tasks /\ q \in Runs /\ store.active[sessionOf[q]] = q
        BY <1>1, <3>2, InvFacts DEF OutcomeInv
      <4>2. sessionOf[q] # sessionOf[r]
        BY <1>0, <4>1 DEF Claimable
      <4> QED BY <1>0, <2>3, <2>5, <4>1, <4>2, InvFacts
    <3> QED BY <3>1, <3>2
  <2>11. tasks' \subseteq Served /\ r \notin aborted
    BY <1>0, <1>1 DEF RunsInv, ControlInv
  <2>12. \A q \in Served : /\ disk'.receipts[q] = store'.receipts[q]
                           /\ disk'.journals[q] \in {store'.journals[q], "none"}
    BY <1>0, <2>2, <2>4, <2>5, <2>6, InvFacts DEF Image
  <2> QED BY <1>0, <1>1, <2>2, <2>5, <2>7, <2>8, <2>9, <2>10, <2>11, <2>12,
             RestOf, InvFacts, OutcomeKept
<1>2. CASE Undo(accepted, disk) /\ UNCHANGED <<tasks, turn>>
  <2>1. store' = store /\ disk' = disk
    BY <1>2 DEF Undo
  <2>2. Fit(store.receipts[r], store.journals[r], turn'[r], StepOf(r)')
    BY <1>0, <1>2, RestOf, ChatFacts DEF StepOf
  <2> QED BY <1>0, <1>2, <2>1, <2>2, RestOf, QuietKept
<1> QED BY <1>1, <1>2 DEF Submit

LEMMA CancelOutcome ==
  ASSUME RunsInv, OutcomeInv, Apart, WritesFail = FALSE, NEW r \in Runs, Cancel(r)
  PROVE  OutcomeInv'
<1> USE StatusFacts
<1>0. /\ rest = NoRest /\ UNCHANGED <<tasks, turn, answer, up>>
      /\ r \in tasks \/ store.receipts[r] # "none"
      /\ store.journals[r] \notin TerminalEvents
      /\ aborted' = IF r \in tasks /\ store.receipts[r] \notin Ended
                    THEN aborted \cup {r} ELSE aborted
      /\ rest.step = "none" /\ StepOf(r) = "none"
  BY RestOf DEF Cancel, Idle, StepOf
<1>1. PICK saved \in BOOLEAN :
        /\ IF IsActive(r) THEN Finish(sessionOf[r], "cancelled", saved)
                          ELSE saved /\ UNCHANGED <<store, disk, queued>>
        /\ IF saved THEN Then("cancel", r) ELSE UNCHANGED rest
  BY DEF Cancel
<1>2. CASE IsActive(r)
  <2>1. Finish(sessionOf[r], "cancelled", saved) /\ store.receipts[r] \in Unended
    BY <1>1, <1>2 DEF IsActive, Active
  <2>2. saved = TRUE
    BY <2>1, FinishNow
  <2>3. rest' = [step |-> "cancel", run |-> r] /\ rest'.run = r /\ StepOf(r)' = "cancel"
    BY <1>1, <2>2, RestOf DEF Then, StepOf
  <2>4. r \in Served => /\ Fit("cancelled", store.journals[r], turn'[r], StepOf(r)')
                        /\ r \in tasks
    BY <1>0, <2>1, <2>3, ChatFacts DEF Fit, Closed
  <2>5. r \in tasks => r \in aborted'
    BY <1>0, <2>1
  <2> QED BY <1>0, <1>2, <2>1, <2>3, <2>4, <2>5, RestOf, EndKept
<1>3. CASE ~IsActive(r)
  <2>1. store' = store /\ disk' = disk /\ rest' = [step |-> "cancel", run |-> r]
        /\ rest'.run = r
    BY <1>1, <1>3, RestOf DEF Then
  <2>2. r \notin Served
    <3> SUFFICES ASSUME r \in Served PROVE FALSE
      OBVIOUS
    <3>1. turn[r] \notin {"none", "closing"} /\ store.receipts[r] \in Unended
      BY <1>0, ChatFacts, EventFacts DEF Fit, Closed
    <3> QED BY <1>3, <3>1, ChatFacts, RunsAssumption DEF IsActive, Active
  <2>3. aborted' = aborted
    BY <1>0, <2>2, ChatFacts DEF RunsInv, ControlInv
  <2> QED BY <1>0, <2>1, <2>2, <2>3, RestOf, QuietKept
<1> QED BY <1>2, <1>3

LEMMA CancelRestOutcome ==
  ASSUME RunsInv, OutcomeInv, WritesFail = FALSE, NEW r \in Runs, CancelRest(r)
  PROVE  OutcomeInv'
<1> USE StatusFacts
<1>0. /\ rest = [step |-> "cancel", run |-> r] /\ rest.run = r /\ StepOf(r) = "cancel"
      /\ rest' = NoRest /\ UNCHANGED <<tasks, queued, aborted, turn, up>>
      /\ rest'.run = NoRun /\ StepOf(r)' = "none"
  BY RestOf DEF CancelRest, StepOf
<1>1. PICK saved \in BOOLEAN : AppendTerminal(r, "response.cancelled", saved)
  BY DEF CancelRest
<1> DEFINE told == IF store.journals[r] \notin TerminalEvents THEN "response.cancelled"
                   ELSE store.journals[r]
<1>2. r \in Served => Fit(store.receipts[r], told, turn'[r], StepOf(r)')
  BY <1>0, ChatFacts, EventFacts DEF Fit, Closed
<1> QED BY <1>0, <1>1, <1>2, EventKept

LEMMA QuietOutcome ==
  ASSUME RunsInv, OutcomeInv, NEW r \in Runs,
         \/ Admit(r) \/ Begin(r) \/ SetupThrows(r) \/ Throws(r) \/ DirectThrows(r) \/ ReturnEarly(r)
  PROVE  OutcomeInv'
<1> USE StatusFacts
<1>1. /\ rest = NoRest /\ UNCHANGED <<store, disk, tasks, queued, aborted, answer, up>>
      /\ \/ /\ turn' = [turn EXCEPT ![r] = "setup"] /\ rest' = NoRest
            /\ turn[r] = "admission" \/ (turn[r] = "none" /\ r \notin Served)
         \/ turn' = [turn EXCEPT ![r] = "none"] /\ rest' = NoRest /\ r \notin Served
         \/ turn' = turn /\ rest' = [step |-> "unwind", run |-> r] /\ turn[r] = "setup"
         \/ /\ turn' = turn
            /\ rest' \in {[step |-> "catch", run |-> r], [step |-> "settle", run |-> r]}
            /\ turn[r] \in {"admission", "setup", "working"}
  BY DEF Admit, Begin, SetupThrows, Throws, DirectThrows, ReturnEarly, Moves, Resume, Then, Idle
<1>2. rest.run = NoRun /\ rest'.run \in {r, NoRun} /\ StepOf(r) = "none"
      /\ StepOf(r)' = rest'.step
  BY <1>1, RestOf, RunsAssumption DEF StepOf
<1>3. \A q \in Served \ {r} : turn'[q] = turn[q]
  BY <1>1, InvFacts
<1>4. rest'.step # "none" => /\ turn' = turn /\ turn[r] \in {"admission", "setup", "working"}
                             /\ rest'.step \in {"unwind", "catch", "settle"}
  BY <1>1, RestOf
<1>5. rest'.step = "none" /\ r \in Served => turn[r] = "admission" /\ turn'[r] = "setup"
  BY <1>1, RestOf, InvFacts
<1>6. r \in Served => Fit(store.receipts[r], store.journals[r], turn'[r], StepOf(r)')
  BY <1>2, <1>4, <1>5, ChatFacts DEF Fit
<1> QED BY <1>1, <1>2, <1>3, <1>6, QuietKept

LEMMA StartTurnOutcome ==
  ASSUME RunsInv, OutcomeInv, Apart, WritesFail = FALSE, NEW r \in Runs, StartTurn(r)
  PROVE  OutcomeInv'
<1> USE StatusFacts
<1> DEFINE started == Put(store, r, "running")
<1>0. /\ rest = NoRest /\ turn[r] = "setup" /\ StepOf(r) = "none" /\ rest.run = NoRun
      /\ r \in Served => r \in tasks
  BY RestOf, ChatFacts, RunsAssumption DEF StartTurn, Idle, StepOf
<1>1. CASE Resume(r, "unwind")
  <2>1. /\ UNCHANGED <<store, disk, tasks, queued, aborted, turn, answer, up>>
        /\ rest' = [step |-> "unwind", run |-> r] /\ rest'.run = r /\ StepOf(r)' = "unwind"
    BY <1>1, RestOf DEF Resume, Then, StepOf
  <2>2. r \in Served => Fit(store.receipts[r], store.journals[r], turn'[r], StepOf(r)')
    BY <1>0, <2>1, ChatFacts DEF Fit
  <2> QED BY <1>0, <2>1, <2>2, QuietKept
<1>2. CASE /\ Startable(r)
           /\ OutlastsCoroutines(started)
           /\ \E saved \in BOOLEAN :
                /\ Flush(started, saved)
                /\ IF saved
                   THEN /\ queued' = queued \ {r}
                        /\ turn' = [turn EXCEPT ![r] = "working"]
                        /\ UNCHANGED rest
                   ELSE Then("unwind", r) /\ UNCHANGED <<queued, turn>>
           /\ UNCHANGED <<tasks, aborted, answer, up>>
  <2>1. /\ store.receipts[r] \notin Ended
        /\ store.receipts[r] # "none" \/ Len(store.order) < MaxReceipts \/ EndedIn(store) # {}
        /\ \A q \in Runs : sessionOf[q] = sessionOf[r] /\ store.receipts[q] \in Unended => q = r
    <3>1. sessionOf[r] \in Sessions
      BY InvFacts
    <3>2. CASE IsActive(r)
      BY <1>2, <3>1, <3>2, InvFacts DEF Startable, IsActive, Active, OnlyActive
    <3>3. CASE ~Active(sessionOf[r]) /\ HasRoom(r)
      BY <1>2, <3>1, <3>3, InvFacts, RunsAssumption DEF Startable, Active, OnlyActive, HasRoom
    <3> QED BY <1>2, <3>2, <3>3 DEF Startable
  <2>2. /\ started \in StoreType /\ Ordered(started) /\ OnlyActive(started)
        /\ started.receipts[r] = "running" /\ started.journals[r] = store.journals[r]
        /\ \A q \in Runs \ {r} :
             \/ /\ started.receipts[q] = store.receipts[q]
                /\ started.journals[q] = store.journals[q]
             \/ /\ store.receipts[q] \in Ended
                /\ started.receipts[q] = "none" /\ started.journals[q] = "none"
    BY <2>1, InvFacts, NewSound
  <2>3. started.active = [store.active EXCEPT ![sessionOf[r]] = r]
    BY InvFacts, PutActive
  <2>4. PICK saved \in BOOLEAN :
          /\ Flush(started, saved)
          /\ IF saved
             THEN /\ queued' = queued \ {r}
                  /\ turn' = [turn EXCEPT ![r] = "working"]
                  /\ UNCHANGED rest
             ELSE Then("unwind", r) /\ UNCHANGED <<queued, turn>>
    BY <1>2
  <2>5. OutlastsCoroutines(started) /\ UNCHANGED <<tasks, aborted, answer, up>>
    BY <1>2
  <2> HIDE DEF started
  <2>6. r \in Served => store.journals[r] # "none"
    BY <1>0, InvFacts
  <2>7. Sound(started)
    BY <2>2, <2>6, InvFacts DEF Sound
  <2>8. /\ store'.receipts = started.receipts /\ store'.journals = started.journals
        /\ store'.active = started.active
        /\ saved = TRUE /\ disk' = Image(store')
    BY <2>4, <2>7, FlushEffect
  <2>9. turn' = [turn EXCEPT ![r] = "working"] /\ rest' = rest /\ StepOf(r)' = "none"
    BY <1>0, <2>4, <2>8, RestOf, RunsAssumption DEF StepOf
  <2>10. turn'[r] = "working" /\ \A q \in Runs \ {r} : turn'[q] = turn[q]
    BY <2>9, InvFacts
  <2>11. ASSUME NEW q \in Served \ {r}
         PROVE  \/ /\ store'.receipts[q] = store.receipts[q]
                   /\ store'.journals[q] = store.journals[q]
                \/ turn[q] = "none" /\ store'.receipts[q] = "none"
    BY <2>2, <2>5, <2>8, InvFacts DEF OutlastsCoroutines
  <2>12. r \in Served => /\ store.receipts[r] # "cancelled" /\ store.journals[r] = "open"
                         /\ r \notin aborted
    <3> SUFFICES ASSUME r \in Served
                 PROVE  /\ store.receipts[r] # "cancelled" /\ store.journals[r] = "open"
                        /\ r \notin aborted
      OBVIOUS
    <3> QED BY <1>0, <2>1, ChatFacts DEF Fit
  <2>13. r \in Served => Fits(r)'
    BY <2>2, <2>8, <2>9, <2>10, <2>12 DEF Fits, Fit
  <2>14. ASSUME NEW q \in tasks' PROVE store'.active[sessionOf[q]] = q
    <3>1. q \in tasks /\ q \in Served /\ q \in Runs /\ store.active[sessionOf[q]] = q
          /\ sessionOf[q] \in Sessions /\ sessionOf[r] \in Sessions
      BY <2>5, <2>14, InvFacts DEF OutcomeInv, RunsInv, ControlInv
    <3>2. q # r => sessionOf[q] # sessionOf[r]
      BY <1>0, <3>1, ChatFacts DEF Apart
    <3> QED BY <2>3, <2>8, <3>1, <3>2, InvFacts
  <2>15. \A q \in Served : /\ disk'.receipts[q] = store'.receipts[q]
                           /\ disk'.journals[q] \in {store'.journals[q], "none"}
    BY <2>8 DEF Image
  <2>16. tasks' \subseteq Served
    BY <2>5 DEF RunsInv, ControlInv
  <2>17. r \in tasks' => (r \in aborted' <=> store'.receipts[r] = "cancelled")
    BY <2>2, <2>5, <2>8, <2>12, <2>16
  <2> QED BY <1>0, <2>5, <2>9, <2>10, <2>11, <2>13, <2>14, <2>15, <2>16, <2>17,
             InvFacts, OutcomeKept
<1> QED BY <1>1, <1>2 DEF StartTurn

LEMMA UnwindOutcome ==
  ASSUME RunsInv, OutcomeInv, Apart, WritesFail = FALSE, NEW r \in Runs, Unwind(r)
  PROVE  OutcomeInv'
<1> USE StatusFacts
<1>0. /\ rest = [step |-> "unwind", run |-> r] /\ rest.run = r /\ StepOf(r) = "unwind"
      /\ turn[r] = "setup" /\ UNCHANGED <<tasks, aborted, answer, up>>
  BY RestOf DEF Unwind, StepOf, RunsInv, ControlInv
<1>1. PICK saved \in BOOLEAN,
           status \in IF r \notin Served THEN {"cancelled", "error"}
                      ELSE IF r \in aborted THEN {"cancelled"} ELSE {"error"} :
        Finish(sessionOf[r], status, saved)
  BY DEF Unwind
<1>2. CASE r \in Served
  <2>1. rest' = [step |-> "catch", run |-> r] /\ turn' = turn
    BY <1>2 DEF Unwind, Then
  <2>2. rest'.run = r /\ StepOf(r)' = "catch"
    BY <2>1, RestOf DEF StepOf
  <2> DEFINE ended == IF store.receipts[r] \in Unended THEN status ELSE store.receipts[r]
  <2>3. /\ r \in tasks /\ status = IF r \in aborted THEN "cancelled" ELSE "error"
        /\ status \in Ended
    BY <1>0, <1>1, <1>2, ChatFacts
  <2>4. /\ Fit(ended, store.journals[r], turn'[r], StepOf(r)')
        /\ r \in aborted' <=> ended = "cancelled"
    BY <1>0, <1>2, <2>1, <2>2, <2>3, ChatFacts DEF Fit
  <2> HIDE DEF ended
  <2> QED BY <1>0, <1>1, <2>1, <2>2, <2>3, <2>4, EndKept DEF ended
<1>3. CASE r \notin Served
  <2>1. rest' = NoRest /\ turn' = [turn EXCEPT ![r] = "none"] /\ status \in Ended
    BY <1>1, <1>3 DEF Unwind
  <2>2. rest'.run = NoRun /\ \A q \in Served \ {r} : turn'[q] = turn[q]
    BY <2>1, RestOf, InvFacts
  <2>3. r \notin tasks
    BY <1>3 DEF RunsInv, ControlInv
  <2> QED BY <1>0, <1>1, <1>3, <2>1, <2>2, <2>3, EndKept
<1> QED BY <1>2, <1>3

LEMMA ProgressOutcome ==
  ASSUME RunsInv, OutcomeInv, NEW r \in Runs, Progress(r)
  PROVE  OutcomeInv'
<1> USE StatusFacts
<1>0. /\ rest = NoRest /\ r \in Served /\ turn[r] = "working"
      /\ store' = AppendEvent(store, r)
      /\ UNCHANGED <<disk, tasks, queued, aborted, turn, rest, answer, up>>
      /\ rest.run = NoRun /\ rest'.run = NoRun /\ StepOf(r)' = StepOf(r)
  BY RestOf DEF Progress, Idle, StepOf
<1>1. /\ store'.receipts = store.receipts /\ store'.active = store.active
      /\ \A q \in Runs \ {r} : store'.journals[q] = store.journals[q]
  BY <1>0, InvFacts, AppendEventEffect
<1>2. store'.journals[r] = store.journals[r]
  <2>1. store.journals[r] \in TerminalEvents \/ store.journals[r] = "open"
    BY <1>0, ChatFacts, EventFacts DEF Fit, Closed
  <2>2. CASE store.journals[r] \in TerminalEvents
    BY <1>0, <2>2 DEF AppendEvent
  <2>3. CASE store.journals[r] = "open"
    BY <1>0, <2>3, InvFacts DEF AppendEvent, StoreType
  <2> QED BY <2>1, <2>2, <2>3
<1>3. Fits(r)'
  BY <1>0, <1>1, <1>2, ChatFacts DEF Fits
<1>4. \A q \in tasks' : store'.active[sessionOf[q]] = q
  BY <1>0, <1>1 DEF OutcomeInv
<1>5. tasks' \subseteq Served /\ (r \in tasks' => (r \in aborted' <=> store'.receipts[r] = "cancelled"))
  BY <1>0, <1>1 DEF OutcomeInv, RunsInv, ControlInv
<1>6. \A q \in Served \ {r} : store'.journals[q] = store.journals[q]
  BY <1>1, InvFacts
<1> QED BY <1>0, <1>1, <1>3, <1>4, <1>5, <1>6, OutcomeKept

LEMMA RespondOutcome ==
  ASSUME RunsInv, OutcomeInv, Apart, WritesFail = FALSE, NEW r \in Runs, Respond(r)
  PROVE  OutcomeInv'
<1> USE StatusFacts
<1>0. /\ rest = NoRest /\ rest.run = NoRun /\ StepOf(r) = "none" /\ turn[r] = "working"
      /\ UNCHANGED <<tasks, aborted, answer, up>>
  BY RestOf, RunsAssumption DEF Respond, Idle, StepOf
<1>1. PICK saved \in BOOLEAN, status \in {"complete", "error"} :
        /\ Finish(sessionOf[r], status, saved)
        /\ IF r \notin Served
           THEN turn' = [turn EXCEPT ![r] = "none"] /\ UNCHANGED rest
           ELSE Then(IF saved THEN "settle" ELSE "catch", r) /\ UNCHANGED turn
  BY DEF Respond
<1>2. saved = TRUE /\ status \in Ended
  BY <1>1, FinishNow
<1>3. CASE r \in Served
  <2>1. rest' = [step |-> "settle", run |-> r] /\ turn' = turn
    BY <1>1, <1>2, <1>3 DEF Then
  <2>2. rest'.run = r /\ StepOf(r)' = "settle"
    BY <2>1, RestOf DEF StepOf
  <2> DEFINE ended == IF store.receipts[r] \in Unended THEN status ELSE store.receipts[r]
  <2>3. /\ r \in tasks
        /\ Fit(ended, store.journals[r], turn'[r], StepOf(r)')
        /\ r \in aborted' <=> ended = "cancelled"
    BY <1>0, <1>1, <1>3, <2>1, <2>2, ChatFacts DEF Fit
  <2> HIDE DEF ended
  <2> QED BY <1>0, <1>1, <1>2, <2>1, <2>2, <2>3, EndKept DEF ended
<1>4. CASE r \notin Served
  <2>1. rest' = rest /\ turn' = [turn EXCEPT ![r] = "none"]
    BY <1>1, <1>4
  <2>2. rest'.run = NoRun /\ \A q \in Served \ {r} : turn'[q] = turn[q]
    BY <1>0, <2>1, InvFacts
  <2>3. r \notin tasks
    BY <1>4 DEF RunsInv, ControlInv
  <2> QED BY <1>0, <1>1, <1>2, <1>4, <2>2, <2>3, EndKept
<1> QED BY <1>3, <1>4

LEMMA SettleOutcome ==
  ASSUME RunsInv, OutcomeInv, Apart, WritesFail = FALSE, NEW r \in Runs, Settle(r)
  PROVE  OutcomeInv'
<1> USE StatusFacts
<1>0. /\ rest = [step |-> "settle", run |-> r] /\ rest.step = "settle" /\ rest.run = r
      /\ StepOf(r) = "settle" /\ r \in tasks /\ r \in Served
      /\ UNCHANGED <<tasks, aborted, up>>
  BY RestOf DEF Settle, StepOf, RunsInv, ControlInv
<1>1. IsActive(r) <=> store.receipts[r] \in Unended
  BY <1>0, ChatFacts, RunsAssumption DEF IsActive, Active
<1>2. CASE Outcome(r) = "response.completed" /\ IsActive(r)
  <2>1. PICK saved \in BOOLEAN :
          /\ Finish(sessionOf[r], "complete", saved)
          /\ Then(IF saved THEN "settle" ELSE "catch", r)
          /\ UNCHANGED <<turn, answer>>
    BY <1>2 DEF Settle
  <2>2. saved = TRUE
    BY <2>1, FinishNow
  <2>3. rest' = [step |-> "settle", run |-> r] /\ rest'.run = r /\ StepOf(r)' = "settle"
    BY <2>1, <2>2, RestOf DEF Then, StepOf
  <2>4. /\ Fit("complete", store.journals[r], turn'[r], StepOf(r)')
        /\ r \notin aborted'
    BY <1>0, <1>1, <1>2, <2>1, <2>3, ChatFacts DEF Fit
  <2> DEFINE ended == IF store.receipts[r] \in Unended THEN "complete" ELSE store.receipts[r]
  <2>5. ended = "complete"
    BY <1>1, <1>2
  <2> HIDE DEF ended
  <2>6. /\ r \in Served => Fit(ended, store.journals[r], turn'[r], StepOf(r)')
        /\ r \in tasks => (r \in aborted' <=> ended = "cancelled")
    BY <2>4, <2>5
  <2>7. aborted' = aborted /\ turn' = turn /\ "complete" \in Ended
    BY <1>0, <2>1
  <2> QED BY <1>0, <2>1, <2>3, <2>6, <2>7, EndKept DEF ended
<1>3. CASE ~(Outcome(r) = "response.completed" /\ IsActive(r))
  <2>1. PICK saved \in BOOLEAN :
          /\ AppendTerminal(r, Outcome(r), saved)
          /\ IF saved THEN rest' = NoRest /\ Close(r)
                      ELSE Then("catch", r) /\ UNCHANGED turn
    BY <1>3 DEF Settle
  <2>2. Outcome(r) \in TerminalEvents
    BY DEF Outcome
  <2>3. saved = TRUE
    BY <2>1, <2>2, AppendNow
  <2>4. rest' = NoRest /\ rest'.run = NoRun /\ StepOf(r)' = "none"
        /\ turn' = [turn EXCEPT ![r] = "closing"]
    BY <2>1, <2>3, RestOf, RunsAssumption DEF Close, StepOf
  <2>5. turn'[r] = "closing" /\ \A q \in Served \ {r} : turn'[q] = turn[q]
    BY <2>4, InvFacts
  <2> DEFINE told == IF store.journals[r] \notin TerminalEvents THEN Outcome(r)
                     ELSE store.journals[r]
  <2>6. /\ r \in aborted <=> store.receipts[r] = "cancelled"
        /\ \/ store.receipts[r] = "cancelled" /\ store.journals[r] = "response.cancelled"
           \/ store.receipts[r] \in {"complete", "error"} /\ store.journals[r] = "open"
    <3>1. Fit(store.receipts[r], store.journals[r], turn[r], "settle") /\ turn[r] # "none"
      BY <1>0, ChatFacts
    <3>2. store.receipts[r] \notin Unended
      BY <1>0, <1>1, <1>3, ChatFacts DEF Outcome
    <3> QED BY <1>0, <3>1, <3>2, ChatFacts, EventFacts DEF Fit, Closed
  <2>7. Closed(store.receipts[r], told)
    BY <2>6, EventFacts DEF Outcome, Closed
  <2>8. Fit(store.receipts[r], told, turn'[r], StepOf(r)')
    BY <2>4, <2>5, <2>7 DEF Fit
  <2> HIDE DEF told
  <2> QED BY <1>0, <2>1, <2>2, <2>4, <2>5, <2>8, EventKept DEF told
<1> QED BY <1>2, <1>3

LEMMA CatchOutcome ==
  ASSUME RunsInv, OutcomeInv, Apart, WritesFail = FALSE, NEW r \in Runs, Catch(r)
  PROVE  OutcomeInv'
<1> USE StatusFacts
<1>0. /\ rest = [step |-> "catch", run |-> r] /\ rest.step = "catch" /\ rest.run = r
      /\ StepOf(r) = "catch" /\ r \in tasks /\ r \in Served
      /\ UNCHANGED <<tasks, aborted, up>>
  BY RestOf DEF Catch, StepOf, RunsInv, ControlInv
<1>1. IsActive(r) <=> store.receipts[r] \in Unended
  BY <1>0, ChatFacts, RunsAssumption DEF IsActive, Active
<1>2. CASE r \notin aborted /\ IsActive(r)
  <2>1. PICK saved \in BOOLEAN :
          /\ Finish(sessionOf[r], "error", saved)
          /\ IF saved THEN UNCHANGED <<rest, turn>>
             ELSE rest' = NoRest /\ turn' = [turn EXCEPT ![r] = "dying"]
    BY <1>2 DEF Catch
  <2>2. rest' = rest /\ turn' = turn /\ StepOf(r)' = "catch"
    BY <1>0, <2>1, FinishNow DEF StepOf
  <2>3. Fit("error", store.journals[r], turn'[r], StepOf(r)')
    BY <1>0, <1>1, <1>2, <2>2, ChatFacts DEF Fit
  <2> DEFINE ended == IF store.receipts[r] \in Unended THEN "error" ELSE store.receipts[r]
  <2>4. ended = "error"
    BY <1>1, <1>2
  <2> HIDE DEF ended
  <2>5. /\ r \in Served => Fit(ended, store.journals[r], turn'[r], StepOf(r)')
        /\ r \in tasks => (r \in aborted' <=> ended = "cancelled")
    BY <1>0, <1>2, <2>3, <2>4
  <2> QED BY <1>0, <2>1, <2>2, <2>5, EndKept DEF ended
<1>3. CASE ~(r \notin aborted /\ IsActive(r))
  <2> DEFINE event == IF r \in aborted THEN "response.cancelled" ELSE "response.failed"
  <2>1. PICK saved \in BOOLEAN :
          /\ AppendTerminal(r, event, saved)
          /\ rest' = NoRest
          /\ IF saved THEN Close(r) ELSE turn' = [turn EXCEPT ![r] = "dying"]
    BY <1>3 DEF Catch
  <2>2. event \in TerminalEvents
    OBVIOUS
  <2>3. saved = TRUE
    BY <2>1, <2>2, AppendNow
  <2>4. rest'.run = NoRun /\ StepOf(r)' = "none" /\ turn' = [turn EXCEPT ![r] = "closing"]
    BY <2>1, <2>3, RestOf, RunsAssumption DEF Close, StepOf
  <2>5. turn'[r] = "closing" /\ \A q \in Served \ {r} : turn'[q] = turn[q]
    BY <2>4, InvFacts
  <2> DEFINE told == IF store.journals[r] \notin TerminalEvents THEN event
                     ELSE store.journals[r]
  <2>6. /\ r \in aborted <=> store.receipts[r] = "cancelled"
        /\ \/ store.receipts[r] = "cancelled" /\ store.journals[r] = "response.cancelled"
           \/ store.receipts[r] = "error" /\ store.journals[r] = "open"
    <3>1. Fit(store.receipts[r], store.journals[r], turn[r], "catch") /\ turn[r] # "none"
      BY <1>0, ChatFacts
    <3>2. store.receipts[r] \notin Unended
      BY <1>0, <1>1, <1>3, ChatFacts
    <3> QED BY <1>0, <3>1, <3>2, ChatFacts, EventFacts DEF Fit, Closed
  <2>7. Closed(store.receipts[r], told)
    BY <2>6, EventFacts DEF Closed
  <2>8. Fit(store.receipts[r], told, turn'[r], StepOf(r)')
    BY <2>4, <2>5, <2>7 DEF Fit
  <2> HIDE DEF told, event
  <2> QED BY <1>0, <2>1, <2>2, <2>4, <2>5, <2>8, EventKept DEF told
<1> QED BY <1>2, <1>3

LEMMA LeaveOutcome ==
  ASSUME RunsInv, OutcomeInv, NEW r \in Runs, Leave(r)
  PROVE  OutcomeInv'
<1> USE StatusFacts
<1>0. /\ rest = NoRest /\ rest' = NoRest /\ rest.run = NoRun /\ rest'.run = NoRun
      /\ StepOf(r)' = "none"
      /\ turn[r] = "closing" /\ turn' = [turn EXCEPT ![r] = "none"]
      /\ tasks' = tasks \ {r} /\ aborted' = aborted \ {r}
  BY RestOf, RunsAssumption DEF Leave, Moves, Idle, ReleaseTask, StepOf
<1>1. r \in Served /\ Closed(store.receipts[r], store.journals[r])
  BY <1>0, ChatFacts DEF RunsInv, ControlInv, Fit
<1>2. ~IsActive(r)
  BY <1>1 DEF Closed, IsActive, Active
<1>3. store' = store /\ disk' = disk
  BY <1>2 DEF Leave
<1>4. turn'[r] = "none" /\ \A q \in Served \ {r} : turn'[q] = turn[q]
  BY <1>0, InvFacts
<1>5. Fits(r)'
  BY <1>0, <1>1, <1>3, <1>4 DEF Fits, Fit
<1>6. tasks' \subseteq Served /\ \A q \in tasks' : store'.active[sessionOf[q]] = q
  BY <1>0, <1>3 DEF OutcomeInv, RunsInv, ControlInv
<1> QED BY <1>0, <1>3, <1>4, <1>5, <1>6, OutcomeKept

LEMMA TimerOutcome ==
  ASSUME RunsInv, OutcomeInv, TimerFires PROVE OutcomeInv'
<1>0. /\ rest = NoRest /\ Flush(store, TRUE) /\ rest.run = NoRun /\ rest'.run = NoRun
      /\ UNCHANGED <<tasks, queued, aborted, turn, rest, answer, up>>
  BY RestOf DEF TimerFires, Idle
<1>1. /\ store'.receipts = store.receipts /\ store'.journals = store.journals
      /\ store'.active = store.active /\ (disk' = disk \/ disk' = Image(store'))
  BY <1>0, InvFacts, FlushEffect
<1>2. \/ disk' = disk
      \/ \A q \in Served : /\ disk'.receipts[q] = store'.receipts[q]
                           /\ disk'.journals[q] \in {store'.journals[q], "none"}
  BY <1>1 DEF Image
<1>3. tasks' \subseteq Served /\ NoRun \notin Served
  BY <1>0, RunsAssumption DEF RunsInv, ControlInv
<1>4. \A q \in tasks' : store'.active[sessionOf[q]] = q
  BY <1>0, <1>1 DEF OutcomeInv
<1> QED BY <1>0, <1>1, <1>2, <1>3, <1>4, OutcomeKept

\* No coroutine is left, and no continuation executes.
LEMMA GoneFits ==
  ASSUME \A r \in Runs : turn'[r] = "none", rest' = NoRest, tasks' = {}, Matches(disk)',
         \A r \in Served :
           store'.receipts[r] = "none" \/ Closed(store'.receipts[r], store'.journals[r])
  PROVE  OutcomeInv'
<1>1. ASSUME NEW r \in Served PROVE Fits(r)'
  <2>1. turn'[r] = "none" /\ StepOf(r)' = "none"
    BY RestOf, RunsAssumption DEF StepOf
  <2> QED BY <2>1 DEF Fits, Fit
<1> QED BY <1>1 DEF OutcomeInv

LEMMA ExitOutcome ==
  ASSUME RunsInv, OutcomeInv, Exit PROVE OutcomeInv'
<1>0. /\ store' = StoreOf(EmptyImage) /\ tasks' = {} /\ rest' = NoRest
      /\ turn' = [q \in Runs |-> "none"] /\ (disk' = disk \/ disk' = Image(store))
  BY DEF Exit
<1>1. \A q \in Served : store'.receipts[q] = "none"
  BY <1>0, EmptyStore, RunsAssumption
<1>2. CASE disk' = disk
  BY <1>0, <1>1, <1>2, GoneFits DEF OutcomeInv, Matches
<1>3. CASE disk' = Image(store)
  <2>1. ASSUME NEW q \in Served, store.receipts[q] # "none", store.journals[q] \in TerminalEvents
        PROVE  Closed(store.receipts[q], store.journals[q])
    BY <2>1, ChatFacts, FitMatches
  <2>2. Matches(disk)'
    BY <1>3, <2>1 DEF Matches, Image
  <2> QED BY <1>0, <1>1, <2>2, GoneFits
<1> QED BY <1>0, <1>2, <1>3

\* A start gives every receipt it has read the terminal event that fits.
LEMMA LoadedCloses ==
  ASSUME NEW image \in ImageType, Ordered(image), Matches(image),
         NEW n \in 0..Len(image.order), NEW r \in Served,
         LoadedFirst(image, n).receipts[r] # "none"
  PROVE  Closed(LoadedFirst(image, n).receipts[r], LoadedFirst(image, n).journals[r])
<1> USE StatusFacts
<1> DEFINE i == LoadedFirst(image, n)
           order == SubSeq(image.order, 1, n)
<1>0. r \in Runs /\ image.receipts[r] \in Statuses
  BY RunsAssumption DEF ImageType
<1>1. /\ i.receipts[r] = IF Contains(order, r) THEN Restored(image, r) ELSE "none"
      /\ i.journals[r] = IF Contains(order, r) /\ image.journals[r] \notin TerminalEvents
                         THEN EventOf[i.receipts[r]] ELSE image.journals[r]
  BY <1>0 DEF LoadedFirst
<1>2. Contains(order, r) /\ image.receipts[r] # "none"
  BY <1>0, <1>1, LoadedFacts
<1> HIDE DEF i, order
<1>3. i.receipts[r] \in Ended /\ (image.receipts[r] \in Ended => i.receipts[r] = image.receipts[r])
  BY <1>0, <1>1, <1>2 DEF Restored
<1>4. CASE image.journals[r] \in TerminalEvents
  BY <1>1, <1>2, <1>3, <1>4 DEF Matches, Closed, i
<1>5. CASE image.journals[r] \notin TerminalEvents
  BY <1>1, <1>2, <1>3, <1>5 DEF Closed, i
<1> QED BY <1>4, <1>5

LEMMA RestartOutcome ==
  ASSUME RunsInv, OutcomeInv, Restart PROVE OutcomeInv'
<1> USE StatusFacts
<1> DEFINE i == Loaded(disk)
           all == LoadedFirst(disk, Len(disk.order))
<1>0. /\ ~up /\ store' = StoreOf(i) /\ disk' = i /\ tasks' = tasks /\ turn' = turn /\ rest' = rest
  BY DEF Restart
<1>1. disk \in ImageType /\ Ordered(disk) /\ Matches(disk)
      /\ Len(disk.order) \in 0..Len(disk.order)
  BY <1>0, DownFacts DEF OutcomeInv, ImageType
<1>2. \A r \in Served : all.receipts[r] # "none" => Closed(all.receipts[r], all.journals[r])
  BY <1>1, LoadedCloses
<1>3. /\ i.receipts = all.receipts
      /\ \A r \in Runs : i.journals[r] =
           IF all.journals[r] = "open" THEN "response.failed" ELSE all.journals[r]
  BY DEF Loaded, LoadedFirst
<1>4. store'.receipts = i.receipts /\ store'.journals = i.journals
  BY <1>0, <1>1, RestartStore
<1> HIDE DEF i, all
<1>5. \A r \in Served : i.receipts[r] # "none" => Closed(i.receipts[r], i.journals[r])
  BY <1>2, <1>3, EventFacts, RunsAssumption DEF Closed
<1>6. Matches(disk)'
  BY <1>0, <1>5 DEF Matches
<1>7. tasks' = {} /\ rest' = NoRest /\ \A q \in Runs : turn'[q] = "none"
  BY <1>0, DownFacts
<1> QED BY <1>4, <1>5, <1>6, <1>7, GoneFits

LEMMA StopLoadingOutcome ==
  ASSUME RunsInv, OutcomeInv, StopLoading PROVE OutcomeInv'
<1>0. ~up /\ UNCHANGED <<store, tasks, queued, aborted, turn, rest, answer, up>>
  BY DEF StopLoading
<1>1. PICK n \in 1..Len(disk.order) : disk' = LoadedFirst(disk, n)
  BY DEF StopLoading
<1>2. n \in 0..Len(disk.order) /\ disk \in ImageType /\ Ordered(disk) /\ Matches(disk)
  BY <1>0, DownFacts DEF ImageType, OutcomeInv
<1>3. Matches(disk)'
  BY <1>1, <1>2, LoadedCloses DEF Matches
<1>4. /\ tasks' = {} /\ rest' = NoRest /\ \A q \in Runs : turn'[q] = "none"
      /\ \A r \in Served : store'.receipts[r] = "none"
  BY <1>0, DownFacts, RunsAssumption
<1> QED BY <1>3, <1>4, GoneFits

-----------------------------------------------------------------------------
\* While writes succeed and direct turns have sessions of their own, the receipt
\* and the journal of a chat tell the same outcome, and no chat whose coroutine
\* is gone is without one, however cancels, failing turns, ends of the process
\* and loads that stop come together.
THEOREM OutcomesAgreeHolds ==
  ASSUME WritesFail = FALSE, Apart
  PROVE  RunsSpec => []OutcomesAgree
<1>1. RunsInit => OutcomeInv
  <2> SUFFICES ASSUME RunsInit PROVE OutcomeInv
    OBVIOUS
  <2>1. /\ tasks = {} /\ rest = NoRest /\ \A q \in Runs : turn[q] = "none"
        /\ \A r \in Runs : store.receipts[r] = "none" /\ disk.receipts[r] = "none"
    BY EmptyStore DEF RunsInit
  <2>2. ASSUME NEW r \in Served PROVE Fits(r)
    <3>1. StepOf(r) = "none" /\ r \in Runs
      BY <2>1, RestOf, RunsAssumption DEF StepOf
    <3> QED BY <2>1, <3>1 DEF Fits, Fit
  <2> QED BY <2>1, <2>2, RunsAssumption DEF OutcomeInv, Matches
<1>2. RunsInv /\ OutcomeInv /\ [RunsNext]_runVars => OutcomeInv'
  <2> SUFFICES ASSUME RunsInv, OutcomeInv, [RunsNext]_runVars PROVE OutcomeInv'
    OBVIOUS
  <2>1. CASE \E r \in Runs :
               \/ Submit(r) \/ Cancel(r) \/ CancelRest(r)
               \/ Admit(r) \/ Begin(r) \/ StartTurn(r) \/ SetupThrows(r) \/ Unwind(r)
               \/ Throws(r) \/ DirectThrows(r) \/ Progress(r) \/ Respond(r)
               \/ ReturnEarly(r) \/ Settle(r) \/ Catch(r) \/ Leave(r)
    BY <2>1, SubmitOutcome, CancelOutcome, CancelRestOutcome, QuietOutcome, StartTurnOutcome,
       UnwindOutcome, ProgressOutcome, RespondOutcome, SettleOutcome, CatchOutcome, LeaveOutcome
  <2>2. CASE TimerFires \/ Exit \/ Restart \/ StopLoading
    BY <2>2, TimerOutcome, ExitOutcome, RestartOutcome, StopLoadingOutcome
  <2>3. CASE UNCHANGED runVars
    BY <2>3 DEF OutcomeInv, Matches, Fits, StepOf, runVars
  <2> QED BY <2>1, <2>2, <2>3 DEF RunsNext
<1>3. RunsInv /\ OutcomeInv => OutcomesAgree
  <2> SUFFICES ASSUME RunsInv, OutcomeInv, Idle, NEW r \in Served
               PROVE  /\ store.receipts[r] \in Ended /\ store.journals[r] \in TerminalEvents
                           => store.journals[r] = EventOf[store.receipts[r]]
                      /\ store.receipts[r] # "none" /\ turn[r] = "none"
                           => store.receipts[r] \in Ended /\ store.journals[r] \in TerminalEvents
    BY DEF OutcomesAgree
  <2>1. Fit(store.receipts[r], store.journals[r], turn[r], StepOf(r))
    BY ChatFacts
  <2>2. store.receipts[r] \in Ended /\ store.journals[r] \in TerminalEvents
          => Closed(store.receipts[r], store.journals[r])
    BY <2>1, StatusFacts, FitMatches
  <2>3. store.receipts[r] # "none" /\ turn[r] = "none"
          => Closed(store.receipts[r], store.journals[r])
    BY <2>1 DEF Fit
  <2> QED BY <2>2, <2>3, StatusFacts DEF Closed
<1> QED BY <1>1, <1>2, <1>3, RunsInvariant, PTL DEF RunsSpec
=============================================================================
