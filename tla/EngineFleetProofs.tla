-------------------------- MODULE EngineFleetProofs --------------------------
(***************************************************************************)
(* Safety of the shared engine and of the desktop's side of it, for any    *)
(* bots, backends, attempts and limits.  What the host keeps is taken as   *)
(* one record (Host), so that its invariant can be carried through the     *)
(* operators that a control or a worker's event runs in one go, and        *)
(* through the passes of drain().                                          *)
(***************************************************************************)
EXTENDS EngineFleet, SequenceLemmas, TLAPS

Messages ==
  [kind : {"answer"}, of : Controls, ok : BOOLEAN]
  \cup [kind : {"bot-exit"}, bot : Bots]

HostStore ==
  [residents : [Bots -> Resident \cup {None}], startQueue : Seq(Bots),
   starting : Int, toDesktop : Seq(Messages)]

\* A resident that occupies a start slot.
Boots(r) == r # None /\ r.worker /\ ~r.settled
Booting(h) == {b \in Bots : Boots(h.residents[b])}

\* The queue holds, once each, the bots whose resident has no worker yet, and
\* nothing was decided about those.
Queued(r) == r # None /\ ~r.worker
QueueInv(h) ==
  /\ IsInjective(h.startQueue)
  /\ \A b \in Bots : Contains(h.startQueue, b) <=> Queued(h.residents[b])
  /\ \A b \in Bots : Queued(h.residents[b])
       => ~h.residents[b].settled /\ ~h.residents[b].stopping

SlotInv(h) ==
  /\ h.starting = Cardinality(Booting(h))
  /\ h.starting <= MaxStarts

Hosts == {h \in HostStore : QueueInv(h) /\ SlotInv(h)}

\* Nobody waits beside a free slot.
Filled(h) == h.startQueue # <<>> => h.starting >= MaxStarts

-----------------------------------------------------------------------------
(* The host's records *)

LEMMA StoreFields ==
  ASSUME NEW h \in HostStore
  PROVE  /\ h.residents \in [Bots -> Resident \cup {None}]
         /\ h.startQueue \in Seq(Bots)
         /\ h.starting \in Int
         /\ h.toDesktop \in Seq(Messages)
         /\ \A b \in Bots : h.residents[b] # None => h.residents[b] \in Resident
BY DEF HostStore

LEMMA ResidentFields ==
  ASSUME NEW r \in Resident
  PROVE  /\ r # None
         /\ r.by \in Backends
         /\ r.worker \in BOOLEAN /\ r.settled \in BOOLEAN /\ r.stopping \in BOOLEAN
         /\ r.requested \in BOOLEAN /\ r.hung \in BOOLEAN
         /\ r.starts \in Seq(Controls) /\ r.stops \in Seq(Controls)
BY HostAssumption DEF Resident

\* Answers change nothing but what is on its way to the desktop.
LEMMA SayKeeps ==
  ASSUME NEW h \in HostStore, NEW cs \in Seq(Controls), NEW ok \in BOOLEAN
  PROVE  /\ Say(h, cs, ok) \in HostStore
         /\ Say(h, cs, ok).residents = h.residents
         /\ Say(h, cs, ok).startQueue = h.startQueue
         /\ Say(h, cs, ok).starting = h.starting
<1> DEFINE answers == [i \in 1..Len(cs) |-> Answer(cs[i], ok)]
<1>1. answers \in Seq(Messages)
  <2>1. Len(cs) \in Nat
    BY LenProperties
  <2>2. \A i \in 1..Len(cs) : Answer(cs[i], ok) \in Messages
    BY ElementOfSeq DEF Answer, Messages
  <2> QED BY <2>1, <2>2, IsASeq
<1> HIDE DEF answers
<1>2. h.toDesktop \o answers \in Seq(Messages)
  BY <1>1, StoreFields, ConcatProperties
<1>3. Say(h, cs, ok) = [h EXCEPT !.toDesktop = h.toDesktop \o answers]
  BY DEF Say, answers, HostStore
<1> QED BY <1>2, <1>3 DEF HostStore

\* h with another resident (or none) for b.
Replaced(h, b, r) == [h EXCEPT !.residents[b] = r]

LEMMA ReplacedKeeps ==
  ASSUME NEW h \in HostStore, NEW b \in Bots, NEW r \in Resident \cup {None}
  PROVE  /\ Replaced(h, b, r) \in HostStore
         /\ Replaced(h, b, r).residents = [h.residents EXCEPT ![b] = r]
         /\ Replaced(h, b, r).startQueue = h.startQueue
         /\ Replaced(h, b, r).starting = h.starting
BY DEF Replaced, HostStore

\* Who boots, and how many, where the residents differ at b.
LEMMA BootingReplaced ==
  ASSUME NEW h \in HostStore, NEW b \in Bots, NEW r \in Resident \cup {None}, NEW g,
         g.residents = [h.residents EXCEPT ![b] = r]
  PROVE  /\ IsFiniteSet(Booting(h)) /\ Cardinality(Booting(h)) \in Nat
         /\ Boots(r) /\ ~Boots(h.residents[b])
              => Cardinality(Booting(g)) = Cardinality(Booting(h)) + 1
         /\ ~Boots(r) /\ Boots(h.residents[b])
              => /\ Cardinality(Booting(g)) = Cardinality(Booting(h)) - 1
                 /\ Cardinality(Booting(h)) > 0
         /\ (Boots(r) <=> Boots(h.residents[b])) => Booting(g) = Booting(h)
<1>1. IsFiniteSet(Booting(h)) /\ Cardinality(Booting(h)) \in Nat
  BY FS_Subset, FS_CardinalityType, HostAssumption DEF Booting
<1>2. \A x \in Bots : g.residents[x] = IF x = b THEN r ELSE h.residents[x]
  BY StoreFields
<1>3. ASSUME Boots(r), ~Boots(h.residents[b])
      PROVE  Cardinality(Booting(g)) = Cardinality(Booting(h)) + 1
  <2>1. Booting(g) = Booting(h) \cup {b} /\ b \notin Booting(h)
    BY <1>2, <1>3 DEF Booting
  <2> QED BY <1>1, <2>1, FS_AddElement
<1>4. ASSUME ~Boots(r), Boots(h.residents[b])
      PROVE  /\ Cardinality(Booting(g)) = Cardinality(Booting(h)) - 1
             /\ Cardinality(Booting(h)) > 0
  <2>1. Booting(g) = Booting(h) \ {b} /\ b \in Booting(h)
    BY <1>2, <1>4 DEF Booting
  <2>2. Cardinality(Booting(h)) # 0
    <3>1. Booting(h) # {}
      BY <2>1
    <3> QED BY <1>1, <3>1, FS_EmptySet
  <2>3. Cardinality(Booting(h) \ {b}) = Cardinality(Booting(h)) - 1
    BY <1>1, <2>1, FS_RemoveElement
  <2>4. Cardinality(Booting(h)) > 0
    BY <1>1, <2>2
  <2> QED BY <2>1, <2>3, <2>4
<1>5. ASSUME Boots(r) <=> Boots(h.residents[b]) PROVE Booting(g) = Booting(h)
  BY <1>2, <1>5 DEF Booting
<1> QED BY <1>1, <1>3, <1>4, <1>5

\* removeResident() of a bot that has a resident.
LEMMA RemoveResidentKeeps ==
  ASSUME NEW h \in HostStore, NEW b \in Bots, h.residents[b] # None
  PROVE  /\ RemoveResident(h, b) \in HostStore
         /\ RemoveResident(h, b).residents = [h.residents EXCEPT ![b] = None]
         /\ RemoveResident(h, b).startQueue = h.startQueue
         /\ RemoveResident(h, b).starting = h.starting
<1>1. h.residents[b].stops \in Seq(Controls)
  BY StoreFields, ResidentFields
<1> DEFINE g == Replaced(h, b, None)
<1>2. RemoveResident(h, b) = Say(g, h.residents[b].stops, TRUE)
  BY DEF RemoveResident, Replaced
<1>3. /\ g \in HostStore
      /\ g.residents = [h.residents EXCEPT ![b] = None]
      /\ g.startQueue = h.startQueue
      /\ g.starting = h.starting
  BY ReplacedKeeps
<1> HIDE DEF g
<1>4. LET u == Say(g, h.residents[b].stops, TRUE) IN
      /\ u \in HostStore /\ u.residents = g.residents
      /\ u.startQueue = g.startQueue /\ u.starting = g.starting
  BY <1>1, <1>3, SayKeeps
<1> QED BY <1>2, <1>3, <1>4

-----------------------------------------------------------------------------
(* drain() *)

\* A bot at the head of the queue leaves it.
LEMMA HeadLeaves ==
  ASSUME NEW q \in Seq(Bots), q # <<>>, IsInjective(q)
  PROVE  /\ Head(q) \in Bots /\ Contains(q, Head(q))
         /\ Tail(q) \in Seq(Bots)
         /\ Len(q) \in Nat /\ Len(q) > 0 /\ Len(Tail(q)) = Len(q) - 1
         /\ IsInjective(Tail(q))
         /\ \A b \in Bots : Contains(Tail(q), b) <=> Contains(q, b) /\ b # Head(q)
<1>1. /\ Head(q) = q[1] /\ Head(q) \in Bots /\ Contains(q, Head(q))
      /\ Len(q) \in Nat /\ 1 \in 1..Len(q)
  BY HeadFacts
<1> DEFINE t == Tail(q)
<1>2. /\ t \in Seq(Bots) /\ Len(t) = Len(q) - 1 /\ DOMAIN t = 1..Len(t)
      /\ DOMAIN q = 1..Len(q)
      /\ \A i \in 1..Len(t) : t[i] = q[i + 1]
  BY HeadTailProperties, LenProperties
<1> HIDE DEF t
<1>3. \A i \in 1..Len(t) : i + 1 \in 1..Len(q)
  BY <1>1, <1>2
<1>4. IsInjective(t)
  BY <1>1, <1>2, <1>3 DEF IsInjective
<1>5. ASSUME NEW b \in Bots
      PROVE  Contains(t, b) <=> Contains(q, b) /\ b # Head(q)
  <2>1. ASSUME Contains(t, b) PROVE Contains(q, b) /\ b # Head(q)
    <3>1. PICK i \in 1..Len(t) : t[i] = b
      BY <2>1 DEF Contains
    <3>2. i + 1 \in 1..Len(q) /\ q[i + 1] = b /\ i + 1 # 1
      BY <1>2, <1>3, <3>1
    <3> QED BY <1>1, <1>2, <3>2 DEF Contains, IsInjective
  <2>2. ASSUME Contains(q, b), b # Head(q) PROVE Contains(t, b)
    <3>1. PICK i \in 1..Len(q) : q[i] = b
      BY <2>2 DEF Contains
    <3>2. i - 1 \in 1..Len(t) /\ (i - 1) + 1 = i
      BY <1>1, <1>2, <2>2, <3>1
    <3> QED BY <1>2, <3>1, <3>2 DEF Contains
  <2> QED BY <2>1, <2>2
<1> QED BY <1>1, <1>2, <1>4, <1>5 DEF t

\* What one pass keeps: the invariant, and the residents that do not wait; it
\* takes the first of the queue unless there is nothing to do.
PassKeeps(h, g) ==
  /\ g \in Hosts
  /\ \A b \in Bots : ~Contains(h.startQueue, b) => g.residents[b] = h.residents[b]
  /\ \A b \in Bots : Contains(g.startQueue, b) => Contains(h.startQueue, b)
  /\ IF Filled(h) THEN g = h ELSE Len(g.startQueue) = Len(h.startQueue) - 1

LEMMA DrainPassKeeps ==
  ASSUME NEW h \in Hosts, NEW doomed
  PROVE  PassKeeps(h, DrainPass(h, doomed))
<1> USE StoreFields DEF Hosts
<1>0. h.starting \in Int /\ MaxStarts \in Nat
  BY HostAssumption
<1>1. CASE h.starting >= MaxStarts \/ h.startQueue = <<>>
  <2>1. DrainPass(h, doomed) = h /\ Filled(h)
    BY <1>1 DEF DrainPass, Filled
  <2> QED BY <2>1 DEF PassKeeps
<1>2. CASE ~(h.starting >= MaxStarts) /\ h.startQueue # <<>>
  <2> DEFINE b == Head(h.startQueue)
             taken == [h EXCEPT !.startQueue = Tail(@)]
             r == h.residents[b]
  <2>1. /\ b \in Bots /\ Contains(h.startQueue, b)
        /\ Tail(h.startQueue) \in Seq(Bots)
        /\ Len(Tail(h.startQueue)) = Len(h.startQueue) - 1
        /\ IsInjective(Tail(h.startQueue))
        /\ \A x \in Bots : Contains(Tail(h.startQueue), x)
                             <=> Contains(h.startQueue, x) /\ x # b
    BY <1>2, HeadLeaves DEF QueueInv
  <2>2. /\ taken \in HostStore
        /\ taken.residents = h.residents
        /\ taken.startQueue = Tail(h.startQueue)
        /\ taken.starting = h.starting
    BY <2>1 DEF HostStore
  <2> HIDE DEF b, taken
  <2>3. /\ r \in Resident /\ r # None /\ ~r.worker /\ ~r.settled /\ ~r.stopping
        /\ r.starts \in Seq(Controls)
    BY <2>1, ResidentFields DEF QueueInv, Queued
  <2>4. ~Filled(h)
    BY <1>2 DEF Filled
  <2>5. CASE b \in doomed
    <3> DEFINE s == Say(taken, taken.residents[b].starts, FALSE)
               g == RemoveResident(s, b)
    <3>1. DrainPass(h, doomed) = g
      BY <1>2, <2>5 DEF DrainPass, b, taken
    <3>2. /\ s \in HostStore
          /\ s.residents = h.residents
          /\ s.startQueue = Tail(h.startQueue)
          /\ s.starting = h.starting
      BY <2>1, <2>2, <2>3, SayKeeps
    <3> HIDE DEF s
    <3>3. /\ g \in HostStore
          /\ g.residents = [h.residents EXCEPT ![b] = None]
          /\ g.startQueue = Tail(h.startQueue)
          /\ g.starting = h.starting
      BY <2>1, <2>3, <3>2, RemoveResidentKeeps
    <3> HIDE DEF g
    <3>4. Booting(g) = Booting(h)
      <4>1. ~Boots(None) /\ ~Boots(h.residents[b])
        BY <2>3 DEF Boots
      <4>2. None \in Resident \cup {None}
        OBVIOUS
      <4> QED BY <2>1, <3>3, <4>1, <4>2, BootingReplaced
    <3>5. SlotInv(g)
      BY <3>3, <3>4 DEF SlotInv
    <3>6. \A x \in Bots : g.residents[x] = IF x = b THEN None ELSE h.residents[x]
      BY <2>1, <3>3
    <3>7. QueueInv(g)
      BY <2>1, <3>3, <3>6 DEF QueueInv, Queued
    <3> QED BY <2>1, <2>4, <3>1, <3>3, <3>5, <3>6, <3>7 DEF PassKeeps
  <2>6. CASE b \notin doomed
    <3> DEFINE w == [r EXCEPT !.worker = TRUE]
               p == Replaced(taken, b, w)
               g == [p EXCEPT !.starting = @ + 1]
    <3>0. w \in Resident /\ w.worker /\ ~w.settled
      BY <2>3 DEF Resident
    <3>1. DrainPass(h, doomed) = g
      BY <1>2, <2>2, <2>6 DEF DrainPass, b, taken, Replaced, HostStore
    <3> HIDE DEF w
    <3>2. /\ p \in HostStore
          /\ p.residents = [h.residents EXCEPT ![b] = w]
          /\ p.startQueue = Tail(h.startQueue)
          /\ p.starting = h.starting
      BY <2>1, <2>2, <3>0, ReplacedKeeps
    <3> HIDE DEF p
    <3>3. /\ g \in HostStore
          /\ g.residents = [h.residents EXCEPT ![b] = w]
          /\ g.startQueue = Tail(h.startQueue)
          /\ g.starting = h.starting + 1
      BY <3>2 DEF HostStore
    <3> HIDE DEF g
    <3>4. Boots(w) /\ ~Boots(h.residents[b])
      BY <2>3, <3>0, ResidentFields DEF Boots
    <3>5. Cardinality(Booting(g)) = Cardinality(Booting(h)) + 1
      BY <2>1, <3>0, <3>3, <3>4, BootingReplaced
    <3>6. SlotInv(g)
      BY <1>0, <1>2, <3>3, <3>5 DEF SlotInv
    <3>7. \A x \in Bots : g.residents[x] = IF x = b THEN w ELSE h.residents[x]
      BY <2>1, <3>3
    <3>8. QueueInv(g)
      BY <2>1, <3>0, <3>3, <3>7 DEF QueueInv, Queued
    <3> QED BY <2>1, <2>4, <3>1, <3>3, <3>6, <3>7, <3>8 DEF PassKeeps
  <2> QED BY <2>5, <2>6
<1> QED BY <1>1, <1>2

\* The queue is never longer than there are bots.
LEMMA QueueWithin ==
  ASSUME NEW h \in Hosts
  PROVE  Len(h.startQueue) \in Nat /\ Len(h.startQueue) <= Cardinality(Bots)
<1>1. h.startQueue \in Seq(Bots) /\ IsInjective(h.startQueue)
  BY StoreFields DEF Hosts, QueueInv
<1> DEFINE T == {b \in Bots : Contains(h.startQueue, b)}
<1>2. IsFiniteSet(T) /\ Cardinality(T) = Len(h.startQueue)
  BY <1>1, CountOnce
<1>3. T \in SUBSET Bots
  OBVIOUS
<1>4. Cardinality(T) <= Cardinality(Bots)
  BY <1>3, FS_Subset, HostAssumption
<1> QED BY <1>1, <1>2, <1>4, LenProperties

\* What has become of h after n passes.
PassedOver(h, n) ==
  {g \in Hosts :
     /\ \A b \in Bots : ~Contains(h.startQueue, b)
          => g.residents[b] = h.residents[b] /\ ~Contains(g.startQueue, b)
     /\ Filled(g) \/ Len(g.startQueue) + n <= Len(h.startQueue)}

LEMMA PassOn ==
  ASSUME NEW h \in Hosts, NEW n \in Nat, NEW g \in PassedOver(h, n), NEW doomed
  PROVE  DrainPass(g, doomed) \in PassedOver(h, n + 1)
<1> DEFINE k == DrainPass(g, doomed)
<1>1. g \in Hosts /\ PassKeeps(g, k)
  BY DrainPassKeeps DEF PassedOver
<1>2. Len(g.startQueue) \in Nat /\ Len(h.startQueue) \in Nat
  BY <1>1, QueueWithin
<1> HIDE DEF k
<1>3. Filled(k) \/ Len(k.startQueue) + (n + 1) <= Len(h.startQueue)
  <2>1. CASE Filled(g)
    BY <1>1, <2>1 DEF PassKeeps
  <2>2. CASE ~Filled(g)
    <3>1. Len(k.startQueue) = Len(g.startQueue) - 1
      BY <1>1, <2>2 DEF PassKeeps
    <3>2. Len(g.startQueue) + n <= Len(h.startQueue)
      BY <2>2 DEF PassedOver
    <3> DEFINE x == Len(k.startQueue)
               y == Len(g.startQueue)
               z == Len(h.startQueue)
    <3>3. y \in Nat /\ z \in Nat /\ x = y - 1 /\ y + n <= z
      BY <1>2, <3>1, <3>2
    <3> HIDE DEF x, y, z
    <3>4. x + (n + 1) <= z
      BY <3>3
    <3> QED BY <3>4 DEF x, z
  <2> QED BY <2>1, <2>2
<1>4. ASSUME NEW b \in Bots, ~Contains(h.startQueue, b)
      PROVE  k.residents[b] = h.residents[b] /\ ~Contains(k.startQueue, b)
  <2>1. g.residents[b] = h.residents[b] /\ ~Contains(g.startQueue, b)
    BY <1>4 DEF PassedOver
  <2> QED BY <1>1, <2>1 DEF PassKeeps
<1> QED BY <1>1, <1>3, <1>4 DEF PassedOver, PassKeeps, k

\* drain() ends when there is nothing to do.
Drained(h, g) ==
  /\ g \in Hosts /\ Filled(g)
  /\ \A b \in Bots : ~Contains(h.startQueue, b)
       => g.residents[b] = h.residents[b] /\ ~Contains(g.startQueue, b)

LEMMA DrainKeeps ==
  ASSUME NEW h \in Hosts, NEW doomed
  PROVE  Drained(h, Drain(h, doomed))
<1> DEFINE step == [g \in Hosts |-> DrainPass(g, doomed)]
           rec(f) == [n \in Nat |-> IF n = 0 THEN h ELSE DrainPass(f[n - 1], doomed)]
           passes == CHOOSE f : f = rec(f)
           N == Cardinality(Bots)
<1>0. N \in Nat
  BY FS_CardinalityType, HostAssumption
<1>1. Drain(h, doomed) = passes[N]
  BY DEF Drain
<1>2. \E f : f = rec(f)
  <2>1. step \in [Hosts -> Hosts]
    BY DrainPassKeeps DEF PassKeeps
  <2>2. PICK f \in [Nat -> Hosts] : f[0] = h /\ \A n \in Nat \ {0} : f[n] = step[f[n - 1]]
    <3> HIDE DEF step
    <3> QED BY <2>1, IterationExists
  <2>3. ASSUME NEW n \in Nat \ {0}
        PROVE  f[n - 1] \in Hosts /\ f[n] = DrainPass(f[n - 1], doomed)
    <3>1. n - 1 \in Nat /\ f[n] = step[f[n - 1]]
      BY <2>2
    <3> QED BY <2>2, <3>1
  <2> HIDE DEF step
  <2>4. f = rec(f)
    BY <2>2, <2>3
  <2> QED BY <2>4
<1>3. passes = rec(passes)
  BY <1>2
<1> HIDE DEF passes
<1> DEFINE I == {n \in Nat : passes[n] \in PassedOver(h, n)}
<1>4. 0 \in I
  <2>1. Len(h.startQueue) + 0 <= Len(h.startQueue)
    BY QueueWithin
  <2>2. h \in PassedOver(h, 0)
    BY <2>1 DEF PassedOver
  <2> QED BY <1>3, <2>2
<1>5. ASSUME NEW n \in Nat, n \in I PROVE n + 1 \in I
  <2>1. passes[n + 1] = DrainPass(passes[n], doomed)
    BY <1>3
  <2> QED BY <1>5, <2>1, PassOn
<1> HIDE DEF I
<1>6. N \in I
  BY <1>0, <1>4, <1>5, SetInduction
<1>7. passes[N] \in PassedOver(h, N)
  BY <1>6 DEF I
<1> HIDE DEF N
<1> DEFINE g == passes[N]
<1>8. g \in Hosts
  BY <1>7 DEF PassedOver
<1>9. Filled(g)
  <2>1. SUFFICES ASSUME Len(g.startQueue) + N <= Len(h.startQueue) PROVE g.startQueue = <<>>
    BY <1>7 DEF PassedOver, Filled
  <2>2. /\ Len(g.startQueue) \in Nat /\ Len(h.startQueue) \in Nat
        /\ Len(h.startQueue) <= N
    BY <1>8, QueueWithin DEF N
  <2>3. Len(g.startQueue) = 0
    BY <1>0, <2>1, <2>2
  <2> QED BY <1>8, <2>3, EmptySeq, StoreFields DEF Hosts
<1> QED BY <1>1, <1>7, <1>8, <1>9 DEF Drained, PassedOver

-----------------------------------------------------------------------------
(* Between two events *)

Steady == {h \in Hosts : Filled(h)}

\* A resident changes in what neither the queue nor the slots depend on.
LEMMA ReplacedSteady ==
  ASSUME NEW h \in Steady, NEW b \in Bots, h.residents[b] # None, NEW r \in Resident,
         r.worker = h.residents[b].worker,
         r.settled = h.residents[b].settled,
         ~r.worker => ~r.stopping
  PROVE  Replaced(h, b, r) \in Steady
<1> DEFINE g == Replaced(h, b, r)
<1>1. h \in HostStore /\ h \in Hosts /\ QueueInv(h) /\ SlotInv(h)
  BY DEF Steady, Hosts
<1>2. /\ g \in HostStore
      /\ g.residents = [h.residents EXCEPT ![b] = r]
      /\ g.startQueue = h.startQueue
      /\ g.starting = h.starting
  BY <1>1, ReplacedKeeps
<1> HIDE DEF g
<1>3. \A x \in Bots : g.residents[x] = IF x = b THEN r ELSE h.residents[x]
  BY <1>1, <1>2, StoreFields
<1>4. r # None
  BY ResidentFields
<1>5. QueueInv(g)
  BY <1>1, <1>2, <1>3, <1>4 DEF QueueInv, Queued
<1>6. Booting(g) = Booting(h)
  BY <1>3, <1>4 DEF Booting, Boots
<1>7. SlotInv(g)
  BY <1>1, <1>2, <1>6 DEF SlotInv
<1>8. Filled(g)
  BY <1>2 DEF Steady, Filled
<1> QED BY <1>2, <1>5, <1>7, <1>8 DEF g, Steady, Hosts

LEMMA SaySteady ==
  ASSUME NEW h \in Steady, NEW cs \in Seq(Controls), NEW ok \in BOOLEAN
  PROVE  /\ Say(h, cs, ok) \in Steady
         /\ Say(h, cs, ok).residents = h.residents
<1> DEFINE g == Say(h, cs, ok)
<1>1. h \in HostStore /\ QueueInv(h) /\ SlotInv(h) /\ Filled(h)
  BY DEF Steady, Hosts
<1>2. /\ g \in HostStore
      /\ g.residents = h.residents
      /\ g.startQueue = h.startQueue
      /\ g.starting = h.starting
  BY <1>1, SayKeeps
<1> HIDE DEF g
<1>3. QueueInv(g) /\ Filled(g)
  BY <1>1, <1>2 DEF QueueInv, Filled
<1>4. SlotInv(g)
  <2>1. Booting(g) = Booting(h)
    BY <1>2 DEF Booting
  <2> QED BY <1>1, <1>2, <2>1 DEF SlotInv
<1> QED BY <1>2, <1>3, <1>4 DEF g, Steady, Hosts

\* The news that a worker ended is as little to the slots.
LEMMA TellSteady ==
  ASSUME NEW h \in Steady, NEW b \in Bots
  PROVE  /\ [h EXCEPT !.toDesktop = Append(@, BotExit(b))] \in Steady
         /\ [h EXCEPT !.toDesktop = Append(@, BotExit(b))].residents = h.residents
<1> DEFINE g == [h EXCEPT !.toDesktop = Append(@, BotExit(b))]
<1>1. h \in HostStore /\ QueueInv(h) /\ SlotInv(h) /\ Filled(h)
  BY DEF Steady, Hosts
<1>2. BotExit(b) \in Messages
  BY DEF BotExit, Messages
<1>3. Append(h.toDesktop, BotExit(b)) \in Seq(Messages)
  BY <1>1, <1>2, StoreFields, AppendProperties
<1>4. /\ g \in HostStore
      /\ g.residents = h.residents
      /\ g.startQueue = h.startQueue
      /\ g.starting = h.starting
  BY <1>1, <1>3 DEF HostStore
<1> HIDE DEF g
<1>5. QueueInv(g) /\ Filled(g)
  BY <1>1, <1>4 DEF QueueInv, Filled
<1>6. SlotInv(g)
  <2>1. Booting(g) = Booting(h)
    BY <1>4 DEF Booting
  <2> QED BY <1>1, <1>4, <2>1 DEF SlotInv
<1> QED BY <1>4, <1>5, <1>6 DEF g, Steady, Hosts

\* The resident of b has a worker whose start is answered.
Answered(h, b) ==
  h.residents[b] # None /\ h.residents[b].worker /\ h.residents[b].settled

\* A resident whose start is answered, and the host that has said so and given
\* the slot up: what drain() finds when a worker's boot ends.
Readied(r) == [r EXCEPT !.settled = TRUE, !.starts = <<>>]
Announced(h, b, ok) ==
  Say(Replaced(h, b, Readied(h.residents[b])), h.residents[b].starts, ok)
Vacated(h, b, ok) == [Announced(h, b, ok) EXCEPT !.starting = @ - 1]

LEMMA SettleMakes ==
  ASSUME NEW h \in Steady, NEW b \in Bots, h.residents[b] # None,
         h.residents[b].worker, ~h.residents[b].settled, NEW ok \in BOOLEAN, NEW doomed
  PROVE  /\ Readied(h.residents[b]) \in Resident /\ Readied(h.residents[b]) # None
         /\ Readied(h.residents[b]).worker /\ Readied(h.residents[b]).settled
         /\ Replaced(h, b, Readied(h.residents[b])) \in HostStore
         /\ Replaced(h, b, Readied(h.residents[b])).residents
              = [h.residents EXCEPT ![b] = Readied(h.residents[b])]
         /\ Replaced(h, b, Readied(h.residents[b])).toDesktop = h.toDesktop
         /\ Settle(h, b, ok, doomed) = Drain(Vacated(h, b, ok), doomed)
         /\ Vacated(h, b, ok) \in Hosts
         /\ Vacated(h, b, ok).residents
              = [h.residents EXCEPT ![b] = Readied(h.residents[b])]
         /\ Vacated(h, b, ok).toDesktop = Announced(h, b, ok).toDesktop
<1> DEFINE r == h.residents[b]
           w == [r EXCEPT !.settled = TRUE, !.starts = <<>>]
           p == Replaced(h, b, w)
           said == Say(p, r.starts, ok)
           g == [said EXCEPT !.starting = @ - 1]
<1>0. h \in HostStore /\ h \in Hosts /\ QueueInv(h) /\ SlotInv(h) /\ Filled(h)
  BY DEF Steady, Hosts
<1>1. r \in Resident /\ r # None /\ r.starts \in Seq(Controls)
  BY <1>0, StoreFields, ResidentFields
<1>2. w \in Resident /\ w # None /\ w.worker /\ w.settled
  <2>1. <<>> \in Seq(Controls)
    BY EmptySeq
  <2>2. w \in Resident /\ w.worker /\ w.settled
    BY <1>1, <2>1 DEF Resident
  <2> QED BY <2>2, ResidentFields
<1>3. /\ p \in HostStore
      /\ p.residents = [h.residents EXCEPT ![b] = w]
      /\ p.startQueue = h.startQueue
      /\ p.starting = h.starting
      /\ p.toDesktop = h.toDesktop
  <2> HIDE DEF w
  <2>1. p.toDesktop = h.toDesktop
    BY <1>0 DEF Replaced, HostStore
  <2> QED BY <1>0, <1>2, <2>1, ReplacedKeeps
<1>4. Settle(h, b, ok, doomed) = Drain(g, doomed)
  <2>1. p = [h EXCEPT !.residents[b].settled = TRUE, !.residents[b].starts = <<>>]
    BY <1>0, <1>1 DEF Replaced, HostStore, Resident
  <2> QED BY <2>1 DEF Settle
<1> HIDE DEF w, p
<1>5. /\ said \in HostStore
      /\ said.residents = [h.residents EXCEPT ![b] = w]
      /\ said.startQueue = h.startQueue
      /\ said.starting = h.starting
  BY <1>1, <1>3, SayKeeps
<1> HIDE DEF said
<1>6. /\ g \in HostStore
      /\ g.residents = [h.residents EXCEPT ![b] = w]
      /\ g.startQueue = h.startQueue
      /\ g.starting = h.starting - 1
      /\ g.toDesktop = said.toDesktop
  BY <1>5 DEF HostStore
<1> HIDE DEF g
<1>7. \A x \in Bots : g.residents[x] = IF x = b THEN w ELSE h.residents[x]
  BY <1>0, <1>6, StoreFields
<1>8. QueueInv(g)
  BY <1>0, <1>2, <1>6, <1>7 DEF QueueInv, Queued
<1>9. /\ Cardinality(Booting(g)) = Cardinality(Booting(h)) - 1
      /\ Cardinality(Booting(h)) \in Nat
  <2>1. ~Boots(w) /\ Boots(h.residents[b])
    BY <1>1, <1>2 DEF Boots
  <2> QED BY <1>0, <1>2, <1>6, <2>1, BootingReplaced
<1>10. SlotInv(g)
  BY <1>0, <1>6, <1>9, HostAssumption DEF SlotInv
<1>11. g \in Hosts
  BY <1>6, <1>8, <1>10 DEF Hosts
<1> QED BY <1>2, <1>3, <1>4, <1>6, <1>11 DEF w, p, said, g, Readied, Announced, Vacated

\* The slot that a worker's boot took is given up, and given on.
LEMMA SettleWorker ==
  ASSUME NEW h \in Steady, NEW b \in Bots, h.residents[b] # None,
         h.residents[b].worker, NEW ok \in BOOLEAN, NEW doomed
  PROVE  Settle(h, b, ok, doomed) \in Steady /\ Answered(Settle(h, b, ok, doomed), b)
<1> DEFINE w == Readied(h.residents[b])
           g == Vacated(h, b, ok)
<1>0. h \in HostStore
  BY DEF Steady, Hosts
<1>1. CASE h.residents[b].settled
  BY <1>1 DEF Settle, Answered
<1>2. CASE ~h.residents[b].settled
  <2>1. /\ w \in Resident /\ w # None /\ w.worker /\ w.settled
        /\ Settle(h, b, ok, doomed) = Drain(g, doomed)
        /\ g \in Hosts /\ g.residents = [h.residents EXCEPT ![b] = w]
    BY <1>2, SettleMakes
  <2> HIDE DEF g, w
  <2>2. Drained(g, Drain(g, doomed))
    BY <2>1, DrainKeeps
  <2>3. g.residents[b] = w
    BY <1>0, <2>1, StoreFields
  <2>4. ~Contains(g.startQueue, b)
    BY <2>1, <2>3 DEF Hosts, QueueInv, Queued
  <2>5. Drain(g, doomed).residents[b] = w
    BY <2>2, <2>3, <2>4 DEF Drained
  <2> QED BY <2>1, <2>2, <2>5 DEF Drained, Steady, Answered
<1> QED BY <1>1, <1>2

\* A worker whose start is answered may go.
LEMMA RemoveWorker ==
  ASSUME NEW h \in Steady, NEW b \in Bots, Answered(h, b)
  PROVE  RemoveResident(h, b) \in Steady
<1> DEFINE g == RemoveResident(h, b)
<1>0. h \in HostStore /\ h \in Hosts /\ QueueInv(h) /\ SlotInv(h) /\ Filled(h)
  BY DEF Steady, Hosts
<1>1. /\ g \in HostStore
      /\ g.residents = [h.residents EXCEPT ![b] = None]
      /\ g.startQueue = h.startQueue
      /\ g.starting = h.starting
  BY <1>0, RemoveResidentKeeps DEF Answered
<1> HIDE DEF g
<1>2. \A x \in Bots : g.residents[x] = IF x = b THEN None ELSE h.residents[x]
  BY <1>0, <1>1, StoreFields
<1>3. QueueInv(g)
  BY <1>0, <1>1, <1>2 DEF QueueInv, Queued, Answered
<1>4. Booting(g) = Booting(h)
  BY <1>2 DEF Booting, Boots, Answered
<1>5. SlotInv(g) /\ Filled(g)
  BY <1>0, <1>1, <1>4 DEF SlotInv, Filled
<1> QED BY <1>1, <1>3, <1>5 DEF g, Steady, Hosts

\* stop() of a resident that still waits for its worker: it goes at once.
Rejects(h, b, doomed, left, v) ==
  /\ Stop(h, b, doomed) = RemoveResident(left, b)
  /\ v.by = h.residents[b].by /\ v.stops = h.residents[b].stops /\ v.starts = <<>>
  /\ v.requested = h.residents[b].requested
  /\ left.residents = [h.residents EXCEPT ![b] = v]
  /\ left.startQueue = RemoveFirst(h.startQueue, b)
  /\ left.starting = h.starting
  /\ left.toDesktop = Say(h, h.residents[b].starts, FALSE).toDesktop
  /\ Contains(h.startQueue, b)
  /\ IsInjective(RemoveFirst(h.startQueue, b))
  /\ \A x : Contains(RemoveFirst(h.startQueue, b), x)
              <=> Contains(h.startQueue, x) /\ x # b

LEMMA StopMakes ==
  ASSUME NEW h \in Steady, NEW b \in Bots, h.residents[b] # None,
         ~h.residents[b].stopping, ~h.residents[b].worker, NEW doomed
  PROVE  \E left \in HostStore, v \in Resident : Rejects(h, b, doomed, left, v)
<1> DEFINE r == h.residents[b]
           w == [r EXCEPT !.stopping = TRUE]
           p == Replaced(h, b, w)
           v == [w EXCEPT !.settled = TRUE, !.starts = <<>>]
           q == Replaced(p, b, v)
           said == Say(q, r.starts, FALSE)
           left == [said EXCEPT !.startQueue = RemoveFirst(@, b)]
<1>0. h \in HostStore /\ h \in Hosts /\ QueueInv(h) /\ SlotInv(h) /\ Filled(h)
  BY DEF Steady, Hosts
<1>1. r \in Resident /\ r # None /\ r.starts \in Seq(Controls)
  BY <1>0, StoreFields, ResidentFields
<1>2. /\ w \in Resident /\ w.by = r.by /\ w.stops = r.stops /\ w.requested = r.requested
      /\ w.worker = r.worker /\ w.settled = r.settled /\ w.starts = r.starts
  BY <1>1 DEF Resident
<1>3. p = [h EXCEPT !.residents[b].stopping = TRUE]
  BY <1>0, <1>1 DEF Replaced, HostStore, Resident
<1>4. p \in HostStore /\ p.residents = [h.residents EXCEPT ![b] = w]
      /\ p.startQueue = h.startQueue /\ p.starting = h.starting
      /\ p.toDesktop = h.toDesktop
  <2> HIDE DEF w
  <2>1. p.toDesktop = h.toDesktop
    BY <1>0 DEF Replaced, HostStore
  <2> QED BY <1>0, <1>2, <2>1, ReplacedKeeps
<1>5. p.residents[b] = w
  <2> HIDE DEF w, p
  <2> QED BY <1>0, <1>4, StoreFields
<1>6. ~r.settled /\ Contains(h.startQueue, b)
  BY <1>0, <1>1 DEF QueueInv, Queued
<1>7. /\ v \in Resident /\ v.by = r.by /\ v.stops = r.stops /\ v.starts = <<>>
      /\ v.requested = r.requested
  <2>1. <<>> \in Seq(Controls)
    BY EmptySeq
  <2> HIDE DEF w
  <2> QED BY <1>2, <2>1 DEF Resident
<1>8. q = [p EXCEPT !.residents[b].settled = TRUE, !.residents[b].starts = <<>>]
  <2> HIDE DEF w, p
  <2> QED BY <1>2, <1>4, <1>5 DEF Replaced, HostStore, Resident
<1>9. Settle(p, b, FALSE, doomed) = said
  <2> HIDE DEF w, p, q
  <2> QED BY <1>2, <1>5, <1>6, <1>8 DEF Settle
<1>10. Stop(h, b, doomed) = RemoveResident(left, b)
  <2> HIDE DEF p, said
  <2> QED BY <1>3, <1>9 DEF Stop
<1>11. /\ q \in HostStore
       /\ q.residents = [h.residents EXCEPT ![b] = v]
       /\ q.startQueue = h.startQueue
       /\ q.starting = h.starting
       /\ q.toDesktop = h.toDesktop
  <2>1. /\ q \in HostStore
        /\ q.residents = [p.residents EXCEPT ![b] = v]
        /\ q.startQueue = p.startQueue
        /\ q.starting = p.starting
        /\ q.toDesktop = p.toDesktop
    <3> HIDE DEF p, v
    <3>1. q.toDesktop = p.toDesktop
      BY <1>4 DEF Replaced, HostStore
    <3> QED BY <1>4, <1>7, <3>1, ReplacedKeeps
  <2> HIDE DEF p, q, w, v
  <2>2. [[h.residents EXCEPT ![b] = w] EXCEPT ![b] = v] = [h.residents EXCEPT ![b] = v]
    BY <1>0, StoreFields
  <2> QED BY <1>4, <2>1, <2>2
<1> HIDE DEF p, q, v, w
<1>12. /\ said \in HostStore
       /\ said.residents = [h.residents EXCEPT ![b] = v]
       /\ said.startQueue = h.startQueue
       /\ said.starting = h.starting
       /\ said.toDesktop = Say(h, r.starts, FALSE).toDesktop
  <2>1. said.toDesktop = Say(h, r.starts, FALSE).toDesktop
    BY <1>0, <1>11 DEF Say, HostStore
  <2> QED BY <1>1, <1>11, <2>1, SayKeeps
<1> HIDE DEF said
<1>13. /\ RemoveFirst(h.startQueue, b) \in Seq(Bots)
       /\ IsInjective(RemoveFirst(h.startQueue, b))
       /\ \A x : Contains(RemoveFirst(h.startQueue, b), x)
                    <=> Contains(h.startQueue, x) /\ x # b
  BY <1>0, StoreFields, RemoveFirstType, RemoveFirstOnce DEF QueueInv
<1>14. /\ left \in HostStore
       /\ left.residents = [h.residents EXCEPT ![b] = v]
       /\ left.startQueue = RemoveFirst(h.startQueue, b)
       /\ left.starting = h.starting
       /\ left.toDesktop = said.toDesktop
  BY <1>12, <1>13 DEF HostStore
<1> HIDE DEF left
<1>15. Rejects(h, b, doomed, left, v)
  BY <1>6, <1>7, <1>10, <1>12, <1>13, <1>14 DEF Rejects
<1> QED BY <1>7, <1>14, <1>15

\* stop() of a resident that is not stopping yet.
LEMMA StopSteady ==
  ASSUME NEW h \in Steady, NEW b \in Bots, h.residents[b] # None,
         ~h.residents[b].stopping, NEW doomed
  PROVE  Stop(h, b, doomed) \in Steady
<1> DEFINE r == h.residents[b]
           w == [r EXCEPT !.stopping = TRUE]
           p == Replaced(h, b, w)
<1>0. h \in HostStore /\ h \in Hosts /\ QueueInv(h) /\ SlotInv(h) /\ Filled(h)
  BY DEF Steady, Hosts
<1>1. r \in Resident /\ r # None
  BY <1>0, StoreFields, ResidentFields
<1>2. CASE r.worker
  <2>1. w \in Resident /\ w # None /\ w.worker = r.worker /\ w.settled = r.settled
    <3>1. w \in Resident /\ w.worker = r.worker /\ w.settled = r.settled
      BY <1>1 DEF Resident
    <3> QED BY <3>1, ResidentFields
  <2>2. p = [h EXCEPT !.residents[b].stopping = TRUE]
    BY <1>0, <1>1 DEF Replaced, HostStore, Resident
  <2>3. Stop(h, b, doomed) = Settle(p, b, FALSE, doomed)
    <3> HIDE DEF p
    <3> QED BY <1>2, <2>2 DEF Stop
  <2> HIDE DEF w
  <2>4. p \in Steady /\ p.residents[b] = w
    <3>1. p \in Steady
      BY <1>1, <1>2, <2>1, ReplacedSteady
    <3>2. p.residents = [h.residents EXCEPT ![b] = w]
      BY <1>0, <2>1, ReplacedKeeps
    <3> QED BY <1>0, <3>1, <3>2, StoreFields
  <2> HIDE DEF p
  <2> QED BY <1>2, <2>1, <2>3, <2>4, SettleWorker
<1>3. CASE ~r.worker
  <2>0. PICK left \in HostStore, v \in Resident : Rejects(h, b, doomed, left, v)
    BY <1>3, StopMakes
  <2>1. /\ Stop(h, b, doomed) = RemoveResident(left, b)
        /\ left.residents = [h.residents EXCEPT ![b] = v]
        /\ left.startQueue = RemoveFirst(h.startQueue, b)
        /\ left.starting = h.starting
        /\ Contains(h.startQueue, b)
        /\ IsInjective(RemoveFirst(h.startQueue, b))
        /\ \A x : Contains(RemoveFirst(h.startQueue, b), x)
                    <=> Contains(h.startQueue, x) /\ x # b
    BY <2>0 DEF Rejects
  <2> DEFINE g == RemoveResident(left, b)
  <2>2. left.residents[b] = v /\ v # None
    BY <1>0, <2>1, StoreFields, ResidentFields
  <2>3. /\ g \in HostStore
        /\ g.residents = [left.residents EXCEPT ![b] = None]
        /\ g.startQueue = RemoveFirst(h.startQueue, b)
        /\ g.starting = h.starting
    BY <2>1, <2>2, RemoveResidentKeeps
  <2> HIDE DEF g
  <2>4. \A x \in Bots : g.residents[x] = IF x = b THEN None ELSE h.residents[x]
    BY <1>0, <2>1, <2>3, StoreFields
  <2>5. QueueInv(g)
    BY <1>0, <2>1, <2>3, <2>4 DEF QueueInv, Queued
  <2>6. Booting(g) = Booting(h)
    BY <1>3, <2>4 DEF Booting, Boots
  <2>7. SlotInv(g)
    BY <1>0, <2>3, <2>6 DEF SlotInv
  <2>8. Filled(g)
    <3>1. h.startQueue # <<>>
      BY <1>0, <2>1, StoreFields, ContainsEmpty
    <3> QED BY <1>0, <2>3, <3>1 DEF Filled
  <2> QED BY <2>1, <2>3, <2>5, <2>7, <2>8 DEF Steady, Hosts, g
<1> QED BY <1>2, <1>3

\* start() of a bot that has no resident: it waits for a slot.
Accepts(h, c, doomed, g) ==
  /\ HandleStart(h, c, doomed) = Drain(g, doomed)
  /\ g.residents = [h.residents EXCEPT ![botOf[c.by]] = NewResident(c)]
  /\ g.toDesktop = h.toDesktop

LEMMA StartMakes ==
  ASSUME NEW h \in Steady, NEW c \in Controls, NEW doomed,
         h.residents[botOf[c.by]] = None, ~Full(h)
  PROVE  \E g \in Hosts : Accepts(h, c, doomed, g)
<1> DEFINE b == botOf[c.by]
           r == h.residents[b]
<1>1. h \in HostStore /\ h \in Hosts /\ QueueInv(h) /\ SlotInv(h) /\ Filled(h)
  BY DEF Steady, Hosts
<1>2. b \in Bots /\ c.by \in Backends
  BY HostAssumption DEF Controls
<1> HIDE DEF b
<1>3. <<c>> \in Seq(Controls)
  OBVIOUS
<1>4. r = None /\ ~Full(h)
  BY DEF b
<1> DEFINE w == NewResident(c)
           p == Replaced(h, b, w)
           g == [p EXCEPT !.startQueue = Append(@, b)]
<1>5. /\ w \in Resident /\ w # None
      /\ ~w.worker /\ ~w.settled /\ ~w.stopping
  <2>1. <<>> \in Seq(Controls)
    BY EmptySeq
  <2>2. w \in Resident /\ ~w.worker /\ ~w.settled /\ ~w.stopping
    BY <1>2, <1>3, <2>1 DEF NewResident, Resident
  <2> QED BY <2>2, ResidentFields
<1>6. HandleStart(h, c, doomed) = Drain(g, doomed)
  <2>1. g = [h EXCEPT !.residents[b] = NewResident(c), !.startQueue = Append(@, b)]
    BY <1>1 DEF Replaced, HostStore
  <2> QED BY <1>4, <2>1 DEF HandleStart, b
<1> HIDE DEF w
<1>7. /\ p \in HostStore
      /\ p.residents = [h.residents EXCEPT ![b] = w]
      /\ p.startQueue = h.startQueue
      /\ p.starting = h.starting
      /\ p.toDesktop = h.toDesktop
  <2>1. p.toDesktop = h.toDesktop
    BY <1>1 DEF Replaced, HostStore
  <2> QED BY <1>1, <1>2, <1>5, <2>1, ReplacedKeeps
<1> HIDE DEF p
<1>8. /\ Append(h.startQueue, b) \in Seq(Bots)
      /\ IsInjective(Append(h.startQueue, b))
      /\ \A x : Contains(Append(h.startQueue, b), x)
                  <=> Contains(h.startQueue, x) \/ x = b
  <2>1. h.startQueue \in Seq(Bots) /\ IsInjective(h.startQueue)
    BY <1>1, StoreFields DEF QueueInv
  <2>2. ~Contains(h.startQueue, b)
    BY <1>1, <1>2, <1>4 DEF QueueInv, Queued
  <2> QED BY <1>2, <2>1, <2>2, AppendOnce, AppendProperties
<1>9. /\ g \in HostStore
      /\ g.residents = [h.residents EXCEPT ![b] = w]
      /\ g.startQueue = Append(h.startQueue, b)
      /\ g.starting = h.starting
      /\ g.toDesktop = h.toDesktop
  BY <1>7, <1>8 DEF HostStore
<1> HIDE DEF g
<1>10. \A x \in Bots : g.residents[x] = IF x = b THEN w ELSE h.residents[x]
  BY <1>1, <1>9, StoreFields
<1>11. QueueInv(g)
  BY <1>1, <1>5, <1>8, <1>9, <1>10 DEF QueueInv, Queued
<1>12. Booting(g) = Booting(h)
  BY <1>4, <1>5, <1>10 DEF Booting, Boots
<1>13. g \in Hosts
  BY <1>1, <1>9, <1>11, <1>12 DEF SlotInv, Hosts
<1>14. Accepts(h, c, doomed, g)
  BY <1>6, <1>9 DEF Accepts, b, w
<1> QED BY <1>13, <1>14

\* start().
LEMMA HandleStartSteady ==
  ASSUME NEW h \in Steady, NEW c \in Controls, NEW doomed
  PROVE  HandleStart(h, c, doomed) \in Steady
<1> DEFINE b == botOf[c.by]
           r == h.residents[b]
<1>0. h \in HostStore /\ h \in Hosts /\ QueueInv(h) /\ SlotInv(h) /\ Filled(h)
  BY DEF Steady, Hosts
<1>1. b \in Bots /\ c.by \in Backends
  BY HostAssumption DEF Controls
<1> HIDE DEF b
<1>2. <<c>> \in Seq(Controls)
  OBVIOUS
<1>3. Say(h, <<c>>, TRUE) \in Steady /\ Say(h, <<c>>, FALSE) \in Steady
  BY <1>2, SaySteady
<1>4. CASE r # None
  <2> DEFINE w == [r EXCEPT !.starts = Append(@, c)]
  <2>1. r \in Resident /\ r.starts \in Seq(Controls)
    BY <1>0, <1>1, <1>4, StoreFields, ResidentFields
  <2>2. /\ w \in Resident
        /\ w.worker = r.worker /\ w.settled = r.settled /\ w.stopping = r.stopping
    <3>1. Append(r.starts, c) \in Seq(Controls)
      BY <2>1, AppendProperties
    <3> QED BY <2>1, <3>1 DEF Resident
  <2>3. Replaced(h, b, w) = [h EXCEPT !.residents[b].starts = Append(@, c)]
    BY <1>0, <1>1, <2>1 DEF Replaced, HostStore, Resident
  <2>4. ~w.worker => ~w.stopping
    BY <1>0, <1>1, <1>4, <2>2 DEF QueueInv, Queued
  <2> HIDE DEF w
  <2>5. Replaced(h, b, w) \in Steady
    BY <1>1, <1>4, <2>2, <2>4, ReplacedSteady
  <2> QED BY <1>3, <1>4, <2>3, <2>5 DEF HandleStart, b
<1>5. CASE r = None /\ Full(h)
  BY <1>3, <1>5 DEF HandleStart, b
<1>6. CASE r = None /\ ~Full(h)
  <2>1. PICK g \in Hosts : Accepts(h, c, doomed, g)
    BY <1>6, StartMakes DEF b
  <2>2. HandleStart(h, c, doomed) = Drain(g, doomed)
    BY <2>1 DEF Accepts
  <2>3. Drained(g, Drain(g, doomed))
    BY DrainKeeps
  <2> QED BY <2>2, <2>3 DEF Drained, Steady
<1> QED BY <1>4, <1>5, <1>6

\* The operation "stop".
LEMMA HandleStopSteady ==
  ASSUME NEW h \in Steady, NEW c \in Controls, NEW doomed
  PROVE  HandleStop(h, c, doomed) \in Steady
<1> DEFINE b == botOf[c.by]
           r == h.residents[b]
           v == [r EXCEPT !.requested = TRUE]
           w == [v EXCEPT !.stops = Append(@, c)]
           asked == Replaced(h, b, v)
           waits == Replaced(h, b, w)
<1>0. h \in HostStore /\ h \in Hosts /\ QueueInv(h) /\ SlotInv(h) /\ Filled(h)
  BY DEF Steady, Hosts
<1>1. b \in Bots /\ c.by \in Backends
  BY HostAssumption DEF Controls
<1> HIDE DEF b
<1>2. <<c>> \in Seq(Controls)
  OBVIOUS
<1>3. CASE r = None
  <2>1. Say(h, <<c>>, TRUE) \in Steady
    BY <1>2, SaySteady
  <2> QED BY <1>3, <2>1 DEF HandleStop, b
<1>4. CASE r # None
  <2>1. r \in Resident /\ r.stops \in Seq(Controls) /\ (~r.worker => ~r.stopping)
    BY <1>0, <1>1, <1>4, StoreFields, ResidentFields DEF QueueInv, Queued
  <2>2. /\ v \in Resident /\ v.stops = r.stops
        /\ v.worker = r.worker /\ v.settled = r.settled /\ v.stopping = r.stopping
    BY <2>1 DEF Resident
  <2>3. /\ asked = [h EXCEPT !.residents[b].requested = TRUE]
        /\ waits = [asked EXCEPT !.residents[b].stops = Append(@, c)]
    <3>1. asked = [h EXCEPT !.residents[b].requested = TRUE]
      BY <1>0, <1>1, <2>1 DEF Replaced, HostStore, Resident
    <3>2. asked \in HostStore /\ asked.residents = [h.residents EXCEPT ![b] = v]
      <4> HIDE DEF v
      <4> QED BY <1>0, <1>1, <2>2, ReplacedKeeps
    <3>3. asked.residents[b] = v
      <4> HIDE DEF asked, v
      <4> QED BY <1>0, <1>1, <3>2, StoreFields
    <3>4. [asked EXCEPT !.residents[b].stops = Append(@, c)] = Replaced(asked, b, w)
      <4> HIDE DEF asked, v
      <4> QED BY <1>1, <2>2, <3>2, <3>3 DEF Replaced, HostStore, Resident
    <3>5. Replaced(asked, b, w) = waits
      <4> HIDE DEF v, w
      <4> QED BY <1>0, <1>1 DEF Replaced, HostStore
    <3> QED BY <3>1, <3>4, <3>5
  <2>4. /\ w \in Resident
        /\ w.worker = r.worker /\ w.settled = r.settled /\ w.stopping = r.stopping
    <3>1. Append(v.stops, c) \in Seq(Controls)
      BY <2>1, <2>2, AppendProperties
    <3> HIDE DEF v
    <3> QED BY <2>2, <3>1 DEF Resident
  <2> HIDE DEF v, w
  <2>5. asked \in Steady /\ asked.residents = [h.residents EXCEPT ![b] = v]
    BY <1>0, <1>1, <1>4, <2>1, <2>2, ReplacedSteady, ReplacedKeeps
  <2>6. waits \in Steady /\ waits.residents = [h.residents EXCEPT ![b] = w]
    BY <1>0, <1>1, <1>4, <2>1, <2>4, ReplacedSteady, ReplacedKeeps
  <2>7. waits.residents[b] = w /\ w # None
    BY <1>0, <1>1, <2>4, <2>6, StoreFields, ResidentFields
  <2>8. Say(asked, <<c>>, FALSE) \in Steady
    BY <1>2, <2>5, SaySteady
  <2> HIDE DEF asked, waits
  <2>9. CASE ~r.stopping
    <3>1. Stop(waits, b, doomed) \in Steady
      BY <1>1, <2>4, <2>6, <2>7, <2>9, StopSteady
    <3> QED BY <1>4, <2>3, <2>9, <3>1 DEF HandleStop, b
  <2>10. CASE r.stopping
    BY <1>4, <2>3, <2>6, <2>8, <2>10 DEF HandleStop, b
  <2> QED BY <2>9, <2>10
<1> QED BY <1>3, <1>4

-----------------------------------------------------------------------------
(* The desktop's records *)

Maybe == Backends \cup {None}

StopState ==
  [at : {"none", "cancelling", "backend"}, target : Maybe, failed : BOOLEAN]

Places ==
  {"unused", "waiting", "stoppingOld", "preparing", "starting", "undoing", "done"}
Attempt == [at : Places, gen : Nat, old : Maybe]

\* Attempts whose backend has not been asked to start.
Early == {"unused", "waiting", "stoppingOld", "preparing"}

BackendState ==
  [phase : {"none", "booting", "ready", "degraded", "stopped"},
   owner : BOOLEAN, moved : BOOLEAN, startup : BOOLEAN,
   start : {"none", "control", "returned", "refused", "undo", "undone", "settled"},
   stop : {"none", "idle", "executions", "disconnected", "control", "confirmed",
           "unconfirmed"},
   awaited : [undo : Controls \cup {None}, stop : Controls \cup {None}],
   calls : Nat]

DeskStore ==
  [generation : [Bots -> Nat], backends : [Bots -> Maybe],
   activations : [Bots -> Maybe], stops : [Bots -> StopState],
   act : [Backends -> Attempt], backend : [Backends -> BackendState],
   hosts : [Bots -> Maybe], pending : SUBSET Controls, holding : SUBSET Bots,
   up : BOOLEAN, toHost : Seq(Controls)]

\* A start is under way exactly while its control is pending, and a backend
\* sends one at most; who awaits a control awaits a pending one.
StartOf(k) == {c \in Controls : c.op = "start" /\ c.by = k}
PendingInv(k, a, w, P) ==
  /\ w.start = "control" <=> P \cap StartOf(k) # {}
  /\ \A c, d \in P \cap StartOf(k) : c = d
  /\ w.awaited.undo \in P \cup {None}
  /\ w.awaited.stop \in P \cup {None}
  /\ a.at \in Early => w.start = "none"

Desks ==
  {s \in DeskStore :
     /\ \A b \in Bots : s.generation[b] <= MaxGeneration[b]
     /\ \A k \in Backends : PendingInv(k, s.act[k], s.backend[k], s.pending)}

LEMMA DeskFields ==
  ASSUME NEW s \in DeskStore
  PROVE  /\ s.generation \in [Bots -> Nat]
         /\ s.backends \in [Bots -> Maybe]
         /\ s.activations \in [Bots -> Maybe]
         /\ s.stops \in [Bots -> StopState]
         /\ s.act \in [Backends -> Attempt]
         /\ s.backend \in [Backends -> BackendState]
         /\ s.hosts \in [Bots -> Maybe]
         /\ s.pending \in SUBSET Controls
         /\ s.holding \in SUBSET Bots
         /\ s.up \in BOOLEAN
         /\ s.toHost \in Seq(Controls)
BY DEF DeskStore

LEMMA BackendFields ==
  ASSUME NEW w \in BackendState
  PROVE  /\ w.owner \in BOOLEAN /\ w.moved \in BOOLEAN /\ w.startup \in BOOLEAN
         /\ w.calls \in Nat
         /\ w.awaited \in [undo : Controls \cup {None}, stop : Controls \cup {None}]
BY DEF BackendState

\* What the bots are bound to is no matter of the controls.
LEMMA DeskKept ==
  ASSUME NEW s \in Desks, NEW t \in DeskStore,
         t.generation = s.generation, t.act = s.act, t.backend = s.backend,
         t.pending = s.pending
  PROVE  t \in Desks
BY DEF Desks

LEMMA SetBackends ==
  ASSUME NEW s \in Desks, NEW b \in Bots, NEW m \in Maybe
  PROVE  [s EXCEPT !.backends[b] = m] \in Desks
<1> DEFINE t == [s EXCEPT !.backends[b] = m]
<1>1. /\ t \in DeskStore /\ t.generation = s.generation /\ t.act = s.act
      /\ t.backend = s.backend /\ t.pending = s.pending
  BY DEF Desks, DeskStore
<1> HIDE DEF t
<1>2. t \in Desks
  BY <1>1, DeskKept
<1> QED BY <1>2 DEF t

\* A backend changes in what neither its start nor its controls depend on.
LEMMA SetBackend ==
  ASSUME NEW s \in Desks, NEW k \in Backends, NEW w \in BackendState,
         PendingInv(k, s.act[k], w, s.pending)
  PROVE  /\ [s EXCEPT !.backend[k] = w] \in Desks
         /\ [s EXCEPT !.backend[k] = w].backend[k] = w
<1> DEFINE t == [s EXCEPT !.backend[k] = w]
<1>1. /\ t \in DeskStore /\ t.generation = s.generation /\ t.act = s.act
      /\ t.backend = [s.backend EXCEPT ![k] = w] /\ t.pending = s.pending
  BY DEF Desks, DeskStore
<1> HIDE DEF t
<1>2. \A j \in Backends : t.backend[j] = IF j = k THEN w ELSE s.backend[j]
  BY <1>1, DeskFields DEF Desks
<1>3. t \in Desks
  BY <1>1, <1>2 DEF Desks
<1> QED BY <1>2, <1>3 DEF t

\* An attempt goes on.
LEMMA SetAct ==
  ASSUME NEW s \in Desks, NEW k \in Backends, NEW a \in Attempt,
         a.at \in Early => s.backend[k].start = "none"
  PROVE  /\ [s EXCEPT !.act[k] = a] \in Desks
         /\ [s EXCEPT !.act[k] = a].act[k] = a
<1> DEFINE t == [s EXCEPT !.act[k] = a]
<1>1. /\ t \in DeskStore /\ t.generation = s.generation /\ t.backend = s.backend
      /\ t.act = [s.act EXCEPT ![k] = a] /\ t.pending = s.pending
  BY DEF Desks, DeskStore
<1> HIDE DEF t
<1>2. \A j \in Backends : t.act[j] = IF j = k THEN a ELSE s.act[j]
  BY <1>1, DeskFields DEF Desks
<1>3. ASSUME NEW j \in Backends
      PROVE  PendingInv(j, t.act[j], t.backend[j], t.pending)
  <2>1. PendingInv(j, s.act[j], s.backend[j], s.pending)
    BY DEF Desks
  <2> QED BY <1>1, <1>2, <2>1 DEF PendingInv
<1>4. t \in Desks
  BY <1>1, <1>3 DEF Desks
<1> QED BY <1>2, <1>4 DEF t

-----------------------------------------------------------------------------
(* The operators of the client, the backends and the registry *)

LEMMA PendingOf ==
  ASSUME NEW s \in Desks, NEW k \in Backends
  PROVE  /\ PendingInv(k, s.act[k], s.backend[k], s.pending)
         /\ s.backend[k] \in BackendState
         /\ s.act[k] \in Attempt
         /\ botOf[k] \in Bots
         /\ s.hosts[botOf[k]] \in Maybe
         /\ s.backends[botOf[k]] \in Maybe
         /\ s.activations[botOf[k]] \in Maybe
<1>1. PendingInv(k, s.act[k], s.backend[k], s.pending) /\ s \in DeskStore
  BY DEF Desks
<1> QED BY <1>1, DeskFields, HostAssumption

\* releaseHost().
LEMMA ReleaseTyped ==
  ASSUME NEW s \in Desks, NEW b \in Bots, NEW notify \in BOOLEAN
  PROVE  /\ Release(s, b, notify) \in Desks
         /\ Release(s, b, notify).pending = s.pending
<1> DEFINE k == s.hosts[b]
           t == [s EXCEPT !.hosts[b] = None]
           w == [s.backend[k] EXCEPT !.owner = FALSE, !.phase = "degraded"]
           u == [t EXCEPT !.backend[k] = w]
           v == [u EXCEPT !.holding = s.holding \ {b}]
<1>0. s \in DeskStore
  BY DEF Desks
<1>1. t \in Desks /\ t.backend = s.backend /\ t.act = s.act /\ t.pending = s.pending
      /\ t.holding = s.holding
  <2>1. /\ t \in DeskStore /\ t.generation = s.generation /\ t.act = s.act
        /\ t.backend = s.backend /\ t.pending = s.pending /\ t.holding = s.holding
    BY <1>0 DEF DeskStore, Maybe
  <2> HIDE DEF t
  <2> QED BY <2>1, DeskKept
<1>2. CASE k = None \/ ~(notify /\ s.backend[k].owner)
  BY <1>1, <1>2 DEF Release
<1>3. CASE k # None /\ notify /\ s.backend[k].owner
  <2>1. k \in Backends
    BY <1>0, <1>3, DeskFields DEF Maybe
  <2>2. /\ w \in BackendState
        /\ PendingInv(k, t.act[k], w, t.pending)
    <3>1. s.backend[k] \in BackendState /\ PendingInv(k, s.act[k], s.backend[k], s.pending)
      BY <2>1, PendingOf
    <3>2. /\ w \in BackendState /\ w.start = s.backend[k].start
          /\ w.awaited = s.backend[k].awaited
      BY <1>1, <3>1 DEF BackendState
    <3> HIDE DEF w, t
    <3> QED BY <1>1, <3>1, <3>2 DEF PendingInv
  <2>3. u = [t EXCEPT !.backend[k].owner = FALSE, !.backend[k].phase = "degraded"]
    <3>1. t.backend[k] \in BackendState /\ t \in DeskStore
      BY <1>1, <2>1, PendingOf DEF Desks
    <3> HIDE DEF t
    <3> QED BY <1>1, <2>1, <3>1 DEF DeskStore, BackendState
  <2>4. Release(s, b, notify) = [u EXCEPT !.holding = @ \ {b}]
    <3>1. u.holding = s.holding
      BY <1>0, <1>1 DEF DeskStore
    <3> HIDE DEF u, t
    <3> QED BY <1>3, <2>3 DEF Release, t
  <2>5. u \in Desks /\ u.pending = s.pending /\ u.holding = s.holding
    <3>1. u \in Desks
      <4> HIDE DEF w, t
      <4> QED BY <1>1, <2>1, <2>2, SetBackend
    <3>2. u.pending = t.pending /\ u.holding = t.holding
      <4> HIDE DEF w, t
      <4> QED BY <1>1 DEF DeskStore, Desks
    <3> QED BY <1>1, <3>1, <3>2
  <2>6. /\ v \in DeskStore /\ v.generation = u.generation /\ v.act = u.act
        /\ v.backend = u.backend /\ v.pending = u.pending
    <3> HIDE DEF u
    <3> QED BY <1>0, <2>5 DEF Desks, DeskStore
  <2>7. v \in Desks
    <3> HIDE DEF u, v
    <3> QED BY <2>5, <2>6, DeskKept
  <2> HIDE DEF u
  <2> QED BY <2>4, <2>5, <2>6, <2>7
<1> QED BY <1>2, <1>3

\* A control and the binding it is sent for.
LEMMA ControlTyped ==
  ASSUME NEW s \in Desks, NEW k \in Backends, NEW op \in {"start", "undo", "stop"}
  PROVE  /\ Control(op, k, s) \in Controls
         /\ Control(op, k, s).op = op
         /\ Control(op, k, s).by = k
<1>1. s.hosts[botOf[k]] \in Maybe /\ s.backend[k].calls \in Nat
  BY PendingOf, BackendFields
<1> QED BY <1>1 DEF Control, Controls, Maybe

\* A control that is sent, and the backend that changes with it.
LEMMA CallTyped ==
  ASSUME NEW s \in Desks, NEW k \in Backends, NEW c \in Controls, c.by = k,
         NEW w \in BackendState,
         PendingInv(k, s.act[k], w, s.pending \cup {c}),
         NEW t \in DeskStore,
         t.generation = s.generation, t.act = s.act,
         t.backend = [s.backend EXCEPT ![k] = w],
         t.pending = s.pending \cup {c}
  PROVE  t \in Desks
<1> SUFFICES ASSUME NEW j \in Backends
             PROVE  PendingInv(j, t.act[j], t.backend[j], t.pending)
  BY DEF Desks
<1>1. t.backend[j] = IF j = k THEN w ELSE s.backend[j]
  BY DeskFields DEF Desks
<1>2. CASE j = k
  BY <1>1, <1>2
<1>3. CASE j # k
  <2>1. c \notin StartOf(j)
    BY <1>3 DEF StartOf
  <2>2. t.pending \cap StartOf(j) = s.pending \cap StartOf(j)
    BY <2>1
  <2>3. PendingInv(j, s.act[j], s.backend[j], s.pending)
    BY PendingOf
  <2> QED BY <1>1, <1>3, <2>2, <2>3 DEF PendingInv
<1> QED BY <1>2, <1>3

SameStarts(s, t) == \A j \in Backends : t.backend[j].start = s.backend[j].start

\* One backend changes, and not its start.
LEMMA SameStartsOf ==
  ASSUME NEW s \in DeskStore, NEW t, NEW k \in Backends, NEW w,
         w.start = s.backend[k].start, t.backend = [s.backend EXCEPT ![k] = w]
  PROVE  SameStarts(s, t)
BY DeskFields DEF SameStarts

\* stopBot(): the stop under way is shared, or a new one is sent.
LEMMA StopBotTyped ==
  ASSUME NEW s \in Desks, NEW k \in Backends, NEW op \in {"undo", "stop"}
  PROVE  /\ StopBot(s, k, op) \in Desks
         /\ SameStarts(s, StopBot(s, k, op))
         /\ StopBot(s, k, op).act = s.act
<1>0. /\ s \in DeskStore /\ s.backend[k] \in BackendState
      /\ PendingInv(k, s.act[k], s.backend[k], s.pending)
  BY PendingOf DEF Desks
<1> DEFINE Awaits(c) == [s.backend[k] EXCEPT !.awaited[op] = c]
<1>1. ASSUME NEW c \in Controls
      PROVE  /\ Awaits(c) \in BackendState
             /\ Awaits(c).start = s.backend[k].start
             /\ Awaits(c).awaited.undo \in {s.backend[k].awaited.undo, c}
             /\ Awaits(c).awaited.stop \in {s.backend[k].awaited.stop, c}
  <2>1. CASE op = "undo"
    BY <1>0, <2>1 DEF BackendState
  <2>2. CASE op = "stop"
    BY <1>0, <2>2 DEF BackendState
  <2> QED BY <2>1, <2>2
<1>2. CASE SharedStops(s, k) # {}
  <2> DEFINE c == CHOOSE x \in SharedStops(s, k) : TRUE
             w == Awaits(c)
  <2>1. c \in s.pending /\ c \in Controls
    BY <1>0, <1>2, DeskFields DEF SharedStops
  <2>2. StopBot(s, k, op) = [s EXCEPT !.backend[k] = w]
    BY <1>0, <1>2 DEF StopBot, DeskStore
  <2> HIDE DEF c
  <2>3. w \in BackendState /\ w.start = s.backend[k].start
    BY <1>1, <2>1
  <2>4. PendingInv(k, s.act[k], w, s.pending)
    BY <1>0, <1>1, <2>1 DEF PendingInv
  <2> HIDE DEF w
  <2>5. /\ [s EXCEPT !.backend[k] = w].act = s.act
        /\ [s EXCEPT !.backend[k] = w].backend = [s.backend EXCEPT ![k] = w]
    BY <1>0 DEF DeskStore
  <2> DEFINE t == [s EXCEPT !.backend[k] = w]
  <2>6. t \in Desks
    BY <2>3, <2>4, SetBackend
  <2>7. SameStarts(s, t)
    <3>1. t.backend = [s.backend EXCEPT ![k] = w]
      BY <2>5
    <3> HIDE DEF t
    <3> QED BY <1>0, <2>3, <3>1, SameStartsOf
  <2> QED BY <2>2, <2>5, <2>6, <2>7 DEF t
<1>3. CASE SharedStops(s, k) = {}
  <2> DEFINE c == Control(op, k, s)
             w == [Awaits(c) EXCEPT !.calls = @ + 1]
             t == [Call(s, c) EXCEPT !.backend[k].awaited[op] = c]
  <2>1. c \in Controls /\ c.op = op /\ c.by = k
    BY ControlTyped
  <2>2. StopBot(s, k, op) = t
    BY <1>3 DEF StopBot
  <2> HIDE DEF c
  <2>3. w \in BackendState /\ w.start = s.backend[k].start
        /\ w.awaited = Awaits(c).awaited
    <3>1. Awaits(c) \in BackendState
      BY <1>1, <2>1
    <3> HIDE DEF Awaits
    <3>2. w \in BackendState /\ w.start = Awaits(c).start /\ w.awaited = Awaits(c).awaited
      BY <3>1 DEF BackendState
    <3> QED BY <1>1, <2>1, <3>2
  <2>4. PendingInv(k, s.act[k], w, s.pending \cup {c})
    <3>1. (s.pending \cup {c}) \cap StartOf(k) = s.pending \cap StartOf(k)
      BY <2>1 DEF StartOf
    <3>2. /\ w.awaited.undo \in {s.backend[k].awaited.undo, c}
          /\ w.awaited.stop \in {s.backend[k].awaited.stop, c}
      BY <1>1, <2>1, <2>3
    <3> QED BY <1>0, <2>3, <3>1, <3>2 DEF PendingInv
  <2> DEFINE f == [s.backend EXCEPT ![k] = w]
             u == [s EXCEPT !.backend = f, !.pending = s.pending \cup {c},
                            !.toHost = Append(s.toHost, c)]
  <2>5. t = u
    <3> DEFINE x == [s.backend[k] EXCEPT !.calls = @ + 1]
               e == [s.backend EXCEPT ![k] = x]
               v == [s EXCEPT !.backend = e, !.pending = s.pending \cup {c},
                              !.toHost = Append(s.toHost, c)]
    <3>1. Call(s, c) = v
      BY <1>0, <2>1 DEF Call, DeskStore
    <3>2. w = [x EXCEPT !.awaited[op] = c]
      <4>1. CASE op = "undo"
        BY <1>0, <4>1 DEF BackendState
      <4>2. CASE op = "stop"
        BY <1>0, <4>2 DEF BackendState
      <4> QED BY <4>1, <4>2
    <3> HIDE DEF x, w
    <3>3. v.backend = e /\ e[k] = x
      BY <1>0, DeskFields DEF DeskStore
    <3>4. [e EXCEPT ![k] = w] = f
      BY <1>0, DeskFields
    <3>5. [v EXCEPT !.backend[k].awaited[op] = c] = [v EXCEPT !.backend = f]
      <4> HIDE DEF v, e, f
      <4>1. [e EXCEPT ![k].awaited[op] = c] = [e EXCEPT ![k] = w]
        BY <3>2, <3>3
      <4> QED BY <3>3, <3>4, <4>1
    <3>6. [v EXCEPT !.backend = f] = u
      <4> HIDE DEF e, f
      <4> QED BY <1>0 DEF DeskStore
    <3> QED BY <3>1, <3>5, <3>6
  <2>6. /\ u \in DeskStore
        /\ u.generation = s.generation /\ u.act = s.act
        /\ u.backend = [s.backend EXCEPT ![k] = w]
        /\ u.pending = s.pending \cup {c}
    <3>1. f \in [Backends -> BackendState]
      <4> HIDE DEF w
      <4> QED BY <1>0, <2>3, DeskFields
    <3>2. Append(s.toHost, c) \in Seq(Controls)
      BY <1>0, <2>1, DeskFields, AppendProperties
    <3>3. s.pending \cup {c} \in SUBSET Controls
      BY <1>0, <2>1, DeskFields
    <3>4. f = [s.backend EXCEPT ![k] = w]
      OBVIOUS
    <3> HIDE DEF f, w
    <3> QED BY <1>0, <3>1, <3>2, <3>3, <3>4 DEF DeskStore
  <2> HIDE DEF w, t, u, f
  <2>7. u \in Desks
    BY <2>1, <2>3, <2>4, <2>6, CallTyped
  <2> QED BY <1>0, <2>2, <2>3, <2>5, <2>6, <2>7, SameStartsOf
<1> QED BY <1>2, <1>3

\* What becomes of a backend k whose controls in C are settled.
Resolved(one, w, k, C, ok) ==
  /\ w.awaited = [undo |-> IF one.awaited.undo \in C THEN None ELSE one.awaited.undo,
                  stop |-> IF one.awaited.stop \in C THEN None ELSE one.awaited.stop]
  /\ w.start = IF one.start = "control" /\ \E c \in C : c.op = "start" /\ c.by = k
               THEN IF ok THEN "returned" ELSE "refused"
               ELSE IF one.start = "undo" /\ one.awaited.undo \in C THEN "undone"
               ELSE one.start
  /\ w.stop = IF one.stop = "control" /\ one.awaited.stop \in C
              THEN IF ok THEN "confirmed" ELSE "unconfirmed"
              ELSE one.stop
  /\ w.phase = one.phase /\ w.owner = one.owner /\ w.moved = one.moved
  /\ w.startup = one.startup /\ w.calls = one.calls
  /\ w = [one EXCEPT !.awaited = w.awaited, !.start = w.start, !.stop = w.stop]

LEMMA ResolveFields ==
  ASSUME NEW s \in Desks, NEW C \in SUBSET s.pending, NEW ok \in BOOLEAN, NEW k \in Backends
  PROVE  Resolved(s.backend[k], Resolve(s, C, ok).backend[k], k, C, ok)
<1> DEFINE t == Resolve(s, C, ok)
           one == s.backend[k]
           w == t.backend[k]
<1>1. one \in BackendState /\ s \in DeskStore
  BY PendingOf DEF Desks
<1> DEFINE f == [j \in Backends |->
      [s.backend[j] EXCEPT
         !.awaited.undo = IF @ \in C THEN None ELSE @,
         !.awaited.stop = IF @ \in C THEN None ELSE @,
         !.start = IF @ = "control" /\ \E c \in C : c.op = "start" /\ c.by = j
                   THEN IF ok THEN "returned" ELSE "refused"
                   ELSE IF @ = "undo" /\ s.backend[j].awaited.undo \in C THEN "undone"
                   ELSE @,
         !.stop = IF @ = "control" /\ s.backend[j].awaited.stop \in C
                  THEN IF ok THEN "confirmed" ELSE "unconfirmed"
                  ELSE @]]
<1>2. t.backend = f
  BY <1>1 DEF Resolve, DeskStore
<1>3. w = f[k]
  BY <1>2
<1>4. f[k] = [one EXCEPT
         !.awaited.undo = IF @ \in C THEN None ELSE @,
         !.awaited.stop = IF @ \in C THEN None ELSE @,
         !.start = IF @ = "control" /\ \E c \in C : c.op = "start" /\ c.by = k
                   THEN IF ok THEN "returned" ELSE "refused"
                   ELSE IF @ = "undo" /\ one.awaited.undo \in C THEN "undone"
                   ELSE @,
         !.stop = IF @ = "control" /\ one.awaited.stop \in C
                  THEN IF ok THEN "confirmed" ELSE "unconfirmed"
                  ELSE @]
  OBVIOUS
<1> HIDE DEF f, w, t, one
<1> DEFINE hasStart == \E c \in C : c.op = "start" /\ c.by = k
<1> HIDE DEF hasStart
<1>5. w = [one EXCEPT
         !.awaited.undo = IF @ \in C THEN None ELSE @,
         !.awaited.stop = IF @ \in C THEN None ELSE @,
         !.start = IF @ = "control" /\ hasStart
                   THEN IF ok THEN "returned" ELSE "refused"
                   ELSE IF @ = "undo" /\ one.awaited.undo \in C THEN "undone"
                   ELSE @,
         !.stop = IF @ = "control" /\ one.awaited.stop \in C
                  THEN IF ok THEN "confirmed" ELSE "unconfirmed"
                  ELSE @]
  BY <1>3, <1>4 DEF hasStart
<1>6. /\ w.awaited = [undo |-> IF one.awaited.undo \in C THEN None ELSE one.awaited.undo,
                      stop |-> IF one.awaited.stop \in C THEN None ELSE one.awaited.stop]
      /\ w.start = IF one.start = "control" /\ hasStart
                   THEN IF ok THEN "returned" ELSE "refused"
                   ELSE IF one.start = "undo" /\ one.awaited.undo \in C THEN "undone"
                   ELSE one.start
      /\ w.stop = IF one.stop = "control" /\ one.awaited.stop \in C
                  THEN IF ok THEN "confirmed" ELSE "unconfirmed"
                  ELSE one.stop
      /\ w.phase = one.phase /\ w.owner = one.owner /\ w.moved = one.moved
      /\ w.startup = one.startup /\ w.calls = one.calls
  BY <1>1, <1>5 DEF BackendState
<1>7. w = [one EXCEPT !.awaited = w.awaited, !.start = w.start, !.stop = w.stop]
  BY <1>1, <1>5, <1>6, ZenonT(60) DEF BackendState
<1>8. Resolved(one, w, k, C, ok)
  BY <1>6, <1>7 DEF hasStart, Resolved
<1> QED BY <1>8 DEF one, w, t

\* Controls are settled: who awaited them goes on.
LEMMA ResolveTyped ==
  ASSUME NEW s \in Desks, NEW C \in SUBSET s.pending, NEW ok \in BOOLEAN
  PROVE  /\ Resolve(s, C, ok) \in Desks
         /\ Resolve(s, C, ok).pending = s.pending \ C
<1> DEFINE t == Resolve(s, C, ok)
<1>0. s \in DeskStore /\ s.pending \in SUBSET Controls
  BY DeskFields DEF Desks
<1>1. /\ t.generation = s.generation /\ t.act = s.act
      /\ t.pending = s.pending \ C
  BY <1>0 DEF Resolve, DeskStore
<1>2. ASSUME NEW k \in Backends
      PROVE  /\ t.backend[k] \in BackendState
             /\ PendingInv(k, t.act[k], t.backend[k], t.pending)
  <2> DEFINE one == s.backend[k]
             w == t.backend[k]
  <2>1. one \in BackendState /\ PendingInv(k, s.act[k], one, s.pending)
    BY PendingOf
  <2>2. Resolved(one, w, k, C, ok)
    BY ResolveFields
  <2> HIDE DEF one, w
  <2> USE DEF Resolved
  <2>3. w \in BackendState
    <3>1. w.awaited \in [undo : Controls \cup {None}, stop : Controls \cup {None}]
      BY <2>1, <2>2, BackendFields
    <3>2. w.start \in {"none", "control", "returned", "refused", "undo", "undone", "settled"}
      BY <2>1, <2>2 DEF BackendState
    <3>3. w.stop \in {"none", "idle", "executions", "disconnected", "control", "confirmed",
                      "unconfirmed"}
      BY <2>1, <2>2 DEF BackendState
    <3> QED BY <2>1, <2>2, <3>1, <3>2, <3>3 DEF BackendState
  <2>4. (\E c \in C : c.op = "start" /\ c.by = k) <=> C \cap StartOf(k) # {}
    BY <1>0 DEF StartOf
  <2>5. PendingInv(k, s.act[k], w, s.pending \ C)
    <3>1. w.start = "control" <=> (s.pending \ C) \cap StartOf(k) # {}
      BY <2>1, <2>2, <2>4 DEF PendingInv
    <3>2. \A c, d \in (s.pending \ C) \cap StartOf(k) : c = d
      BY <2>1 DEF PendingInv
    <3>3. w.awaited.undo \in (s.pending \ C) \cup {None}
      BY <2>1, <2>2 DEF PendingInv
    <3>4. w.awaited.stop \in (s.pending \ C) \cup {None}
      BY <2>1, <2>2 DEF PendingInv
    <3>5. s.act[k].at \in Early => w.start = "none"
      BY <2>1, <2>2 DEF PendingInv
    <3> QED BY <3>1, <3>2, <3>3, <3>4, <3>5 DEF PendingInv
  <2> QED BY <1>1, <2>3, <2>5 DEF w
<1>3. t \in DeskStore
  <2>1. t = [s EXCEPT !.pending = s.pending \ C, !.backend = [k \in Backends |-> t.backend[k]]]
    <3>1. t = [s EXCEPT !.pending = s.pending \ C, !.backend = t.backend]
      BY <1>0 DEF Resolve, DeskStore
    <3>2. t.backend = [k \in Backends |-> t.backend[k]]
      BY <1>0 DEF Resolve, DeskStore
    <3> QED BY <3>1, <3>2
  <2> HIDE DEF t
  <2>2. [k \in Backends |-> t.backend[k]] \in [Backends -> BackendState]
    BY <1>2
  <2> QED BY <1>0, <2>1, <2>2 DEF DeskStore
<1> HIDE DEF t
<1>4. t \in Desks
  <2>1. t.generation = s.generation
    BY <1>1
  <2> QED BY <1>2, <1>3, <2>1 DEF Desks
<1> QED BY <1>1, <1>4 DEF t

\* A control's answer.
LEMMA SettleControlTyped ==
  ASSUME NEW s \in Desks, NEW c \in s.pending, NEW ok \in BOOLEAN
  PROVE  SettleControl(s, c, ok) \in Desks
<1> DEFINE b == botOf[c.by]
           r == Release(s, b, FALSE)
           p == PendingStarts(r, b)
<1>1. c \in Controls /\ b \in Bots
  BY DeskFields, HostAssumption DEF Desks, Controls
<1>2. CASE ok /\ c.op # "start" /\ c.bound # None /\ s.hosts[b] = c.bound
  <2>1. r \in Desks /\ r.pending = s.pending
    BY <1>1, ReleaseTyped
  <2> HIDE DEF r
  <2>2. p \in SUBSET r.pending /\ c \notin p
    BY <1>2 DEF PendingStarts
  <2> HIDE DEF p
  <2>3. Resolve(r, p, FALSE) \in Desks /\ Resolve(r, p, FALSE).pending = r.pending \ p
    BY <2>1, <2>2, ResolveTyped
  <2>4. Resolve(Resolve(r, p, FALSE), {c}, TRUE) \in Desks
    BY <2>1, <2>2, <2>3, ResolveTyped
  <2> QED BY <1>2, <2>4 DEF SettleControl, CancelPendingStart, r, p
<1>3. CASE ~(ok /\ c.op # "start" /\ c.bound # None /\ s.hosts[b] = c.bound)
  <2>1. Resolve(s, {c}, ok) \in Desks
    BY ResolveTyped
  <2> QED BY <1>3, <2>1 DEF SettleControl
<1> QED BY <1>2, <1>3

\* A backend changes in nothing that its start and its controls depend on.
LEMMA BackendChanged ==
  ASSUME NEW s \in Desks, NEW k \in Backends, NEW w \in BackendState,
         w.start = s.backend[k].start, w.awaited = s.backend[k].awaited
  PROVE  /\ [s EXCEPT !.backend[k] = w] \in Desks
         /\ [s EXCEPT !.backend[k] = w].backend[k] = w
         /\ [s EXCEPT !.backend[k] = w].act = s.act
         /\ [s EXCEPT !.backend[k] = w].pending = s.pending
         /\ SameStarts(s, [s EXCEPT !.backend[k] = w])
<1>1. PendingInv(k, s.act[k], w, s.pending)
  BY PendingOf DEF PendingInv
<1>2. /\ [s EXCEPT !.backend[k] = w].act = s.act
      /\ [s EXCEPT !.backend[k] = w].pending = s.pending
      /\ [s EXCEPT !.backend[k] = w].backend = [s.backend EXCEPT ![k] = w]
      /\ s \in DeskStore
  BY DEF Desks, DeskStore
<1> DEFINE t == [s EXCEPT !.backend[k] = w]
<1>3. t \in Desks /\ t.backend[k] = w
  BY <1>1, SetBackend
<1>4. SameStarts(s, t)
  <2>1. t.backend = [s.backend EXCEPT ![k] = w]
    BY <1>2
  <2> HIDE DEF t
  <2> QED BY <1>2, <2>1, SameStartsOf
<1> QED BY <1>2, <1>3, <1>4

\* So does one whose start goes on from one step to another, neither of which
\* has its control pending.
LEMMA StartChanged ==
  ASSUME NEW s \in Desks, NEW k \in Backends, NEW w \in BackendState,
         s.backend[k].start \notin {"none", "control"},
         w.start # "control", w.awaited = s.backend[k].awaited
  PROVE  /\ [s EXCEPT !.backend[k] = w] \in Desks
         /\ [s EXCEPT !.backend[k] = w].backend[k] = w
         /\ [s EXCEPT !.backend[k] = w].holding = s.holding
<1>1. PendingInv(k, s.act[k], w, s.pending)
  BY PendingOf DEF PendingInv
<1>2. [s EXCEPT !.backend[k] = w].holding = s.holding
  BY DEF Desks, DeskStore
<1> QED BY <1>1, <1>2, SetBackend

LEMMA SetHolding ==
  ASSUME NEW s \in Desks, NEW B \in SUBSET Bots
  PROVE  [s EXCEPT !.holding = B] \in Desks
<1> DEFINE t == [s EXCEPT !.holding = B]
<1>1. /\ t \in DeskStore /\ t.generation = s.generation /\ t.act = s.act
      /\ t.backend = s.backend /\ t.pending = s.pending
  BY DEF Desks, DeskStore
<1> HIDE DEF t
<1>2. t \in Desks
  BY <1>1, DeskKept
<1> QED BY <1>2 DEF t

LEMMA SetActivation ==
  ASSUME NEW s \in Desks, NEW b \in Bots, NEW m \in Maybe
  PROVE  /\ [s EXCEPT !.activations[b] = m] \in Desks
         /\ [s EXCEPT !.activations[b] = m].act = s.act
         /\ [s EXCEPT !.activations[b] = m].backend = s.backend
<1> DEFINE t == [s EXCEPT !.activations[b] = m]
<1>1. /\ t \in DeskStore /\ t.generation = s.generation /\ t.act = s.act
      /\ t.backend = s.backend /\ t.pending = s.pending
  BY DEF Desks, DeskStore
<1> HIDE DEF t
<1>2. t \in Desks
  BY <1>1, DeskKept
<1> QED BY <1>1, <1>2 DEF t

LEMMA SetStops ==
  ASSUME NEW s \in Desks, NEW b \in Bots, NEW x \in StopState
  PROVE  /\ [s EXCEPT !.stops[b] = x] \in Desks
         /\ [s EXCEPT !.stops[b] = x].act = s.act
         /\ [s EXCEPT !.stops[b] = x].backend = s.backend
<1> DEFINE t == [s EXCEPT !.stops[b] = x]
<1>1. /\ t \in DeskStore /\ t.generation = s.generation /\ t.act = s.act
      /\ t.backend = s.backend /\ t.pending = s.pending
  BY DEF Desks, DeskStore
<1> HIDE DEF t
<1>2. t \in Desks
  BY <1>1, DeskKept
<1> QED BY <1>1, <1>2 DEF t

\* stopNamed() up to its await.
LEMMA AskToStopTyped ==
  ASSUME NEW s \in Desks, NEW k \in Backends
  PROVE  /\ AskToStop(s, k) \in Desks
         /\ AskToStop(s, k).act = s.act
         /\ SameStarts(s, AskToStop(s, k))
<1>1. ASSUME NEW t \in Desks, NEW x \in {"control", "unconfirmed"}
      PROVE  /\ [t EXCEPT !.backend[k].stop = x] \in Desks
             /\ [t EXCEPT !.backend[k].stop = x].act = t.act
             /\ SameStarts(t, [t EXCEPT !.backend[k].stop = x])
  <2> DEFINE w == [t.backend[k] EXCEPT !.stop = x]
  <2>1. w \in BackendState /\ w.start = t.backend[k].start /\ w.awaited = t.backend[k].awaited
    BY <1>1, PendingOf DEF BackendState
  <2>2. [t EXCEPT !.backend[k].stop = x] = [t EXCEPT !.backend[k] = w]
    BY <1>1 DEF Desks, DeskStore
  <2> HIDE DEF w
  <2> QED BY <1>1, <2>1, <2>2, BackendChanged
<1>2. CASE s.up
  <2> DEFINE t == StopBot(s, k, "stop")
  <2>1. t \in Desks /\ t.act = s.act /\ SameStarts(s, t)
    BY StopBotTyped
  <2> HIDE DEF t
  <2> QED BY <1>1, <1>2, <2>1 DEF AskToStop, t, SameStarts
<1>3. CASE ~s.up
  BY <1>1, <1>3 DEF AskToStop
<1> QED BY <1>2, <1>3

\* stop() of a backend.
LEMMA StopBackendTyped ==
  ASSUME NEW s \in Desks, NEW k \in Backends
  PROVE  /\ StopBackend(s, k) \in Desks
         /\ StopBackend(s, k).act = s.act
         /\ SameStarts(s, StopBackend(s, k))
<1> DEFINE v == [s.backend[k] EXCEPT !.moved = TRUE]
           moved == [s EXCEPT !.backend[k] = v]
<1>1. v \in BackendState /\ v.start = s.backend[k].start /\ v.awaited = s.backend[k].awaited
  <2>1. s.backend[k] \in BackendState
    BY PendingOf
  <2> QED BY <2>1 DEF BackendState
<1>2. moved = [s EXCEPT !.backend[k].moved = TRUE]
  BY DEF Desks, DeskStore
<1> HIDE DEF v
<1>3. moved \in Desks /\ moved.backend[k] = v /\ moved.act = s.act /\ SameStarts(s, moved)
  BY <1>1, BackendChanged
<1> HIDE DEF moved
<1>4. ASSUME NEW x \in {"idle", "executions"}
      PROVE  /\ [moved EXCEPT !.backend[k].stop = x] \in Desks
             /\ [moved EXCEPT !.backend[k].stop = x].act = s.act
             /\ SameStarts(s, [moved EXCEPT !.backend[k].stop = x])
  <2> DEFINE w == [v EXCEPT !.stop = x]
  <2>1. w \in BackendState /\ w.start = v.start /\ w.awaited = v.awaited
    BY <1>1, <1>4 DEF BackendState
  <2>2. [moved EXCEPT !.backend[k].stop = x] = [moved EXCEPT !.backend[k] = w]
    BY <1>3 DEF Desks, DeskStore
  <2> HIDE DEF w
  <2>3. SameStarts(moved, [moved EXCEPT !.backend[k] = w])
    BY <1>1, <1>3, <2>1, BackendChanged
  <2>4. SameStarts(s, [moved EXCEPT !.backend[k] = w])
    BY <1>3, <2>3 DEF SameStarts
  <2> QED BY <1>1, <1>3, <2>1, <2>2, <2>4, BackendChanged
<1>5. CASE s.backend[k].stop # "none"
  BY <1>5 DEF StopBackend, SameStarts
<1>6. CASE s.backend[k].stop = "none" /\ ~s.backend[k].owner
  BY <1>2, <1>4, <1>6 DEF StopBackend
<1>7. CASE s.backend[k].stop = "none" /\ s.backend[k].owner /\ s.backend[k].phase = "ready"
  BY <1>2, <1>4, <1>7 DEF StopBackend
<1>8. CASE s.backend[k].stop = "none" /\ s.backend[k].owner /\ s.backend[k].phase # "ready"
  <2>1. StopBackend(s, k) = AskToStop(moved, k)
    BY <1>2, <1>8 DEF StopBackend
  <2> QED BY <1>1, <1>3, <2>1, AskToStopTyped DEF SameStarts
<1> QED BY <1>5, <1>6, <1>7, <1>8

\* The catch of startNamed().
LEMMA StartFailedTyped ==
  ASSUME NEW s \in Desks, NEW k \in Backends, s.backend[k].start \notin {"none", "control"}
  PROVE  StartFailed(s, k) \in Desks
<1> DEFINE b == botOf[k]
           one == s.backend[k]
           lost == one.owner /\ s.hosts[b] = None
           v == [one EXCEPT !.start = "settled", !.startup = FALSE]
           w == [v EXCEPT !.phase = "degraded", !.owner = @ /\ ~lost]
           t == [s EXCEPT !.backend[k] = w]
           B == IF lost THEN s.holding \ {b} ELSE s.holding
<1>0. s \in DeskStore /\ one \in BackendState /\ b \in Bots
  BY PendingOf DEF Desks
<1>1. v \in BackendState /\ v.start = "settled" /\ v.awaited = one.awaited
  BY <1>0 DEF BackendState
<1>2. w \in BackendState /\ w.start = "settled" /\ w.awaited = one.awaited
  <2> HIDE DEF lost
  <2> QED BY <1>0 DEF BackendState
<1>3. CASE one.moved
  <2>1. StartFailed(s, k) = [s EXCEPT !.backend[k] = v]
    BY <1>0, <1>3 DEF StartFailed, DeskStore
  <2> HIDE DEF v
  <2> QED BY <1>1, <2>1, StartChanged
<1>4. CASE ~one.moved
  <2>1. StartFailed(s, k) = [t EXCEPT !.holding = B]
    <3> DEFINE settled == [s EXCEPT !.backend[k] = v]
    <3>1. settled = [s EXCEPT !.backend[k].start = "settled", !.backend[k].startup = FALSE]
      BY <1>0 DEF DeskStore
    <3>2. settled.backend[k] = v /\ settled.holding = s.holding /\ v.owner = one.owner
      BY <1>0 DEF DeskStore, BackendState
    <3>3. StartFailed(s, k) =
            [settled EXCEPT !.backend[k].phase = "degraded",
                            !.backend[k].owner = @ /\ ~lost,
                            !.holding = IF lost THEN @ \ {b} ELSE @]
      <4> HIDE DEF settled
      <4> QED BY <1>4, <3>1 DEF StartFailed
    <3>4. [settled EXCEPT !.backend[k].phase = "degraded",
                          !.backend[k].owner = @ /\ ~lost,
                          !.holding = IF lost THEN @ \ {b} ELSE @]
            = [settled EXCEPT !.backend[k] = w, !.holding = B]
      <4> HIDE DEF lost, settled, v
      <4> QED BY <3>2, ZenonT(60)
    <3>5. [settled EXCEPT !.backend[k] = w, !.holding = B] = [t EXCEPT !.holding = B]
      <4> HIDE DEF w, v, B
      <4> QED BY <1>0 DEF DeskStore
    <3> QED BY <3>3, <3>4, <3>5
  <2>2. B \in SUBSET Bots
    BY <1>0, DeskFields
  <2> HIDE DEF w, B
  <2>3. t \in Desks
    BY <1>2, StartChanged
  <2> QED BY <2>1, <2>2, <2>3, SetHolding
<1> QED BY <1>3, <1>4

\* startBot() returned.
LEMMA StartReturnedTyped ==
  ASSUME NEW s \in Desks, NEW k \in Backends, s.backend[k].start \notin {"none", "control"}
  PROVE  StartReturned(s, k) \in Desks
<1> DEFINE one == s.backend[k]
           w == [one EXCEPT !.start = "settled", !.startup = FALSE,
                            !.phase = IF one.moved THEN @ ELSE "ready"]
<1>0. s \in DeskStore /\ one \in BackendState
  BY PendingOf DEF Desks
<1>1. CASE ~one.owner
  BY <1>1, StartFailedTyped DEF StartReturned
<1>2. CASE one.owner
  <2>1. w \in BackendState /\ w.start = "settled" /\ w.awaited = one.awaited
    BY <1>0 DEF BackendState
  <2>2. StartReturned(s, k) = [s EXCEPT !.backend[k] = w]
    BY <1>0, <1>2 DEF StartReturned, DeskStore
  <2> HIDE DEF w
  <2> QED BY <2>1, <2>2, StartChanged
<1> QED BY <1>1, <1>2

\* The catch of startBot().
LEMMA StartRefusedTyped ==
  ASSUME NEW s \in Desks, NEW k \in Backends, s.backend[k].start \notin {"none", "control"}
  PROVE  StartRefused(s, k) \in Desks
<1> DEFINE t == StopBot(s, k, "undo")
           w == [t.backend[k] EXCEPT !.start = "undo"]
<1>1. CASE s.hosts[botOf[k]] # k
  BY <1>1, StartFailedTyped DEF StartRefused
<1>2. CASE s.hosts[botOf[k]] = k
  <2>1. t \in Desks /\ t.backend[k].start = s.backend[k].start
    BY StopBotTyped DEF SameStarts
  <2>2. StartRefused(s, k) = [t EXCEPT !.backend[k].start = "undo"]
    BY <1>2 DEF StartRefused
  <2> HIDE DEF t
  <2>3. w \in BackendState /\ w.start = "undo" /\ w.awaited = t.backend[k].awaited
    BY <2>1, PendingOf DEF BackendState
  <2>4. [t EXCEPT !.backend[k].start = "undo"] = [t EXCEPT !.backend[k] = w]
    BY <2>1 DEF Desks, DeskStore
  <2> HIDE DEF w
  <2> QED BY <2>1, <2>2, <2>3, <2>4, StartChanged
<1> QED BY <1>1, <1>2

\* startNamed() up to its await, for a backend that was not started.
LEMMA StartNamedTyped ==
  ASSUME NEW s \in Desks, NEW k \in Backends, s.backend[k].start = "none",
         s.act[k].at \notin Early
  PROVE  StartNamed(s, k) \in Desks
<1> DEFINE b == botOf[k]
           one == s.backend[k]
           v == [one EXCEPT !.phase = "booting", !.startup = TRUE, !.owner = s.up]
<1>0. /\ s \in DeskStore /\ one \in BackendState /\ b \in Bots
      /\ PendingInv(k, s.act[k], one, s.pending)
  BY PendingOf DEF Desks
<1>1. CASE ~s.up \/ s.hosts[b] # None
  <2> DEFINE w == [v EXCEPT !.start = "undone"]
  <2>1. w \in BackendState /\ w.start = "undone" /\ w.awaited = one.awaited
    <3>1. /\ v \in BackendState /\ v.start = "none" /\ v.awaited = one.awaited
      BY <1>0, DeskFields DEF BackendState
    <3> HIDE DEF v
    <3> QED BY <3>1 DEF BackendState
  <2>2. StartNamed(s, k) = [s EXCEPT !.backend[k] = w]
    <3>1. [s EXCEPT !.backend[k].phase = "booting", !.backend[k].startup = TRUE,
                    !.backend[k].owner = s.up] = [s EXCEPT !.backend[k] = v]
      BY <1>0 DEF DeskStore
    <3>2. StartNamed(s, k) = [[s EXCEPT !.backend[k] = v] EXCEPT !.backend[k].start = "undone"]
      <4> HIDE DEF v
      <4> QED BY <1>1, <3>1 DEF StartNamed
    <3> HIDE DEF v
    <3> QED BY <1>0, <3>2, ZenonT(60) DEF DeskStore
  <2>3. PendingInv(k, s.act[k], w, s.pending)
    <3> HIDE DEF w
    <3> QED BY <1>0, <2>1 DEF PendingInv
  <2> HIDE DEF w
  <2> QED BY <2>1, <2>2, <2>3, SetBackend
<1>2. CASE s.up /\ s.hosts[b] = None
  <2> DEFINE booting == [s EXCEPT !.backend[k] = v]
             bound == [booting EXCEPT !.hosts[b] = k, !.holding = @ \cup {b}]
             c == Control("start", k, bound)
             w == [v EXCEPT !.calls = @ + 1, !.start = "control"]
             t == [bound EXCEPT !.backend[k] = w, !.pending = @ \cup {c},
                                !.toHost = Append(@, c)]
  <2>0. v \in BackendState /\ v.start = "none" /\ v.awaited = one.awaited
    BY <1>0, DeskFields DEF BackendState
  <2>1. /\ v \in BackendState /\ v.start = "none" /\ v.awaited = one.awaited
        /\ w \in BackendState /\ w.start = "control" /\ w.awaited = one.awaited
    <3> HIDE DEF v
    <3>1. v.calls + 1 \in Nat
      BY <2>0, BackendFields
    <3> QED BY <2>0, <3>1 DEF BackendState
  <2>2. /\ booting \in Desks /\ booting.backend[k] = v /\ booting.act = s.act
        /\ booting.pending = s.pending
    <3> HIDE DEF v
    <3> QED BY <2>1, BackendChanged
  <2>3. /\ bound \in Desks /\ bound.backend = booting.backend /\ bound.act = s.act
        /\ bound.pending = s.pending
    <3> HIDE DEF booting
    <3>1. /\ bound \in DeskStore /\ bound.generation = booting.generation
          /\ bound.act = booting.act /\ bound.backend = booting.backend
          /\ bound.pending = booting.pending
      BY <1>0, <2>2 DEF Desks, DeskStore, Maybe
    <3> HIDE DEF bound
    <3> QED BY <2>2, <3>1, DeskKept
  <2>4. StartNamed(s, k) = [Call(bound, c) EXCEPT !.backend[k].start = "control"]
    <3>1. booting = [s EXCEPT !.backend[k].phase = "booting", !.backend[k].startup = TRUE,
                              !.backend[k].owner = s.up]
      BY <1>0 DEF DeskStore
    <3> HIDE DEF booting
    <3> QED BY <1>2, <3>1 DEF StartNamed
  <2> HIDE DEF booting, bound, v
  <2>5. c \in Controls /\ c.op = "start" /\ c.by = k
    BY <2>3, ControlTyped
  <2>6. [Call(bound, c) EXCEPT !.backend[k].start = "control"] = t
    <3> HIDE DEF c
    <3> QED BY <2>2, <2>3, <2>5, ZenonT(60) DEF Call, Desks, DeskStore
  <2> HIDE DEF w, c
  <2>7. PendingInv(k, bound.act[k], w, bound.pending \cup {c})
    <3>1. s.pending \cap StartOf(k) = {}
      BY <1>0 DEF PendingInv
    <3>2. (s.pending \cup {c}) \cap StartOf(k) = {c}
      BY <2>5, <3>1 DEF StartOf
    <3> QED BY <1>0, <2>1, <2>3, <3>2 DEF PendingInv
  <2>8. /\ t \in DeskStore /\ t.generation = bound.generation /\ t.act = bound.act
        /\ t.backend = [bound.backend EXCEPT ![k] = w]
        /\ t.pending = bound.pending \cup {c}
    <3>1. bound \in DeskStore
      BY <2>3 DEF Desks
    <3>2. Append(bound.toHost, c) \in Seq(Controls)
      BY <2>5, <3>1, DeskFields, AppendProperties
    <3> QED BY <2>1, <2>5, <3>1, <3>2 DEF DeskStore
  <2> HIDE DEF t
  <2>9. t \in Desks
    BY <2>1, <2>3, <2>5, <2>7, <2>8, CallTyped
  <2> QED BY <2>4, <2>6, <2>9
<1> QED BY <1>1, <1>2

-----------------------------------------------------------------------------
(* The registry *)

\* An attempt takes a step, and keeps the rest of what it knows.
LEMMA ActAt ==
  ASSUME NEW s \in Desks, NEW k \in Backends,
         NEW x \in Places,
         x \in Early => s.backend[k].start = "none"
  PROVE  /\ [s EXCEPT !.act[k].at = x] \in Desks
         /\ [s EXCEPT !.act[k].at = x].backend = s.backend
         /\ [s EXCEPT !.act[k].at = x].act[k].at = x
<1> DEFINE a == [s.act[k] EXCEPT !.at = x]
<1>1. a \in Attempt /\ a.at = x
  BY PendingOf DEF Attempt
<1>2. [s EXCEPT !.act[k].at = x] = [s EXCEPT !.act[k] = a]
  BY DEF Desks, DeskStore
<1>3. [s EXCEPT !.act[k] = a].backend = s.backend
  BY DEF Desks, DeskStore
<1> HIDE DEF a
<1> QED BY <1>1, <1>2, <1>3, SetAct

\* activate()'s promise settles.
LEMMA FinishedTyped ==
  ASSUME NEW s \in Desks, NEW k \in Backends
  PROVE  Finished(s, k) \in Desks
<1> DEFINE b == botOf[k]
           t == [s EXCEPT !.act[k].at = "done"]
           m == IF t.activations[b] = k THEN None ELSE t.activations[b]
<1>1. t \in Desks
  <2>1. "done" \in Places /\ "done" \notin Early
    BY DEF Places, Early
  <2> QED BY <2>1, ActAt
<1>2. Finished(s, k) = [t EXCEPT !.activations[b] = m]
  BY DEF Finished, Desks, DeskStore
<1> HIDE DEF t
<1>3. b \in Bots /\ m \in Maybe
  BY <1>1, PendingOf DEF Maybe
<1> HIDE DEF m
<1> QED BY <1>1, <1>2, <1>3, SetActivation

\* activateRuntime() up to its first await, for an attempt that comes to it.
LEMMA BeginTyped ==
  ASSUME NEW s \in Desks, NEW k \in Backends, s.backend[k].start = "none"
  PROVE  Begin(s, k) \in Desks
<1> DEFINE b == botOf[k]
           old == s.backends[b]
           t == [s EXCEPT !.activations[b] = k]
           a == [s.act[k] EXCEPT !.gen = s.generation[b]]
           begun == [t EXCEPT !.act[k] = a]
<1>0. s \in DeskStore /\ b \in Bots /\ old \in Maybe /\ k \in Maybe
  BY PendingOf DEF Desks, Maybe
<1>1. CASE s.activations[b] # None
  <2>1. Begin(s, k) = [s EXCEPT !.act[k].at = "done"]
    BY <1>1 DEF Begin
  <2>2. "done" \in Places /\ "done" \notin Early
    BY DEF Places, Early
  <2> QED BY <2>1, <2>2, ActAt
<1>2. CASE s.activations[b] = None
  <2>1. t \in Desks /\ t.act = s.act /\ t.backend = s.backend
    BY <1>0, SetActivation
  <2>2. a \in Attempt /\ a.at = s.act[k].at
    <3>1. s.act[k] \in Attempt /\ s.generation[b] \in Nat
      BY <1>0, DeskFields
    <3> QED BY <3>1 DEF Attempt
  <2>3. begun = [s EXCEPT !.activations[b] = k, !.act[k].gen = s.generation[b]]
    BY <1>0 DEF DeskStore
  <2>4. begun.backend = t.backend
    <3> HIDE DEF t, a
    <3> QED BY <2>1 DEF Desks, DeskStore
  <2> HIDE DEF t, a
  <2>5. begun \in Desks /\ begun.backend[k].start = "none"
    BY <2>1, <2>2, <2>4, SetAct
  <2> HIDE DEF begun
  <2>6. CASE old = None
    <3>1. Begin(s, k) = [begun EXCEPT !.act[k].at = "preparing"]
      BY <1>2, <2>3, <2>6 DEF Begin
    <3>2. "preparing" \in Places
      BY DEF Places
    <3> QED BY <2>5, <3>1, <3>2, ActAt
  <2>7. CASE old # None
    <3> DEFINE u == StopBackend(begun, old)
               c == [u.act[k] EXCEPT !.at = "stoppingOld", !.old = old]
    <3>1. u \in Desks /\ u.act = begun.act /\ SameStarts(begun, u)
      BY <1>0, <2>5, <2>7, StopBackendTyped DEF Maybe
    <3>2. Begin(s, k) = [u EXCEPT !.act[k].at = "stoppingOld", !.act[k].old = old]
      BY <1>2, <2>3, <2>7 DEF Begin
    <3>3. u.backend[k].start = "none"
      BY <2>5, <3>1 DEF SameStarts
    <3> HIDE DEF u
    <3>4. c \in Attempt
      BY <1>0, <3>1, PendingOf DEF Attempt, Places
    <3>5. [u EXCEPT !.act[k].at = "stoppingOld", !.act[k].old = old] = [u EXCEPT !.act[k] = c]
      BY <3>1 DEF Desks, DeskStore
    <3> HIDE DEF c
    <3> QED BY <3>1, <3>2, <3>3, <3>4, <3>5, SetAct
  <2> QED BY <2>6, <2>7
<1> QED BY <1>1, <1>2

\* Several attempts go on at once.
LEMMA SetActs ==
  ASSUME NEW s \in Desks, NEW f \in [Backends -> Attempt],
         \A k \in Backends : f[k].at \in Early => s.backend[k].start = "none"
  PROVE  /\ [s EXCEPT !.act = f] \in Desks
         /\ [s EXCEPT !.act = f].act = f
         /\ [s EXCEPT !.act = f].backend = s.backend
<1> DEFINE t == [s EXCEPT !.act = f]
<1>1. /\ t \in DeskStore /\ t.generation = s.generation /\ t.backend = s.backend
      /\ t.act = f /\ t.pending = s.pending
  BY DEF Desks, DeskStore
<1> HIDE DEF t
<1>2. ASSUME NEW j \in Backends
      PROVE  PendingInv(j, t.act[j], t.backend[j], t.pending)
  <2>1. PendingInv(j, s.act[j], s.backend[j], s.pending)
    BY DEF Desks
  <2> QED BY <1>1, <2>1 DEF PendingInv
<1>3. t \in Desks
  BY <1>1, <1>2 DEF Desks
<1> QED BY <1>1, <1>3 DEF t

\* The attempts that waited for a stop go on, or give up.
LEMMA WakeTyped ==
  ASSUME NEW s \in Desks, NEW b \in Bots, NEW ok \in BOOLEAN
  PROVE  Wake(s, b, ok) \in Desks
<1> DEFINE again == {i \in WaitingAt(s, b) :
                       ok /\ s.act[attemptsOf[b][i]].gen = s.generation[b]}
           f == [k \in Backends |-> IF botOf[k] = b /\ s.act[k].at = "waiting"
                                    THEN [s.act[k] EXCEPT !.at = "done"] ELSE s.act[k]]
           woken == [s EXCEPT !.act = f]
           k == attemptsOf[b][Min(again)]
<1>1. ASSUME NEW j \in Backends
      PROVE  f[j] \in Attempt /\ (f[j].at \in Early => s.backend[j].start = "none")
  <2>1. s.act[j] \in Attempt /\ (s.act[j].at \in Early => s.backend[j].start = "none")
    BY PendingOf DEF PendingInv
  <2>2. [s.act[j] EXCEPT !.at = "done"] \in Attempt
        /\ [s.act[j] EXCEPT !.at = "done"].at \notin Early
    BY <2>1 DEF Attempt, Places, Early
  <2> QED BY <2>1, <2>2
<1>2. f \in [Backends -> Attempt]
  BY <1>1
<1>3. Wake(s, b, ok) = IF again = {} THEN woken ELSE Begin(woken, k)
  BY DEF Wake
<1> HIDE DEF f
<1>4. woken \in Desks /\ woken.backend = s.backend
  BY <1>1, <1>2, SetActs
<1> HIDE DEF woken
<1>5. ASSUME again # {} PROVE k \in Backends /\ s.backend[k].start = "none"
  <2>1. attemptsOf[b] \in Seq(Backends)
    BY FleetAssumption
  <2>2. Len(attemptsOf[b]) \in Nat /\ again \subseteq 1..Len(attemptsOf[b])
    BY <2>1, LenProperties DEF WaitingAt
  <2>3. Min(again) \in again
    <3> HIDE DEF again
    <3>1. again \subseteq Nat
      BY <2>2
    <3> QED BY <1>5, <3>1, LeastExists DEF Min
  <2>4. Min(again) \in 1..Len(attemptsOf[b]) /\ Min(again) \in WaitingAt(s, b)
    BY <2>2, <2>3
  <2>5. k \in Backends /\ s.act[k].at = "waiting"
    BY <2>1, <2>4, ElementOfSeq DEF WaitingAt
  <2>6. PendingInv(k, s.act[k], s.backend[k], s.pending)
    BY <2>5, PendingOf
  <2> QED BY <2>5, <2>6 DEF PendingInv, Early
<1> HIDE DEF again, k
<1> QED BY <1>3, <1>4, <1>5, BeginTyped

\* The registry's stop() is over.
LEMMA StopFinishedTyped ==
  ASSUME NEW s \in Desks, NEW b \in Bots, NEW ok \in BOOLEAN
  PROVE  StopFinished(s, b, ok) \in Desks
<1> DEFINE done == [s EXCEPT !.stops[b] = NotStopping]
           t == [done EXCEPT !.activations[b] = None]
<1>1. NotStopping \in StopState
  BY DEF NotStopping, StopState, Maybe
<1>2. done \in Desks
  BY <1>1, SetStops
<1> HIDE DEF done
<1>3. t \in Desks
  BY <1>2, SetActivation DEF Maybe
<1> HIDE DEF t
<1>4. Wake(t, b, TRUE) \in Desks /\ Wake(done, b, FALSE) \in Desks
  BY <1>2, <1>3, WakeTyped
<1> QED BY <1>4 DEF StopFinished, done, t

LEMMA ForgetTyped ==
  ASSUME NEW s \in Desks, NEW k \in Backends
  PROVE  /\ Forget(s, k) \in Desks
         /\ Forget(s, k).backend = s.backend
         /\ Forget(s, k).act = s.act
<1> DEFINE b == botOf[k]
           m == IF s.backends[b] = k THEN None ELSE s.backends[b]
<1>1. b \in Bots /\ m \in Maybe
  BY PendingOf DEF Maybe
<1>2. Forget(s, k) = [s EXCEPT !.backends[b] = m]
  BY DEF Forget, Desks, DeskStore
<1> HIDE DEF m
<1>3. /\ [s EXCEPT !.backends[b] = m].backend = s.backend
      /\ [s EXCEPT !.backends[b] = m].act = s.act
  BY DEF Desks, DeskStore
<1> QED BY <1>1, <1>2, <1>3, SetBackends

\* Everyone who awaited k's stop goes on.
LEMMA StopSettledTyped ==
  ASSUME NEW s \in Desks, NEW k \in Backends, NEW ok \in BOOLEAN
  PROVE  StopSettled(s, k, ok) \in Desks
<1> DEFINE b == botOf[k]
           t == IF ok THEN Forget(s, k) ELSE s
           w == [t.backend[k] EXCEPT !.stop = "none"]
           u == [t EXCEPT !.backend[k] = w]
           f == [j \in Backends |->
                  CASE s.act[j].at = "stoppingOld" /\ s.act[j].old = k ->
                         [s.act[j] EXCEPT !.at = IF ok THEN "preparing" ELSE "done"]
                    [] s.act[j].at = "undoing" /\ j = k ->
                         [s.act[j] EXCEPT !.at = "done"]
                    [] OTHER -> s.act[j]]
           resumed == [u EXCEPT !.act = f]
           m == IF resumed.activations[b] # None
                   /\ resumed.act[resumed.activations[b]].at = "done"
                THEN None ELSE resumed.activations[b]
           over == [resumed EXCEPT !.activations[b] = m]
<1>1. t \in Desks /\ t.backend = s.backend /\ t.act = s.act
  BY ForgetTyped
<1>2. b \in Bots
  BY PendingOf
<1>3. resumed = [t EXCEPT !.backend[k].stop = "none", !.act = f]
  <2> HIDE DEF t, f
  <2> QED BY <1>1 DEF Desks, DeskStore
<1>4. over = [resumed EXCEPT !.activations[b] =
                IF @ # None /\ resumed.act[@].at = "done" THEN None ELSE @]
  <2> HIDE DEF resumed
  <2> QED OBVIOUS
<1>5. StopSettled(s, k, ok) = IF s.stops[b].at = "backend" /\ s.stops[b].target = k
                              THEN StopFinished(over, b, ok) ELSE over
  <2> DEFINE r == [t EXCEPT !.backend[k].stop = "none", !.act = f]
             o == [r EXCEPT !.activations[b] =
                     IF @ # None /\ r.act[@].at = "done" THEN None ELSE @]
  <2>1. StopSettled(s, k, ok) = IF s.stops[b].at = "backend" /\ s.stops[b].target = k
                                THEN StopFinished(o, b, ok) ELSE o
    BY DEF StopSettled
  <2>2. o = over
    <3> HIDE DEF f, t, over, resumed
    <3> QED BY <1>3, <1>4
  <2> HIDE DEF o, over
  <2> QED BY <2>1, <2>2
<1> HIDE DEF t
<1>6. u \in Desks /\ u.act = s.act /\ SameStarts(s, u)
  <2>1. w \in BackendState /\ w.start = t.backend[k].start /\ w.awaited = t.backend[k].awaited
    BY <1>1, PendingOf DEF BackendState
  <2> HIDE DEF w
  <2>2. u \in Desks /\ u.act = t.act /\ SameStarts(t, u)
    BY <1>1, <2>1, BackendChanged
  <2> QED BY <1>1, <2>2 DEF SameStarts
<1> HIDE DEF u
<1>7. ASSUME NEW j \in Backends
      PROVE  f[j] \in Attempt /\ (f[j].at \in Early => u.backend[j].start = "none")
  <2>1. s.act[j] \in Attempt /\ (s.act[j].at \in Early => u.backend[j].start = "none")
    BY <1>6, PendingOf DEF PendingInv, SameStarts
  <2>2. CASE s.act[j].at = "stoppingOld" /\ s.act[j].old = k
    <3>1. f[j] = [s.act[j] EXCEPT !.at = IF ok THEN "preparing" ELSE "done"]
      BY <2>2
    <3> QED BY <2>1, <2>2, <3>1 DEF Attempt, Places, Early
  <2>3. CASE ~(s.act[j].at = "stoppingOld" /\ s.act[j].old = k)
             /\ s.act[j].at = "undoing" /\ j = k
    <3>1. f[j] = [s.act[j] EXCEPT !.at = "done"]
      BY <2>3
    <3> QED BY <2>1, <2>3, <3>1 DEF Attempt, Places, Early
  <2>4. CASE ~(s.act[j].at = "stoppingOld" /\ s.act[j].old = k)
             /\ ~(s.act[j].at = "undoing" /\ j = k)
    <3>1. f[j] = s.act[j]
      BY <2>4
    <3> QED BY <2>1, <3>1
  <2> QED BY <2>2, <2>3, <2>4
<1>8. f \in [Backends -> Attempt]
  <2>1. f = [j \in Backends |-> f[j]]
    OBVIOUS
  <2> HIDE DEF f
  <2> QED BY <1>7, <2>1
<1> HIDE DEF f
<1>9. resumed \in Desks
  BY <1>6, <1>7, <1>8, SetActs
<1> HIDE DEF resumed
<1>10. m \in Maybe
  BY <1>2, <1>9, DeskFields DEF Desks, Maybe
<1> HIDE DEF m
<1>11. over \in Desks
  BY <1>2, <1>9, <1>10, SetActivation
<1> HIDE DEF over
<1> QED BY <1>2, <1>5, <1>11, StopFinishedTyped

\* stopNamed() after its await.
LEMMA StopConfirmedTyped ==
  ASSUME NEW s \in Desks, NEW k \in Backends
  PROVE  StopConfirmed(s, k) \in Desks
<1> DEFINE w == [s.backend[k] EXCEPT !.owner = FALSE, !.startup = FALSE, !.phase = "stopped"]
           t == [s EXCEPT !.backend[k] = w]
           B == IF s.backend[k].stop = "idle" THEN t.holding ELSE t.holding \ {botOf[k]}
           u == [t EXCEPT !.holding = B]
<1>1. w \in BackendState /\ w.start = s.backend[k].start /\ w.awaited = s.backend[k].awaited
  <2>1. s.backend[k] \in BackendState
    BY PendingOf
  <2> QED BY <2>1 DEF BackendState
<1>2. t \in Desks
  <2> HIDE DEF w
  <2> QED BY <1>1, BackendChanged
<1>3. StopConfirmed(s, k) = StopSettled(u, k, TRUE)
  <2>1. u = [s EXCEPT !.backend[k].owner = FALSE,
                      !.backend[k].startup = FALSE,
                      !.backend[k].phase = "stopped",
                      !.holding = IF s.backend[k].stop = "idle" THEN @
                                  ELSE @ \ {botOf[k]}]
    BY DEF Desks, DeskStore
  <2> HIDE DEF u
  <2> QED BY <2>1 DEF StopConfirmed
<1>4. B \in SUBSET Bots
  <2> HIDE DEF t
  <2> QED BY <1>2, DeskFields DEF Desks
<1> HIDE DEF t, B
<1>5. u \in Desks
  BY <1>2, <1>4, SetHolding
<1> HIDE DEF u
<1> QED BY <1>3, <1>5, StopSettledTyped

LEMMA StopUnconfirmedTyped ==
  ASSUME NEW s \in Desks, NEW k \in Backends
  PROVE  StopUnconfirmed(s, k) \in Desks
<1> DEFINE w == [s.backend[k] EXCEPT !.phase = "degraded"]
           t == [s EXCEPT !.backend[k] = w]
<1>1. w \in BackendState /\ w.start = s.backend[k].start /\ w.awaited = s.backend[k].awaited
  BY PendingOf DEF BackendState
<1>2. t \in Desks
  <2> HIDE DEF w
  <2> QED BY <1>1, BackendChanged
<1>3. StopUnconfirmed(s, k) = StopSettled(t, k, FALSE)
  BY DEF StopUnconfirmed, Desks, DeskStore
<1> HIDE DEF t
<1> QED BY <1>2, <1>3, StopSettledTyped

\* activateRuntime() after backend.start().
LEMMA StartedTyped ==
  ASSUME NEW s \in Desks, NEW k \in Backends
  PROVE  Started(s, k) \in Desks
<1> DEFINE t == StopBackend(s, k)
<1>1. t \in Desks
  BY StopBackendTyped
<1>2. [t EXCEPT !.act[k].at = "undoing"] \in Desks
  <2>1. "undoing" \in Places /\ "undoing" \notin Early
    BY DEF Places, Early
  <2> HIDE DEF t
  <2> QED BY <1>1, <2>1, ActAt
<1>3. Finished(s, k) \in Desks
  BY FinishedTyped
<1> QED BY <1>2, <1>3 DEF Started

-----------------------------------------------------------------------------
(* The steps of the fleet *)

\* The inductive invariant: what the host keeps, and what the desktop keeps.
FleetInv == Host \in Steady /\ Desk \in Desks

LEMMA HostFields ==
  /\ Host.residents = residents /\ Host.startQueue = startQueue
  /\ Host.starting = starting /\ Host.toDesktop = toDesktop
BY DEF Host

LEMMA DeskFieldsNow ==
  /\ Desk.generation = generation /\ Desk.backends = backends
  /\ Desk.activations = activations /\ Desk.stops = stops /\ Desk.act = act
  /\ Desk.backend = backend /\ Desk.hosts = hosts /\ Desk.pending = pending
  /\ Desk.holding = holding /\ Desk.up = up /\ Desk.toHost = toHost
BY DEF Desk

\* A step that takes a record over.
LEMMA BecomeHostInv ==
  ASSUME NEW h \in Steady, BecomeHost(h) PROVE Host' \in Steady
<1>1. h = [residents |-> h.residents, startQueue |-> h.startQueue,
           starting |-> h.starting, toDesktop |-> h.toDesktop]
  BY DEF Steady, Hosts, HostStore
<1>2. Host' = h
  BY <1>1 DEF BecomeHost, Host
<1> QED BY <1>2

LEMMA BecomeDeskInv ==
  ASSUME NEW s \in Desks, BecomeDesk(s) PROVE Desk' \in Desks
<1>1. s = [generation |-> s.generation, backends |-> s.backends,
           activations |-> s.activations, stops |-> s.stops, act |-> s.act,
           backend |-> s.backend, hosts |-> s.hosts, pending |-> s.pending,
           holding |-> s.holding, up |-> s.up, toHost |-> s.toHost]
  BY DEF Desks, DeskStore
<1>2. Desk' = s
  BY <1>1 DEF BecomeDesk, Desk
<1> QED BY <1>2

\* The host's part does not change, or only what is on its way to the desktop.
LEMMA HostUnchanged ==
  ASSUME Host \in Steady, UNCHANGED OnHost PROVE Host' \in Steady
<1>1. Host' = Host
  BY DEF OnHost, Host
<1> QED BY <1>1

LEMMA HostReceived ==
  ASSUME Host \in Steady, toDesktop # <<>>, toDesktop' = Tail(toDesktop),
         UNCHANGED <<residents, startQueue, starting>>
  PROVE  Host' \in Steady
<1> USE HostFields
<1>1. Host \in HostStore /\ QueueInv(Host) /\ SlotInv(Host) /\ Filled(Host)
  BY DEF Steady, Hosts
<1>2. Tail(toDesktop) \in Seq(Messages)
  BY <1>1, StoreFields, HeadTailProperties
<1>3. /\ Host'.residents = Host.residents /\ Host'.startQueue = Host.startQueue
      /\ Host'.starting = Host.starting
      /\ Host' \in HostStore
  BY <1>1, <1>2 DEF Host, HostStore
<1>4. Booting(Host') = Booting(Host)
  BY <1>3 DEF Booting
<1>5. QueueInv(Host') /\ SlotInv(Host') /\ Filled(Host')
  BY <1>1, <1>3, <1>4 DEF QueueInv, SlotInv, Filled
<1> QED BY <1>3, <1>5 DEF Steady, Hosts

\* The desktop's part does not change, or only what is on its way to the host.
LEMMA DeskUnchanged ==
  ASSUME Desk \in Desks, UNCHANGED deskVars, toHost' \in Seq(Controls)
  PROVE  Desk' \in Desks
<1> DEFINE t == [Desk EXCEPT !.toHost = toHost']
<1>1. Desk' = t
  BY DEF Desk, deskVars
<1>2. /\ t \in DeskStore /\ t.generation = Desk.generation /\ t.act = Desk.act
      /\ t.backend = Desk.backend /\ t.pending = Desk.pending
  BY DEF Desks, DeskStore
<1> HIDE DEF t
<1>3. t \in Desks
  BY <1>2, DeskKept
<1> QED BY <1>1, <1>3

LEMMA ToHostTyped ==
  ASSUME Desk \in Desks PROVE toHost \in Seq(Controls)
BY DeskFields, DeskFieldsNow DEF Desks

-----------------------------------------------------------------------------
LEMMA HostReceiveInv ==
  ASSUME FleetInv, HostReceive, UNCHANGED deskVars PROVE FleetInv'
<1>1. toHost \in Seq(Controls) /\ toHost # <<>>
  BY ToHostTyped DEF FleetInv, HostReceive
<1>2. Head(toHost) \in Controls /\ Tail(toHost) \in Seq(Controls)
  BY <1>1, HeadTailProperties
<1>3. PICK doomed : BecomeHost(IF Head(toHost).op = "start"
                               THEN HandleStart(Host, Head(toHost), doomed)
                               ELSE HandleStop(Host, Head(toHost), doomed))
  BY DEF HostReceive
<1>4. Host' \in Steady
  <2>1. /\ HandleStart(Host, Head(toHost), doomed) \in Steady
        /\ HandleStop(Host, Head(toHost), doomed) \in Steady
    BY <1>2, HandleStartSteady, HandleStopSteady DEF FleetInv
  <2> QED BY <1>3, <2>1, BecomeHostInv
<1>5. Desk' \in Desks
  BY <1>2, DeskUnchanged DEF FleetInv, HostReceive
<1> QED BY <1>4, <1>5 DEF FleetInv

LEMMA WorkerStepInv ==
  ASSUME FleetInv, NEW b \in Bots, WorkerStep(b), UNCHANGED deskVars PROVE FleetInv'
<1> USE HostFields
<1>1. UNCHANGED toHost /\ HasWorker(b)
  BY DEF WorkerStep, WorkerReady, WorkerFails, WorkerExits, KillFails
<1>2. Desk' \in Desks
  BY <1>1, DeskUnchanged, ToHostTyped DEF FleetInv
<1>3. Host \in Steady /\ Host.residents[b] # None /\ Host.residents[b].worker
  BY <1>1 DEF FleetInv, HasWorker
<1>4. CASE WorkerReady(b)
  <2>1. PICK doomed : BecomeHost(Settle(Host, b, TRUE, doomed))
    BY <1>4 DEF WorkerReady
  <2>2. Settle(Host, b, TRUE, doomed) \in Steady
    BY <1>3, SettleWorker
  <2> QED BY <1>2, <2>1, <2>2, BecomeHostInv DEF FleetInv
<1>5. CASE WorkerFails(b)
  <2>1. PICK doomed : BecomeHost(Stop(Host, b, doomed))
    BY <1>5 DEF WorkerFails
  <2>2. Stop(Host, b, doomed) \in Steady
    BY <1>3, <1>5, StopSteady DEF WorkerFails
  <2> QED BY <1>2, <2>1, <2>2, BecomeHostInv DEF FleetInv
<1>6. CASE WorkerExits(b)
  <2> DEFINE told == IF residents[b].requested THEN Host
                     ELSE [Host EXCEPT !.toDesktop = Append(@, BotExit(b))]
  <2>1. PICK doomed : BecomeHost(RemoveResident(Settle(told, b, FALSE, doomed), b))
    BY <1>6 DEF WorkerExits
  <2>2. told \in Steady /\ told.residents = Host.residents
    BY <1>3, TellSteady
  <2> HIDE DEF told
  <2>3. Settle(told, b, FALSE, doomed) \in Steady
        /\ Answered(Settle(told, b, FALSE, doomed), b)
    BY <1>3, <2>2, SettleWorker
  <2>4. RemoveResident(Settle(told, b, FALSE, doomed), b) \in Steady
    BY <2>3, RemoveWorker
  <2> QED BY <1>2, <2>1, <2>4, BecomeHostInv DEF FleetInv
<1>7. CASE KillFails(b)
  <2> DEFINE r == Host.residents[b]
             w == [r EXCEPT !.hung = TRUE, !.stops = <<>>]
             p == Replaced(Host, b, w)
  <2>1. r \in Resident /\ r.stops \in Seq(Controls) /\ Host \in HostStore
    BY <1>3, StoreFields, ResidentFields DEF Steady, Hosts
  <2>2. w \in Resident /\ w.worker = r.worker /\ w.settled = r.settled
    <3>1. <<>> \in Seq(Controls)
      BY EmptySeq
    <3> QED BY <2>1, <3>1 DEF Resident
  <2>3. p = [Host EXCEPT !.residents[b].hung = TRUE, !.residents[b].stops = <<>>]
    <3> HIDE DEF Host
    <3> QED BY <2>1 DEF Replaced, HostStore, Resident
  <2> HIDE DEF w
  <2>4. p \in Steady
    BY <1>3, <2>2, ReplacedSteady
  <2> HIDE DEF p
  <2>5. Say(p, r.stops, FALSE) \in Steady
    BY <2>1, <2>4, SaySteady
  <2>6. BecomeHost(Say(p, r.stops, FALSE))
    BY <1>7, <2>3 DEF KillFails
  <2> QED BY <1>2, <2>5, <2>6, BecomeHostInv DEF FleetInv
<1> QED BY <1>4, <1>5, <1>6, <1>7 DEF WorkerStep

\* A microtask of a backend.
LEMMA ContinueInv ==
  ASSUME FleetInv, NEW k \in Backends, Continue(k) PROVE FleetInv'
<1> USE DeskFieldsNow
<1>1. Host' \in Steady
  BY HostUnchanged DEF FleetInv, Continue
<1>2. Desk \in Desks
  BY DEF FleetInv
<1>3. /\ backend[k].start = "returned" => StartReturned(Desk, k) \in Desks
      /\ backend[k].start = "refused" => StartRefused(Desk, k) \in Desks
      /\ backend[k].start = "undone" => StartFailed(Desk, k) \in Desks
      /\ Started(Desk, k) \in Desks
      /\ StopConfirmed(Desk, k) \in Desks
      /\ StopUnconfirmed(Desk, k) \in Desks
  BY <1>2, StartReturnedTyped, StartRefusedTyped, StartFailedTyped, StartedTyped,
     StopConfirmedTyped, StopUnconfirmedTyped
<1>4. Desk' \in Desks
  BY <1>3, BecomeDeskInv DEF Continue, StartContinues, StopContinues
<1> QED BY <1>1, <1>4 DEF FleetInv

LEMMA ActivateInv ==
  ASSUME FleetInv, NEW b \in Bots, Activate(b) PROVE FleetInv'
<1> USE DeskFieldsNow
<1> DEFINE k == attemptsOf[b][Min(Unused(b))]
           a == [at |-> "waiting", old |-> None, gen |-> generation[b]]
<1>1. Host' \in Steady
  BY HostUnchanged DEF FleetInv, Activate
<1>2. Desk \in Desks
  BY DEF FleetInv
<1>3. k \in Backends /\ backend[k].start = "none"
  <2>1. attemptsOf[b] \in Seq(Backends)
    BY FleetAssumption
  <2>2. Unused(b) # {} /\ Unused(b) \subseteq Nat
    BY <2>1, LenProperties DEF Activate, Unused
  <2>3. Min(Unused(b)) \in Unused(b)
    BY <2>2, LeastExists DEF Min
  <2>5. k \in Backends /\ act[k].at = "unused"
    BY <2>1, <2>3, ElementOfSeq DEF Unused
  <2>4. PendingInv(k, act[k], backend[k], pending)
    BY <1>2, <2>5, PendingOf
  <2> QED BY <2>4, <2>5 DEF PendingInv, Early
<1> HIDE DEF k
<1>4. a \in Attempt
  <2>1. generation[b] \in Nat
    BY <1>2, DeskFields DEF Desks
  <2> QED BY <2>1 DEF Attempt, Places, Maybe
<1>5. [Desk EXCEPT !.act[k] = a] \in Desks /\ Begin(Desk, k) \in Desks
  BY <1>2, <1>3, <1>4, SetAct, BeginTyped
<1>6. Desk' \in Desks
  <2>1. BecomeDesk([Desk EXCEPT !.act[k] = a]) \/ BecomeDesk(Begin(Desk, k))
    BY DEF Activate, k
  <2> QED BY <1>5, <2>1, BecomeDeskInv
<1> QED BY <1>1, <1>6 DEF FleetInv

LEMMA PreparedInv ==
  ASSUME FleetInv, NEW k \in Backends, Prepared(k) PROVE FleetInv'
<1> USE DeskFieldsNow
<1> DEFINE b == botOf[k]
           t == [Desk EXCEPT !.backends[b] = k]
           created == [t EXCEPT !.act[k].at = "starting"]
<1>1. Host' \in Steady
  BY HostUnchanged DEF FleetInv, Prepared
<1>2. Desk \in Desks /\ b \in Bots /\ k \in Maybe
  BY PendingOf DEF FleetInv, Maybe
<1>3. backend[k].start = "none"
  BY <1>2, PendingOf DEF Prepared, PendingInv, Early
<1>4. t \in Desks /\ t.backend = backend
  <2>1. t.backend = Desk.backend
    BY <1>2 DEF Desks, DeskStore
  <2> QED BY <1>2, <2>1, SetBackends
<1> HIDE DEF t
<1>5. /\ created \in Desks /\ created.backend = backend
      /\ created.act[k].at = "starting"
  <2>1. "starting" \in Places /\ "starting" \notin Early
    BY DEF Places, Early
  <2> QED BY <1>4, <2>1, ActAt
<1>6. created = [Desk EXCEPT !.backends[b] = k, !.act[k].at = "starting"]
  BY DEF t
<1> HIDE DEF created
<1>7. StartNamed(created, k) \in Desks
  BY <1>3, <1>5, StartNamedTyped DEF Early
<1>8. Finished(Desk, k) \in Desks
  BY <1>2, FinishedTyped
<1>9. Desk' \in Desks
  <2>1. BecomeDesk(Finished(Desk, k)) \/ BecomeDesk(StartNamed(created, k))
    BY <1>6 DEF Prepared
  <2> QED BY <1>7, <1>8, <2>1, BecomeDeskInv
<1> QED BY <1>1, <1>9 DEF FleetInv

\* A bot's generation goes on, within its bound.
LEMMA NextGeneration ==
  ASSUME NEW s \in Desks, NEW b \in Bots, s.generation[b] < MaxGeneration[b]
  PROVE  [s EXCEPT !.generation[b] = @ + 1] \in Desks
<1> DEFINE g == [s.generation EXCEPT ![b] = @ + 1]
           t == [s EXCEPT !.generation[b] = @ + 1]
<1>1. s \in DeskStore /\ s.generation \in [Bots -> Nat] /\ MaxGeneration \in [Bots -> Nat]
  BY DeskFields, FleetAssumption DEF Desks
<1>2. /\ t \in DeskStore /\ t.act = s.act /\ t.backend = s.backend
      /\ t.pending = s.pending
      /\ t.generation = [s.generation EXCEPT ![b] = @ + 1]
  <2>1. g \in [Bots -> Nat]
    BY <1>1
  <2>2. t = [s EXCEPT !.generation = g]
    BY <1>1 DEF DeskStore
  <2> HIDE DEF g, t
  <2>3. /\ t \in DeskStore /\ t.act = s.act /\ t.backend = s.backend
        /\ t.pending = s.pending /\ t.generation = g
    BY <1>1, <2>1, <2>2 DEF DeskStore
  <2> QED BY <2>3 DEF g
<1> HIDE DEF t
<1>3. \A x \in Bots : t.generation[x] <= MaxGeneration[x]
  <2> SUFFICES ASSUME NEW x \in Bots PROVE t.generation[x] <= MaxGeneration[x]
    OBVIOUS
  <2>1. s.generation[x] <= MaxGeneration[x] /\ MaxGeneration[x] \in Nat
        /\ s.generation[x] \in Nat
    BY <1>1 DEF Desks
  <2>2. t.generation[x] = IF x = b THEN s.generation[b] + 1 ELSE s.generation[x]
    BY <1>1, <1>2
  <2> QED BY <2>1, <2>2
<1>4. t \in Desks
  BY <1>2, <1>3 DEF Desks
<1> QED BY <1>4 DEF t

LEMMA StopBotRuntimeInv ==
  ASSUME FleetInv, NEW b \in Bots, StopBotRuntime(b) PROVE FleetInv'
<1> USE DeskFieldsNow
<1> DEFINE t == [Desk EXCEPT !.generation[b] = @ + 1]
           x == [stops[b] EXCEPT !.at = IF @ = "none" THEN "cancelling" ELSE @]
           u == [t EXCEPT !.stops[b] = x]
<1>1. Host' \in Steady
  BY HostUnchanged DEF FleetInv, StopBotRuntime
<1>2. Desk \in Desks
  BY DEF FleetInv
<1>3. t \in Desks /\ t.stops = stops
  <2>1. t.stops = Desk.stops
    BY <1>2 DEF Desks, DeskStore
  <2> QED BY <1>2, <2>1, NextGeneration DEF StopBotRuntime
<1>4. x \in StopState
  <2>1. stops[b] \in StopState
    BY <1>2, DeskFields DEF Desks
  <2> QED BY <2>1 DEF StopState
<1>5. u = [Desk EXCEPT !.generation[b] = @ + 1,
                       !.stops[b].at = IF @ = "none" THEN "cancelling" ELSE @]
  <2>1. u = [t EXCEPT !.stops[b].at = IF @ = "none" THEN "cancelling" ELSE @]
    <3> HIDE DEF t
    <3> QED BY <1>3 DEF Desks, DeskStore
  <2> QED BY <2>1
<1> HIDE DEF t, x
<1>6. u \in Desks
  BY <1>3, <1>4, SetStops
<1> HIDE DEF u
<1>7. Desk' \in Desks
  BY <1>5, <1>6, BecomeDeskInv DEF StopBotRuntime
<1> QED BY <1>1, <1>7 DEF FleetInv

LEMMA CancelledInv ==
  ASSUME FleetInv, NEW b \in Bots, Cancelled(b) PROVE FleetInv'
<1> USE DeskFieldsNow
<1>1. Host' \in Steady
  BY HostUnchanged DEF FleetInv, Cancelled
<1>2. Desk \in Desks
  BY DEF FleetInv
<1> DEFINE k == backends[b]
           X(failed) == [at |-> "backend", target |-> k, failed |-> failed]
           S(failed) == [Desk EXCEPT !.stops[b] = X(failed)]
<1>3. PICK failed \in BOOLEAN : BecomeDesk(IF k = None THEN StopFinished(S(failed), b, TRUE)
                                                       ELSE StopBackend(S(failed), k))
  BY DEF Cancelled
<1>4. k \in Maybe
  BY <1>2, DeskFields DEF Desks
<1>5. X(failed) \in StopState
  BY <1>4 DEF StopState
<1> HIDE DEF X
<1>6. S(failed) \in Desks
  BY <1>2, <1>5, SetStops
<1> HIDE DEF S, k
<1>7. k = None => StopFinished(S(failed), b, TRUE) \in Desks
  BY <1>6, StopFinishedTyped
<1>8. k # None => StopBackend(S(failed), k) \in Desks
  BY <1>4, <1>6, StopBackendTyped DEF Maybe
<1>9. Desk' \in Desks
  BY <1>3, <1>7, <1>8, BecomeDeskInv
<1> QED BY <1>1, <1>9 DEF FleetInv

LEMMA ExecutionsStoppedInv ==
  ASSUME FleetInv, NEW k \in Backends, ExecutionsStopped(k) PROVE FleetInv'
<1> DEFINE w == [Desk.backend[k] EXCEPT !.stop = "unconfirmed"]
           t == [Desk EXCEPT !.backend[k] = w]
<1>1. Host' \in Steady
  BY HostUnchanged DEF FleetInv, ExecutionsStopped
<1>2. Desk \in Desks
  BY DEF FleetInv
<1>3. w \in BackendState /\ w.start = Desk.backend[k].start
      /\ w.awaited = Desk.backend[k].awaited
  BY <1>2, PendingOf DEF BackendState
<1>4. t = [Desk EXCEPT !.backend[k].stop = "unconfirmed"]
  OBVIOUS
<1> HIDE DEF w
<1>5. t \in Desks
  BY <1>2, <1>3, BackendChanged
<1> HIDE DEF t
<1>6. AskToStop(Desk, k) \in Desks
  BY <1>2, AskToStopTyped
<1>7. Desk' \in Desks
  BY <1>4, <1>5, <1>6, BecomeDeskInv DEF ExecutionsStopped
<1> QED BY <1>1, <1>7 DEF FleetInv

LEMMA UpdateInv ==
  ASSUME FleetInv, NEW b \in Bots, Update(b) PROVE FleetInv'
<1> USE DeskFieldsNow
<1> DEFINE t == [Desk EXCEPT !.generation[b] = @ + 1]
           u == [t EXCEPT !.activations[b] = None]
<1>1. Host' \in Steady
  BY HostUnchanged DEF FleetInv, Update
<1>2. t \in Desks
  BY NextGeneration DEF FleetInv, Update
<1>3. u = [Desk EXCEPT !.generation[b] = @ + 1, !.activations[b] = None]
  OBVIOUS
<1> HIDE DEF t
<1>4. u \in Desks
  BY <1>2, SetActivation DEF Maybe
<1> HIDE DEF u
<1>5. Desk' \in Desks
  BY <1>3, <1>4, BecomeDeskInv DEF Update
<1> QED BY <1>1, <1>5 DEF FleetInv

LEMMA DesktopReceiveInv ==
  ASSUME FleetInv, DesktopReceive PROVE FleetInv'
<1> USE DeskFieldsNow, HostFields
<1> DEFINE m == Head(toDesktop)
<1>1. Host' \in Steady
  BY HostReceived DEF FleetInv, DesktopReceive
<1>2. Desk \in Desks /\ m \in Messages
  <2>1. toDesktop \in Seq(Messages)
    BY StoreFields DEF FleetInv, Steady, Hosts
  <2> QED BY <2>1, HeadTailProperties DEF FleetInv, DesktopReceive
<1> HIDE DEF m
<1>3. CASE m.kind = "bot-exit" /\ BecomeDesk(Release(Desk, m.bot, TRUE))
  <2>1. m.bot \in Bots
    BY <1>2, <1>3 DEF Messages
  <2>2. Release(Desk, m.bot, TRUE) \in Desks
    BY <1>2, <2>1, ReleaseTyped
  <2> QED BY <1>1, <1>3, <2>2, BecomeDeskInv DEF FleetInv
<1>4. ASSUME m.kind = "answer", m.of \in pending,
             NEW ok \in {m.ok, m.ok /\ m.of.op # "start"},
             BecomeDesk(SettleControl(Desk, m.of, ok))
      PROVE  FleetInv'
  <2>1. ok \in BOOLEAN
    BY <1>2, <1>4 DEF Messages
  <2>2. SettleControl(Desk, m.of, ok) \in Desks
    BY <1>2, <1>4, <2>1, SettleControlTyped
  <2> QED BY <1>1, <1>4, <2>2, BecomeDeskInv DEF FleetInv
<1>5. CASE UNCHANGED deskVars /\ UNCHANGED toHost
  <2>1. Desk' \in Desks
    BY <1>2, <1>5, DeskUnchanged, ToHostTyped
  <2> QED BY <1>1, <2>1 DEF FleetInv
<1> QED BY <1>3, <1>4, <1>5 DEF DesktopReceive, m

LEMMA ControlTimesOutInv ==
  ASSUME FleetInv, NEW c \in pending, ControlTimesOut(c) PROVE FleetInv'
<1> USE DeskFieldsNow
<1>1. Host' \in Steady
  BY HostUnchanged DEF FleetInv, ControlTimesOut
<1>2. Resolve(Desk, {c}, FALSE) \in Desks
  BY ResolveTyped DEF FleetInv
<1>3. Desk' \in Desks
  BY <1>2, BecomeDeskInv DEF ControlTimesOut
<1> QED BY <1>1, <1>3 DEF FleetInv

\* The host without residents.
LEMMA EmptyHost ==
  ASSUME NEW h,
         h = [residents |-> [b \in Bots |-> None], startQueue |-> <<>>,
              starting |-> 0, toDesktop |-> <<>>]
  PROVE  h \in Steady
<1>1. h \in HostStore
  <2>1. <<>> \in Seq(Bots) /\ <<>> \in Seq(Messages)
    BY EmptySeq
  <2> QED BY <2>1 DEF HostStore
<1>2. Booting(h) = {}
  BY DEF Booting, Boots
<1>3. SlotInv(h)
  <2>1. Cardinality({}) = 0
    BY FS_EmptySet
  <2>2. h.starting = 0 /\ 0 <= MaxStarts
    BY HostAssumption
  <2> QED BY <1>2, <2>1, <2>2 DEF SlotInv
<1>4. QueueInv(h)
  BY DEF QueueInv, Queued, IsInjective, Contains
<1>5. Filled(h)
  BY DEF Filled
<1> QED BY <1>1, <1>3, <1>4, <1>5 DEF Steady, Hosts

LEMMA EngineLostInv ==
  ASSUME FleetInv, EngineLost PROVE FleetInv'
<1> USE DeskFieldsNow
<1>1. Host' \in Steady
  BY EmptyHost DEF EngineLost, Host
<1>2. Desk \in Desks /\ Desk \in DeskStore
  BY DEF FleetInv, Desks
<1>3. /\ generation' = generation /\ backends' = backends /\ activations' = activations
      /\ stops' = stops /\ act' = act /\ up' = FALSE /\ toHost' = <<>>
      /\ pending' = {} /\ hosts' = [b \in Bots |-> None]
      /\ holding' \subseteq holding
  BY DEF EngineLost
<1>4. ASSUME NEW k \in Backends
      PROVE  /\ backend'[k] \in BackendState
             /\ PendingInv(k, act[k], backend'[k], {})
  <2> DEFINE one == backend[k]
             told == one.owner /\ hosts[botOf[k]] = k
             start == CASE one.start = "control" -> "refused"
                        [] one.start = "undo" -> "undone"
                        [] OTHER -> one.start
             stop == CASE one.stop = "control" -> "unconfirmed"
                       [] one.stop = "executions" -> "disconnected"
                       [] OTHER -> one.stop
             owner == one.owner /\ ~told
             phase == IF told THEN "degraded" ELSE one.phase
             w == [one EXCEPT !.owner = owner, !.phase = phase,
                              !.awaited = [undo |-> None, stop |-> None],
                              !.start = start, !.stop = stop]
  <2>1. one \in BackendState /\ PendingInv(k, act[k], one, pending)
    BY <1>2, PendingOf
  <2>2. backend'[k] = w
    BY DEF EngineLost
  <2>3. start \in {"none", "returned", "refused", "undone", "settled"}
        /\ (one.start = "none" => start = "none")
    BY <2>1 DEF BackendState
  <2>4. stop \in {"none", "idle", "disconnected", "confirmed", "unconfirmed"}
    BY <2>1 DEF BackendState
  <2>5. owner \in BOOLEAN
    OBVIOUS
  <2>6. phase \in {"none", "booting", "ready", "degraded", "stopped"}
    BY <2>1 DEF BackendState
  <2> DEFINE nobody == [undo |-> None, stop |-> None]
             Awaited == [undo : Controls \cup {None}, stop : Controls \cup {None}]
  <2>a. nobody \in Awaited
    OBVIOUS
  <2>b. w = [one EXCEPT !.owner = owner, !.phase = phase, !.awaited = nobody,
                        !.start = start, !.stop = stop]
    OBVIOUS
  <2>7. /\ w \in BackendState /\ w.start = start
        /\ w.awaited = [undo |-> None, stop |-> None]
    <3>1. /\ BackendState =
               [phase : {"none", "booting", "ready", "degraded", "stopped"},
                owner : BOOLEAN, moved : BOOLEAN, startup : BOOLEAN,
                start : {"none", "control", "returned", "refused", "undo",
                         "undone", "settled"},
                stop : {"none", "idle", "executions", "disconnected", "control",
                        "confirmed", "unconfirmed"},
                awaited : Awaited, calls : Nat]
      BY DEF BackendState
    <3>2. w.awaited = nobody
      <4> HIDE DEF one, start, stop, owner, phase, nobody, w, Awaited
      <4> QED BY <2>b, <2>1, <3>1
    <3> HIDE DEF one, start, stop, owner, phase, nobody, w, Awaited
    <3>3. w \in BackendState /\ w.start = start
      <4>1. one \in BackendState
        BY <2>1
      <4> QED BY <2>3, <2>4, <2>5, <2>6, <2>a, <2>b, <3>1, <4>1, ZenonT(60)
    <3> QED BY <3>2, <3>3 DEF nobody
  <2> HIDE DEF one, start, stop, owner, phase, nobody
  <2> HIDE DEF w
  <2>8. PendingInv(k, act[k], w, {})
    BY <2>1, <2>3, <2>7 DEF PendingInv
  <2> QED BY <2>2, <2>7, <2>8
<1>5. backend' \in [Backends -> BackendState]
  <2>1. backend' = [k \in Backends |-> backend'[k]]
    BY DEF EngineLost
  <2> QED BY <1>4, <2>1
<1>6. Desk' \in DeskStore
  <2>1. <<>> \in Seq(Controls)
    BY EmptySeq
  <2> QED BY <1>2, <1>3, <1>5, <2>1, DeskFields DEF Desk, DeskStore, Maybe
<1>7. Desk' \in Desks
  BY <1>2, <1>3, <1>4, <1>6 DEF Desk, Desks
<1> QED BY <1>1, <1>7 DEF FleetInv

LEMMA EngineStartsInv ==
  ASSUME FleetInv, EngineStarts PROVE FleetInv'
<1>1. Host' \in Steady
  BY HostUnchanged DEF FleetInv, EngineStarts, hostVars, OnHost
<1>2. /\ generation' = generation /\ backends' = backends
      /\ activations' = activations /\ stops' = stops /\ act' = act
      /\ backend' = backend /\ hosts' = hosts /\ pending' = pending
      /\ holding' = holding /\ up' = TRUE /\ toHost' = toHost
  BY DEF EngineStarts, hostVars
<1>3. Desk \in Desks /\ Desk \in DeskStore
  BY DEF FleetInv, Desks
<1>4. Desk' \in DeskStore
  BY <1>2, <1>3 DEF Desk, DeskStore
<1>5. Desk' \in Desks
  BY <1>2, <1>3, <1>4 DEF Desk, Desks
<1> QED BY <1>1, <1>5 DEF FleetInv

-----------------------------------------------------------------------------
LEMMA FleetInitInv == FleetInit => FleetInv
<1> SUFFICES ASSUME FleetInit PROVE FleetInv
  OBVIOUS
<1>1. Host \in Steady
  BY EmptyHost DEF FleetInit, HostInit, Host
<1>2. Desk \in DeskStore
  <2>1. NotStopping \in StopState
    BY DEF NotStopping, StopState, Maybe
  <2>2. NewBackend \in BackendState
    BY DEF NewBackend, BackendState
  <2>3. [at |-> "unused", gen |-> 0, old |-> None] \in Attempt
    BY DEF Attempt, Places, Maybe
  <2>4. <<>> \in Seq(Controls)
    BY EmptySeq
  <2> QED BY <2>1, <2>2, <2>3, <2>4 DEF FleetInit, HostInit, Desk, DeskStore, Maybe
<1>3. ASSUME NEW b \in Bots PROVE generation[b] <= MaxGeneration[b]
  <2>1. generation[b] = 0 /\ MaxGeneration[b] \in Nat
    BY FleetAssumption DEF FleetInit
  <2> QED BY <2>1
<1>4. ASSUME NEW k \in Backends PROVE PendingInv(k, act[k], backend[k], pending)
  BY DEF FleetInit, NewBackend, PendingInv
<1> QED BY <1>1, <1>2, <1>3, <1>4, DeskFieldsNow DEF FleetInv, Desks

LEMMA FleetNextInv == FleetInv /\ [FleetNext]_fleetVars => FleetInv'
<1> SUFFICES ASSUME FleetInv, [FleetNext]_fleetVars PROVE FleetInv'
  OBVIOUS
<1>1. CASE UNCHANGED fleetVars
  <2>1. Host' = Host /\ Desk' = Desk
    BY <1>1 DEF fleetVars, hostVars, deskVars, Host, Desk
  <2> QED BY <2>1 DEF FleetInv
<1>2. ASSUME NEW b \in Bots,
             \/ Activate(b) \/ StopBotRuntime(b) \/ Cancelled(b) \/ Update(b)
             \/ Idle /\ WorkerStep(b) /\ UNCHANGED deskVars
      PROVE  FleetInv'
  BY <1>2, ActivateInv, StopBotRuntimeInv, CancelledInv, UpdateInv, WorkerStepInv
<1>3. ASSUME NEW k \in Backends, Continue(k) \/ Prepared(k) \/ ExecutionsStopped(k)
      PROVE  FleetInv'
  BY <1>3, ContinueInv, PreparedInv, ExecutionsStoppedInv
<1>4. ASSUME NEW c \in pending, ControlTimesOut(c) PROVE FleetInv'
  BY <1>4, ControlTimesOutInv
<1>5. CASE \/ Idle /\ HostReceive /\ UNCHANGED deskVars
           \/ DesktopReceive \/ EngineLost \/ EngineStarts
  BY <1>5, HostReceiveInv, DesktopReceiveInv, EngineLostInv, EngineStartsInv
<1> QED BY <1>1, <1>2, <1>3, <1>4, <1>5 DEF FleetNext

LEMMA FleetAlways == FleetSpec => []FleetInv
BY FleetInitInv, FleetNextInv, PTL DEF FleetSpec

\* Every reachable state is well typed; a start is under way exactly while the
\* client awaits its answer, and nobody awaits a control that is not pending.
THEOREM FleetTypes == FleetSpec => []FleetTypeOK
<1>1. FleetInv => FleetTypeOK
  <2> SUFFICES ASSUME FleetInv PROVE FleetTypeOK
    OBVIOUS
  <2> USE HostFields, DeskFieldsNow
  <2>1. HostTypeOK
    <3>1. /\ Host \in HostStore /\ SlotInv(Host)
          /\ toHost \in Seq(Controls)
      BY ToHostTyped DEF FleetInv, Steady, Hosts
    <3>2. starting \in Nat
      <4>1. IsFiniteSet(Booting(Host))
        BY FS_Subset, HostAssumption DEF Booting
      <4> QED BY <3>1, <4>1, FS_CardinalityType DEF SlotInv
    <3> QED BY <3>1, <3>2, StoreFields DEF HostTypeOK, Messages
  <2>2. Desk \in DeskStore /\ Desk \in Desks
    BY DEF FleetInv, Desks
  <2>3. /\ generation \in [Bots -> Nat]
        /\ \A b \in Bots : generation[b] <= MaxGeneration[b]
        /\ {backends, activations, hosts} \subseteq [Bots -> Maybe]
        /\ stops \in [Bots -> StopState] /\ act \in [Backends -> Attempt]
        /\ backend \in [Backends -> BackendState]
        /\ pending \subseteq Controls /\ holding \subseteq Bots
    BY <2>2, DeskFields DEF Desks
  <2>4. ASSUME NEW k \in Backends
        PROVE  /\ backend[k].start = "control"
                    <=> \E c \in pending : c.op = "start" /\ c.by = k
               /\ {backend[k].awaited.undo, backend[k].awaited.stop}
                    \subseteq pending \cup {None}
    <3>1. PendingInv(k, act[k], backend[k], pending)
      BY <2>2, PendingOf
    <3> QED BY <2>3, <3>1 DEF PendingInv, StartOf
  <2> QED BY <2>1, <2>3, <2>4
       DEF FleetTypeOK, Maybe, StopState, Attempt, Places, BackendState
<1> QED BY <1>1, FleetAlways, PTL

\* The start slots of the engine: one is taken exactly while a worker boots,
\* never more than the limit are, and no bot waits beside a free one, however
\* the boots end and whatever the desktop asks meanwhile.
THEOREM SlotsAlwaysFollow == FleetSpec => []SlotsFollowBoots
<1>1. FleetInv => SlotsFollowBoots
  <2> SUFFICES ASSUME FleetInv PROVE SlotsFollowBoots
    OBVIOUS
  <2>1. SlotInv(Host) /\ Filled(Host) /\ Host \in HostStore
    BY DEF FleetInv, Steady, Hosts
  <2>2. Booting(Host) = {b \in Bots : HasWorker(b) /\ ~residents[b].settled}
    BY HostFields DEF Booting, Boots, HasWorker
  <2> QED BY <2>1, <2>2, HostFields, StoreFields, HostAssumption
       DEF SlotInv, Filled, SlotsFollowBoots
<1> QED BY <1>1, FleetAlways, PTL

-----------------------------------------------------------------------------
(* Who answers for a bot: the desktop's side *)

Running == {"stoppingOld", "preparing", "starting", "undoing"}

\* A backend k, and its bot's backend m and binding h.  A binding is that of
\* the registry's backend, which holds the engine; only that backend holds it
\* or stops; a confirmed stop has released it.  A control that is awaited, or
\* that is a pending stop, is the backend's own, for its own binding.
Bonds(k, w, m, h, P) ==
  /\ h = k => m = k /\ w.owner
  /\ w.owner => m = k
  /\ w.stop # "none" => m = k /\ w.moved
  /\ w.stop = "idle" => ~w.owner
  /\ w.stop = "confirmed" => h # k
  /\ \A c \in {w.awaited.undo, w.awaited.stop} : c # None =>
        c.op # "start" /\ c.by = k /\ (h = k => c.bound = k)
  /\ \A c \in P : c.by = k =>
        /\ c.bound \in {None, k}
        /\ w.calls # 0
        /\ c.op = "undo" => w.awaited.undo = c /\ w.start = "undo"
        /\ c.op = "stop" => w.awaited.stop = c /\ w.stop = "control"

\* It still holds when controls are settled.
LEMMA BondsFewer ==
  ASSUME NEW k, NEW w, NEW m, NEW h, NEW P, NEW R, Bonds(k, w, m, h, P),
         \A c \in R : c.by = k => c \in P
  PROVE  Bonds(k, w, m, h, R)
BY DEF Bonds

\* A backend that is shown ready has its binding, or a stop that took it away
\* is about to say so.
Shown(k, w, h) ==
  /\ w.phase = "ready" => w.owner /\ w.start = "settled"
  /\ w.phase = "ready" /\ h # k => w.stop = "confirmed"
  /\ w.phase = "ready" /\ w.moved => w.stop # "none"
  /\ w.start \in {"control", "returned"} /\ w.owner => h = k

\* An attempt k, its bot's generation g, backend m, activation v and stop z.
\* No attempt of the present generation runs beside a stop or beside another,
\* and none prepares while the bot has a backend.
Turn(k, a, w, g, m, v, z) ==
  /\ a.at \in Early => w = NewBackend /\ m # k
  /\ a.at \in Running => a.gen <= g
  /\ a.at \in Running /\ z.at # "none" => a.gen < g
  /\ a.at \in Running /\ a.gen = g => v = k
  /\ a.at = "preparing" /\ a.gen = g => m = None
  /\ a.at = "stoppingOld" => a.old # None /\ botOf[a.old] = botOf[k]

BackendKept(s, k) ==
  LET b == botOf[k]
  IN /\ Bonds(k, s.backend[k], s.backends[b], s.hosts[b], s.pending)
     /\ Shown(k, s.backend[k], s.hosts[b])
     /\ Turn(k, s.act[k], s.backend[k], s.generation[b], s.backends[b],
             s.activations[b], s.stops[b])

\* What the registry and the client have for a bot is the bot's, and the host
\* keeps something for it exactly while its backend holds the engine.
BotKept(s, b) ==
  /\ \A m \in {s.hosts[b], s.backends[b], s.activations[b]} : m # None => botOf[m] = b
  /\ b \in s.holding <=> s.backends[b] # None /\ s.backend[s.backends[b]].owner

Bonded ==
  {s \in Desks : /\ \A b \in Bots : BotKept(s, b)
                 /\ \A k \in Backends : BackendKept(s, k)}

\* What another bot's step leaves alone.
Elsewhere(s, t, b) ==
  /\ \A x \in Bots \ {b} :
       /\ t.generation[x] = s.generation[x] /\ t.backends[x] = s.backends[x]
       /\ t.activations[x] = s.activations[x] /\ t.stops[x] = s.stops[x]
       /\ t.hosts[x] = s.hosts[x] /\ (x \in t.holding <=> x \in s.holding)
  /\ \A k \in Backends : botOf[k] # b => /\ t.act[k] = s.act[k]
                                         /\ t.backend[k] = s.backend[k]
  /\ \A c \in t.pending : c \in s.pending \/ botOf[c.by] = b

LEMMA BotOnly ==
  ASSUME NEW s \in Bonded, NEW t \in Desks, NEW b \in Bots,
         Elsewhere(s, t, b), BotKept(t, b),
         \A k \in Backends : botOf[k] = b => BackendKept(t, k)
  PROVE  t \in Bonded
<1>1. ASSUME NEW x \in Bots PROVE BotKept(t, x)
  <2>1. CASE x = b
    BY <2>1
  <2>2. CASE x # b
    <3>1. BotKept(s, x)
      BY DEF Bonded
    <3>2. s.backends[x] \in Maybe
      BY DeskFields DEF Bonded, Desks
    <3>3. s.backends[x] # None => t.backend[s.backends[x]] = s.backend[s.backends[x]]
      BY <2>2, <3>1, <3>2 DEF BotKept, Elsewhere, Maybe
    <3> QED BY <2>2, <3>1, <3>3 DEF BotKept, Elsewhere
  <2> QED BY <2>1, <2>2
<1>2. ASSUME NEW k \in Backends PROVE BackendKept(t, k)
  <2>1. CASE botOf[k] = b
    BY <2>1
  <2>2. CASE botOf[k] # b
    <3> DEFINE x == botOf[k]
    <3>1. x \in Bots \ {b} /\ BackendKept(s, k)
      BY <2>2, HostAssumption DEF Bonded
    <3>2. /\ t.act[k] = s.act[k] /\ t.backend[k] = s.backend[k]
          /\ t.generation[x] = s.generation[x] /\ t.backends[x] = s.backends[x]
          /\ t.activations[x] = s.activations[x] /\ t.stops[x] = s.stops[x]
          /\ t.hosts[x] = s.hosts[x]
      BY <2>2, <3>1 DEF Elsewhere
    <3>3. \A c \in t.pending : c.by = k => c \in s.pending
      BY <2>2 DEF Elsewhere
    <3>4. Bonds(k, t.backend[k], t.backends[x], t.hosts[x], t.pending)
      <4>1. Bonds(k, t.backend[k], t.backends[x], t.hosts[x], s.pending)
        BY <3>1, <3>2 DEF BackendKept
      <4> QED BY <3>3, <4>1, BondsFewer
    <3> QED BY <3>1, <3>2, <3>4 DEF BackendKept
  <2> QED BY <2>1, <2>2
<1> QED BY <1>1, <1>2 DEF Bonded

SameRecords(s, t) ==
  /\ t.generation = s.generation /\ t.backends = s.backends
  /\ t.activations = s.activations /\ t.stops = s.stops
  /\ t.hosts = s.hosts /\ t.holding = s.holding /\ t.up = s.up

\* A step of one backend that moves nothing of its bot's.
LEMMA BackendOnly ==
  ASSUME NEW s \in Bonded, NEW t \in Desks, NEW k \in Backends, NEW w,
         SameRecords(s, t), t.act = s.act,
         t.backend = [s.backend EXCEPT ![k] = w],
         \A c \in t.pending : c \in s.pending \/ c.by = k,
         w.owner = s.backend[k].owner,
         s.act[k].at \notin Early,
         Bonds(k, w, s.backends[botOf[k]], s.hosts[botOf[k]], t.pending),
         Shown(k, w, s.hosts[botOf[k]])
  PROVE  t \in Bonded
<1> DEFINE b == botOf[k]
<1> USE DEF SameRecords
<1>0. b \in Bots /\ s \in DeskStore
  BY HostAssumption DEF Bonded, Desks
<1>1. \A j \in Backends : t.backend[j] = IF j = k THEN w ELSE s.backend[j]
  BY <1>0, DeskFields
<1>2. Elsewhere(s, t, b)
  BY <1>1 DEF Elsewhere
<1>3. BotKept(t, b)
  <2>1. BotKept(s, b) /\ s.backends[b] \in Maybe
    BY <1>0, DeskFields DEF Bonded
  <2>2. s.backends[b] # None => t.backend[s.backends[b]].owner = s.backend[s.backends[b]].owner
    BY <1>1, <2>1 DEF Maybe
  <2> QED BY <2>1, <2>2 DEF BotKept
<1>4. ASSUME NEW j \in Backends, botOf[j] = b PROVE BackendKept(t, j)
  <2>1. BackendKept(s, j)
    BY DEF Bonded
  <2>2. CASE j = k
    <3>1. Turn(k, t.act[k], w, t.generation[b], t.backends[b], t.activations[b], t.stops[b])
      BY <2>1, <2>2 DEF BackendKept, Turn
    <3> QED BY <1>1, <2>2, <3>1 DEF BackendKept
  <2>3. CASE j # k
    <3>1. t.backend[j] = s.backend[j] /\ \A c \in t.pending : c.by = j => c \in s.pending
      BY <1>1, <2>3
    <3>2. Bonds(j, t.backend[j], s.backends[b], s.hosts[b], s.pending)
      BY <1>4, <2>1, <3>1 DEF BackendKept
    <3>3. Bonds(j, t.backend[j], s.backends[b], s.hosts[b], t.pending)
      BY <3>1, <3>2, BondsFewer
    <3> QED BY <1>4, <2>1, <3>1, <3>3 DEF BackendKept
  <2> QED BY <2>2, <2>3
<1> QED BY <1>0, <1>2, <1>3, <1>4, BotOnly

\* A started backend whose bot may still answer for it: nobody has asked for
\* its stop, and it waits for its worker or is shown ready.
Heard(s, k) == s.backend[k].start = "returned" \/ s.backend[k].phase = "ready"
Live(s, k) ==
  /\ ~s.backend[k].moved
  /\ s.hosts[botOf[k]] = k
  /\ s.backend[k].start = "control" \/ Heard(s, k)

\* A stop that is sent for a bot none of whose backends is live.
LateStop(t, c) ==
  /\ c.op # "start" /\ c.bound \in {None, c.by} /\ t.backend[c.by].calls # 0
  /\ \A k \in Backends : botOf[k] = botOf[c.by] => ~Live(t, k)

SendsStops(s, t) ==
  \E Q \in Seq(Controls) : /\ t.toHost = s.toHost \o Q
                           /\ \A i \in 1..Len(Q) : LateStop(t, Q[i])

\* A step that sends nothing but such stops, binds nobody and makes no backend
\* live or heard.
Quiet(s, t) ==
  /\ t.hosts = s.hosts /\ t.up = s.up
  /\ \A c \in t.pending : c.op = "start" => c \in s.pending
  /\ \A k \in Backends : /\ s.backend[k].calls # 0 => t.backend[k].calls # 0
                         /\ Live(t, k) => Live(s, k) /\ (Heard(t, k) => Heard(s, k))
  /\ SendsStops(s, t)

LEMMA QuietThenQuiet ==
  ASSUME NEW s \in DeskStore, NEW t \in DeskStore, NEW u, Quiet(s, t), Quiet(t, u)
  PROVE  Quiet(s, u)
<1>0. ASSUME NEW k \in Backends
      PROVE  /\ s.backend[k].calls # 0 => u.backend[k].calls # 0
             /\ t.backend[k].calls # 0 => u.backend[k].calls # 0
             /\ Live(u, k) => Live(t, k)
             /\ Live(u, k) => Live(s, k) /\ (Heard(u, k) => Heard(s, k))
  <2>1. /\ s.backend[k].calls # 0 => t.backend[k].calls # 0
        /\ Live(t, k) => Live(s, k) /\ (Heard(t, k) => Heard(s, k))
    BY DEF Quiet
  <2>2. /\ t.backend[k].calls # 0 => u.backend[k].calls # 0
        /\ Live(u, k) => Live(t, k) /\ (Heard(u, k) => Heard(t, k))
    BY DEF Quiet
  <2> QED BY <2>1, <2>2
<1>1. PICK P \in Seq(Controls) : /\ t.toHost = s.toHost \o P
                                /\ \A i \in 1..Len(P) : LateStop(t, P[i])
  BY DEF Quiet, SendsStops
<1>2. PICK Q \in Seq(Controls) : /\ u.toHost = t.toHost \o Q
                                /\ \A i \in 1..Len(Q) : LateStop(u, Q[i])
  BY DEF Quiet, SendsStops
<1>3. s.toHost \in Seq(Controls) /\ P \o Q \in Seq(Controls)
  BY DeskFields, ConcatProperties
<1>4. u.toHost = s.toHost \o (P \o Q)
  <2> DEFINE S == s.toHost
  <2>1. S \in Seq(Controls) /\ P \in Seq(Controls) /\ Q \in Seq(Controls)
    BY <1>1, <1>2, <1>3
  <2>2. u.toHost = (S \o P) \o Q
    BY <1>1, <1>2
  <2> HIDE DEF S
  <2>3. (S \o P) \o Q = S \o (P \o Q)
    BY <2>1, ConcatAssociative
  <2> QED BY <2>2, <2>3 DEF S
<1>5. ASSUME NEW i \in 1..Len(P \o Q) PROVE LateStop(u, (P \o Q)[i])
  <2>1. CASE i \in 1..Len(P)
    <3>1. (P \o Q)[i] = P[i] /\ LateStop(t, P[i]) /\ P[i] \in Controls
      BY <1>1, <2>1, ConcatProperties, ElementOfSeq
    <3>2. P[i].by \in Backends
      BY <3>1 DEF Controls
    <3> QED BY <1>0, <3>1, <3>2 DEF LateStop
  <2>2. CASE i \notin 1..Len(P)
    <3>1. i - Len(P) \in 1..Len(Q) /\ (P \o Q)[i] = Q[i - Len(P)]
      BY <2>2, ConcatProperties, LenProperties
    <3> QED BY <1>2, <3>1
  <2> QED BY <2>1, <2>2
<1>6. SendsStops(s, u)
  BY <1>3, <1>4, <1>5 DEF SendsStops
<1>7. /\ u.hosts = s.hosts /\ u.up = s.up
      /\ \A c \in u.pending : c.op = "start" => c \in s.pending
  BY DEF Quiet
<1> QED BY <1>0, <1>6, <1>7 DEF Quiet

\* Nothing is sent.
LEMMA QuietUnsaid ==
  ASSUME NEW s \in DeskStore, NEW t,
         t.hosts = s.hosts, t.up = s.up, t.toHost = s.toHost,
         \A c \in t.pending : c.op = "start" => c \in s.pending,
         \A k \in Backends :
           /\ s.backend[k].calls # 0 => t.backend[k].calls # 0
           /\ Live(t, k) => Live(s, k) /\ (Heard(t, k) => Heard(s, k))
  PROVE  Quiet(s, t)
<1>1. /\ <<>> \in Seq(Controls) /\ t.toHost = s.toHost \o <<>>
      /\ \A i \in 1..Len(<<>>) : LateStop(t, <<>>[i])
  BY DeskFields, ConcatEmptySeq
<1> QED BY <1>1 DEF Quiet, SendsStops

\* One stop is sent.
LEMMA QuietStop ==
  ASSUME NEW s \in DeskStore, NEW t, NEW c \in Controls,
         t.hosts = s.hosts, t.up = s.up, t.toHost = Append(s.toHost, c),
         \A d \in t.pending : d.op = "start" => d \in s.pending,
         \A k \in Backends :
           /\ s.backend[k].calls # 0 => t.backend[k].calls # 0
           /\ Live(t, k) => Live(s, k) /\ (Heard(t, k) => Heard(s, k)),
         LateStop(t, c)
  PROVE  Quiet(s, t)
<1>1. /\ <<c>> \in Seq(Controls) /\ t.toHost = s.toHost \o <<c>>
      /\ \A i \in 1..Len(<<c>>) : LateStop(t, <<c>>[i])
  BY DeskFields, AppendIsConcat
<1> QED BY <1>1 DEF Quiet, SendsStops

-----------------------------------------------------------------------------
(* What each operator makes of what is bonded *)

\* A backend k that is its bot's, or is bound, and what is known of it.
LEMMA KeptOf ==
  ASSUME NEW s \in Bonded, NEW k \in Backends
  PROVE  /\ s \in Desks /\ s \in DeskStore
         /\ s.backend[k] \in BackendState
         /\ PendingInv(k, s.act[k], s.backend[k], s.pending)
         /\ botOf[k] \in Bots
         /\ s.hosts[botOf[k]] \in Maybe
         /\ s.backends[botOf[k]] \in Maybe
         /\ s.activations[botOf[k]] \in Maybe
         /\ Bonds(k, s.backend[k], s.backends[botOf[k]], s.hosts[botOf[k]], s.pending)
         /\ Shown(k, s.backend[k], s.hosts[botOf[k]])
         /\ Turn(k, s.act[k], s.backend[k], s.generation[botOf[k]], s.backends[botOf[k]],
                 s.activations[botOf[k]], s.stops[botOf[k]])
         /\ BotKept(s, botOf[k])
<1>1. s \in Desks /\ s \in DeskStore /\ BackendKept(s, k)
  BY DEF Bonded, Desks
<1>2. botOf[k] \in Bots
  BY PendingOf, <1>1
<1>3. BotKept(s, botOf[k])
  BY <1>2 DEF Bonded
<1> QED BY <1>1, <1>3, PendingOf DEF BackendKept

\* A backend whose act is unused, waiting or preparing is new.
LEMMA NotEarly ==
  ASSUME NEW s \in Bonded, NEW k \in Backends,
         s.backends[botOf[k]] = k \/ s.hosts[botOf[k]] = k \/ s.backend[k].start # "none"
  PROVE  s.act[k].at \notin Early
<1>1. SUFFICES ASSUME s.act[k].at \in Early PROVE FALSE
  OBVIOUS
<1>2. s.backend[k] = NewBackend /\ s.backends[botOf[k]] # k
  BY <1>1, KeptOf DEF Turn
<1>3. ~s.backend[k].owner /\ s.backend[k].start = "none"
  BY <1>2 DEF NewBackend
<1> QED BY <1>2, <1>3, KeptOf DEF Bonds

\* stopBot(): the backend k awaits the control c, which is a stop of its own.
StopAsked(s, t, k, op, c, n) ==
  /\ c \in Controls /\ c.op # "start" /\ c.by = k /\ c.bound = s.hosts[botOf[k]]
  /\ n \in Nat \ {0}
  /\ SameRecords(s, t) /\ t.act = s.act
  /\ t.backend = [s.backend EXCEPT ![k] =
                    [s.backend[k] EXCEPT !.awaited[op] = c, !.calls = n]]
  /\ t.pending = s.pending \cup {c}
  /\ \/ c \in s.pending /\ t.toHost = s.toHost
     \/ c.op = op /\ t.toHost = Append(s.toHost, c)

LEMMA StopBotAsks ==
  ASSUME NEW s \in Bonded, NEW k \in Backends, NEW op \in {"undo", "stop"},
         s.hosts[botOf[k]] \in {None, k}
  PROVE  \E c, n : StopAsked(s, StopBot(s, k, op), k, op, c, n)
<1>0. /\ s \in DeskStore /\ s \in Desks /\ s.backend[k] \in BackendState
      /\ s.pending \in SUBSET Controls
  BY KeptOf, DeskFields
<1>1. CASE SharedStops(s, k) # {}
  <2> DEFINE c == CHOOSE x \in SharedStops(s, k) : TRUE
             n == s.backend[k].calls
             t == StopBot(s, k, op)
  <2>1. /\ c \in s.pending /\ c.op # "start" /\ c.bound # None
        /\ c.bound = s.hosts[botOf[k]]
    BY <1>1 DEF SharedStops
  <2>2. t = [s EXCEPT !.backend[k].awaited[op] = c]
    BY <1>1 DEF StopBot
  <2> HIDE DEF c
  <2>3. c \in Controls /\ c.by \in Backends /\ c.bound = k
    BY <1>0, <2>1 DEF Controls
  <2>4. c.by = k
    <3>1. c.bound \in {None, c.by}
      BY <2>1, <2>3, KeptOf DEF Bonds
    <3> QED BY <2>1, <2>3, <3>1
  <2>5. n \in Nat \ {0}
    BY <1>0, <2>1, <2>4, KeptOf, BackendFields DEF Bonds
  <2>6. [s.backend[k] EXCEPT !.awaited[op] = c]
          = [s.backend[k] EXCEPT !.awaited[op] = c, !.calls = n]
    BY <1>0 DEF BackendState
  <2>7. t = [s EXCEPT !.backend[k] =
               [s.backend[k] EXCEPT !.awaited[op] = c, !.calls = n]]
    BY <1>0, <2>2, <2>6 DEF DeskStore
  <2> HIDE DEF t, n
  <2> DEFINE w == [s.backend[k] EXCEPT !.awaited[op] = c, !.calls = n]
  <2> HIDE DEF w
  <2>8. /\ SameRecords(s, t) /\ t.act = s.act /\ t.pending = s.pending
        /\ t.toHost = s.toHost /\ t.backend = [s.backend EXCEPT ![k] = w]
    BY <1>0, <2>7 DEF DeskStore, SameRecords, w
  <2> QED BY <2>1, <2>3, <2>4, <2>5, <2>8 DEF StopAsked, t, w
<1>2. CASE SharedStops(s, k) = {}
  <2> DEFINE c == Control(op, k, s)
             one == s.backend[k]
             n == one.calls + 1
             t == StopBot(s, k, op)
             w == [one EXCEPT !.awaited[op] = c, !.calls = n]
  <2>1. c \in Controls /\ c.op = op /\ c.by = k /\ c.bound = s.hosts[botOf[k]]
    BY <1>0, ControlTyped DEF Control
  <2>2. t = [Call(s, c) EXCEPT !.backend[k].awaited[op] = c]
    BY <1>2 DEF StopBot
  <2> HIDE DEF c
  <2> DEFINE x == [one EXCEPT !.calls = @ + 1]
             e == [s.backend EXCEPT ![k] = x]
             v == [s EXCEPT !.backend = e, !.pending = s.pending \cup {c},
                            !.toHost = Append(s.toHost, c)]
  <2>3. Call(s, c) = v
    BY <1>0, <2>1 DEF Call, DeskStore
  <2>4. n \in Nat \ {0}
    <3>1. one.calls \in Nat
      BY <1>0, BackendFields
    <3> QED BY <3>1
  <2>5. [x EXCEPT !.awaited[op] = c] = w
    BY <1>0 DEF BackendState
  <2> HIDE DEF x, w, n
  <2>6. v.backend = e /\ e[k] = x
    BY <1>0, DeskFields DEF DeskStore
  <2>7. [e EXCEPT ![k] = w] = [s.backend EXCEPT ![k] = w]
    BY <1>0, DeskFields
  <2>8. t = [v EXCEPT !.backend = [s.backend EXCEPT ![k] = w]]
    <3> HIDE DEF v, e, t
    <3>1. [e EXCEPT ![k].awaited[op] = c] = [e EXCEPT ![k] = w]
      BY <2>5, <2>6
    <3> QED BY <2>2, <2>3, <2>6, <2>7, <3>1
  <2> HIDE DEF t, e
  <2>9. /\ SameRecords(s, t) /\ t.act = s.act /\ t.pending = s.pending \cup {c}
        /\ t.toHost = Append(s.toHost, c) /\ t.backend = [s.backend EXCEPT ![k] = w]
    BY <1>0, <2>8 DEF DeskStore, SameRecords
  <2> QED BY <2>1, <2>4, <2>9 DEF StopAsked, t, w
<1> QED BY <1>1, <1>2

\* A binding is the registry's backend's.
LEMMA BoundOf ==
  ASSUME NEW s \in Bonded, NEW k \in Backends, s.backends[botOf[k]] = k
  PROVE  s.hosts[botOf[k]] \in {None, k}
<1> DEFINE h == s.hosts[botOf[k]]
<1>1. SUFFICES ASSUME h # None PROVE h = k
  OBVIOUS
<1>2. h \in Backends /\ botOf[h] = botOf[k]
  BY <1>1, KeptOf DEF Maybe, BotKept
<1>3. s.backends[botOf[h]] = h
  BY <1>2, KeptOf DEF Bonds
<1> QED BY <1>2, <1>3

\* What a step of k alone, which moves nothing of its bot's, leaves alone.
LEMMA OneBackendFields ==
  ASSUME NEW s \in DeskStore, NEW t, NEW k \in Backends, NEW w,
         t.backend = [s.backend EXCEPT ![k] = w]
  PROVE  \A j \in Backends : t.backend[j] = IF j = k THEN w ELSE s.backend[j]
BY DeskFields

\* A step of k alone makes nobody else live.
LEMMA QuietBackend ==
  ASSUME NEW s \in DeskStore, NEW t, NEW k \in Backends, NEW w,
         t.backend = [s.backend EXCEPT ![k] = w], t.hosts = s.hosts,
         s.backend[k].calls # 0 => w.calls # 0,
         Live(t, k) => Live(s, k) /\ (Heard(t, k) => Heard(s, k))
  PROVE  \A j \in Backends :
           /\ s.backend[j].calls # 0 => t.backend[j].calls # 0
           /\ Live(t, j) => Live(s, j) /\ (Heard(t, j) => Heard(s, j))
<1> TAKE j \in Backends
<1>1. CASE j = k
  BY <1>1, OneBackendFields
<1>2. CASE j # k
  <2>1. t.backend[j] = s.backend[j]
    BY <1>2, OneBackendFields
  <2>2. /\ Live(t, j) => Live(s, j)
        /\ Heard(t, j) => Heard(s, j)
    BY <2>1 DEF Live, Heard
  <2> QED BY <2>1, <2>2
<1> QED BY <1>1, <1>2

\* stopNamed() up to its await, for a stop that has marked its backend.
LEMMA AskToStopBonded ==
  ASSUME NEW s \in Bonded, NEW k \in Backends, s.backends[botOf[k]] = k,
         s.backend[k].moved, s.backend[k].stop \in {"none", "executions", "disconnected"}
  PROVE  /\ AskToStop(s, k) \in Bonded
         /\ Quiet(s, AskToStop(s, k))
         /\ SameRecords(s, AskToStop(s, k)) /\ AskToStop(s, k).act = s.act
         /\ \A j \in Backends \ {k} : AskToStop(s, k).backend[j] = s.backend[j]
<1> DEFINE t == AskToStop(s, k)
           one == s.backend[k]
           b == botOf[k]
           h == s.hosts[b]
<1>0. /\ s \in DeskStore /\ s \in Desks /\ one \in BackendState /\ b \in Bots
      /\ Bonds(k, one, k, h, s.pending) /\ Shown(k, one, h)
      /\ s.act[k].at \notin Early /\ h \in {None, k}
  BY KeptOf, NotEarly, BoundOf
<1>1. t \in Desks
  BY <1>0, AskToStopTyped
<1>2. CASE ~s.up
  <2> DEFINE w == [one EXCEPT !.stop = "unconfirmed"]
  <2>1. /\ w.awaited = one.awaited /\ w.start = one.start /\ w.phase = one.phase
        /\ w.owner = one.owner /\ w.moved = one.moved /\ w.calls = one.calls
        /\ w.stop = "unconfirmed"
    BY <1>0 DEF BackendState
  <2>2. /\ SameRecords(s, t) /\ t.act = s.act /\ t.pending = s.pending
        /\ t.toHost = s.toHost /\ t.backend = [s.backend EXCEPT ![k] = w]
    BY <1>0, <1>2 DEF AskToStop, DeskStore, SameRecords
  <2> HIDE DEF w, t
  <2>3. Bonds(k, w, k, h, t.pending) /\ Shown(k, w, h)
    BY <1>0, <2>1, <2>2 DEF Bonds, Shown
  <2>4. t \in Bonded
    BY <1>0, <1>1, <2>1, <2>2, <2>3, BackendOnly
  <2>5. ~Live(t, k)
    <3>1. t.backend[k] = w
      <4>1. s.backend \in [Backends -> BackendState]
        BY <1>0, DeskFields
      <4>2. t.backend = [s.backend EXCEPT ![k] = w]
        BY <2>2
      <4> QED BY <4>1, <4>2
    <3> QED BY <1>0, <2>1, <3>1 DEF Live
  <2>6. \A j \in Backends :
           /\ s.backend[j].calls # 0 => t.backend[j].calls # 0
           /\ Live(t, j) => Live(s, j) /\ (Heard(t, j) => Heard(s, j))
    BY <1>0, <2>1, <2>2, <2>5, QuietBackend DEF SameRecords
  <2>7. Quiet(s, t)
    BY <1>0, <2>2, <2>6, QuietUnsaid DEF SameRecords
  <2>8. \A j \in Backends \ {k} : t.backend[j] = s.backend[j]
    <3>1. s \in DeskStore /\ t.backend = [s.backend EXCEPT ![k] = w]
      BY <1>0, <2>2
    <3> QED BY <3>1, OneBackendFields
  <2> QED BY <2>2, <2>4, <2>7, <2>8 DEF t
<1>3. CASE s.up
  <2> DEFINE u == StopBot(s, k, "stop")
  <2>1. PICK c, n : StopAsked(s, u, k, "stop", c, n)
    BY <1>0, StopBotAsks
  <2>2. u \in Desks /\ u \in DeskStore
    BY <1>0, StopBotTyped DEF Desks
  <2>3. t = [u EXCEPT !.backend[k].stop = "control"]
    BY <1>3 DEF AskToStop
  <2> HIDE DEF u, t
  <2> DEFINE x == [one EXCEPT !.awaited["stop"] = c, !.calls = n]
             w == [x EXCEPT !.stop = "control"]
  <2>4. /\ x.awaited.undo = one.awaited.undo /\ x.awaited.stop = c
        /\ x.start = one.start /\ x.phase = one.phase
        /\ x.owner = one.owner /\ x.moved = one.moved /\ x.calls = n
        /\ w = [one EXCEPT !.awaited = x.awaited, !.calls = n, !.stop = "control"]
    BY <1>0 DEF BackendState
  <2>5. /\ w.awaited.undo = one.awaited.undo /\ w.awaited.stop = c
        /\ w.start = one.start /\ w.phase = one.phase
        /\ w.owner = one.owner /\ w.moved = one.moved /\ w.calls = n
        /\ w.stop = "control"
    <3> HIDE DEF x
    <3> QED BY <1>0, <2>4 DEF BackendState
  <2>6. /\ SameRecords(s, t) /\ t.act = s.act /\ t.pending = s.pending \cup {c}
        /\ t.toHost = u.toHost /\ t.backend = [s.backend EXCEPT ![k] = w]
    <3>1. u.backend = [s.backend EXCEPT ![k] = x]
      BY <2>1 DEF StopAsked
    <3> HIDE DEF x
    <3>2. u.backend[k] = x
      BY <1>0, <3>1, OneBackendFields
    <3>3. t.backend = [u.backend EXCEPT ![k] = w]
      BY <2>2, <2>3, <3>2 DEF DeskStore
    <3>4. t.backend = [s.backend EXCEPT ![k] = w]
      <4> HIDE DEF w
      <4> QED BY <1>0, <3>1, <3>3, DeskFields
    <3>5. /\ SameRecords(u, t) /\ t.act = u.act /\ t.pending = u.pending
          /\ t.toHost = u.toHost
      BY <2>2, <2>3 DEF DeskStore, SameRecords
    <3> QED BY <2>1, <3>4, <3>5 DEF StopAsked, SameRecords
  <2>7. c \in Controls /\ c.op # "start" /\ c.by = k /\ c.bound = h /\ n # 0
    BY <2>1 DEF StopAsked
  <2>8. (c \in s.pending /\ u.toHost = s.toHost)
        \/ (c.op = "stop" /\ u.toHost = Append(s.toHost, c))
    BY <2>1 DEF StopAsked
  <2> HIDE DEF w, x
  <2>9. Bonds(k, w, k, h, t.pending) /\ Shown(k, w, h)
    <3>1. Shown(k, w, h)
      BY <1>0, <2>5 DEF Shown
    <3>2. \A d \in s.pending : d.by = k => d.op # "stop"
      BY <1>0 DEF Bonds
    <3>3. \A d \in s.pending \cup {c} : d.by = k =>
            /\ d.bound \in {None, k}
            /\ d.op = "undo" => w.awaited.undo = d /\ w.start = "undo"
            /\ d.op = "stop" => w.awaited.stop = d /\ w.stop = "control"
      BY <1>0, <2>5, <2>7, <2>8, <3>2 DEF Bonds
    <3>4. \A d \in {w.awaited.undo, w.awaited.stop} : d # None =>
            d.op # "start" /\ d.by = k /\ (h = k => d.bound = k)
      BY <1>0, <2>5, <2>7 DEF Bonds
    <3> QED BY <1>0, <2>5, <2>6, <2>7, <3>1, <3>3, <3>4 DEF Bonds
  <2>10. \A d \in t.pending : d \in s.pending \/ d.by = k
    BY <2>6, <2>7
  <2>11. t \in Bonded
    BY <1>0, <1>1, <2>5, <2>6, <2>9, <2>10, BackendOnly
  <2>12. t.backend[k] = w /\ ~Live(t, k)
    <3>1. t.backend[k] = w
      BY <1>0, <2>6, DeskFields
    <3>2. w.moved
      BY <2>5
    <3> QED BY <3>1, <3>2 DEF Live
  <2>13. \A j \in Backends :
           /\ s.backend[j].calls # 0 => t.backend[j].calls # 0
           /\ Live(t, j) => Live(s, j) /\ (Heard(t, j) => Heard(s, j))
    BY <1>0, <2>5, <2>6, <2>7, <2>12, QuietBackend DEF SameRecords
  <2>14. LateStop(t, c)
    <3>1. t.backend[k].calls # 0
      BY <2>5, <2>7, <2>12
    <3>2. ASSUME NEW j \in Backends, botOf[j] = b PROVE ~Live(t, j)
      <4>1. j = k \/ t.hosts[botOf[j]] # j
        BY <1>0, <2>6, <3>2, HostAssumption DEF SameRecords
      <4> QED BY <2>12, <4>1 DEF Live
    <3> QED BY <1>0, <2>7, <3>1, <3>2 DEF LateStop
  <2>15. \A d \in t.pending : d.op = "start" => d \in s.pending
    BY <2>6, <2>7
  <2>16. Quiet(s, t)
    BY <1>0, <2>6, <2>7, <2>8, <2>13, <2>14, <2>15, QuietUnsaid, QuietStop DEF SameRecords
  <2>17. \A j \in Backends \ {k} : t.backend[j] = s.backend[j]
    BY <1>0, <2>6, OneBackendFields
  <2> QED BY <2>6, <2>11, <2>16, <2>17 DEF t
<1> QED BY <1>2, <1>3

LEMMA QuietSame ==
  ASSUME NEW s \in DeskStore PROVE Quiet(s, s)
<1>1. \A k \in Backends :
        /\ s.backend[k].calls # 0 => s.backend[k].calls # 0
        /\ Live(s, k) => Live(s, k) /\ (Heard(s, k) => Heard(s, k))
  OBVIOUS
<1> QED BY <1>1, QuietUnsaid

\* A step of one backend that says nothing.
LEMMA BackendStep ==
  ASSUME NEW s \in Bonded, NEW t \in Desks, NEW k \in Backends, NEW w,
         SameRecords(s, t), t.act = s.act, t.pending = s.pending,
         t.toHost = s.toHost, t.backend = [s.backend EXCEPT ![k] = w],
         w.owner = s.backend[k].owner, w.calls = s.backend[k].calls,
         s.act[k].at \notin Early,
         Bonds(k, w, s.backends[botOf[k]], s.hosts[botOf[k]], s.pending),
         Shown(k, w, s.hosts[botOf[k]]),
         w.start = "control" => s.backend[k].start = "control",
         w.start = "returned" => s.backend[k].start = "returned",
         w.moved \/ (w.phase = "ready" => Heard(s, k)),
         s.backend[k].moved => w.moved
  PROVE  /\ t \in Bonded /\ Quiet(s, t)
         /\ \A j \in Backends \ {k} : t.backend[j] = s.backend[j]
<1>1. s \in DeskStore
  BY KeptOf
<1>2. /\ t.backend[k] = w
      /\ \A j \in Backends \ {k} : t.backend[j] = s.backend[j]
  BY <1>1, DeskFields
<1>3. t \in Bonded
  BY BackendOnly
<1>4. Live(t, k) => Live(s, k) /\ (Heard(t, k) => Heard(s, k))
  BY <1>2 DEF Live, Heard, SameRecords
<1>5. \A j \in Backends :
        /\ s.backend[j].calls # 0 => t.backend[j].calls # 0
        /\ Live(t, j) => Live(s, j) /\ (Heard(t, j) => Heard(s, j))
  BY <1>1, <1>4, QuietBackend DEF SameRecords
<1>6. Quiet(s, t)
  BY <1>1, <1>5, QuietUnsaid DEF SameRecords
<1> QED BY <1>2, <1>3, <1>6

\* stop() of a bot's backend.
LEMMA StopBackendBonded ==
  ASSUME NEW s \in Bonded, NEW k \in Backends, s.backends[botOf[k]] = k
  PROVE  /\ StopBackend(s, k) \in Bonded
         /\ Quiet(s, StopBackend(s, k))
         /\ SameRecords(s, StopBackend(s, k)) /\ StopBackend(s, k).act = s.act
         /\ \A j \in Backends \ {k} : StopBackend(s, k).backend[j] = s.backend[j]
<1> DEFINE t == StopBackend(s, k)
           one == s.backend[k]
           h == s.hosts[botOf[k]]
           v == [one EXCEPT !.moved = TRUE]
           moved == [s EXCEPT !.backend[k] = v]
<1>0. /\ s \in DeskStore /\ s \in Desks /\ one \in BackendState
      /\ Bonds(k, one, k, h, s.pending) /\ Shown(k, one, h)
      /\ s.act[k].at \notin Early
  BY KeptOf, NotEarly
<1>1. t \in Desks
  BY <1>0, StopBackendTyped
<1>2. moved = [s EXCEPT !.backend[k].moved = TRUE]
  BY <1>0 DEF DeskStore
<1>3. CASE one.stop # "none"
  <2>1. t = s
    BY <1>3 DEF StopBackend
  <2> QED BY <1>0, <2>1, QuietSame DEF SameRecords
<1>4. ASSUME NEW x \in {"idle", "executions"}, one.stop = "none", x = "idle" => ~one.owner,
             t = [moved EXCEPT !.backend[k].stop = x]
      PROVE  /\ t \in Bonded /\ Quiet(s, t) /\ SameRecords(s, t) /\ t.act = s.act
             /\ \A j \in Backends \ {k} : t.backend[j] = s.backend[j]
  <2> DEFINE w == [v EXCEPT !.stop = x]
  <2>1. /\ w.awaited = one.awaited /\ w.start = one.start /\ w.phase = one.phase
        /\ w.owner = one.owner /\ w.moved = TRUE /\ w.calls = one.calls
        /\ w.stop = x
    BY <1>0 DEF BackendState
  <2>2. /\ SameRecords(s, t) /\ t.act = s.act /\ t.pending = s.pending
        /\ t.toHost = s.toHost /\ t.backend = [s.backend EXCEPT ![k] = w]
    <3>1. moved \in DeskStore /\ moved.backend[k] = v
      <4>1. v \in BackendState
        BY <1>0 DEF BackendState
      <4> HIDE DEF v
      <4> QED BY <1>0, <4>1 DEF DeskStore
    <3>2. t = [s EXCEPT !.backend[k] = w]
      <4> HIDE DEF v
      <4>1. t = [moved EXCEPT !.backend[k] = w]
        <5> HIDE DEF t, moved
        <5> QED BY <1>4, <3>1 DEF DeskStore
      <4> QED BY <1>0, <4>1 DEF DeskStore
    <3> HIDE DEF w, t
    <3> QED BY <1>0, <3>2 DEF DeskStore, SameRecords
  <2> HIDE DEF w, t
  <2>3. Bonds(k, w, k, h, s.pending) /\ Shown(k, w, h)
    BY <1>0, <1>4, <2>1, <2>2 DEF Bonds, Shown
  <2> QED BY <1>0, <1>1, <2>1, <2>2, <2>3, BackendStep
<1>5. CASE one.stop = "none" /\ ~one.owner
  BY <1>2, <1>4, <1>5 DEF StopBackend
<1>6. CASE one.stop = "none" /\ one.owner /\ one.phase = "ready"
  BY <1>2, <1>4, <1>6 DEF StopBackend
<1>7. CASE one.stop = "none" /\ one.owner /\ one.phase # "ready"
  <2>1. t = AskToStop(moved, k)
    BY <1>2, <1>7 DEF StopBackend
  <2>2. /\ v.awaited = one.awaited /\ v.start = one.start /\ v.phase = one.phase
        /\ v.owner = one.owner /\ v.moved = TRUE /\ v.calls = one.calls
        /\ v.stop = "none" /\ v \in BackendState
    BY <1>0, <1>7 DEF BackendState
  <2> HIDE DEF v
  <2>3. /\ SameRecords(s, moved) /\ moved.act = s.act /\ moved.pending = s.pending
        /\ moved.toHost = s.toHost /\ moved.backend = [s.backend EXCEPT ![k] = v]
    BY <1>0 DEF DeskStore, SameRecords
  <2>4. moved \in Desks /\ moved.backend[k] = v
    BY <1>0, <2>2, BackendChanged
  <2> HIDE DEF moved, t
  <2>5. Bonds(k, v, k, h, s.pending) /\ Shown(k, v, h)
    BY <1>0, <1>7, <2>2 DEF Bonds, Shown
  <2>6. /\ moved \in Bonded /\ Quiet(s, moved)
        /\ \A j \in Backends \ {k} : moved.backend[j] = s.backend[j]
    BY <1>0, <2>2, <2>3, <2>4, <2>5, BackendStep
  <2>7. moved.backends[botOf[k]] = k
    BY <2>3 DEF SameRecords
  <2>8. /\ t \in Bonded /\ Quiet(moved, t) /\ SameRecords(moved, t) /\ t.act = moved.act
        /\ \A j \in Backends \ {k} : t.backend[j] = moved.backend[j]
    BY <2>1, <2>2, <2>4, <2>6, <2>7, AskToStopBonded
  <2>9. Quiet(s, t)
    BY <1>0, <2>4, <2>6, <2>8, QuietThenQuiet DEF Desks
  <2> QED BY <2>3, <2>6, <2>8, <2>9 DEF SameRecords, t
<1> QED BY <1>3, <1>5, <1>6, <1>7

SameRegistry(s, t) ==
  /\ t.generation = s.generation /\ t.backends = s.backends
  /\ t.activations = s.activations /\ t.stops = s.stops /\ t.act = s.act

\* The bot's backend gives the engine up, perhaps because its binding is gone.
LEMMA GivenUp ==
  ASSUME NEW s \in Bonded, NEW t \in Desks, NEW k \in Backends, NEW w,
         s.backends[botOf[k]] = k,
         SameRegistry(s, t), t.pending = s.pending,
         t.backend = [s.backend EXCEPT ![k] = w], ~w.owner,
         \/ t.hosts = s.hosts
         \/ t.hosts = [s.hosts EXCEPT ![botOf[k]] = None],
         \/ t.holding = s.holding \ {botOf[k]}
         \/ t.holding = s.holding /\ ~s.backend[k].owner,
         Bonds(k, w, k, t.hosts[botOf[k]], s.pending),
         Shown(k, w, t.hosts[botOf[k]])
  PROVE  t \in Bonded
<1> DEFINE b == botOf[k]
<1>0. /\ s \in DeskStore /\ b \in Bots /\ s.act[k].at \notin Early
      /\ s.hosts[b] \in {None, k} /\ None \notin Backends
  BY KeptOf, NotEarly, BoundOf, HostAssumption
<1>1. \A j \in Backends : t.backend[j] = IF j = k THEN w ELSE s.backend[j]
  BY <1>0, DeskFields
<1>2. \A x \in Bots : t.hosts[x] = s.hosts[x] \/ (x = b /\ t.hosts[x] = None)
  BY <1>0, DeskFields
<1>3. Elsewhere(s, t, b)
  BY <1>1, <1>2 DEF Elsewhere, SameRegistry
<1>4. BotKept(t, b)
  <2>1. BotKept(s, b)
    BY KeptOf
  <2> QED BY <1>0, <1>1, <1>2, <2>1 DEF BotKept, SameRegistry
<1>5. ASSUME NEW j \in Backends, botOf[j] = b PROVE BackendKept(t, j)
  <2>1. BackendKept(s, j)
    BY DEF Bonded
  <2>2. CASE j = k
    <3>1. Turn(k, t.act[k], w, t.generation[b], t.backends[b], t.activations[b], t.stops[b])
      BY <1>0, <2>1, <2>2 DEF BackendKept, Turn, SameRegistry
    <3> QED BY <1>1, <2>2, <3>1 DEF BackendKept, SameRegistry
  <2>3. CASE j # k
    <3>1. t.backend[j] = s.backend[j] /\ s.hosts[b] # j /\ t.hosts[b] # j
      BY <1>0, <1>1, <1>2, <2>3
    <3>2. Bonds(j, t.backend[j], t.backends[b], t.hosts[b], t.pending)
      <4>1. Bonds(j, s.backend[j], s.backends[b], s.hosts[b], s.pending)
        BY <1>5, <2>1 DEF BackendKept
      <4>2. t.backends[b] = s.backends[b]
        BY DEF SameRegistry
      <4> QED BY <1>5, <2>3, <3>1, <4>1, <4>2 DEF Bonds
    <3>3. Shown(j, t.backend[j], t.hosts[b])
      BY <1>5, <2>1, <3>1 DEF BackendKept, Shown
    <3>4. Turn(j, t.act[j], t.backend[j], t.generation[b], t.backends[b],
               t.activations[b], t.stops[b])
      BY <1>5, <2>1, <3>1 DEF BackendKept, SameRegistry
    <3> QED BY <1>5, <3>2, <3>3, <3>4 DEF BackendKept
  <2> QED BY <2>2, <2>3
<1> QED BY <1>0, <1>3, <1>4, <1>5, BotOnly

\* The catch of startNamed().
LEMMA StartFailedBonded ==
  ASSUME NEW s \in Bonded, NEW k \in Backends,
         s.backend[k].start \in {"undone", "refused", "returned"}
  PROVE  StartFailed(s, k) \in Bonded /\ Quiet(s, StartFailed(s, k))
<1> DEFINE t == StartFailed(s, k)
           b == botOf[k]
           one == s.backend[k]
           h == s.hosts[b]
           m == s.backends[b]
           lost == one.owner /\ h = None
<1>0. /\ s \in DeskStore /\ s \in Desks /\ one \in BackendState /\ b \in Bots
      /\ Bonds(k, one, m, h, s.pending) /\ Shown(k, one, h)
      /\ s.act[k].at \notin Early
  BY KeptOf, NotEarly
<1>1. t \in Desks
  BY <1>0, StartFailedTyped
<1> DEFINE v == [one EXCEPT !.start = "settled", !.startup = FALSE]
<1>2. CASE one.moved
  <2>1. t = [s EXCEPT !.backend[k] = v]
    BY <1>0, <1>2 DEF StartFailed, DeskStore
  <2>2. /\ v.awaited = one.awaited /\ v.start = "settled" /\ v.phase = one.phase
        /\ v.owner = one.owner /\ v.moved = one.moved /\ v.calls = one.calls
        /\ v.stop = one.stop
    BY <1>0 DEF BackendState
  <2> HIDE DEF v, t
  <2>3. /\ SameRecords(s, t) /\ t.act = s.act /\ t.pending = s.pending
        /\ t.toHost = s.toHost /\ t.backend = [s.backend EXCEPT ![k] = v]
    BY <1>0, <2>1 DEF DeskStore, SameRecords
  <2>4. Bonds(k, v, m, h, s.pending) /\ Shown(k, v, h)
    BY <1>0, <2>2 DEF Bonds, Shown
  <2> QED BY <1>0, <1>1, <1>2, <2>2, <2>3, <2>4, BackendStep DEF t
<1>3. CASE ~one.moved
  <2> DEFINE w == [v EXCEPT !.phase = "degraded", !.owner = @ /\ ~lost]
             B == IF lost THEN s.holding \ {b} ELSE s.holding
  <2>1. t = [s EXCEPT !.backend[k] = w, !.holding = B]
    <3> DEFINE settled == [s EXCEPT !.backend[k] = v]
    <3>1. settled = [s EXCEPT !.backend[k].start = "settled", !.backend[k].startup = FALSE]
      BY <1>0 DEF DeskStore
    <3>2. settled.backend[k] = v /\ settled.holding = s.holding /\ v.owner = one.owner
      BY <1>0 DEF DeskStore, BackendState
    <3>3. t = [settled EXCEPT !.backend[k].phase = "degraded",
                              !.backend[k].owner = @ /\ ~lost,
                              !.holding = IF lost THEN @ \ {b} ELSE @]
      <4> HIDE DEF settled
      <4> QED BY <1>3, <3>1 DEF StartFailed
    <3>4. t = [settled EXCEPT !.backend[k] = w, !.holding = B]
      <4> HIDE DEF lost, settled, v, t
      <4> QED BY <3>2, <3>3, ZenonT(60)
    <3> HIDE DEF w, v, B, t
    <3> QED BY <1>0, <3>4 DEF DeskStore
  <2>2. /\ w.awaited = one.awaited /\ w.start = "settled" /\ w.phase = "degraded"
        /\ w.owner = (IF lost THEN FALSE ELSE one.owner)
        /\ w.moved = one.moved /\ w.calls = one.calls /\ w.stop = one.stop
    <3>1. /\ w.awaited = one.awaited /\ w.start = "settled" /\ w.phase = "degraded"
          /\ w.owner = (one.owner /\ ~lost)
          /\ w.moved = one.moved /\ w.calls = one.calls /\ w.stop = one.stop
      <4> HIDE DEF lost
      <4> QED BY <1>0 DEF BackendState
    <3>2. one.owner \in BOOLEAN
      BY <1>0, BackendFields
    <3>3. (one.owner /\ ~lost) = (IF lost THEN FALSE ELSE one.owner)
      <4> HIDE DEF lost, one
      <4>1. CASE lost
        BY <4>1
      <4>2. CASE ~lost
        BY <3>2, <4>2
      <4> QED BY <4>1, <4>2
    <3> QED BY <3>1, <3>3
  <2> HIDE DEF w, t
  <2>3. /\ t.generation = s.generation /\ t.backends = s.backends
        /\ t.activations = s.activations /\ t.stops = s.stops /\ t.act = s.act
        /\ t.hosts = s.hosts /\ t.up = s.up /\ t.pending = s.pending
        /\ t.toHost = s.toHost /\ t.backend = [s.backend EXCEPT ![k] = w]
        /\ t.holding = B
    <3> HIDE DEF B
    <3> QED BY <1>0, <2>1 DEF DeskStore
  <2>4. Bonds(k, w, m, h, s.pending) /\ Shown(k, w, h)
    BY <1>0, <2>2, HostAssumption DEF Bonds, Shown
  <2>5. CASE ~lost
    <3>1. w.owner = one.owner
      BY <1>0, <2>2, <2>5, BackendFields
    <3> QED BY <1>0, <1>1, <1>3, <2>2, <2>3, <2>4, <2>5, <3>1, BackendStep DEF t, SameRecords
  <2>6. CASE lost
    <3>1. m = k /\ ~w.owner
      BY <1>0, <2>2, <2>6 DEF Bonds
    <3>2. t \in Bonded
      BY <1>1, <2>3, <2>4, <2>6, <3>1, GivenUp DEF SameRegistry
    <3>3. t.backend[k] = w
      BY <1>0, <2>3, DeskFields
    <3>4. ~Live(t, k)
      BY <2>2, <3>3 DEF Live, Heard
    <3>5. \A j \in Backends :
             /\ s.backend[j].calls # 0 => t.backend[j].calls # 0
             /\ Live(t, j) => Live(s, j) /\ (Heard(t, j) => Heard(s, j))
      BY <1>0, <2>2, <2>3, <3>4, QuietBackend
    <3>6. Quiet(s, t)
      BY <1>0, <2>3, <3>5, QuietUnsaid
    <3> QED BY <3>2, <3>6 DEF t
  <2> QED BY <2>5, <2>6
<1> QED BY <1>2, <1>3

\* startBot() returned.
LEMMA StartReturnedBonded ==
  ASSUME NEW s \in Bonded, NEW k \in Backends, s.backend[k].start = "returned"
  PROVE  StartReturned(s, k) \in Bonded /\ Quiet(s, StartReturned(s, k))
<1> DEFINE t == StartReturned(s, k)
           one == s.backend[k]
           h == s.hosts[botOf[k]]
           m == s.backends[botOf[k]]
           w == [one EXCEPT !.start = "settled", !.startup = FALSE,
                            !.phase = IF one.moved THEN @ ELSE "ready"]
<1>0. /\ s \in DeskStore /\ s \in Desks /\ one \in BackendState
      /\ Bonds(k, one, m, h, s.pending) /\ Shown(k, one, h)
      /\ s.act[k].at \notin Early
  BY KeptOf, NotEarly
<1>1. CASE ~one.owner
  BY <1>1, StartFailedBonded DEF StartReturned
<1>2. CASE one.owner
  <2>1. t = [s EXCEPT !.backend[k] = w]
    BY <1>0, <1>2 DEF StartReturned, DeskStore
  <2>2. /\ w.awaited = one.awaited /\ w.start = "settled"
        /\ w.phase = IF one.moved THEN one.phase ELSE "ready"
        /\ w.owner = one.owner /\ w.moved = one.moved /\ w.calls = one.calls
        /\ w.stop = one.stop
    BY <1>0 DEF BackendState
  <2>3. t \in Desks
    BY <1>0, StartReturnedTyped
  <2> HIDE DEF w, t
  <2>4. /\ SameRecords(s, t) /\ t.act = s.act /\ t.pending = s.pending
        /\ t.toHost = s.toHost /\ t.backend = [s.backend EXCEPT ![k] = w]
    BY <1>0, <2>1 DEF DeskStore, SameRecords
  <2>5. Bonds(k, w, m, h, s.pending) /\ Shown(k, w, h)
    BY <1>0, <1>2, <2>2 DEF Bonds, Shown
  <2>6. Heard(s, k)
    BY DEF Heard
  <2> QED BY <1>0, <2>2, <2>3, <2>4, <2>5, <2>6, BackendStep DEF t
<1> QED BY <1>1, <1>2

\* The catch of startBot().
LEMMA StartRefusedBonded ==
  ASSUME NEW s \in Bonded, NEW k \in Backends, s.backend[k].start = "refused"
  PROVE  StartRefused(s, k) \in Bonded /\ Quiet(s, StartRefused(s, k))
<1> DEFINE t == StartRefused(s, k)
           u == StopBot(s, k, "undo")
           one == s.backend[k]
           b == botOf[k]
           h == s.hosts[b]
           m == s.backends[b]
<1>0. /\ s \in DeskStore /\ s \in Desks /\ one \in BackendState /\ b \in Bots
      /\ Bonds(k, one, m, h, s.pending) /\ Shown(k, one, h)
      /\ s.act[k].at \notin Early
  BY KeptOf, NotEarly
<1>1. CASE h # k
  BY <1>1, StartFailedBonded DEF StartRefused
<1>2. CASE h = k
  <2>1. PICK c, n : StopAsked(s, u, k, "undo", c, n)
    BY <1>0, <1>2, StopBotAsks
  <2>2. u \in Desks /\ u \in DeskStore /\ t \in Desks
    BY <1>0, StopBotTyped, StartRefusedTyped DEF Desks
  <2>3. t = [u EXCEPT !.backend[k].start = "undo"]
    BY <1>2 DEF StartRefused
  <2> HIDE DEF u, t
  <2> DEFINE x == [one EXCEPT !.awaited["undo"] = c, !.calls = n]
             w == [x EXCEPT !.start = "undo"]
  <2>4. /\ x.awaited.undo = c /\ x.awaited.stop = one.awaited.stop
        /\ x.stop = one.stop /\ x.phase = one.phase
        /\ x.owner = one.owner /\ x.moved = one.moved /\ x.calls = n
        /\ w = [one EXCEPT !.awaited = x.awaited, !.calls = n, !.start = "undo"]
    BY <1>0 DEF BackendState
  <2>5. /\ w.awaited.undo = c /\ w.awaited.stop = one.awaited.stop
        /\ w.stop = one.stop /\ w.phase = one.phase
        /\ w.owner = one.owner /\ w.moved = one.moved /\ w.calls = n
        /\ w.start = "undo"
    <3> HIDE DEF x
    <3> QED BY <1>0, <2>4 DEF BackendState
  <2>6. /\ SameRecords(s, t) /\ t.act = s.act /\ t.pending = s.pending \cup {c}
        /\ t.toHost = u.toHost /\ t.backend = [s.backend EXCEPT ![k] = w]
    <3>1. u.backend = [s.backend EXCEPT ![k] = x]
      BY <2>1 DEF StopAsked
    <3> HIDE DEF x
    <3>2. u.backend[k] = x
      <4>1. s.backend \in [Backends -> BackendState]
        BY <1>0, DeskFields
      <4> HIDE DEF u, t, w
      <4> QED BY <3>1, <4>1
    <3>3. t.backend = [u.backend EXCEPT ![k] = w]
      BY <2>2, <2>3, <3>2 DEF DeskStore
    <3>4. t.backend = [s.backend EXCEPT ![k] = w]
      <4> HIDE DEF w
      <4> QED BY <1>0, <3>1, <3>3, DeskFields
    <3>5. /\ SameRecords(u, t) /\ t.act = u.act /\ t.pending = u.pending
          /\ t.toHost = u.toHost
      BY <2>2, <2>3 DEF DeskStore, SameRecords
    <3> QED BY <2>1, <3>4, <3>5 DEF StopAsked, SameRecords
  <2>7. c \in Controls /\ c.op # "start" /\ c.by = k /\ c.bound = k /\ n # 0
    BY <1>2, <2>1 DEF StopAsked
  <2>8. (c \in s.pending /\ u.toHost = s.toHost)
        \/ (c.op = "undo" /\ u.toHost = Append(s.toHost, c))
    BY <2>1 DEF StopAsked
  <2> HIDE DEF w, x
  <2>9. Bonds(k, w, m, h, t.pending) /\ Shown(k, w, h)
    <3>1. Shown(k, w, h)
      BY <1>0, <2>5 DEF Shown
    <3>2. \A d \in s.pending : d.by = k => d.op # "undo"
      BY <1>0 DEF Bonds
    <3>3. \A d \in s.pending \cup {c} : d.by = k =>
            /\ d.bound \in {None, k}
            /\ d.op = "undo" => w.awaited.undo = d /\ w.start = "undo"
            /\ d.op = "stop" => w.awaited.stop = d /\ w.stop = "control"
      BY <1>0, <2>5, <2>7, <2>8, <3>2 DEF Bonds
    <3>4. \A d \in {w.awaited.undo, w.awaited.stop} : d # None =>
            d.op # "start" /\ d.by = k /\ (h = k => d.bound = k)
      BY <1>0, <2>5, <2>7 DEF Bonds
    <3> QED BY <1>0, <2>5, <2>6, <2>7, <3>1, <3>3, <3>4 DEF Bonds
  <2>10. \A d \in t.pending : d \in s.pending \/ d.by = k
    BY <2>6, <2>7
  <2>11. t \in Bonded
    BY <1>0, <2>2, <2>5, <2>6, <2>9, <2>10, BackendOnly
  <2>12. t.backend[k] = w /\ ~Live(t, k)
    <3>1. t.backend[k] = w
      BY <1>0, <2>6, DeskFields
    <3>2. w.start = "undo" /\ w.phase # "ready"
      BY <2>5, <2>9 DEF Shown
    <3> QED BY <3>1, <3>2 DEF Live, Heard
  <2>13. \A j \in Backends :
           /\ s.backend[j].calls # 0 => t.backend[j].calls # 0
           /\ Live(t, j) => Live(s, j) /\ (Heard(t, j) => Heard(s, j))
    BY <1>0, <2>5, <2>6, <2>7, <2>12, QuietBackend DEF SameRecords
  <2>14. LateStop(t, c)
    <3>1. t.backend[k].calls # 0
      BY <2>5, <2>7, <2>12
    <3>2. ASSUME NEW j \in Backends, botOf[j] = b PROVE ~Live(t, j)
      <4>1. j = k \/ t.hosts[botOf[j]] # j
        BY <1>0, <1>2, <2>6, <3>2 DEF SameRecords
      <4> QED BY <2>12, <4>1 DEF Live
    <3> QED BY <1>0, <2>7, <3>1, <3>2 DEF LateStop
  <2>15. \A d \in t.pending : d.op = "start" => d \in s.pending
    BY <2>6, <2>7
  <2>16. Quiet(s, t)
    BY <1>0, <2>6, <2>7, <2>8, <2>13, <2>14, <2>15, QuietUnsaid, QuietStop DEF SameRecords
  <2> QED BY <2>11, <2>16 DEF t
<1> QED BY <1>1, <1>2

\* A step of the registry, for a bot none of whose backends changes.
SameBackends(s, t) ==
  /\ t.backend = s.backend /\ t.hosts = s.hosts /\ t.pending = s.pending
  /\ t.holding = s.holding /\ t.up = s.up /\ t.toHost = s.toHost

LEMMA RegistryStep ==
  ASSUME NEW s \in Bonded, NEW t \in Desks, NEW b \in Bots,
         SameBackends(s, t), t.backends = s.backends,
         \A x \in Bots \ {b} : /\ t.generation[x] = s.generation[x]
                               /\ t.activations[x] = s.activations[x]
                               /\ t.stops[x] = s.stops[x],
         t.activations[b] # None => botOf[t.activations[b]] = b,
         \A k \in Backends : botOf[k] # b => t.act[k] = s.act[k],
         \A k \in Backends : botOf[k] = b =>
           Turn(k, t.act[k], s.backend[k], t.generation[b], s.backends[b],
                t.activations[b], t.stops[b])
  PROVE  t \in Bonded /\ Quiet(s, t)
<1>0. s \in DeskStore
  BY DEF Bonded, Desks
<1>1. Elsewhere(s, t, b)
  BY DEF Elsewhere, SameBackends
<1>2. BotKept(t, b)
  <2>1. BotKept(s, b)
    BY DEF Bonded
  <2> QED BY <2>1 DEF BotKept, SameBackends
<1>3. ASSUME NEW k \in Backends, botOf[k] = b PROVE BackendKept(t, k)
  <2>1. BackendKept(s, k)
    BY DEF Bonded
  <2> QED BY <1>3, <2>1 DEF BackendKept, SameBackends
<1>4. t \in Bonded
  BY <1>1, <1>2, <1>3, BotOnly
<1>5. \A k \in Backends :
         /\ s.backend[k].calls # 0 => t.backend[k].calls # 0
         /\ Live(t, k) => Live(s, k) /\ (Heard(t, k) => Heard(s, k))
  BY DEF SameBackends, Live, Heard
<1>6. Quiet(s, t)
  BY <1>0, <1>5, QuietUnsaid DEF SameBackends
<1> QED BY <1>4, <1>6

\* activate()'s promise settles.
LEMMA FinishedBonded ==
  ASSUME NEW s \in Bonded, NEW k \in Backends
  PROVE  Finished(s, k) \in Bonded /\ Quiet(s, Finished(s, k))
<1> DEFINE t == Finished(s, k)
           b == botOf[k]
           a == [s.act[k] EXCEPT !.at = "done"]
           m == IF s.activations[b] = k THEN None ELSE s.activations[b]
<1>0. /\ s \in Desks /\ s \in DeskStore /\ b \in Bots /\ s.act[k] \in Attempt
      /\ BotKept(s, b)
  BY KeptOf, PendingOf
<1>1. t \in Desks
  BY <1>0, FinishedTyped
<1>2. a.at = "done"
  BY <1>0 DEF Attempt
<1>3. /\ SameBackends(s, t) /\ t.backends = s.backends
      /\ t.generation = s.generation /\ t.stops = s.stops
      /\ t.act = [s.act EXCEPT ![k] = a]
      /\ t.activations = [s.activations EXCEPT ![b] = m]
  BY <1>0 DEF Finished, DeskStore, SameBackends
<1> HIDE DEF t, a
<1>4. /\ t.act[k] = a /\ \A j \in Backends \ {k} : t.act[j] = s.act[j]
      /\ t.activations[b] = m
      /\ \A x \in Bots \ {b} : t.activations[x] = s.activations[x]
  BY <1>0, <1>3, DeskFields
<1>5. ASSUME NEW j \in Backends, botOf[j] = b
      PROVE  Turn(j, t.act[j], s.backend[j], t.generation[b], s.backends[b],
                  t.activations[b], t.stops[b])
  <2>1. Turn(j, s.act[j], s.backend[j], s.generation[b], s.backends[b],
             s.activations[b], s.stops[b])
    BY <1>5, KeptOf
  <2>2. CASE j = k
    BY <1>2, <1>4, <2>2 DEF Turn, Early, Running
  <2>3. CASE j # k
    BY <1>3, <1>4, <2>1, <2>3 DEF Turn
  <2> QED BY <2>2, <2>3
<1>6. t.activations[b] # None => botOf[t.activations[b]] = b
  BY <1>0, <1>4 DEF BotKept
<1>7. t \in Bonded /\ Quiet(s, t)
  BY <1>0, <1>1, <1>3, <1>4, <1>5, <1>6, RegistryStep
<1> QED BY <1>7 DEF t

\* An attempt takes a step.
LEMMA ActStep ==
  ASSUME NEW s \in Bonded, NEW t \in Desks, NEW k \in Backends, NEW a,
         SameBackends(s, t), t.backends = s.backends,
         t.generation = s.generation, t.stops = s.stops,
         t.activations = s.activations \/
           (s.activations[botOf[k]] = None
            /\ t.activations = [s.activations EXCEPT ![botOf[k]] = k]),
         t.act = [s.act EXCEPT ![k] = a],
         Turn(k, a, s.backend[k], s.generation[botOf[k]], s.backends[botOf[k]],
              t.activations[botOf[k]], s.stops[botOf[k]])
  PROVE  t \in Bonded /\ Quiet(s, t)
<1> DEFINE b == botOf[k]
<1>0. s \in DeskStore /\ b \in Bots /\ BotKept(s, b)
  BY KeptOf
<1>1. /\ t.act[k] = a /\ \A j \in Backends \ {k} : t.act[j] = s.act[j]
      /\ \A x \in Bots \ {b} : t.activations[x] = s.activations[x]
      /\ t.activations[b] = s.activations[b]
         \/ (s.activations[b] = None /\ t.activations[b] = k)
  BY <1>0, DeskFields
<1>2. ASSUME NEW j \in Backends, botOf[j] = b
      PROVE  Turn(j, t.act[j], s.backend[j], t.generation[b], s.backends[b],
                  t.activations[b], t.stops[b])
  <2>1. Turn(j, s.act[j], s.backend[j], s.generation[b], s.backends[b],
             s.activations[b], s.stops[b])
    BY <1>2, KeptOf
  <2>2. CASE j = k
    BY <1>1, <2>2
  <2>3. CASE j # k
    BY <1>1, <2>1, <2>3, HostAssumption DEF Turn
  <2> QED BY <2>2, <2>3
<1>3. t.activations[b] # None => botOf[t.activations[b]] = b
  BY <1>0, <1>1 DEF BotKept
<1>4. b \in Bots /\ t.backends = s.backends /\ SameBackends(s, t)
  BY <1>0
<1>5. \A x \in Bots \ {b} : /\ t.generation[x] = s.generation[x]
                           /\ t.activations[x] = s.activations[x]
                           /\ t.stops[x] = s.stops[x]
  BY <1>1
<1>6. \A j \in Backends : botOf[j] # b => t.act[j] = s.act[j]
  BY <1>1
<1> HIDE DEF b
<1> QED BY <1>2, <1>3, <1>4, <1>5, <1>6, RegistryStep

\* activateRuntime() up to its first await.
LEMMA BeginBonded ==
  ASSUME NEW s \in Bonded, NEW k \in Backends,
         s.backend[k] = NewBackend, s.backends[botOf[k]] # k,
         s.act[k].at \notin Running, s.stops[botOf[k]].at = "none"
  PROVE  Begin(s, k) \in Bonded /\ Quiet(s, Begin(s, k))
<1> DEFINE t == Begin(s, k)
           b == botOf[k]
           old == s.backends[b]
           g == s.generation[b]
           v == [s.activations EXCEPT ![b] = k]
           a == [s.act[k] EXCEPT !.gen = g]
           begun == [s EXCEPT !.activations = v, !.act = [s.act EXCEPT ![k] = a]]
<1>0. /\ s \in DeskStore /\ s \in Desks /\ b \in Bots /\ old \in Maybe
      /\ s.act[k] \in Attempt /\ g \in Nat /\ BotKept(s, b)
      /\ Turn(k, s.act[k], s.backend[k], g, old, s.activations[b], s.stops[b])
  <2>1. /\ s \in DeskStore /\ s \in Desks /\ b \in Bots /\ old \in Maybe /\ BotKept(s, b)
        /\ Turn(k, s.act[k], s.backend[k], g, old, s.activations[b], s.stops[b])
    BY KeptOf
  <2> QED BY <2>1, PendingOf, DeskFields
<1>1. s.backend[k].start = "none"
  BY DEF NewBackend
<1>2. t \in Desks
  BY <1>0, <1>1, BeginTyped
<1>3. CASE s.activations[b] # None
  <2> DEFINE d == [s.act[k] EXCEPT !.at = "done"]
  <2>1. /\ SameBackends(s, t) /\ t.backends = s.backends
        /\ t.generation = s.generation /\ t.stops = s.stops
        /\ t.activations = s.activations /\ t.act = [s.act EXCEPT ![k] = d]
    BY <1>0, <1>3 DEF Begin, DeskStore, SameBackends
  <2>2. d.at = "done"
    BY <1>0 DEF Attempt
  <2> HIDE DEF d, t
  <2>3. Turn(k, d, s.backend[k], g, old, t.activations[b], s.stops[b])
    BY <2>2 DEF Turn, Early, Running
  <2> QED BY <1>2, <2>1, <2>3, ActStep DEF t
<1>4. CASE s.activations[b] = None
  <2>1. begun = [s EXCEPT !.activations[b] = k, !.act[k].gen = g]
    BY <1>0 DEF DeskStore
  <2>2. a \in Attempt /\ a.at = s.act[k].at /\ a.gen = g /\ a.old = s.act[k].old
    BY <1>0 DEF Attempt
  <2> HIDE DEF a
  <2>3. /\ SameBackends(s, begun) /\ begun.backends = s.backends
        /\ begun.generation = s.generation /\ begun.stops = s.stops
        /\ begun.activations = v /\ begun.act = [s.act EXCEPT ![k] = a]
    <3> HIDE DEF v
    <3> QED BY <1>0 DEF DeskStore, SameBackends
  <2>4. begun \in Desks
    <3> DEFINE e == [s EXCEPT !.activations = v]
    <3>1. e = [s EXCEPT !.activations[b] = k]
      BY <1>0 DEF DeskStore
    <3>2. e \in Desks /\ e.act = s.act /\ e.backend = s.backend
      BY <1>0, <3>1, SetActivation DEF Maybe
    <3>3. begun = [e EXCEPT !.act[k] = a]
      <4> HIDE DEF v, a
      <4> QED BY <1>0 DEF DeskStore
    <3> HIDE DEF e, a
    <3> QED BY <1>1, <2>2, <3>2, <3>3, SetAct
  <2> HIDE DEF begun
  <2>5. v[b] = k
    BY <1>0, DeskFields
  <2>6. begun \in Bonded /\ Quiet(s, begun)
    <3>1. Turn(k, a, s.backend[k], g, old, begun.activations[b], s.stops[b])
      BY <1>0, <2>2 DEF Turn, Running
    <3> HIDE DEF v
    <3> QED BY <1>4, <2>3, <2>4, <3>1, ActStep DEF v
  <2>7. begun \in DeskStore /\ begun.act[k] = a
    BY <1>0, <2>3, <2>4, DeskFields DEF Desks
  <2> HIDE DEF v
  <2>8. CASE old = None
    <3> DEFINE d == [a EXCEPT !.at = "preparing"]
    <3>1. t = [begun EXCEPT !.act[k].at = "preparing"]
      BY <1>4, <2>1, <2>8 DEF Begin
    <3> HIDE DEF t
    <3>2. /\ SameBackends(begun, t) /\ t.backends = begun.backends
          /\ t.generation = begun.generation /\ t.stops = begun.stops
          /\ t.activations = begun.activations /\ t.act = [begun.act EXCEPT ![k] = d]
      BY <2>7, <3>1 DEF DeskStore, SameBackends
    <3>3. d.at = "preparing" /\ d.gen = g
      BY <2>2 DEF Attempt
    <3> HIDE DEF d
    <3>4. Turn(k, d, s.backend[k], g, old, k, s.stops[b])
      BY <1>0, <2>8, <3>3 DEF Turn, Early, Running
    <3> HIDE DEF g, old
    <3>5. Turn(k, d, begun.backend[k], begun.generation[b], begun.backends[b],
               t.activations[b], begun.stops[b])
      BY <2>3, <2>5, <3>2, <3>4 DEF SameBackends, g, old
    <3>6. t \in Desks
      BY <1>2 DEF t
    <3>7. t \in Bonded /\ Quiet(begun, t)
      BY <2>6, <3>2, <3>5, <3>6, ActStep
    <3> QED BY <1>0, <2>6, <2>7, <3>6, <3>7, QuietThenQuiet DEF t
  <2>9. CASE old # None
    <3> DEFINE u == StopBackend(begun, old)
               d == [a EXCEPT !.at = "stoppingOld", !.old = old]
    <3>1. old \in Backends /\ botOf[old] = b /\ old # k
      BY <1>0, <2>9 DEF Maybe, BotKept
    <3>2. /\ u \in Bonded /\ Quiet(begun, u) /\ SameRecords(begun, u) /\ u.act = begun.act
          /\ u.backend[k] = begun.backend[k]
      BY <2>3, <2>6, <3>1, StopBackendBonded
    <3>3. t = [u EXCEPT !.act[k].at = "stoppingOld", !.act[k].old = old]
      BY <1>4, <2>1, <2>9 DEF Begin
    <3> HIDE DEF u, t
    <3>4. u \in DeskStore
      BY <3>2 DEF Bonded, Desks
    <3>5. /\ SameBackends(u, t) /\ t.backends = u.backends
          /\ t.generation = u.generation /\ t.stops = u.stops
          /\ t.activations = u.activations /\ t.act = [u.act EXCEPT ![k] = d]
      BY <2>7, <3>2, <3>3, <3>4 DEF DeskStore, SameBackends
    <3>6. d.at = "stoppingOld" /\ d.gen = g /\ d.old = old
      BY <2>2 DEF Attempt
    <3> HIDE DEF d
    <3>7. Turn(k, d, s.backend[k], g, old, k, s.stops[b])
      BY <1>0, <3>1, <3>6, <2>9 DEF Turn, Early, Running
    <3> HIDE DEF g, old
    <3>8. Turn(k, d, u.backend[k], u.generation[b], u.backends[b],
               t.activations[b], u.stops[b])
      BY <2>3, <2>5, <3>2, <3>5, <3>7 DEF SameBackends, SameRecords, g, old
    <3>9. t \in Desks
      BY <1>2 DEF t
    <3>10. t \in Bonded /\ Quiet(u, t)
      BY <3>2, <3>5, <3>8, <3>9, ActStep
    <3>11. Quiet(begun, t)
      BY <2>7, <3>2, <3>4, <3>10, QuietThenQuiet
    <3> QED BY <1>0, <2>6, <2>7, <3>10, <3>11, QuietThenQuiet DEF t
  <2> QED BY <2>8, <2>9
<1> QED BY <1>3, <1>4

\* An attempt that waits in a bot's list is that bot's.
LEMMA WaitingAttempt ==
  ASSUME NEW s \in Bonded, NEW b \in Bots, NEW I \in SUBSET WaitingAt(s, b), I # {}
  PROVE  /\ attemptsOf[b][Min(I)] \in Backends
         /\ botOf[attemptsOf[b][Min(I)]] = b
         /\ s.act[attemptsOf[b][Min(I)]].at = "waiting"
<1>1. attemptsOf[b] \in Seq(Backends)
  BY FleetAssumption
<1>2. Len(attemptsOf[b]) \in Nat /\ I \subseteq 1..Len(attemptsOf[b])
  BY <1>1, LenProperties DEF WaitingAt
<1>3. Min(I) \in I
  <2>1. I \subseteq Nat
    BY <1>2
  <2> QED BY <2>1, LeastExists DEF Min
<1> DEFINE i == Min(I)
<1>4. i \in 1..Len(attemptsOf[b]) /\ i \in WaitingAt(s, b)
  BY <1>2, <1>3
<1> HIDE DEF i
<1>5. attemptsOf[b][i] \in Backends /\ s.act[attemptsOf[b][i]].at = "waiting"
  BY <1>1, <1>4, ElementOfSeq DEF WaitingAt
<1>6. attemptsOf[b][i] \in Range(attemptsOf[b])
  BY <1>1, <1>4, LenProperties DEF Range
<1>7. botOf[attemptsOf[b][i]] = b
  BY <1>6, FleetAssumption
<1> QED BY <1>5, <1>7 DEF i

\* The attempts that waited for a stop go on, or give up.
LEMMA WakeBonded ==
  ASSUME NEW s \in Bonded, NEW b \in Bots, NEW ok \in BOOLEAN, s.stops[b].at = "none"
  PROVE  Wake(s, b, ok) \in Bonded /\ Quiet(s, Wake(s, b, ok))
<1> DEFINE again == {i \in WaitingAt(s, b) :
                       ok /\ s.act[attemptsOf[b][i]].gen = s.generation[b]}
           f == [k \in Backends |-> IF botOf[k] = b /\ s.act[k].at = "waiting"
                                    THEN [s.act[k] EXCEPT !.at = "done"] ELSE s.act[k]]
           woken == [s EXCEPT !.act = f]
           k == attemptsOf[b][Min(again)]
<1>0. s \in Desks /\ s \in DeskStore
  BY DEF Bonded, Desks
<1>1. ASSUME NEW j \in Backends
      PROVE  /\ f[j] \in Attempt /\ (f[j].at \in Early => s.backend[j].start = "none")
             /\ f[j] = s.act[j]
                \/ (botOf[j] = b /\ s.act[j].at = "waiting" /\ f[j].at = "done")
             /\ botOf[j] = b /\ s.act[j].at = "waiting" => f[j].at = "done"
  <2>1. s.act[j] \in Attempt /\ (s.act[j].at \in Early => s.backend[j].start = "none")
    BY <1>0, PendingOf DEF PendingInv
  <2>2. [s.act[j] EXCEPT !.at = "done"] \in Attempt
        /\ [s.act[j] EXCEPT !.at = "done"].at = "done" /\ "done" \notin Early
    BY <2>1 DEF Attempt, Places, Early
  <2>3. f[j] = IF botOf[j] = b /\ s.act[j].at = "waiting"
               THEN [s.act[j] EXCEPT !.at = "done"] ELSE s.act[j]
    OBVIOUS
  <2> HIDE DEF f
  <2> QED BY <2>1, <2>2, <2>3
<1>2. f \in [Backends -> Attempt]
  BY <1>1
<1>3. Wake(s, b, ok) = IF again = {} THEN woken ELSE Begin(woken, k)
  BY DEF Wake
<1> HIDE DEF f
<1>4. woken \in Desks /\ woken.act = f
  BY <1>0, <1>1, <1>2, SetActs
<1>5. /\ SameBackends(s, woken) /\ woken.backends = s.backends
      /\ woken.generation = s.generation /\ woken.stops = s.stops
      /\ woken.activations = s.activations
  BY <1>0 DEF DeskStore, SameBackends
<1> HIDE DEF woken
<1>6. woken \in Bonded /\ Quiet(s, woken)
  <2>1. ASSUME NEW j \in Backends, botOf[j] = b
        PROVE  Turn(j, woken.act[j], s.backend[j], woken.generation[b], s.backends[b],
                    woken.activations[b], woken.stops[b])
    <3>1. Turn(j, s.act[j], s.backend[j], s.generation[b], s.backends[b],
               s.activations[b], s.stops[b])
      BY <2>1, KeptOf
    <3>2. f[j] = s.act[j] \/ f[j].at = "done"
      BY <1>1
    <3> QED BY <1>4, <1>5, <3>1, <3>2 DEF Turn, Early, Running
  <2>2. \A j \in Backends : botOf[j] # b => woken.act[j] = s.act[j]
    BY <1>1, <1>4
  <2>3. woken.activations[b] # None => botOf[woken.activations[b]] = b
    BY <1>5 DEF Bonded, BotKept
  <2> QED BY <1>4, <1>5, <2>1, <2>2, <2>3, RegistryStep
<1>7. ASSUME again # {}
      PROVE  Begin(woken, k) \in Bonded /\ Quiet(s, Begin(woken, k))
  <2>1. again \in SUBSET WaitingAt(s, b)
    OBVIOUS
  <2>2. k \in Backends /\ botOf[k] = b /\ s.act[k].at = "waiting"
    <3> HIDE DEF again
    <3> QED BY <1>7, <2>1, WaitingAttempt
  <2> HIDE DEF again, k
  <2>3. s.backend[k] = NewBackend /\ s.backends[b] # k
    BY <2>2, KeptOf DEF Turn, Early
  <2>4. woken.act[k].at \notin Running
    BY <1>1, <1>4, <2>2 DEF Running
  <2>5. Begin(woken, k) \in Bonded /\ Quiet(woken, Begin(woken, k))
    BY <1>5, <1>6, <2>2, <2>3, <2>4, BeginBonded DEF SameBackends
  <2> QED BY <1>0, <1>4, <1>6, <2>5, QuietThenQuiet DEF Desks
<1> HIDE DEF again, k
<1> QED BY <1>3, <1>6, <1>7

\* The registry's stop() is over.
LEMMA StopFinishedBonded ==
  ASSUME NEW s \in Bonded, NEW b \in Bots, NEW ok \in BOOLEAN, s.stops[b].at # "none"
  PROVE  StopFinished(s, b, ok) \in Bonded /\ Quiet(s, StopFinished(s, b, ok))
<1> DEFINE done == [s EXCEPT !.stops[b] = NotStopping]
           t == [done EXCEPT !.activations[b] = None]
<1>0. s \in Desks /\ s \in DeskStore
  BY DEF Bonded, Desks
<1>1. NotStopping \in StopState /\ NotStopping.at = "none"
  BY DEF NotStopping, StopState, Maybe
<1>2. done \in Desks /\ t \in Desks
  <2>1. done \in Desks
    BY <1>0, <1>1, SetStops
  <2> HIDE DEF done
  <2> QED BY <2>1, SetActivation DEF Maybe
<1>3. ASSUME NEW v \in {done, t}
      PROVE  v \in Bonded /\ Quiet(s, v) /\ v.stops[b].at = "none"
  <2>1. /\ SameBackends(s, v) /\ v.backends = s.backends /\ v.act = s.act
        /\ v.generation = s.generation
        /\ v.stops = [s.stops EXCEPT ![b] = NotStopping]
        /\ v.activations \in {s.activations, [s.activations EXCEPT ![b] = None]}
    BY <1>0 DEF DeskStore, SameBackends
  <2> HIDE DEF done, t
  <2>2. /\ v.stops[b] = NotStopping
        /\ \A x \in Bots \ {b} : /\ v.stops[x] = s.stops[x]
                                 /\ v.activations[x] = s.activations[x]
        /\ v.activations[b] \in {s.activations[b], None}
    BY <1>0, <2>1, DeskFields
  <2>3. ASSUME NEW j \in Backends, botOf[j] = b
        PROVE  Turn(j, v.act[j], s.backend[j], v.generation[b], s.backends[b],
                    v.activations[b], v.stops[b])
    <3>1. Turn(j, s.act[j], s.backend[j], s.generation[b], s.backends[b],
               s.activations[b], s.stops[b])
      BY <2>3, KeptOf
    <3>2. s.act[j].at \in Running => s.act[j].gen # s.generation[b]
      <4>1. s.act[j] \in Attempt /\ s.generation[b] \in Nat
        BY <1>0, PendingOf, DeskFields
      <4>2. s.act[j].gen \in Nat
        BY <4>1 DEF Attempt
      <4> QED BY <3>1, <4>1, <4>2 DEF Turn
    <3> QED BY <1>1, <2>1, <2>2, <3>1, <3>2 DEF Turn, Running
  <2>4. v.activations[b] # None => botOf[v.activations[b]] = b
    BY <2>2 DEF Bonded, BotKept
  <2>5. v \in Desks
    BY <1>2, <1>3
  <2> QED BY <1>1, <2>1, <2>2, <2>3, <2>4, <2>5, RegistryStep
<1>4. StopFinished(s, b, ok) \in {Wake(t, b, TRUE), Wake(done, b, FALSE)}
  BY DEF StopFinished
<1>5. done \in DeskStore /\ t \in DeskStore
  BY <1>2 DEF Desks
<1> HIDE DEF done, t
<1>6. /\ Wake(t, b, TRUE) \in Bonded /\ Quiet(t, Wake(t, b, TRUE)) /\ Quiet(s, t)
      /\ Wake(done, b, FALSE) \in Bonded /\ Quiet(done, Wake(done, b, FALSE))
      /\ Quiet(s, done)
  BY <1>3, WakeBonded
<1>7. Quiet(s, Wake(t, b, TRUE)) /\ Quiet(s, Wake(done, b, FALSE))
  BY <1>0, <1>5, <1>6, QuietThenQuiet
<1> QED BY <1>4, <1>6, <1>7

\* Everyone who awaited the stop of a bot's backend goes on.
LEMMA StopSettledBonded ==
  ASSUME NEW s \in Bonded, NEW k \in Backends, NEW ok \in BOOLEAN,
         s.backends[botOf[k]] = k, ok => ~s.backend[k].owner,
         s.backend[k].stop \in {"idle", "confirmed", "unconfirmed"},
         s.backend[k].phase # "ready"
  PROVE  StopSettled(s, k, ok) \in Bonded /\ Quiet(s, StopSettled(s, k, ok))
<1> DEFINE b == botOf[k]
           one == s.backend[k]
           h == s.hosts[b]
           g == s.generation[b]
           t == IF ok THEN Forget(s, k) ELSE s
           n == IF ok THEN None ELSE k
           w == [one EXCEPT !.stop = "none"]
           f == [j \in Backends |->
                  CASE s.act[j].at = "stoppingOld" /\ s.act[j].old = k ->
                         [s.act[j] EXCEPT !.at = IF ok THEN "preparing" ELSE "done"]
                    [] s.act[j].at = "undoing" /\ j = k ->
                         [s.act[j] EXCEPT !.at = "done"]
                    [] OTHER -> s.act[j]]
           v == s.activations[b]
           m == IF v # None /\ f[v].at = "done" THEN None ELSE v
           resumed == [t EXCEPT !.backend[k].stop = "none", !.act = f]
           over == [resumed EXCEPT !.activations[b] =
                      IF @ # None /\ resumed.act[@].at = "done" THEN None ELSE @]
<1>0. /\ s \in DeskStore /\ s \in Desks /\ one \in BackendState /\ b \in Bots
      /\ Bonds(k, one, k, h, s.pending) /\ Shown(k, one, h) /\ v \in Maybe
      /\ s.act[k].at \notin Early /\ BotKept(s, b) /\ None \notin Backends
      /\ h \in Maybe
  BY KeptOf, NotEarly, HostAssumption
<1>1. StopSettled(s, k, ok) = IF s.stops[b].at = "backend" /\ s.stops[b].target = k
                              THEN StopFinished(over, b, ok) ELSE over
  <2> HIDE DEF f
  <2> QED BY DEF StopSettled, f
<1>2. ASSUME NEW j \in Backends
      PROVE  /\ f[j] \in Attempt /\ f[j].gen = s.act[j].gen /\ f[j].old = s.act[j].old
             /\ f[j].at \in Early => s.act[j].at \in Early
             /\ \/ f[j] = s.act[j]
                \/ f[j].at = "done" /\ botOf[j] = b
                \/ f[j].at = "preparing" /\ s.act[j].at = "stoppingOld" /\ ok
                   /\ botOf[j] = b
  <2>1. s.act[j] \in Attempt /\ (s.act[j].at = "stoppingOld" => botOf[s.act[j].old] = botOf[j])
    BY <1>0, PendingOf, KeptOf DEF Turn
  <2>2. CASE s.act[j].at = "stoppingOld" /\ s.act[j].old = k
    <3>1. f[j] = [s.act[j] EXCEPT !.at = IF ok THEN "preparing" ELSE "done"]
      BY <2>2
    <3> HIDE DEF f
    <3> QED BY <2>1, <2>2, <3>1 DEF Attempt, Places, Early
  <2>3. CASE ~(s.act[j].at = "stoppingOld" /\ s.act[j].old = k)
             /\ s.act[j].at = "undoing" /\ j = k
    <3>1. f[j] = [s.act[j] EXCEPT !.at = "done"]
      BY <2>3
    <3> HIDE DEF f
    <3> QED BY <2>1, <2>3, <3>1 DEF Attempt, Places, Early
  <2>4. CASE ~(s.act[j].at = "stoppingOld" /\ s.act[j].old = k)
             /\ ~(s.act[j].at = "undoing" /\ j = k)
    <3>1. f[j] = s.act[j]
      BY <2>4
    <3> HIDE DEF f
    <3> QED BY <2>1, <3>1
  <2> QED BY <2>2, <2>3, <2>4
<1>3. f \in [Backends -> Attempt]
  <2>1. f = [j \in Backends |-> f[j]]
    OBVIOUS
  <2> HIDE DEF f
  <2> QED BY <1>2, <2>1
<1>4. /\ w.awaited = one.awaited /\ w.start = one.start /\ w.phase = one.phase
      /\ w.owner = one.owner /\ w.moved = one.moved /\ w.calls = one.calls
      /\ w.stop = "none" /\ w \in BackendState
  BY <1>0 DEF BackendState
<1> HIDE DEF f
<1>5. /\ over.generation = s.generation /\ over.stops = s.stops /\ over.act = f
      /\ over.hosts = s.hosts /\ over.pending = s.pending /\ over.up = s.up
      /\ over.holding = s.holding /\ over.toHost = s.toHost
      /\ over.backends = [s.backends EXCEPT ![b] = n]
      /\ over.activations = [s.activations EXCEPT ![b] = m]
      /\ over.backend = [s.backend EXCEPT ![k] = w]
      /\ over \in DeskStore
  <2>1. /\ t \in DeskStore /\ t.backends = [s.backends EXCEPT ![b] = n]
        /\ t.generation = s.generation /\ t.stops = s.stops /\ t.act = s.act
        /\ t.hosts = s.hosts /\ t.pending = s.pending /\ t.up = s.up
        /\ t.holding = s.holding /\ t.toHost = s.toHost /\ t.backend = s.backend
        /\ t.activations = s.activations
    <3>1. CASE ok
      <4>1. t = [s EXCEPT !.backends[b] = None]
        BY <1>0, <3>1 DEF Forget, DeskStore
      <4> HIDE DEF t
      <4>2. t \in DeskStore
        BY <1>0, <4>1 DEF DeskStore, Maybe
      <4> QED BY <1>0, <3>1, <4>1, <4>2 DEF DeskStore
    <3>2. CASE ~ok
      BY <1>0, <3>2 DEF DeskStore
    <3> QED BY <3>1, <3>2
  <2> HIDE DEF t, n
  <2>2. resumed = [t EXCEPT !.backend = [s.backend EXCEPT ![k] = w], !.act = f]
    BY <2>1
  <2>3. /\ resumed \in DeskStore /\ resumed.act = f
        /\ resumed.backend = [s.backend EXCEPT ![k] = w]
        /\ resumed.generation = s.generation /\ resumed.stops = s.stops
        /\ resumed.hosts = s.hosts /\ resumed.pending = s.pending /\ resumed.up = s.up
        /\ resumed.holding = s.holding /\ resumed.toHost = s.toHost
        /\ resumed.activations = s.activations /\ resumed.backends = t.backends
    <3> HIDE DEF resumed, w
    <3> QED BY <1>0, <1>3, <1>4, <2>1, <2>2 DEF DeskStore
  <2> HIDE DEF resumed
  <2>4. over = [resumed EXCEPT !.activations = [s.activations EXCEPT ![b] = m]]
    BY <1>0, <2>3, DeskFields
  <2>5. m \in Maybe
    BY <1>0 DEF Maybe
  <2> HIDE DEF over, m, w
  <2> QED BY <1>0, <2>1, <2>3, <2>4, <2>5 DEF DeskStore
<1> HIDE DEF over, w
<1>6. /\ over.backends[b] = n /\ \A x \in Bots \ {b} : over.backends[x] = s.backends[x]
      /\ over.activations[b] = m
      /\ \A x \in Bots \ {b} : over.activations[x] = s.activations[x]
      /\ over.backend[k] = w
      /\ \A j \in Backends \ {k} : over.backend[j] = s.backend[j]
  <2> HIDE DEF n, m
  <2> QED BY <1>0, <1>5, DeskFields
<1>7. over \in Desks
  <2>1. ASSUME NEW j \in Backends
        PROVE  PendingInv(j, over.act[j], over.backend[j], over.pending)
    <3>1. PendingInv(j, s.act[j], s.backend[j], s.pending)
      BY <1>0, PendingOf
    <3>2. over.backend[j].start = s.backend[j].start /\ over.backend[j].awaited = s.backend[j].awaited
      BY <1>4, <1>6
    <3> QED BY <1>2, <1>5, <3>1, <3>2 DEF PendingInv
  <2> QED BY <1>0, <1>5, <2>1 DEF Desks
<1>8. Elsewhere(s, over, b)
  BY <1>2, <1>5, <1>6 DEF Elsewhere
<1>9. BotKept(over, b)
  <2>1. \A x \in {over.hosts[b], over.backends[b], over.activations[b]} :
           x # None => botOf[x] = b
    BY <1>0, <1>5, <1>6 DEF BotKept
  <2>2. b \in s.holding <=> one.owner
    BY <1>0 DEF BotKept
  <2>3. b \in over.holding <=> over.backends[b] # None /\ over.backend[over.backends[b]].owner
    BY <1>0, <1>4, <1>5, <1>6, <2>2
  <2> QED BY <2>1, <2>3 DEF BotKept
<1>10. ASSUME NEW j \in Backends, botOf[j] = b PROVE BackendKept(over, j)
  <2>1. /\ Bonds(j, s.backend[j], k, h, s.pending) /\ Shown(j, s.backend[j], h)
        /\ Turn(j, s.act[j], s.backend[j], g, k, v, s.stops[b])
    BY <1>10, KeptOf
  <2>2. Turn(j, f[j], over.backend[j], g, n, m, s.stops[b])
    <3>1. f[j].at \in Early => over.backend[j] = NewBackend /\ n # j
      BY <1>0, <1>2, <1>6, <2>1 DEF Turn
    <3>2. f[j].at \in Running => s.act[j].at \in Running
      BY <1>2 DEF Running
    <3>3. f[j].at \in Running /\ f[j].gen = g => m = j
      BY <1>2, <2>1, <3>2 DEF Turn, Running
    <3>4. f[j].at = "preparing" /\ f[j].gen = g => n = None
      BY <1>2, <2>1 DEF Turn
    <3>5. f[j].at = "stoppingOld" => f[j].old # None /\ botOf[f[j].old] = botOf[j]
      BY <1>2, <2>1 DEF Turn
    <3> HIDE DEF n, m
    <3> QED BY <1>2, <2>1, <3>1, <3>2, <3>3, <3>4, <3>5 DEF Turn
  <2>3. Bonds(j, over.backend[j], n, h, s.pending) /\ Shown(j, over.backend[j], h)
    <3>1. CASE j = k
      BY <1>0, <1>4, <1>6, <3>1 DEF Bonds, Shown
    <3>2. CASE j # k
      BY <1>6, <2>1, <3>2 DEF Bonds, Shown
    <3> QED BY <3>1, <3>2
  <2> HIDE DEF n, m
  <2> QED BY <1>5, <1>6, <1>10, <2>2, <2>3 DEF BackendKept
<1>11. over \in Bonded
  BY <1>0, <1>7, <1>8, <1>9, <1>10, BotOnly
<1>12. Quiet(s, over)
  <2>1. Live(over, k) => Live(s, k) /\ (Heard(over, k) => Heard(s, k))
    BY <1>4, <1>5, <1>6 DEF Live, Heard
  <2>2. \A j \in Backends :
           /\ s.backend[j].calls # 0 => over.backend[j].calls # 0
           /\ Live(over, j) => Live(s, j) /\ (Heard(over, j) => Heard(s, j))
    BY <1>0, <1>4, <1>5, <2>1, QuietBackend
  <2> QED BY <1>0, <1>5, <2>2, QuietUnsaid
<1>13. ASSUME s.stops[b].at = "backend"
       PROVE  /\ StopFinished(over, b, ok) \in Bonded
              /\ Quiet(s, StopFinished(over, b, ok))
  <2>1. over.stops[b].at # "none"
    BY <1>5, <1>13
  <2>2. /\ StopFinished(over, b, ok) \in Bonded
        /\ Quiet(over, StopFinished(over, b, ok))
    BY <1>0, <1>11, <2>1, StopFinishedBonded
  <2> QED BY <1>0, <1>5, <1>12, <2>2, QuietThenQuiet
<1> QED BY <1>1, <1>11, <1>12, <1>13

\* stopNamed() after the engine confirmed, or without an engine.
LEMMA StopConfirmedBonded ==
  ASSUME NEW s \in Bonded, NEW k \in Backends, s.backend[k].stop \in {"idle", "confirmed"}
  PROVE  StopConfirmed(s, k) \in Bonded /\ Quiet(s, StopConfirmed(s, k))
<1> DEFINE b == botOf[k]
           one == s.backend[k]
           h == s.hosts[b]
           w == [one EXCEPT !.owner = FALSE, !.startup = FALSE, !.phase = "stopped"]
           B == IF one.stop = "idle" THEN s.holding ELSE s.holding \ {b}
           u == [s EXCEPT !.backend = [s.backend EXCEPT ![k] = w], !.holding = B]
<1>0. /\ s \in DeskStore /\ s \in Desks /\ one \in BackendState /\ b \in Bots
      /\ Bonds(k, one, s.backends[b], h, s.pending) /\ Shown(k, one, h)
      /\ PendingInv(k, s.act[k], one, s.pending)
  BY KeptOf
<1>1. s.backends[b] = k /\ h # k
  BY <1>0 DEF Bonds
<1>2. /\ w.awaited = one.awaited /\ w.start = one.start /\ w.phase = "stopped"
      /\ w.owner = FALSE /\ w.moved = one.moved /\ w.calls = one.calls
      /\ w.stop = one.stop /\ w \in BackendState
  BY <1>0 DEF BackendState
<1>3. StopConfirmed(s, k) = StopSettled(u, k, TRUE)
  <2>1. u = [s EXCEPT !.backend[k].owner = FALSE,
                      !.backend[k].startup = FALSE,
                      !.backend[k].phase = "stopped",
                      !.holding = IF s.backend[k].stop = "idle" THEN @
                                  ELSE @ \ {botOf[k]}]
    BY <1>0 DEF DeskStore
  <2> HIDE DEF u
  <2> QED BY <2>1 DEF StopConfirmed
<1> HIDE DEF w
<1>4. /\ SameRegistry(s, u) /\ u.pending = s.pending /\ u.hosts = s.hosts /\ u.up = s.up
      /\ u.toHost = s.toHost /\ u.holding = B
      /\ u.backend = [s.backend EXCEPT ![k] = w]
      /\ u \in DeskStore
  BY <1>0, <1>2 DEF DeskStore, SameRegistry
<1> HIDE DEF u
<1>5. u.backend[k] = w /\ u \in Desks
  <2>1. \A j \in Backends : u.backend[j] = IF j = k THEN w ELSE s.backend[j]
    BY <1>0, <1>4, DeskFields
  <2>2. ASSUME NEW j \in Backends
        PROVE  PendingInv(j, u.act[j], u.backend[j], u.pending)
    <3>1. PendingInv(j, s.act[j], s.backend[j], s.pending)
      BY <1>0, PendingOf
    <3>2. u.backend[j].start = s.backend[j].start /\ u.backend[j].awaited = s.backend[j].awaited
      BY <1>2, <2>1
    <3> QED BY <1>4, <3>1, <3>2 DEF PendingInv, SameRegistry
  <2>3. u \in Desks
    BY <1>0, <1>4, <2>2 DEF Desks, SameRegistry
  <2> QED BY <2>1, <2>3
<1>6. u \in Bonded
  <2>1. Bonds(k, w, k, h, s.pending) /\ Shown(k, w, h)
    BY <1>0, <1>1, <1>2 DEF Bonds, Shown
  <2>2. u.holding = s.holding \ {b} \/ (u.holding = s.holding /\ ~one.owner)
    BY <1>0, <1>4 DEF Bonds
  <2> QED BY <1>1, <1>2, <1>4, <1>5, <2>1, <2>2, GivenUp
<1>7. Quiet(s, u)
  <2>1. ~Live(u, k)
    BY <1>1, <1>4 DEF Live
  <2>2. \A j \in Backends :
           /\ s.backend[j].calls # 0 => u.backend[j].calls # 0
           /\ Live(u, j) => Live(s, j) /\ (Heard(u, j) => Heard(s, j))
    BY <1>0, <1>2, <1>4, <2>1, QuietBackend
  <2> QED BY <1>0, <1>4, <2>2, QuietUnsaid
<1>8. StopSettled(u, k, TRUE) \in Bonded /\ Quiet(u, StopSettled(u, k, TRUE))
  BY <1>1, <1>2, <1>4, <1>5, <1>6, StopSettledBonded DEF SameRegistry
<1> QED BY <1>0, <1>3, <1>4, <1>7, <1>8, QuietThenQuiet

LEMMA StopUnconfirmedBonded ==
  ASSUME NEW s \in Bonded, NEW k \in Backends, s.backend[k].stop = "unconfirmed"
  PROVE  StopUnconfirmed(s, k) \in Bonded /\ Quiet(s, StopUnconfirmed(s, k))
<1> DEFINE b == botOf[k]
           one == s.backend[k]
           h == s.hosts[b]
           w == [one EXCEPT !.phase = "degraded"]
           u == [s EXCEPT !.backend[k] = w]
<1>0. /\ s \in DeskStore /\ s \in Desks /\ one \in BackendState /\ b \in Bots
      /\ Bonds(k, one, s.backends[b], h, s.pending) /\ Shown(k, one, h)
  BY KeptOf
<1>1. s.backends[b] = k /\ s.act[k].at \notin Early
  BY <1>0, NotEarly DEF Bonds
<1>2. /\ w.awaited = one.awaited /\ w.start = one.start /\ w.phase = "degraded"
      /\ w.owner = one.owner /\ w.moved = one.moved /\ w.calls = one.calls
      /\ w.stop = one.stop /\ w \in BackendState
  BY <1>0 DEF BackendState
<1>3. StopUnconfirmed(s, k) = StopSettled(u, k, FALSE)
  BY <1>0 DEF StopUnconfirmed, DeskStore
<1> HIDE DEF w
<1>4. /\ SameRecords(s, u) /\ u.act = s.act /\ u.pending = s.pending
      /\ u.toHost = s.toHost /\ u.backend = [s.backend EXCEPT ![k] = w]
  BY <1>0 DEF DeskStore, SameRecords
<1>5. u \in Desks /\ u.backend[k] = w
  BY <1>0, <1>2, BackendChanged
<1> HIDE DEF u
<1>6. u \in Bonded /\ Quiet(s, u)
  <2>1. Bonds(k, w, s.backends[b], h, s.pending) /\ Shown(k, w, h)
    BY <1>0, <1>2 DEF Bonds, Shown
  <2> QED BY <1>1, <1>2, <1>4, <1>5, <2>1, BackendStep
<1>7. u.backends[b] = k /\ u \in DeskStore
  BY <1>1, <1>4, <1>5 DEF SameRecords, Desks
<1>8. StopSettled(u, k, FALSE) \in Bonded /\ Quiet(u, StopSettled(u, k, FALSE))
  BY <1>2, <1>5, <1>6, <1>7, StopSettledBonded
<1> QED BY <1>0, <1>3, <1>6, <1>7, <1>8, QuietThenQuiet

\* activateRuntime() after backend.start().
LEMMA StartedBonded ==
  ASSUME NEW s \in Bonded, NEW k \in Backends, s.act[k].at = "starting"
  PROVE  Started(s, k) \in Bonded /\ Quiet(s, Started(s, k))
<1> DEFINE b == botOf[k]
           u == StopBackend(s, k)
           a == [s.act[k] EXCEPT !.at = "undoing"]
           t == [u EXCEPT !.act[k].at = "undoing"]
<1>0. /\ s \in DeskStore /\ s \in Desks /\ b \in Bots /\ s.act[k] \in Attempt
      /\ Turn(k, s.act[k], s.backend[k], s.generation[b], s.backends[b],
              s.activations[b], s.stops[b])
  BY KeptOf, PendingOf
<1>1. CASE ~(s.act[k].gen # s.generation[b] /\ s.backends[b] = k)
  BY <1>1, FinishedBonded DEF Started
<1>2. CASE s.act[k].gen # s.generation[b] /\ s.backends[b] = k
  <2>1. Started(s, k) = t
    BY <1>2 DEF Started
  <2>2. u \in Bonded /\ Quiet(s, u) /\ SameRecords(s, u) /\ u.act = s.act
    BY <1>2, StopBackendBonded
  <2>3. t \in Desks
    BY <1>0, <2>1, StartedTyped
  <2>4. u \in DeskStore
    BY <2>2 DEF Bonded, Desks
  <2> HIDE DEF u
  <2>5. /\ SameBackends(u, t) /\ t.backends = u.backends
        /\ t.generation = u.generation /\ t.stops = u.stops
        /\ t.activations = u.activations /\ t.act = [u.act EXCEPT ![k] = a]
    BY <2>2, <2>4 DEF DeskStore, SameBackends
  <2>6. a.at = "undoing" /\ a.gen = s.act[k].gen /\ a.old = s.act[k].old
    BY <1>0 DEF Attempt
  <2> HIDE DEF a, t
  <2>7. Turn(k, a, u.backend[k], u.generation[b], u.backends[b], t.activations[b], u.stops[b])
    BY <1>0, <2>2, <2>5, <2>6 DEF Turn, Early, Running, SameRecords
  <2>8. t \in Bonded /\ Quiet(u, t)
    BY <2>2, <2>3, <2>5, <2>7, ActStep
  <2>9. t \in DeskStore
    BY <2>3 DEF Desks
  <2> QED BY <1>0, <2>1, <2>2, <2>4, <2>8, <2>9, QuietThenQuiet
<1> QED BY <1>1, <1>2

\* An attempt that is still its bot's makes its backend the bot's, and binds it
\* if the engine is up.
Bound(s, t, k, c) ==
  /\ t.hosts = [s.hosts EXCEPT ![botOf[k]] = k] /\ t.holding = s.holding \cup {botOf[k]}
  /\ t.pending = s.pending \cup {c} /\ t.toHost = Append(s.toHost, c)
  /\ c \in Controls /\ c.op = "start" /\ c.by = k /\ c.bound = k
  /\ t.backend[k].owner /\ t.backend[k].start = "control" /\ t.backend[k].calls # 0
Unbound(s, t, k) ==
  /\ t.hosts = s.hosts /\ t.holding = s.holding
  /\ t.pending = s.pending /\ t.toHost = s.toHost
  /\ ~t.backend[k].owner /\ t.backend[k].start = "undone"

\* Its attempt goes on to await the start.
Creates(s, t, k) ==
  /\ t.generation = s.generation /\ t.activations = s.activations
  /\ t.stops = s.stops /\ t.up = s.up
  /\ t.backends = [s.backends EXCEPT ![botOf[k]] = k]
  /\ \A j \in Backends \ {k} : t.act[j] = s.act[j] /\ t.backend[j] = s.backend[j]
  /\ t.act[k].at = "starting" /\ t.act[k].gen = s.act[k].gen
  /\ t.backend[k].phase = "booting" /\ ~t.backend[k].moved /\ t.backend[k].stop = "none"
  /\ t.backend[k].awaited.undo = None /\ t.backend[k].awaited.stop = None
  /\ Unbound(s, t, k) \/ \E c : Bound(s, t, k, c)

LEMMA CreatedBonded ==
  ASSUME NEW s \in Bonded, NEW t \in Desks, NEW k \in Backends,
         s.act[k].at = "preparing", s.act[k].gen = s.generation[botOf[k]],
         Creates(s, t, k)
  PROVE  t \in Bonded
<1> DEFINE a == t.act[k]
           w == t.backend[k]
<1> PICK c : Unbound(s, t, k) \/ Bound(s, t, k, c)
  BY DEF Creates
<1> USE DEF Creates
<1> DEFINE b == botOf[k]
           h == t.hosts[b]
<1>0. /\ s \in DeskStore /\ b \in Bots /\ s.backend[k] = NewBackend
      /\ s.backends[b] = None /\ s.hosts[b] \in Maybe /\ BotKept(s, b) /\ None \notin Backends
      /\ Bonds(k, s.backend[k], None, s.hosts[b], s.pending)
      /\ Turn(k, s.act[k], s.backend[k], s.generation[b], None, s.activations[b], s.stops[b])
  <2>1. /\ s \in DeskStore /\ b \in Bots /\ s.hosts[b] \in Maybe /\ BotKept(s, b)
        /\ Bonds(k, s.backend[k], s.backends[b], s.hosts[b], s.pending)
        /\ Turn(k, s.act[k], s.backend[k], s.generation[b], s.backends[b],
                s.activations[b], s.stops[b])
    BY KeptOf
  <2> QED BY <2>1, HostAssumption DEF Turn, Early
<1>1. s.hosts[b] = None
  <2>1. SUFFICES ASSUME s.hosts[b] # None PROVE FALSE
    OBVIOUS
  <2>2. s.hosts[b] \in Backends /\ botOf[s.hosts[b]] = b
    BY <1>0, <2>1 DEF Maybe, BotKept
  <2>3. s.backends[b] = s.hosts[b]
    BY <2>2, KeptOf DEF Bonds
  <2> QED BY <1>0, <2>2, <2>3
<1>2. /\ t.backends[b] = k /\ \A x \in Bots \ {b} : t.backends[x] = s.backends[x]
      /\ t.act[k] = a /\ \A j \in Backends \ {k} : t.act[j] = s.act[j]
      /\ t.backend[k] = w /\ \A j \in Backends \ {k} : t.backend[j] = s.backend[j]
  BY <1>0, DeskFields
<1>3. /\ h = (IF w.owner THEN k ELSE None) /\ \A x \in Bots \ {b} : t.hosts[x] = s.hosts[x]
      /\ w.start = (IF w.owner THEN "control" ELSE "undone")
      /\ \A d \in t.pending : d \in s.pending \/ (d = c /\ w.owner /\ d.by = k)
      /\ w.owner => c.op = "start" /\ c.bound = k /\ w.calls # 0
  BY <1>0, <1>1, <1>2, DeskFields DEF Bound, Unbound
<1>4. \A x \in Bots : x \in t.holding <=> (x \in s.holding \/ (x = b /\ w.owner))
  BY <1>2 DEF Bound, Unbound
<1>5. Elsewhere(s, t, b)
  BY <1>2, <1>3, <1>4 DEF Elsewhere
<1>6. BotKept(t, b)
  <2>1. b \notin s.holding
    BY <1>0 DEF BotKept
  <2>2. \A m \in {t.hosts[b], t.backends[b], t.activations[b]} : m # None => botOf[m] = b
    BY <1>0, <1>2, <1>3 DEF BotKept
  <2>3. b \in t.holding <=> w.owner
    BY <1>0, <1>4, <2>1
  <2>4. t.backends[b] # None /\ t.backend[t.backends[b]] = w
    BY <1>0, <1>2
  <2> QED BY <2>2, <2>3, <2>4 DEF BotKept
<1>7. ASSUME NEW j \in Backends, botOf[j] = b PROVE BackendKept(t, j)
  <2>1. /\ Bonds(j, s.backend[j], None, None, s.pending) /\ Shown(j, s.backend[j], None)
        /\ Turn(j, s.act[j], s.backend[j], s.generation[b], None,
                s.activations[b], s.stops[b])
    BY <1>0, <1>1, <1>7, KeptOf
  <2>2. CASE j = k
    <3>1. Turn(k, a, w, s.generation[b], k, s.activations[b], s.stops[b])
      BY <1>0, <2>1, <2>2 DEF Turn, Early, Running
    <3>2. \A d \in s.pending : d.by # k
      <4>1. s.backend[k].calls = 0
        BY <1>0 DEF NewBackend
      <4> QED BY <1>0, <4>1 DEF Bonds
    <3>3. Bonds(k, w, k, h, t.pending)
      BY <1>0, <1>3, <3>2 DEF Bonds
    <3>4. Shown(k, w, h)
      BY <1>3 DEF Shown
    <3> QED BY <1>2, <2>2, <3>1, <3>3, <3>4 DEF BackendKept
  <2>3. CASE j # k
    <3>1. Turn(j, s.act[j], s.backend[j], s.generation[b], k, s.activations[b], s.stops[b])
      BY <1>0, <2>1, <2>3 DEF Turn, Running
    <3>2. \A d \in t.pending : d.by = j => d \in s.pending
      BY <1>3, <2>3
    <3>3. Bonds(j, s.backend[j], k, h, t.pending)
      <4>1. Bonds(j, s.backend[j], k, h, s.pending)
        <5>1. h \in {None, k} /\ j # k /\ j # None /\ k # None
          BY <1>3, <2>3, HostAssumption
        <5>2. Bonds(j, s.backend[j], None, None, s.pending)
          BY <2>1
        <5> HIDE DEF h
        <5> QED BY <5>1, <5>2 DEF Bonds
      <4> QED BY <3>2, <4>1, BondsFewer
    <3>4. Shown(j, s.backend[j], h)
      BY <1>0, <1>3, <2>1, <2>3 DEF Shown, Bonds
    <3> QED BY <1>2, <1>7, <2>3, <3>1, <3>3, <3>4 DEF BackendKept
  <2> QED BY <2>2, <2>3
<1> QED BY <1>0, <1>5, <1>6, <1>7, BotOnly

\* startNamed() up to its await, for a bot that is not bound.
LEMMA StartNamedMakes ==
  ASSUME NEW s \in DeskStore, NEW k \in Backends, s.hosts[botOf[k]] = None
  PROVE  \E w \in BackendState :
           LET t == StartNamed(s, k) IN
           /\ t.generation = s.generation /\ t.activations = s.activations
           /\ t.stops = s.stops /\ t.up = s.up /\ t.backends = s.backends
           /\ t.act = s.act /\ t.backend = [s.backend EXCEPT ![k] = w]
           /\ w.phase = "booting" /\ w.moved = s.backend[k].moved
           /\ w.stop = s.backend[k].stop /\ w.awaited = s.backend[k].awaited
           /\ t.backend[k] = w
           /\ \/ Unbound(s, t, k)
              \/ \E c : Bound(s, t, k, c)
<1> DEFINE b == botOf[k]
           one == s.backend[k]
           t == StartNamed(s, k)
           v == [one EXCEPT !.phase = "booting", !.startup = TRUE, !.owner = s.up]
<1>0. one \in BackendState /\ b \in Bots /\ s.up \in BOOLEAN
  BY DeskFields, HostAssumption
<1>1. /\ v \in BackendState /\ v.phase = "booting" /\ v.moved = one.moved
      /\ v.stop = one.stop /\ v.owner = s.up /\ v.awaited = one.awaited
      /\ v.calls = one.calls
  BY <1>0 DEF BackendState
<1>2. CASE ~s.up
  <2> DEFINE w == [v EXCEPT !.start = "undone"]
  <2>1. t = [s EXCEPT !.backend[k] = w]
    <3>1. [s EXCEPT !.backend[k].phase = "booting", !.backend[k].startup = TRUE,
                    !.backend[k].owner = s.up] = [s EXCEPT !.backend[k] = v]
      BY DEF DeskStore
    <3>2. t = [[s EXCEPT !.backend[k] = v] EXCEPT !.backend[k].start = "undone"]
      <4> HIDE DEF v
      <4> QED BY <1>2, <3>1 DEF StartNamed
    <3> HIDE DEF v, t
    <3> QED BY <3>2, ZenonT(60) DEF DeskStore
  <2>2. /\ w.phase = "booting" /\ w.moved = one.moved /\ w.stop = one.stop
        /\ w.start = "undone" /\ w.owner = s.up /\ w.awaited = one.awaited
        /\ w \in BackendState
    <3> HIDE DEF v
    <3> QED BY <1>1 DEF BackendState
  <2> HIDE DEF w, t
  <2>3. /\ t.generation = s.generation /\ t.activations = s.activations
        /\ t.stops = s.stops /\ t.up = s.up /\ t.backends = s.backends
        /\ t.act = s.act /\ t.backend = [s.backend EXCEPT ![k] = w]
        /\ t.hosts = s.hosts /\ t.holding = s.holding
        /\ t.pending = s.pending /\ t.toHost = s.toHost
    BY <2>1 DEF DeskStore
  <2>4. t.backend[k] = w
    BY <2>3, DeskFields
  <2>5. Unbound(s, t, k)
    BY <1>2, <2>2, <2>3, <2>4 DEF Unbound
  <2> QED BY <2>2, <2>3, <2>4, <2>5 DEF t
<1>3. CASE s.up
  <2> DEFINE booting == [s EXCEPT !.backend[k] = v]
             bound == [booting EXCEPT !.hosts[b] = k, !.holding = @ \cup {b}]
             c == Control("start", k, bound)
             x == [v EXCEPT !.calls = @ + 1]
             w == [x EXCEPT !.start = "control"]
  <2>1. t = [Call(bound, c) EXCEPT !.backend[k].start = "control"]
    <3>1. booting = [s EXCEPT !.backend[k].phase = "booting",
                              !.backend[k].startup = TRUE, !.backend[k].owner = s.up]
      BY DEF DeskStore
    <3> HIDE DEF booting
    <3> QED BY <1>3, <3>1 DEF StartNamed
  <2>2. x \in BackendState /\ x.calls # 0
    <3> HIDE DEF v
    <3>1. v.calls + 1 \in Nat /\ v.calls + 1 # 0
      BY <1>1, BackendFields
    <3> QED BY <1>1, <3>1 DEF BackendState
  <2>3. /\ x.phase = "booting" /\ x.moved = one.moved /\ x.stop = one.stop
        /\ x.owner = s.up /\ x.awaited = one.awaited
    <3> HIDE DEF v
    <3> QED BY <1>1 DEF BackendState
  <2> HIDE DEF x
  <2>4. /\ w \in BackendState /\ w.calls # 0 /\ w.start = "control"
        /\ w.phase = "booting" /\ w.moved = one.moved /\ w.stop = one.stop
        /\ w.owner = s.up /\ w.awaited = one.awaited
    BY <2>2, <2>3 DEF BackendState
  <2>5. /\ booting.backends = s.backends /\ booting.act = s.act
        /\ booting.generation = s.generation /\ booting.activations = s.activations
        /\ booting.stops = s.stops /\ booting.backend = [s.backend EXCEPT ![k] = v]
        /\ booting.hosts = s.hosts /\ booting.pending = s.pending /\ booting.up = s.up
        /\ booting.holding = s.holding /\ booting.toHost = s.toHost
        /\ booting \in DeskStore
    <3> HIDE DEF v
    <3> QED BY <1>1 DEF DeskStore
  <2> HIDE DEF booting
  <2>6. /\ bound.backends = s.backends /\ bound.act = s.act
        /\ bound.generation = s.generation /\ bound.activations = s.activations
        /\ bound.stops = s.stops /\ bound.backend = [s.backend EXCEPT ![k] = v]
        /\ bound.hosts = [s.hosts EXCEPT ![b] = k] /\ bound.pending = s.pending
        /\ bound.up = s.up /\ bound.holding = s.holding \cup {b}
        /\ bound.toHost = s.toHost /\ bound \in DeskStore
    <3> HIDE DEF v
    <3> QED BY <1>0, <2>5 DEF DeskStore, Maybe
  <2>7. bound.hosts[b] = k /\ bound.backend[k] = v
    BY <1>0, <2>6, DeskFields
  <2>8. c \in Controls /\ c.op = "start" /\ c.by = k /\ c.bound = k
    <3>1. bound.backend[k].calls + 1 \in Nat
      BY <1>1, <2>7, BackendFields
    <3> HIDE DEF bound
    <3> QED BY <1>0, <2>7, <3>1 DEF Control, Controls
  <2> HIDE DEF bound, c
  <2> DEFINE y == [bound EXCEPT !.pending = bound.pending \cup {c},
                                !.toHost = Append(bound.toHost, c),
                                !.backend = [bound.backend EXCEPT ![k] = x]]
  <2>9. Call(bound, c) = y
    <3>1. x = [v EXCEPT !.calls = v.calls + 1]
      BY DEF x
    <3> HIDE DEF v
    <3> QED BY <2>6, <2>7, <2>8, <3>1 DEF Call, DeskStore
  <2> HIDE DEF v
  <2>10. /\ y.backends = s.backends /\ y.act = s.act
         /\ y.generation = s.generation /\ y.activations = s.activations
         /\ y.stops = s.stops /\ y.backend = [bound.backend EXCEPT ![k] = x]
         /\ y.hosts = bound.hosts /\ y.pending = s.pending \cup {c}
         /\ y.up = s.up /\ y.holding = s.holding \cup {b}
         /\ y.toHost = Append(s.toHost, c) /\ y \in DeskStore
    <3>1. Append(bound.toHost, c) \in Seq(Controls)
      BY <2>6, <2>8, DeskFields, AppendProperties
    <3> QED BY <2>2, <2>6, <2>8, <3>1 DEF DeskStore
  <2> HIDE DEF y
  <2>11. y.backend[k] = x
    BY <2>6, <2>10, DeskFields
  <2>12. t = [y EXCEPT !.backend = [y.backend EXCEPT ![k] = w]]
    BY <2>1, <2>9, <2>11
  <2> HIDE DEF t, w
  <2>13. /\ t.backends = s.backends /\ t.act = s.act
         /\ t.generation = s.generation /\ t.activations = s.activations
         /\ t.stops = s.stops /\ t.backend = [y.backend EXCEPT ![k] = w]
         /\ t.hosts = bound.hosts /\ t.pending = s.pending \cup {c}
         /\ t.up = s.up /\ t.holding = s.holding \cup {b}
         /\ t.toHost = Append(s.toHost, c)
    BY <2>10, <2>12 DEF DeskStore
  <2>14. t.backend = [s.backend EXCEPT ![k] = w] /\ t.backend[k] = w
    <3>1. [[[s.backend EXCEPT ![k] = v] EXCEPT ![k] = x] EXCEPT ![k] = w]
            = [s.backend EXCEPT ![k] = w]
      BY DeskFields
    <3> QED BY <2>6, <2>10, <2>13, <3>1, DeskFields
  <2>15. Bound(s, t, k, c)
    BY <1>3, <2>4, <2>6, <2>8, <2>13, <2>14 DEF Bound
  <2> QED BY <2>4, <2>13, <2>14, <2>15 DEF t
<1> QED BY <1>0, <1>2, <1>3

\* A start is sent for a backend that has sent nothing yet.
Binds(s, t, k) ==
  /\ s.hosts[botOf[k]] = None /\ s.backend[k].calls = 0 /\ t.up = s.up
  /\ \E c : Bound(s, t, k, c)
  /\ t.backend[k].phase # "ready"
  /\ \A j \in Backends \ {k} : t.backend[j] = s.backend[j]

\* activateRuntime() up to the await of backend.start().
LEMMA PreparedBonded ==
  ASSUME NEW s \in Bonded, NEW k \in Backends,
         s.act[k].at = "preparing", s.act[k].gen = s.generation[botOf[k]]
  PROVE  LET t == StartNamed([s EXCEPT !.backends[botOf[k]] = k,
                                       !.act[k].at = "starting"], k)
         IN t \in Bonded /\ (Quiet(s, t) \/ Binds(s, t, k))
<1> DEFINE b == botOf[k]
           a == [s.act[k] EXCEPT !.at = "starting"]
           M == [s.backends EXCEPT ![b] = k]
           u == [s EXCEPT !.backends[b] = k]
           created == [u EXCEPT !.act[k] = a]
           one == s.backend[k]
           t == StartNamed(created, k)
<1>0. /\ s \in DeskStore /\ s \in Desks /\ b \in Bots /\ s.act[k] \in Attempt
      /\ one = NewBackend /\ s.backends[b] = None /\ s.hosts[b] \in Maybe /\ BotKept(s, b)
  <2>1. /\ s \in DeskStore /\ s \in Desks /\ b \in Bots
        /\ s.hosts[b] \in Maybe /\ BotKept(s, b)
        /\ Turn(k, s.act[k], one, s.generation[b], s.backends[b],
                s.activations[b], s.stops[b])
    BY KeptOf
  <2> QED BY <2>1, PendingOf DEF Turn, Early
<1>1. s.hosts[b] = None
  <2>1. SUFFICES ASSUME s.hosts[b] # None PROVE FALSE
    OBVIOUS
  <2>2. s.hosts[b] \in Backends /\ botOf[s.hosts[b]] = b
    BY <1>0, <2>1 DEF Maybe, BotKept
  <2>3. s.backends[b] = s.hosts[b]
    BY <2>2, KeptOf DEF Bonds
  <2> QED BY <1>0, <2>2, <2>3, HostAssumption
<1>2. /\ one.start = "none" /\ one.calls = 0 /\ ~one.moved /\ one.stop = "none"
      /\ one.awaited.undo = None /\ one.awaited.stop = None
  BY <1>0 DEF NewBackend
<1>3. created = [s EXCEPT !.backends[b] = k, !.act[k].at = "starting"]
  BY <1>0 DEF DeskStore
<1>4. a \in Attempt /\ a.at = "starting" /\ a.gen = s.act[k].gen
  BY <1>0 DEF Attempt, Places
<1> HIDE DEF a
<1>5. u \in Desks /\ u.backend = s.backend
  BY <1>0, SetBackends DEF Maybe, DeskStore
<1>6. created \in Desks /\ created.act[k] = a /\ created \in DeskStore
  <2> HIDE DEF u
  <2>1. created \in Desks /\ created.act[k] = a
    BY <1>4, <1>5, SetAct DEF Early
  <2> QED BY <2>1 DEF Desks
<1>7. /\ created.backends = M /\ created.act = [s.act EXCEPT ![k] = a]
      /\ created.generation = s.generation /\ created.activations = s.activations
      /\ created.stops = s.stops /\ created.backend = s.backend /\ created.hosts = s.hosts
      /\ created.pending = s.pending /\ created.up = s.up /\ created.holding = s.holding
      /\ created.toHost = s.toHost
  BY <1>0 DEF DeskStore
<1> HIDE DEF u, created, one, M
<1>8. PICK w \in BackendState :
        /\ t.generation = created.generation /\ t.activations = created.activations
        /\ t.stops = created.stops /\ t.up = created.up /\ t.backends = created.backends
        /\ t.act = created.act /\ t.backend = [created.backend EXCEPT ![k] = w]
        /\ w.phase = "booting" /\ w.moved = created.backend[k].moved
        /\ w.stop = created.backend[k].stop /\ w.awaited = created.backend[k].awaited
        /\ t.backend[k] = w
        /\ \/ Unbound(created, t, k)
           \/ \E c : Bound(created, t, k, c)
  <2>1. created.hosts[botOf[k]] = None
    BY <1>1, <1>7
  <2> HIDE DEF b
  <2> QED BY <1>6, <2>1, StartNamedMakes
<1>9. t \in Desks
  BY <1>2, <1>4, <1>6, <1>7, StartNamedTyped DEF Early, one
<1> HIDE DEF t
<1>17. /\ t.generation = s.generation /\ t.activations = s.activations
       /\ t.stops = s.stops /\ t.up = s.up /\ t.backends = M
       /\ t.act = [s.act EXCEPT ![k] = a] /\ t.backend = [s.backend EXCEPT ![k] = w]
       /\ w.moved = one.moved /\ w.stop = one.stop /\ w.awaited = one.awaited
  BY <1>7, <1>8 DEF one
<1>10. Unbound(created, t, k) => Unbound(s, t, k)
  BY <1>7 DEF Unbound
<1>11. ASSUME NEW c, Bound(created, t, k, c) PROVE Bound(s, t, k, c)
  BY <1>7, <1>11 DEF Bound
<1>12. /\ \A j \in Backends \ {k} : t.act[j] = s.act[j] /\ t.backend[j] = s.backend[j]
       /\ t.act[k] = a
  BY <1>0, <1>17, DeskFields
<1>13. Unbound(s, t, k) \/ \E c : Bound(s, t, k, c)
  BY <1>8, <1>10, <1>11
<1>14. t \in Bonded
  <2>1. Creates(s, t, k)
    BY <1>2, <1>4, <1>8, <1>17, <1>12, <1>13 DEF Creates, M
  <2> QED BY <1>9, <2>1, CreatedBonded
<1>15. CASE Unbound(s, t, k)
  <2>1. ~Live(t, k)
    BY <1>8, <1>15 DEF Live, Heard, Unbound
  <2>2. \A j \in Backends :
          /\ s.backend[j].calls # 0 => t.backend[j].calls # 0
          /\ Live(t, j) => Live(s, j) /\ (Heard(t, j) => Heard(s, j))
    BY <1>0, <1>2, <1>17, <1>15, <2>1, QuietBackend DEF Unbound, one
  <2>3. Quiet(s, t)
    BY <1>0, <1>17, <1>15, <2>2, QuietUnsaid DEF Unbound
  <2> QED BY <1>3, <1>14, <2>3 DEF t
<1>16. CASE \E c : Bound(s, t, k, c)
  <2>1. Binds(s, t, k)
    BY <1>1, <1>2, <1>8, <1>17, <1>12, <1>16 DEF Binds, one
  <2> QED BY <1>3, <1>14, <2>1 DEF t
<1> QED BY <1>13, <1>15, <1>16

\* A generation goes on: no attempt of the bot's is of the present one.
LEMMA OvertakenBonded ==
  ASSUME NEW s \in Bonded, NEW t \in Desks, NEW b \in Bots,
         SameBackends(s, t), t.backends = s.backends, t.act = s.act,
         t.generation = [s.generation EXCEPT ![b] = @ + 1],
         \A x \in Bots \ {b} : /\ t.activations[x] = s.activations[x]
                               /\ t.stops[x] = s.stops[x],
         t.activations[b] \in {s.activations[b], None}
  PROVE  t \in Bonded /\ Quiet(s, t)
<1>0. s \in Desks /\ s \in DeskStore
  BY DEF Bonded, Desks
<1>1. /\ \A x \in Bots \ {b} : t.generation[x] = s.generation[x]
      /\ s.generation[b] \in Nat /\ t.generation[b] = s.generation[b] + 1
  BY <1>0, DeskFields
<1>2. ASSUME NEW k \in Backends, botOf[k] = b
      PROVE  Turn(k, t.act[k], s.backend[k], t.generation[b], s.backends[b],
                  t.activations[b], t.stops[b])
  <2>1. Turn(k, s.act[k], s.backend[k], s.generation[b], s.backends[b],
             s.activations[b], s.stops[b])
    BY <1>2, KeptOf
  <2>2. s.act[k].gen \in Nat
    BY <1>0, PendingOf DEF Attempt
  <2>3. s.act[k].at \in Running => s.act[k].gen < t.generation[b]
    BY <1>1, <2>1, <2>2 DEF Turn
  <2>4. /\ s.act[k].at \in Running => s.act[k].gen <= t.generation[b]
        /\ s.act[k].at \in Running => s.act[k].gen # t.generation[b]
        /\ s.act[k].at = "preparing" => s.act[k].at \in Running
    BY <1>1, <2>2, <2>3 DEF Running
  <2> HIDE DEF Running
  <2> QED BY <2>1, <2>3, <2>4 DEF Turn
<1>3. t.activations[b] # None => botOf[t.activations[b]] = b
  BY DEF Bonded, BotKept
<1> QED BY <1>1, <1>2, <1>3, RegistryStep

\* The registry's stop() goes on to its backend.
LEMMA CancelledBonded ==
  ASSUME NEW s \in Bonded, NEW b \in Bots, s.stops[b].at = "cancelling",
         NEW failed \in BOOLEAN, NEW t,
         t = [s EXCEPT !.stops[b] = [at |-> "backend", target |-> s.backends[b],
                                     failed |-> failed]]
  PROVE  /\ t \in Bonded /\ Quiet(s, t)
         /\ s.backends[b] = None =>
              StopFinished(t, b, TRUE) \in Bonded /\ Quiet(s, StopFinished(t, b, TRUE))
         /\ s.backends[b] # None =>
              /\ StopBackend(t, s.backends[b]) \in Bonded
              /\ Quiet(s, StopBackend(t, s.backends[b]))
<1> DEFINE x == [at |-> "backend", target |-> s.backends[b], failed |-> failed]
<1>0. s \in Desks /\ s \in DeskStore /\ s.backends[b] \in Maybe
  BY DeskFields DEF Bonded, Desks
<1>1. x \in StopState /\ x.at = "backend"
  BY <1>0 DEF StopState
<1> HIDE DEF x
<1>2. t \in Desks
  BY <1>0, <1>1, SetStops DEF x
<1>3. /\ SameBackends(s, t) /\ t.backends = s.backends /\ t.act = s.act
      /\ t.generation = s.generation /\ t.activations = s.activations
      /\ t.stops = [s.stops EXCEPT ![b] = x]
  BY <1>0 DEF DeskStore, SameBackends, x
<1>4. t.stops[b] = x /\ \A y \in Bots \ {b} : t.stops[y] = s.stops[y]
  BY <1>0, <1>3, DeskFields
<1>5. ASSUME NEW k \in Backends, botOf[k] = b
      PROVE  Turn(k, t.act[k], s.backend[k], t.generation[b], s.backends[b],
                  t.activations[b], t.stops[b])
  <2>1. Turn(k, s.act[k], s.backend[k], s.generation[b], s.backends[b],
             s.activations[b], s.stops[b])
    BY <1>5, KeptOf
  <2> QED BY <1>3, <1>4, <2>1 DEF Turn
<1>6. t.activations[b] # None => botOf[t.activations[b]] = b
  BY <1>3 DEF Bonded, BotKept
<1>7. t \in Bonded /\ Quiet(s, t)
  BY <1>2, <1>3, <1>4, <1>5, <1>6, RegistryStep
<1>8. StopFinished(t, b, TRUE) \in Bonded /\ Quiet(s, StopFinished(t, b, TRUE))
  <2>1. StopFinished(t, b, TRUE) \in Bonded /\ Quiet(t, StopFinished(t, b, TRUE))
    BY <1>1, <1>4, <1>7, StopFinishedBonded
  <2> QED BY <1>0, <1>2, <1>7, <2>1, QuietThenQuiet DEF Desks
<1>9. ASSUME s.backends[b] # None
      PROVE  /\ StopBackend(t, s.backends[b]) \in Bonded
             /\ Quiet(s, StopBackend(t, s.backends[b]))
  <2> DEFINE k == s.backends[b]
  <2>1. k \in Backends /\ botOf[k] = b
    BY <1>0, <1>9 DEF Maybe, Bonded, BotKept
  <2>2. StopBackend(t, k) \in Bonded /\ Quiet(t, StopBackend(t, k))
    BY <1>3, <1>7, <2>1, StopBackendBonded
  <2> QED BY <1>0, <1>2, <1>7, <2>2, QuietThenQuiet DEF Desks
<1> QED BY <1>7, <1>8, <1>9

\* The engine is gone when the executions have been asked to stop.
LEMMA DisconnectedBonded ==
  ASSUME NEW s \in Bonded, NEW k \in Backends, s.backend[k].stop = "disconnected"
  PROVE  LET t == [s EXCEPT !.backend[k].stop = "unconfirmed"]
         IN t \in Bonded /\ Quiet(s, t)
<1> DEFINE one == s.backend[k]
           h == s.hosts[botOf[k]]
           w == [one EXCEPT !.stop = "unconfirmed"]
           t == [s EXCEPT !.backend[k] = w]
<1>0. /\ s \in DeskStore /\ s \in Desks /\ one \in BackendState
      /\ Bonds(k, one, s.backends[botOf[k]], h, s.pending) /\ Shown(k, one, h)
  BY KeptOf
<1>1. s.backends[botOf[k]] = k /\ s.act[k].at \notin Early
  BY <1>0, NotEarly DEF Bonds
<1>2. /\ w.awaited = one.awaited /\ w.start = one.start /\ w.phase = one.phase
      /\ w.owner = one.owner /\ w.moved = one.moved /\ w.calls = one.calls
      /\ w.stop = "unconfirmed" /\ w \in BackendState
  BY <1>0 DEF BackendState
<1>3. t = [s EXCEPT !.backend[k].stop = "unconfirmed"]
  BY <1>0 DEF DeskStore
<1> HIDE DEF w
<1>4. /\ SameRecords(s, t) /\ t.act = s.act /\ t.pending = s.pending
      /\ t.toHost = s.toHost /\ t.backend = [s.backend EXCEPT ![k] = w]
  BY <1>0 DEF DeskStore, SameRecords
<1>5. t \in Desks
  BY <1>0, <1>2, BackendChanged
<1> HIDE DEF t
<1>6. Bonds(k, w, s.backends[botOf[k]], h, s.pending) /\ Shown(k, w, h)
  BY <1>0, <1>2 DEF Bonds, Shown
<1>7. w.phase = "ready" => Heard(s, k)
  BY <1>2 DEF Heard
<1>8. t \in Bonded /\ Quiet(s, t)
  BY <1>1, <1>2, <1>4, <1>5, <1>6, <1>7, BackendStep
<1> QED BY <1>3, <1>8

\* What the bonds of a backend become when its controls are settled, and when
\* its binding is released meanwhile.
LEMMA ResolvedBonds ==
  ASSUME NEW k \in Backends, NEW one \in BackendState, NEW w, NEW m, NEW h, NEW g,
         NEW P, NEW C \in SUBSET P, NEW ok \in BOOLEAN,
         Resolved(one, w, k, C, ok), Bonds(k, one, m, h, P), g \in {h, None},
         ok /\ one.awaited.stop \in C => g # k
  PROVE  Bonds(k, w, m, g, P \ C)
<1>0. None # k
  BY HostAssumption
<1>1. /\ w.awaited.undo = (IF one.awaited.undo \in C THEN None ELSE one.awaited.undo)
      /\ w.awaited.stop = (IF one.awaited.stop \in C THEN None ELSE one.awaited.stop)
  BY DEF Resolved
<1>2. /\ w.owner = one.owner /\ w.moved = one.moved /\ w.calls = one.calls
      /\ one.stop = "none" <=> w.stop = "none"
      /\ w.stop = "idle" => one.stop = "idle"
      /\ w.stop = "confirmed" => one.stop = "confirmed" \/ (ok /\ one.awaited.stop \in C)
      /\ one.stop = "control" /\ one.awaited.stop \notin C => w.stop = "control"
      /\ one.start = "undo" /\ one.awaited.undo \notin C => w.start = "undo"
  BY DEF Resolved
<1>3. ASSUME NEW c \in {w.awaited.undo, w.awaited.stop}, c # None
      PROVE  c.op # "start" /\ c.by = k /\ (g = k => c.bound = k)
  <2>1. c \in {one.awaited.undo, one.awaited.stop}
    BY <1>1, <1>3
  <2> QED BY <1>0, <1>3, <2>1 DEF Bonds
<1>4. ASSUME NEW c \in P \ C, c.by = k
      PROVE  /\ c.bound \in {None, k} /\ w.calls # 0
             /\ c.op = "undo" => w.awaited.undo = c /\ w.start = "undo"
             /\ c.op = "stop" => w.awaited.stop = c /\ w.stop = "control"
  BY <1>1, <1>2, <1>4 DEF Bonds
<1> QED BY <1>0, <1>2, <1>3, <1>4 DEF Bonds

LEMMA ResolvedShown ==
  ASSUME NEW k \in Backends, NEW one \in BackendState, NEW w, NEW h,
         NEW C, NEW ok \in BOOLEAN,
         Resolved(one, w, k, C, ok), Shown(k, one, h)
  PROVE  Shown(k, w, h)
<1>1. /\ w.owner = one.owner /\ w.moved = one.moved /\ w.phase = one.phase
      /\ one.stop = "none" <=> w.stop = "none"
      /\ one.stop = "confirmed" => w.stop = "confirmed"
      /\ w.start \in {"control", "returned"} => one.start \in {"control", "returned"}
      /\ one.start = "settled" => w.start = "settled"
  BY DEF Resolved
<1> QED BY <1>1 DEF Shown

\* A new backend awaits nothing.
LEMMA ResolvedNew ==
  ASSUME NEW w, NEW k \in Backends, NEW C, NEW ok \in BOOLEAN,
         Resolved(NewBackend, w, k, C, ok)
  PROVE  w = NewBackend
<1>1. w.awaited = [undo |-> None, stop |-> None] /\ w.start = "none" /\ w.stop = "none"
  BY DEF Resolved, NewBackend
<1>2. w = [NewBackend EXCEPT !.awaited = w.awaited, !.start = w.start, !.stop = w.stop]
  BY DEF Resolved
<1> QED BY <1>1, <1>2 DEF NewBackend

\* A step that sends nothing, settles controls, and may release the bindings
\* of the bots in B and answer the starts of the backends in K.
Settles(s, t, B, K) ==
  /\ t.toHost = s.toHost /\ t.up = s.up /\ t.pending \subseteq s.pending
  /\ \A x \in Bots : t.hosts[x] = IF x \in B THEN None ELSE s.hosts[x]
  /\ \A k \in Backends :
       /\ t.backend[k].calls = s.backend[k].calls
       /\ Live(t, k) => Live(s, k) /\ (Heard(t, k) => Heard(s, k) \/ k \in K)

\* What Resolve leaves alone.
LEMMA ResolveSame ==
  ASSUME NEW s \in DeskStore, NEW C, NEW ok \in BOOLEAN
  PROVE  /\ SameRegistry(s, Resolve(s, C, ok))
         /\ Resolve(s, C, ok).hosts = s.hosts /\ Resolve(s, C, ok).up = s.up
         /\ Resolve(s, C, ok).holding = s.holding
         /\ Resolve(s, C, ok).toHost = s.toHost
         /\ Resolve(s, C, ok).pending = s.pending \ C
BY DEF Resolve, DeskStore, SameRegistry

\* A step of the client that only settles controls and releases bindings.
LEMMA SettledBonded ==
  ASSUME NEW s \in Bonded, NEW t \in Desks, SameRegistry(s, t), t.holding = s.holding,
         \A x \in Bots : t.hosts[x] \in {s.hosts[x], None},
         \A k \in Backends :
           /\ t.backend[k].owner = s.backend[k].owner
           /\ s.backend[k] = NewBackend => t.backend[k] = NewBackend
           /\ Bonds(k, t.backend[k], s.backends[botOf[k]], t.hosts[botOf[k]], t.pending)
           /\ Shown(k, t.backend[k], t.hosts[botOf[k]])
  PROVE  t \in Bonded
<1>1. ASSUME NEW b \in Bots PROVE BotKept(t, b)
  <2>1. BotKept(s, b) /\ s.backends[b] \in Maybe
    BY DeskFields DEF Bonded, Desks
  <2>2. s.backends[b] # None => t.backend[s.backends[b]].owner = s.backend[s.backends[b]].owner
    BY <2>1 DEF Maybe
  <2> QED BY <2>1, <2>2 DEF BotKept, SameRegistry
<1>2. ASSUME NEW k \in Backends PROVE BackendKept(t, k)
  <2>1. Turn(k, s.act[k], s.backend[k], s.generation[botOf[k]], s.backends[botOf[k]],
             s.activations[botOf[k]], s.stops[botOf[k]])
    BY KeptOf
  <2>2. s.backend[k] = NewBackend => t.backend[k] = NewBackend
    OBVIOUS
  <2>3. Turn(k, t.act[k], t.backend[k], t.generation[botOf[k]], t.backends[botOf[k]],
             t.activations[botOf[k]], t.stops[botOf[k]])
    BY <2>1, <2>2 DEF Turn, SameRegistry
  <2> QED BY <2>3 DEF BackendKept, SameRegistry
<1> QED BY <1>1, <1>2 DEF Bonded

\* Who awaits a control goes on; no stop is confirmed whose binding is there.
LEMMA ResolveBonded ==
  ASSUME NEW s \in Bonded, NEW C \in SUBSET s.pending, NEW ok \in BOOLEAN,
         \A k \in Backends :
           ok /\ s.backend[k].awaited.stop \in C => s.hosts[botOf[k]] # k
  PROVE  /\ Resolve(s, C, ok) \in Bonded
         /\ Settles(s, Resolve(s, C, ok), {},
                    {k \in Backends : ok /\ \E c \in C : c.op = "start" /\ c.by = k})
<1> DEFINE t == Resolve(s, C, ok)
<1>0. s \in Desks /\ s \in DeskStore
  BY DEF Bonded, Desks
<1>1. t \in Desks
  BY <1>0, ResolveTyped
<1>2. /\ SameRegistry(s, t) /\ t.hosts = s.hosts /\ t.up = s.up
      /\ t.holding = s.holding /\ t.toHost = s.toHost /\ t.pending = s.pending \ C
  BY <1>0, ResolveSame
<1>3. ASSUME NEW k \in Backends
      PROVE  /\ Resolved(s.backend[k], t.backend[k], k, C, ok)
             /\ s.backend[k] \in BackendState
  BY <1>0, ResolveFields, PendingOf
<1> HIDE DEF t
<1>4. ASSUME NEW k \in Backends
      PROVE  /\ t.backend[k].owner = s.backend[k].owner
             /\ s.backend[k] = NewBackend => t.backend[k] = NewBackend
             /\ Bonds(k, t.backend[k], s.backends[botOf[k]], t.hosts[botOf[k]], t.pending)
             /\ Shown(k, t.backend[k], t.hosts[botOf[k]])
             /\ t.backend[k].calls = s.backend[k].calls
             /\ Live(t, k) => Live(s, k)
             /\ Live(t, k) /\ Heard(t, k) =>
                  Heard(s, k) \/ (ok /\ \E c \in C : c.op = "start" /\ c.by = k)
  <2>1. /\ Bonds(k, s.backend[k], s.backends[botOf[k]], s.hosts[botOf[k]], s.pending)
        /\ Shown(k, s.backend[k], s.hosts[botOf[k]])
    BY KeptOf
  <2>2. /\ t.backend[k].owner = s.backend[k].owner /\ t.backend[k].calls = s.backend[k].calls
        /\ t.backend[k].moved = s.backend[k].moved /\ t.backend[k].phase = s.backend[k].phase
        /\ t.backend[k].start = "control" => s.backend[k].start = "control"
        /\ t.backend[k].start = "returned" =>
             \/ s.backend[k].start = "returned"
             \/ s.backend[k].start = "control" /\ ok
                /\ \E c \in C : c.op = "start" /\ c.by = k
    BY <1>3 DEF Resolved
  <2>3. Bonds(k, t.backend[k], s.backends[botOf[k]], t.hosts[botOf[k]], t.pending)
    <3>1. ok /\ s.backend[k].awaited.stop \in C => t.hosts[botOf[k]] # k
      BY <1>2
    <3>2. t.hosts[botOf[k]] \in {s.hosts[botOf[k]], None}
      BY <1>2
    <3>3. Bonds(k, t.backend[k], s.backends[botOf[k]], t.hosts[botOf[k]], s.pending \ C)
      BY <1>3, <2>1, <3>1, <3>2, ResolvedBonds
    <3> QED BY <1>2, <3>3
  <2>4. Shown(k, t.backend[k], t.hosts[botOf[k]])
    BY <1>2, <1>3, <2>1, ResolvedShown
  <2>5. s.backend[k] = NewBackend => t.backend[k] = NewBackend
    BY <1>3, ResolvedNew
  <2>6. Live(t, k) => Live(s, k)
    BY <1>2, <2>2 DEF Live, Heard
  <2>7. Heard(t, k) => Heard(s, k) \/ (ok /\ \E c \in C : c.op = "start" /\ c.by = k)
    BY <2>2 DEF Heard
  <2> QED BY <2>2, <2>3, <2>4, <2>5, <2>6, <2>7
<1>5. \A x \in Bots : t.hosts[x] \in {s.hosts[x], None}
  BY <1>2
<1>6. t \in Bonded
  BY <1>1, <1>2, <1>4, <1>5, SettledBonded
<1>7. Settles(s, t, {}, {k \in Backends : ok /\ \E c \in C : c.op = "start" /\ c.by = k})
  BY <1>2, <1>4 DEF Settles
<1> QED BY <1>6, <1>7 DEF t

\* A confirmed stop releases the binding it was sent for, and the start that
\* waits on it.
LEMMA ReleasedBonded ==
  ASSUME NEW s \in Bonded, NEW c \in s.pending, c.op # "start", c.bound # None,
         s.hosts[botOf[c.by]] = c.bound, s.backend[c.by].start # "returned",
         NEW t,
         t = Resolve(CancelPendingStart(Release(s, botOf[c.by], FALSE), botOf[c.by]),
                     {c}, TRUE)
  PROVE  t \in Bonded /\ Settles(s, t, {botOf[c.by]}, {})
<1> DEFINE b == botOf[c.by]
           k == c.by
           r == [s EXCEPT !.hosts[b] = None]
           P == PendingStarts(r, b)
           q == Resolve(r, P, FALSE)
<1>0. /\ s \in Desks /\ s \in DeskStore /\ c \in Controls /\ k \in Backends /\ b \in Bots
      /\ None \notin Backends
  BY DeskFields, HostAssumption DEF Bonded, Desks, Controls
<1>1. s.hosts[b] = k /\ c.bound = k
  BY <1>0, KeptOf DEF Bonds
<1>2. Release(s, b, FALSE) = r
  BY <1>0, <1>1 DEF Release
<1>3. r \in Desks /\ r.pending = s.pending
  BY <1>0, <1>2, ReleaseTyped
<1>4. /\ SameRegistry(s, r) /\ r.backend = s.backend /\ r.up = s.up
      /\ r.holding = s.holding /\ r.toHost = s.toHost
      /\ r.hosts = [s.hosts EXCEPT ![b] = None]
  BY <1>0 DEF DeskStore, SameRegistry
<1> HIDE DEF r
<1>5. P \in SUBSET r.pending /\ c \notin P
  BY DEF PendingStarts
<1>6. q \in Desks /\ q.pending = s.pending \ P
  BY <1>3, <1>5, ResolveTyped
<1>7. /\ SameRegistry(r, q) /\ q.hosts = r.hosts /\ q.up = r.up
      /\ q.holding = r.holding /\ q.toHost = r.toHost
  <2>1. r \in DeskStore /\ FALSE \in BOOLEAN
    BY <1>3 DEF Desks
  <2> QED BY <1>3, <2>1, ResolveSame
<1>8. \A j \in Backends : Resolved(s.backend[j], q.backend[j], j, P, FALSE)
  BY <1>3, <1>4, <1>5, ResolveFields
<1>9. t = Resolve(q, {c}, TRUE)
  BY <1>2 DEF CancelPendingStart
<1> HIDE DEF q
<1>10. {c} \in SUBSET q.pending
  BY <1>5, <1>6
<1>11. t \in Desks /\ t.pending = (s.pending \ P) \ {c}
  <2>1. TRUE \in BOOLEAN /\ q.pending \ {c} = (s.pending \ P) \ {c}
    BY <1>6
  <2>2. Resolve(q, {c}, TRUE) \in Desks /\ Resolve(q, {c}, TRUE).pending = q.pending \ {c}
    BY <1>6, <1>10, <2>1, ResolveTyped
  <2> QED BY <1>9, <2>1, <2>2
<1>12. /\ SameRegistry(q, t) /\ t.hosts = q.hosts /\ t.up = q.up
       /\ t.holding = q.holding /\ t.toHost = q.toHost
  <2>1. q \in DeskStore /\ TRUE \in BOOLEAN
    BY <1>6 DEF Desks
  <2> DEFINE u == Resolve(q, {c}, TRUE)
  <2>2. /\ SameRegistry(q, u) /\ u.hosts = q.hosts /\ u.up = q.up
        /\ u.holding = q.holding /\ u.toHost = q.toHost
    BY <2>1, ResolveSame
  <2> QED BY <1>9, <2>2
<1>13. \A j \in Backends : Resolved(q.backend[j], t.backend[j], j, {c}, TRUE)
  BY <1>6, <1>9, <1>10, ResolveFields
<1>14. /\ SameRegistry(s, t) /\ t.up = s.up /\ t.holding = s.holding
       /\ t.toHost = s.toHost /\ t.hosts = [s.hosts EXCEPT ![b] = None]
  BY <1>4, <1>7, <1>12 DEF SameRegistry
<1>15. \A x \in Bots : t.hosts[x] = IF x = b THEN None ELSE s.hosts[x]
  BY <1>0, <1>14, DeskFields
<1>16. \A d \in P : d.op = "start" /\ botOf[d.by] = b
  BY DEF PendingStarts
<1>17. s.backend[k].start = "control" => \E d \in P : d.op = "start" /\ d.by = k
  <2>1. PendingInv(k, s.act[k], s.backend[k], s.pending)
    BY <1>0, PendingOf
  <2> QED BY <1>3, <2>1 DEF PendingInv, StartOf, PendingStarts
<1> HIDE DEF P
<1>18. ASSUME NEW j \in Backends
       PROVE  /\ t.backend[j].owner = s.backend[j].owner
              /\ s.backend[j] = NewBackend => t.backend[j] = NewBackend
              /\ Bonds(j, t.backend[j], s.backends[botOf[j]], t.hosts[botOf[j]], t.pending)
              /\ Shown(j, t.backend[j], t.hosts[botOf[j]])
              /\ t.backend[j].calls = s.backend[j].calls
              /\ Live(t, j) => Live(s, j) /\ (Heard(t, j) => Heard(s, j))
  <2> DEFINE one == s.backend[j]
             x == q.backend[j]
             w == t.backend[j]
             h == s.hosts[botOf[j]]
             g == t.hosts[botOf[j]]
  <2>1. /\ Bonds(j, one, s.backends[botOf[j]], h, s.pending) /\ Shown(j, one, h)
        /\ botOf[j] \in Bots
        /\ one \in BackendState /\ x \in BackendState
        /\ Resolved(one, x, j, P, FALSE) /\ Resolved(x, w, j, {c}, TRUE)
    BY <1>6, <1>8, <1>13, KeptOf, PendingOf
  <2>2. /\ w.owner = one.owner /\ w.calls = one.calls /\ w.moved = one.moved
        /\ w.phase = one.phase
        /\ w.start = "control" => one.start = "control"
        /\ w.start = "returned" => one.start = "returned"
        /\ one.start = "settled" => w.start = "settled"
        /\ one.stop = "none" <=> w.stop = "none"
        /\ one.stop = "confirmed" => w.stop = "confirmed"
    <3> HIDE DEF one, x, w
    <3> QED BY <1>16, <2>1 DEF Resolved
  <2>3. s.backend[j] = NewBackend => t.backend[j] = NewBackend
    BY <2>1, ResolvedNew
  <2>4. /\ g \in {h, None}
        /\ j = k \/ h # j => g # j
        /\ h # j => g # j
    BY <1>0, <1>15, <2>1
  <2>5. x.awaited.stop = c => g # j
    <3>r. Resolved(one, x, j, P, FALSE)
      BY <2>1
    <3>1. SUFFICES ASSUME x.awaited.stop = c, j # k PROVE h # j
      BY <2>4
    <3>2. one.awaited.stop = c \/ x.awaited.stop = None
      <4> HIDE DEF one, x, w, h, g
      <4> QED BY <3>r, <3>1 DEF Resolved
    <3>3. one.awaited.stop \in P => x.awaited.stop = None
      <4> HIDE DEF one, x, w, h, g
      <4> QED BY <3>r DEF Resolved
    <3>4. one.awaited.stop \notin P => x.awaited.stop = one.awaited.stop
      <4> HIDE DEF one, x, w, h, g
      <4> QED BY <3>r DEF Resolved
    <3>5. SUFFICES ASSUME h = j PROVE FALSE
      OBVIOUS
    <3>6. one.awaited.stop # None => one.awaited.stop.by = j
      BY <2>1 DEF Bonds
    <3>7. c # None
      BY <1>0, HostAssumption
    <3>8. c.by = j
      BY <3>1, <3>2, <3>3, <3>4, <3>6, <3>7
    <3> QED BY <3>1, <3>8
  <2>6. Bonds(j, w, s.backends[botOf[j]], g, t.pending)
    <3>1. Bonds(j, x, s.backends[botOf[j]], h, s.pending \ P)
      BY <1>3, <1>5, <2>1, ResolvedBonds
    <3>2. (TRUE /\ x.awaited.stop \in {c}) => g # j
      BY <2>5
    <3>3. {c} \in SUBSET (s.pending \ P)
      BY <1>6, <1>10
    <3> HIDE DEF x, w, h, g
    <3>4. Bonds(j, w, s.backends[botOf[j]], g, (s.pending \ P) \ {c})
      BY <2>1, <2>4, <3>1, <3>2, <3>3, ResolvedBonds
    <3> QED BY <1>11, <3>4
  <2>7. Shown(j, w, g)
    <3>1. CASE j # k /\ botOf[j] = b
      <4>1. ~one.owner
        <5>1. s.backends[b] = k
          BY <1>0, <1>1, KeptOf DEF Bonds
        <5> QED BY <2>1, <3>1, <5>1 DEF Bonds
      <4> HIDE DEF one, w, g, h
      <4> QED BY <2>1, <2>2, <4>1 DEF Shown
    <3>2. CASE botOf[j] # b
      <4>1. g = h
        BY <1>15, <2>1, <3>2
      <4> HIDE DEF one, w, g, h
      <4> QED BY <2>1, <2>2, <4>1 DEF Shown
    <3>3. CASE j = k
      <4>1. /\ c.op = "undo" => one.awaited.undo = c /\ one.start = "undo"
            /\ c.op = "stop" => one.awaited.stop = c /\ one.stop = "control"
        BY <2>1, <3>3 DEF Bonds
      <4>2. c.op \in {"undo", "stop"}
        BY <1>0 DEF Controls
      <4>3. c.op = "stop" => w.stop = "confirmed"
        <5>1. c.op = "stop" => x.awaited.stop = c /\ x.stop = "control"
          <6>1. Resolved(one, x, j, P, FALSE)
            BY <2>1
          <6> HIDE DEF one, x, w, h, g
          <6> QED BY <1>5, <4>1, <6>1 DEF Resolved
        <5> HIDE DEF one, x, w
        <5> QED BY <2>1, <5>1 DEF Resolved
      <4>4. one.phase = "ready" => c.op = "stop"
        BY <2>1, <4>1, <4>2 DEF Shown
      <4>5. w.start \notin {"control", "returned"}
        <5>1. x.start \notin {"control", "returned"}
          <6>1. one.start # "returned"
            BY <3>3
          <6>2. one.start = "control" => \E d \in P : d.op = "start" /\ d.by = j
            BY <1>17, <3>3
          <6> HIDE DEF one, x
          <6> QED BY <2>1, <6>1, <6>2 DEF Resolved
        <5> HIDE DEF one, x, w
        <5> QED BY <2>1, <5>1 DEF Resolved
      <4> HIDE DEF one, w, g, h, x
      <4> QED BY <2>1, <2>2, <4>3, <4>4, <4>5 DEF Shown
    <3> QED BY <3>1, <3>2, <3>3
  <2>8. Live(t, j) => Live(s, j) /\ (Heard(t, j) => Heard(s, j))
    <3>1. g = j => h = j
      BY <2>4
    <3> QED BY <2>2, <3>1 DEF Live, Heard
  <2> QED BY <2>2, <2>3, <2>6, <2>7, <2>8
<1>19. \A x \in Bots : t.hosts[x] \in {s.hosts[x], None}
  BY <1>15
<1>20. t \in Bonded
  BY <1>11, <1>14, <1>18, <1>19, SettledBonded
<1>21. Settles(s, t, {b}, {})
  BY <1>11, <1>14, <1>15, <1>18 DEF Settles
<1> QED BY <1>20, <1>21

\* The host says that a bot's worker is gone: its backend gives the engine up.
LEMMA ExitBonded ==
  ASSUME NEW s \in Bonded, NEW b \in Bots
  PROVE  Release(s, b, TRUE) \in Bonded /\ Settles(s, Release(s, b, TRUE), {b}, {})
<1> DEFINE k == s.hosts[b]
           t == Release(s, b, TRUE)
           w == [s.backend[k] EXCEPT !.owner = FALSE, !.phase = "degraded"]
<1>0. /\ s \in Desks /\ s \in DeskStore /\ BotKept(s, b) /\ k \in Maybe /\ TRUE \in BOOLEAN
      /\ t \in Desks /\ t.pending = s.pending
  <2>1. s \in Desks /\ TRUE \in BOOLEAN
    BY DEF Bonded
  <2>2. t \in Desks /\ t.pending = s.pending
    BY <2>1, ReleaseTyped
  <2> QED BY <2>1, <2>2, DeskFields DEF Bonded, Desks
<1>1. CASE k = None
  <2>1. t = s
    BY <1>1 DEF Release
  <2>2. \A x \in Bots : s.hosts[x] = IF x \in {b} THEN None ELSE s.hosts[x]
    BY <1>1
  <2>3. Settles(s, s, {b}, {})
    BY <2>2 DEF Settles
  <2> QED BY <2>1, <2>3
<1>2. CASE k # None
  <2>1. /\ k \in Backends /\ botOf[k] = b /\ s.backend[k].owner /\ s.backends[b] = k
        /\ s.backend[k] \in BackendState
        /\ Bonds(k, s.backend[k], k, k, s.pending)
        /\ s.hosts[b] = k /\ None # k
    <3>1. k \in Backends /\ botOf[k] = b
      BY <1>0, <1>2 DEF BotKept, Maybe
    <3>2. Bonds(k, s.backend[k], s.backends[b], k, s.pending) /\ s.backend[k] \in BackendState
      BY <3>1, KeptOf
    <3>3. s.backends[b] = k /\ s.backend[k].owner
      BY <3>2 DEF Bonds
    <3> QED BY <1>2, <3>1, <3>2, <3>3
  <2>2. t = [[[s EXCEPT !.hosts[b] = None] EXCEPT !.backend[k].owner = FALSE]
               EXCEPT !.backend[k].phase = "degraded", !.holding = @ \ {b}]
    BY <1>2, <2>1 DEF Release
  <2>3. /\ SameRegistry(s, t) /\ t.up = s.up /\ t.toHost = s.toHost
        /\ t.hosts = [s.hosts EXCEPT ![b] = None]
        /\ t.holding = s.holding \ {b}
        /\ t.backend = [s.backend EXCEPT ![k] = w]
    <3> HIDE DEF k, t
    <3>1. s \in DeskStore /\ k \in Backends
      BY <1>0, <2>1
    <3> QED BY <2>2, <3>1 DEF DeskStore, SameRegistry
  <2>4. /\ ~w.owner /\ w.moved = s.backend[k].moved /\ w.start = s.backend[k].start
        /\ w.stop = s.backend[k].stop /\ w.phase = "degraded"
        /\ w.awaited = s.backend[k].awaited /\ w.calls = s.backend[k].calls
    BY <2>1 DEF BackendState
  <2> HIDE DEF w, t, k
  <2>5. /\ \A x \in Bots : t.hosts[x] = IF x \in {b} THEN None ELSE s.hosts[x]
        /\ \A j \in Backends : t.backend[j] = IF j = k THEN w ELSE s.backend[j]
    BY <1>0, <2>1, <2>3, DeskFields
  <2>6. t.hosts[b] = None
    BY <2>5
  <2>7. Bonds(k, w, k, None, s.pending)
    BY <2>1, <2>4 DEF Bonds
  <2>8. Shown(k, w, None)
    BY <2>4 DEF Shown
  <2>9. t \in Bonded
    BY <1>0, <2>1, <2>3, <2>4, <2>6, <2>7, <2>8, GivenUp
  <2>10. ASSUME NEW j \in Backends
         PROVE  /\ t.backend[j].calls = s.backend[j].calls
                /\ Live(t, j) => Live(s, j) /\ (Heard(t, j) => Heard(s, j))
    <3>1. botOf[j] \in Bots /\ None # j
      BY HostAssumption
    <3>2. Live(t, j) => botOf[j] # b
      BY <2>6, <3>1 DEF Live
    <3>3. botOf[j] # b => t.backend[j] = s.backend[j] /\ t.hosts[botOf[j]] = s.hosts[botOf[j]]
      BY <2>1, <2>5, <3>1
    <3> QED BY <2>4, <2>5, <3>2, <3>3 DEF Live, Heard
  <2>11. Settles(s, t, {b}, {})
    BY <1>0, <2>3, <2>5, <2>10 DEF Settles
  <2> QED BY <2>9, <2>11 DEF t
<1> QED BY <1>1, <1>2

\* The binding that a confirmed stop releases.
Confirms(s, c, ok) ==
  ok /\ c.op # "start" /\ c.bound # None /\ s.hosts[botOf[c.by]] = c.bound

LEMMA SettleControlBonded ==
  ASSUME NEW s \in Bonded, NEW c \in s.pending, NEW ok \in BOOLEAN,
         \A k \in Backends : s.backend[k].start # "returned"
  PROVE  LET t == SettleControl(s, c, ok) IN
         /\ t \in Bonded
         /\ Confirms(s, c, ok) => Settles(s, t, {botOf[c.by]}, {})
         /\ ~Confirms(s, c, ok) =>
              Settles(s, t, {}, {k \in Backends : ok /\ c.op = "start" /\ c.by = k})
<1>0. c \in Controls /\ c.by \in Backends /\ c # None
  BY DeskFields, HostAssumption DEF Bonded, Desks, Controls
<1>1. CASE Confirms(s, c, ok)
  <2> DEFINE t == Resolve(CancelPendingStart(Release(s, botOf[c.by], FALSE), botOf[c.by]),
                          {c}, TRUE)
  <2>1. SettleControl(s, c, ok) = t
    BY <1>1 DEF Confirms, SettleControl
  <2>2. t \in Bonded /\ Settles(s, t, {botOf[c.by]}, {})
    BY <1>0, <1>1, ReleasedBonded DEF Confirms
  <2> QED BY <1>1, <2>1, <2>2
<1>2. CASE ~Confirms(s, c, ok)
  <2> DEFINE t == Resolve(s, {c}, ok)
             K == {k \in Backends : ok /\ \E d \in {c} : d.op = "start" /\ d.by = k}
  <2>1. SettleControl(s, c, ok) = t
    BY <1>2 DEF Confirms, SettleControl
  <2>2. ASSUME NEW k \in Backends, ok, s.backend[k].awaited.stop \in {c}
        PROVE  s.hosts[botOf[k]] # k
    <3>1. c.op # "start" /\ c.by = k /\ (s.hosts[botOf[k]] = k => c.bound = k)
      BY <1>0, <2>2, KeptOf DEF Bonds
    <3>2. None # k
      BY HostAssumption
    <3> QED BY <1>2, <2>2, <3>1, <3>2 DEF Confirms
  <2>3. {c} \in SUBSET s.pending
    OBVIOUS
  <2>4. t \in Bonded /\ Settles(s, t, {}, K)
    BY <2>2, <2>3, ResolveBonded
  <2>5. K = {k \in Backends : ok /\ c.op = "start" /\ c.by = k}
    OBVIOUS
  <2> QED BY <1>2, <2>1, <2>4, <2>5
<1> QED BY <1>1, <1>2

\* A control's timer fires.
LEMMA TimedOutBonded ==
  ASSUME NEW s \in Bonded, NEW c \in s.pending
  PROVE  Resolve(s, {c}, FALSE) \in Bonded /\ Settles(s, Resolve(s, {c}, FALSE), {}, {})
<1>1. {c} \in SUBSET s.pending /\ FALSE \in BOOLEAN
  OBVIOUS
<1> DEFINE K == {k \in Backends : FALSE /\ \E d \in {c} : d.op = "start" /\ d.by = k}
<1>2. Resolve(s, {c}, FALSE) \in Bonded /\ Settles(s, Resolve(s, {c}, FALSE), {}, K)
  BY <1>1, ResolveBonded
<1>3. K = {}
  OBVIOUS
<1> QED BY <1>2, <1>3

-----------------------------------------------------------------------------
(* The desktop's steps *)

LEMMA DeskBecomes ==
  ASSUME NEW s \in Desks, BecomeDesk(s) PROVE Desk' = s
<1>1. s = [generation |-> s.generation, backends |-> s.backends,
           activations |-> s.activations, stops |-> s.stops, act |-> s.act,
           backend |-> s.backend, hosts |-> s.hosts, pending |-> s.pending,
           holding |-> s.holding, up |-> s.up, toHost |-> s.toHost]
  BY DEF Desks, DeskStore
<1> QED BY <1>1 DEF BecomeDesk, Desk

LEMMA Becomes ==
  ASSUME NEW s \in Bonded, BecomeDesk(s) PROVE Desk' = s
BY DeskBecomes DEF Bonded

\* The microtasks of a backend.
LEMMA ContinueBonded ==
  ASSUME Desk \in Bonded, NEW k \in Backends, Continue(k)
  PROVE  Desk' \in Bonded /\ Quiet(Desk, Desk')
<1> USE DeskFieldsNow
<1>1. CASE backend[k].start = "returned" /\ BecomeDesk(StartReturned(Desk, k))
  <2>1. StartReturned(Desk, k) \in Bonded /\ Quiet(Desk, StartReturned(Desk, k))
    BY <1>1, StartReturnedBonded
  <2>2. Desk' = StartReturned(Desk, k)
    BY <1>1, <2>1, Becomes
  <2> QED BY <2>1, <2>2
<1>2. CASE backend[k].start = "refused" /\ BecomeDesk(StartRefused(Desk, k))
  <2>1. StartRefused(Desk, k) \in Bonded /\ Quiet(Desk, StartRefused(Desk, k))
    BY <1>2, StartRefusedBonded
  <2>2. Desk' = StartRefused(Desk, k)
    BY <1>2, <2>1, Becomes
  <2> QED BY <2>1, <2>2
<1>3. CASE backend[k].start = "undone" /\ BecomeDesk(StartFailed(Desk, k))
  <2>1. StartFailed(Desk, k) \in Bonded /\ Quiet(Desk, StartFailed(Desk, k))
    BY <1>3, StartFailedBonded
  <2>2. Desk' = StartFailed(Desk, k)
    BY <1>3, <2>1, Becomes
  <2> QED BY <2>1, <2>2
<1>4. CASE act[k].at = "starting" /\ BecomeDesk(Started(Desk, k))
  <2>1. Started(Desk, k) \in Bonded /\ Quiet(Desk, Started(Desk, k))
    BY <1>4, StartedBonded
  <2>2. Desk' = Started(Desk, k)
    BY <1>4, <2>1, Becomes
  <2> QED BY <2>1, <2>2
<1>5. CASE backend[k].stop \in {"idle", "confirmed"} /\ BecomeDesk(StopConfirmed(Desk, k))
  <2>1. StopConfirmed(Desk, k) \in Bonded /\ Quiet(Desk, StopConfirmed(Desk, k))
    BY <1>5, StopConfirmedBonded
  <2>2. Desk' = StopConfirmed(Desk, k)
    BY <1>5, <2>1, Becomes
  <2> QED BY <2>1, <2>2
<1>6. CASE backend[k].stop = "unconfirmed" /\ BecomeDesk(StopUnconfirmed(Desk, k))
  <2>1. StopUnconfirmed(Desk, k) \in Bonded /\ Quiet(Desk, StopUnconfirmed(Desk, k))
    BY <1>6, StopUnconfirmedBonded
  <2>2. Desk' = StopUnconfirmed(Desk, k)
    BY <1>6, <2>1, Becomes
  <2> QED BY <2>1, <2>2
<1> QED BY <1>1, <1>2, <1>3, <1>4, <1>5, <1>6 DEF Continue, StartContinues, StopContinues

LEMMA ActivateBonded ==
  ASSUME Desk \in Bonded, NEW b \in Bots, Activate(b)
  PROVE  Desk' \in Bonded /\ Quiet(Desk, Desk')
<1> USE DeskFieldsNow
<1> DEFINE k == attemptsOf[b][Min(Unused(b))]
           a == [at |-> "waiting", old |-> None, gen |-> generation[b]]
           t == [Desk EXCEPT !.act[k] = a]
<1>1. k \in Backends /\ botOf[k] = b /\ act[k].at = "unused"
  <2>1. attemptsOf[b] \in Seq(Backends) /\ \A j \in Range(attemptsOf[b]) : botOf[j] = b
    BY FleetAssumption
  <2>2. Unused(b) # {} /\ Unused(b) \subseteq Nat
    BY <2>1, LenProperties DEF Activate, Unused
  <2>3. Min(Unused(b)) \in Unused(b)
    BY <2>2, LeastExists DEF Min
  <2>4. k \in Backends /\ act[k].at = "unused"
    BY <2>1, <2>3, ElementOfSeq DEF Unused
  <2>5. k \in Range(attemptsOf[b])
    <3>1. DOMAIN attemptsOf[b] = 1..Len(attemptsOf[b])
      BY <2>1, LenProperties
    <3> QED BY <2>3, <3>1 DEF Unused, Range
  <2> QED BY <2>1, <2>4, <2>5
<1> HIDE DEF k
<1>2. /\ Desk \in Desks /\ Desk \in DeskStore /\ backend[k] = NewBackend /\ backends[b] # k
      /\ generation[b] \in Nat
  <2>1. Turn(k, act[k], backend[k], generation[b], backends[b], activations[b], stops[b])
    BY <1>1, KeptOf
  <2> QED BY <1>1, <2>1, KeptOf, DeskFields DEF Turn, Early
<1>3. CASE stops[b].at # "none"
  <2>1. a \in Attempt
    BY <1>2 DEF Attempt, Places, Maybe
  <2>2. t \in Desks
    <3>1. Desk.backend[k].start = "none"
      BY <1>2 DEF NewBackend
    <3> QED BY <1>1, <1>2, <2>1, <3>1, SetAct
  <2>3. /\ SameBackends(Desk, t) /\ t.backends = Desk.backends
        /\ t.generation = Desk.generation /\ t.stops = Desk.stops
        /\ t.activations = Desk.activations /\ t.act = [Desk.act EXCEPT ![k] = a]
    BY <1>2 DEF DeskStore, SameBackends
  <2>4. Turn(k, a, backend[k], generation[b], backends[b], activations[b], stops[b])
    BY <1>2 DEF Turn, Running, Early
  <2>5. BecomeDesk(t)
    BY <1>3 DEF Activate, k
  <2> HIDE DEF t, a
  <2>6. t \in Bonded /\ Quiet(Desk, t)
    BY <1>1, <2>2, <2>3, <2>4, ActStep
  <2> QED BY <2>5, <2>6, Becomes
<1>4. CASE stops[b].at = "none"
  <2>1. BecomeDesk(Begin(Desk, k))
    BY <1>4 DEF Activate, k
  <2>2. act[k].at \notin Running
    BY <1>1 DEF Running
  <2>3. Begin(Desk, k) \in Bonded /\ Quiet(Desk, Begin(Desk, k))
    BY <1>1, <1>2, <1>4, <2>2, BeginBonded
  <2>4. Desk' = Begin(Desk, k)
    BY <2>1, <2>3, Becomes
  <2> QED BY <2>3, <2>4
<1> QED BY <1>3, <1>4

LEMMA PreparedStep ==
  ASSUME Desk \in Bonded, NEW k \in Backends, Prepared(k)
  PROVE  Desk' \in Bonded /\ (Quiet(Desk, Desk') \/ Binds(Desk, Desk', k))
<1> USE DeskFieldsNow
<1> DEFINE t == StartNamed([Desk EXCEPT !.backends[botOf[k]] = k,
                                        !.act[k].at = "starting"], k)
<1>1. CASE BecomeDesk(Finished(Desk, k))
  <2>1. Finished(Desk, k) \in Bonded /\ Quiet(Desk, Finished(Desk, k))
    BY FinishedBonded
  <2>2. Desk' = Finished(Desk, k)
    BY <1>1, <2>1, Becomes
  <2> QED BY <2>1, <2>2
<1>2. CASE act[k].gen = generation[botOf[k]] /\ BecomeDesk(t)
  <2>1. t \in Bonded /\ (Quiet(Desk, t) \/ Binds(Desk, t, k))
    BY <1>2, PreparedBonded DEF Prepared
  <2>2. Desk' = t
    BY <1>2, <2>1, Becomes
  <2> HIDE DEF t
  <2> QED BY <2>1, <2>2
<1> QED BY <1>1, <1>2 DEF Prepared

LEMMA StopBotRuntimeBonded ==
  ASSUME Desk \in Bonded, FleetInv, NEW b \in Bots, StopBotRuntime(b)
  PROVE  Desk' \in Bonded /\ Quiet(Desk, Desk')
<1> USE DeskFieldsNow
<1> DEFINE x == [stops[b] EXCEPT !.at = IF @ = "none" THEN "cancelling" ELSE @]
           t == [Desk EXCEPT !.generation[b] = @ + 1,
                             !.stops[b].at = IF @ = "none" THEN "cancelling" ELSE @]
<1>1. Desk' \in Desks
  BY StopBotRuntimeInv DEF FleetInv
<1>2. Desk \in DeskStore
  BY DEF Bonded, Desks
<1>3. /\ generation' = t.generation /\ stops' = t.stops /\ act' = t.act
      /\ backends' = t.backends /\ activations' = t.activations
      /\ backend' = t.backend /\ hosts' = t.hosts /\ pending' = t.pending
      /\ holding' = t.holding /\ up' = t.up /\ toHost' = t.toHost
  BY DEF StopBotRuntime, BecomeDesk
<1>4. /\ t.generation = [Desk.generation EXCEPT ![b] = @ + 1]
      /\ t.stops = [Desk.stops EXCEPT ![b].at = IF @ = "none" THEN "cancelling" ELSE @]
      /\ t.act = Desk.act /\ t.backends = Desk.backends
      /\ t.activations = Desk.activations /\ SameBackends(Desk, t)
  BY <1>2 DEF DeskStore, SameBackends
<1>5. /\ \A y \in Bots \ {b} : t.stops[y] = Desk.stops[y]
      /\ \A y \in Bots : t.activations[y] = Desk.activations[y]
  BY <1>2, <1>4, DeskFields
<1> HIDE DEF t
<1>6. /\ Desk'.generation = [Desk.generation EXCEPT ![b] = @ + 1]
      /\ Desk'.act = Desk.act /\ Desk'.backends = Desk.backends
      /\ Desk'.activations = Desk.activations /\ Desk'.stops = t.stops
      /\ SameBackends(Desk, Desk')
  BY <1>3, <1>4 DEF Desk, SameBackends
<1> DEFINE u == Desk'
<1>7. /\ \A y \in Bots \ {b} : /\ u.activations[y] = Desk.activations[y]
                              /\ u.stops[y] = Desk.stops[y]
      /\ u.activations[b] \in {Desk.activations[b], None}
  BY <1>5, <1>6
<1>8. /\ u \in Desks /\ SameBackends(Desk, u) /\ u.backends = Desk.backends
      /\ u.act = Desk.act /\ u.generation = [Desk.generation EXCEPT ![b] = @ + 1]
  BY <1>1, <1>6
<1> HIDE DEF u
<1>9. u \in Bonded /\ Quiet(Desk, u)
  BY <1>7, <1>8, OvertakenBonded
<1> QED BY <1>9 DEF u

LEMMA UpdateBonded ==
  ASSUME Desk \in Bonded, FleetInv, NEW b \in Bots, Update(b)
  PROVE  Desk' \in Bonded /\ Quiet(Desk, Desk')
<1> USE DeskFieldsNow
<1> DEFINE t == [Desk EXCEPT !.generation[b] = @ + 1, !.activations[b] = None]
           u == Desk'
<1>1. u \in Desks
  BY UpdateInv DEF FleetInv
<1>2. Desk \in DeskStore
  BY DEF Bonded, Desks
<1>3. /\ generation' = t.generation /\ stops' = t.stops /\ act' = t.act
      /\ backends' = t.backends /\ activations' = t.activations
      /\ backend' = t.backend /\ hosts' = t.hosts /\ pending' = t.pending
      /\ holding' = t.holding /\ up' = t.up /\ toHost' = t.toHost
  BY DEF Update, BecomeDesk
<1>4. /\ t.generation = [Desk.generation EXCEPT ![b] = @ + 1]
      /\ t.activations = [Desk.activations EXCEPT ![b] = None]
      /\ t.act = Desk.act /\ t.backends = Desk.backends
      /\ t.stops = Desk.stops /\ SameBackends(Desk, t)
  BY <1>2 DEF DeskStore, SameBackends
<1>5. /\ \A y \in Bots : y # b => t.activations[y] = Desk.activations[y]
      /\ t.activations[b] = None
  BY <1>2, <1>4, DeskFields
<1> HIDE DEF t
<1>6. /\ u.generation = [Desk.generation EXCEPT ![b] = @ + 1]
      /\ u.act = Desk.act /\ u.backends = Desk.backends
      /\ u.activations = t.activations /\ u.stops = Desk.stops
      /\ SameBackends(Desk, u)
  BY <1>3, <1>4 DEF Desk, SameBackends
<1>7. /\ \A y \in Bots \ {b} : /\ u.activations[y] = Desk.activations[y]
                              /\ u.stops[y] = Desk.stops[y]
      /\ u.activations[b] \in {Desk.activations[b], None}
  BY <1>5, <1>6
<1> HIDE DEF u
<1>8. u \in Bonded /\ Quiet(Desk, u)
  BY <1>1, <1>6, <1>7, OvertakenBonded
<1> QED BY <1>8 DEF u

LEMMA CancelledStep ==
  ASSUME Desk \in Bonded, NEW b \in Bots, Cancelled(b)
  PROVE  Desk' \in Bonded /\ Quiet(Desk, Desk')
<1> USE DeskFieldsNow
<1> DEFINE k == backends[b]
           S(failed) == [Desk EXCEPT !.stops[b] = [at |-> "backend", target |-> k,
                                                   failed |-> failed]]
           T(failed) == IF k = None THEN StopFinished(S(failed), b, TRUE)
                                    ELSE StopBackend(S(failed), k)
<1>1. PICK failed \in BOOLEAN : BecomeDesk(T(failed))
  BY DEF Cancelled
<1>2. T(failed) \in Bonded /\ Quiet(Desk, T(failed))
  <2> DEFINE u == [Desk EXCEPT !.stops[b] = [at |-> "backend", target |-> Desk.backends[b],
                                             failed |-> failed]]
  <2>1. /\ Desk.backends[b] = None =>
             /\ StopFinished(u, b, TRUE) \in Bonded
             /\ Quiet(Desk, StopFinished(u, b, TRUE))
        /\ Desk.backends[b] # None =>
             /\ StopBackend(u, Desk.backends[b]) \in Bonded
             /\ Quiet(Desk, StopBackend(u, Desk.backends[b]))
    <3>1. Desk.stops[b].at = "cancelling"
      BY DEF Cancelled
    <3> QED BY <3>1, CancelledBonded
  <2>2. u = S(failed)
    OBVIOUS
  <2> HIDE DEF u, S
  <2> QED BY <2>1, <2>2
<1>3. Desk' = T(failed)
  BY <1>1, <1>2, Becomes
<1> QED BY <1>2, <1>3

LEMMA ExecutionsStoppedBonded ==
  ASSUME Desk \in Bonded, NEW k \in Backends, ExecutionsStopped(k)
  PROVE  Desk' \in Bonded /\ Quiet(Desk, Desk')
<1> USE DeskFieldsNow
<1>1. CASE backend[k].stop = "executions" /\ BecomeDesk(AskToStop(Desk, k))
  <2>1. backends[botOf[k]] = k /\ backend[k].moved
    BY <1>1, KeptOf DEF Bonds
  <2>2. AskToStop(Desk, k) \in Bonded /\ Quiet(Desk, AskToStop(Desk, k))
    BY <1>1, <2>1, AskToStopBonded
  <2>3. Desk' = AskToStop(Desk, k)
    BY <1>1, <2>2, Becomes
  <2> QED BY <2>2, <2>3
<1>2. CASE /\ backend[k].stop = "disconnected"
           /\ BecomeDesk([Desk EXCEPT !.backend[k].stop = "unconfirmed"])
  <2> DEFINE t == [Desk EXCEPT !.backend[k].stop = "unconfirmed"]
  <2>1. t \in Bonded /\ Quiet(Desk, t)
    BY <1>2, DisconnectedBonded
  <2>2. Desk' = t
    BY <1>2, <2>1, Becomes
  <2> QED BY <2>1, <2>2
<1> QED BY <1>1, <1>2 DEF ExecutionsStopped

LEMMA ControlTimesOutBonded ==
  ASSUME Desk \in Bonded, NEW c \in pending, ControlTimesOut(c)
  PROVE  Desk' \in Bonded /\ Settles(Desk, Desk', {}, {})
<1> USE DeskFieldsNow
<1>1. Resolve(Desk, {c}, FALSE) \in Bonded
      /\ Settles(Desk, Resolve(Desk, {c}, FALSE), {}, {})
  BY TimedOutBonded
<1>2. Desk' = Resolve(Desk, {c}, FALSE)
  BY <1>1, Becomes DEF ControlTimesOut
<1> QED BY <1>1, <1>2

\* A message settles a control, takes a binding away, or says nothing new.
LEMMA DesktopReceiveBonded ==
  ASSUME Desk \in Bonded, FleetInv, DesktopReceive
  PROVE  /\ Desk' \in Bonded
         /\ LET m == Head(toDesktop) IN
            \/ m.kind = "bot-exit" /\ Settles(Desk, Desk', {m.bot}, {})
            \/ /\ m.kind = "answer" /\ m.of \in pending /\ m.ok
               /\ Confirms(Desk, m.of, TRUE)
               /\ Settles(Desk, Desk', {botOf[m.of.by]}, {})
            \/ /\ m.kind = "answer"
               /\ Settles(Desk, Desk', {},
                          {k \in Backends : m.ok /\ m.of \in pending
                                            /\ m.of.op = "start" /\ m.of.by = k})
<1> USE DeskFieldsNow
<1> DEFINE m == Head(toDesktop)
           K == {k \in Backends : m.ok /\ m.of \in pending
                                  /\ m.of.op = "start" /\ m.of.by = k}
<1>1. m \in Messages
  <2>1. toDesktop \in Seq(Messages)
    BY StoreFields, HostFields DEF FleetInv, Steady, Hosts
  <2> QED BY <2>1, HeadTailProperties DEF DesktopReceive
<1>2. \A k \in Backends : backend[k].start # "returned"
  BY DEF DesktopReceive, Idle, Due
<1>3. CASE m.kind = "bot-exit" /\ BecomeDesk(Release(Desk, m.bot, TRUE))
  <2>1. m.bot \in Bots
    BY <1>1, <1>3 DEF Messages
  <2>2. /\ Release(Desk, m.bot, TRUE) \in Bonded
        /\ Settles(Desk, Release(Desk, m.bot, TRUE), {m.bot}, {})
    BY <2>1, ExitBonded
  <2>3. Desk' = Release(Desk, m.bot, TRUE)
    BY <1>3, <2>2, Becomes
  <2> QED BY <1>3, <2>2, <2>3
<1>4. ASSUME m.kind = "answer", m.of \in pending,
             NEW ok \in {m.ok, m.ok /\ m.of.op # "start"},
             BecomeDesk(SettleControl(Desk, m.of, ok))
      PROVE  /\ Desk' \in Bonded
             /\ \/ m.ok /\ Confirms(Desk, m.of, TRUE)
                   /\ Settles(Desk, Desk', {botOf[m.of.by]}, {})
                \/ Settles(Desk, Desk', {}, K)
  <2> DEFINE c == m.of
             t == SettleControl(Desk, c, ok)
             L == {k \in Backends : ok /\ c.op = "start" /\ c.by = k}
  <2>1. ok \in BOOLEAN /\ (ok => m.ok)
    BY <1>1, <1>4 DEF Messages
  <2>2. c \in Desk.pending
    BY <1>4
  <2>3. /\ t \in Bonded
        /\ Confirms(Desk, c, ok) => Settles(Desk, t, {botOf[c.by]}, {})
        /\ ~Confirms(Desk, c, ok) => Settles(Desk, t, {}, L)
    BY <1>2, <2>1, <2>2, SettleControlBonded
  <2>4. Desk' = t
    BY <1>4, <2>3, Becomes
  <2> HIDE DEF t
  <2>5. Confirms(Desk, c, ok) => m.ok /\ Confirms(Desk, c, TRUE)
    BY <2>1 DEF Confirms
  <2>6. L \subseteq K
    BY <1>4, <2>1
  <2>7. Settles(Desk, t, {}, L) => Settles(Desk, t, {}, K)
    <3> HIDE DEF L, K
    <3> QED BY <2>6 DEF Settles
  <2> HIDE DEF L, K
  <2> QED BY <2>3, <2>4, <2>5, <2>7
<1>5. ASSUME UNCHANGED deskVars, UNCHANGED toHost
      PROVE  Desk' \in Bonded /\ Settles(Desk, Desk', {}, K)
  <2>1. Desk' = Desk
    BY <1>5 DEF deskVars, Desk
  <2>2. Settles(Desk, Desk, {}, K)
    <3> HIDE DEF K
    <3> QED BY DEF Settles
  <2> HIDE DEF K
  <2> QED BY <2>1, <2>2
<1>6. CASE m.kind = "answer" /\ m.of \in pending
            /\ \E ok \in {m.ok, m.ok /\ m.of.op # "start"} :
                 BecomeDesk(SettleControl(Desk, m.of, ok))
  <2>1. /\ Desk' \in Bonded
        /\ \/ m.ok /\ Confirms(Desk, m.of, TRUE)
              /\ Settles(Desk, Desk', {botOf[m.of.by]}, {})
           \/ Settles(Desk, Desk', {}, K)
    BY <1>4, <1>6
  <2> QED BY <1>6, <2>1
<1>7. CASE m.kind = "answer" /\ m.of \notin pending /\ UNCHANGED deskVars /\ UNCHANGED toHost
  BY <1>5, <1>7
<1> QED BY <1>3, <1>6, <1>7 DEF DesktopReceive

LEMMA EngineLostBonded ==
  ASSUME Desk \in Bonded, FleetInv, EngineLost PROVE Desk' \in Bonded
<1> USE DeskFieldsNow
<1> DEFINE told(k) == backend[k].owner /\ hosts[botOf[k]] = k
<1>1. /\ generation' = generation /\ backends' = backends /\ activations' = activations
      /\ stops' = stops /\ act' = act /\ pending' = {} /\ hosts' = [b \in Bots |-> None]
      /\ holding' = holding \ {b \in Bots : hosts[b] # None /\ backend[hosts[b]].owner}
  BY DEF EngineLost
<1>2. ASSUME NEW k \in Backends
      PROVE  /\ backend'[k].owner <=> backend[k].owner /\ ~told(k)
             /\ backend'[k].phase = IF told(k) THEN "degraded" ELSE backend[k].phase
             /\ backend'[k].awaited.undo = None /\ backend'[k].awaited.stop = None
             /\ backend'[k].moved = backend[k].moved
             /\ backend[k].start = "settled" => backend'[k].start = "settled"
             /\ backend'[k].start \notin {"control", "returned"}
             /\ backend'[k].stop = "none" <=> backend[k].stop = "none"
             /\ backend'[k].stop = "idle" => backend[k].stop = "idle"
             /\ backend[k].stop = "confirmed" => backend'[k].stop = "confirmed"
             /\ backend[k] = NewBackend => backend'[k] = NewBackend
  <2> DEFINE one == backend[k]
             start == CASE one.start = "control" -> "refused"
                        [] one.start = "undo" -> "undone"
                        [] OTHER -> one.start
             stop == CASE one.stop = "control" -> "unconfirmed"
                       [] one.stop = "executions" -> "disconnected"
                       [] OTHER -> one.stop
             owner == one.owner /\ ~told(k)
             phase == IF told(k) THEN "degraded" ELSE one.phase
             nobody == [undo |-> None, stop |-> None]
             w == [one EXCEPT !.owner = owner, !.phase = phase, !.awaited = nobody,
                              !.start = start, !.stop = stop]
  <2>1. one \in BackendState /\ one.start # "returned"
    BY KeptOf DEF EngineLost, Idle, Due
  <2>2. backend'[k] = w
    BY DEF EngineLost
  <2>3. /\ one.start = "settled" => start = "settled"
        /\ start \notin {"control", "returned"}
        /\ stop = "none" <=> one.stop = "none"
        /\ stop = "idle" => one.stop = "idle"
        /\ one.stop = "confirmed" => stop = "confirmed"
        /\ one.start = "none" => start = "none"
    BY <2>1
  <2>4. one = NewBackend => /\ one.start = "none" /\ one.stop = "none" /\ ~one.owner
                            /\ one.awaited = nobody
    BY DEF NewBackend
  <2>5. one = NewBackend => owner = one.owner /\ phase = one.phase
    <3>1. one = NewBackend => one.owner = FALSE
      BY DEF NewBackend
    <3>2. one = NewBackend => ~owner /\ phase = one.phase
      BY <3>1
    <3>3. owner \in BOOLEAN
      OBVIOUS
    <3> HIDE DEF owner, phase
    <3> QED BY <3>1, <3>2, <3>3
  <2>6. owner \in BOOLEAN
    OBVIOUS
  <2>7. nobody.undo = None /\ nobody.stop = None
    OBVIOUS
  <2>8. owner <=> backend[k].owner /\ ~told(k)
    OBVIOUS
  <2>9. phase = IF told(k) THEN "degraded" ELSE backend[k].phase
    OBVIOUS
  <2> HIDE DEF owner, phase, nobody, start, stop, told
  <2>10. /\ w.owner = owner /\ w.phase = phase /\ w.awaited = nobody
         /\ w.start = start /\ w.stop = stop /\ w.moved = one.moved
    BY <2>1 DEF BackendState
  <2>11. one = NewBackend => w = NewBackend
    BY <2>1, <2>3, <2>4, <2>5 DEF NewBackend
  <2> HIDE DEF w
  <2> QED BY <2>2, <2>3, <2>7, <2>8, <2>9, <2>10, <2>11
<1>3. Desk' \in Desks
  BY EngineLostInv DEF FleetInv
<1>4. None \notin Backends
  BY HostAssumption
<1> DEFINE t == Desk'
<1>5. /\ SameRegistry(Desk, t) /\ t.pending = {} /\ t.hosts = [b \in Bots |-> None]
      /\ t.holding = holding \ {b \in Bots : hosts[b] # None /\ backend[hosts[b]].owner}
      /\ t.backend = backend'
  BY <1>1 DEF Desk, SameRegistry
<1> HIDE DEF t
<1>6. ASSUME NEW b \in Bots PROVE BotKept(t, b)
  <2> DEFINE m == backends[b]
  <2>1. BotKept(Desk, b) /\ m \in Maybe /\ hosts[b] \in Maybe
    BY DeskFields DEF Bonded, Desks
  <2>2. b \in t.holding <=> b \in holding /\ ~(hosts[b] # None /\ backend[hosts[b]].owner)
    BY <1>5
  <2>3. m # None => m \in Backends /\ botOf[m] = b
    BY <2>1 DEF BotKept, Maybe
  <2>4. hosts[b] # None => hosts[b] \in Backends /\ botOf[hosts[b]] = b
    BY <2>1 DEF BotKept, Maybe
  <2>5. hosts[b] # None => m = hosts[b]
    BY <2>4, KeptOf DEF Bonds
  <2>6. b \in t.holding <=> m # None /\ t.backend[m].owner
    <3>1. CASE m = None
      BY <2>1, <2>2, <3>1 DEF BotKept
    <3>2. CASE m # None
      <4>1. t.backend[m].owner <=> backend[m].owner /\ hosts[b] # m
        BY <1>2, <1>5, <2>3, <3>2
      <4>2. b \in holding <=> backend[m].owner
        BY <2>1, <3>2 DEF BotKept
      <4> QED BY <2>2, <2>5, <3>2, <4>1, <4>2
    <3> QED BY <3>1, <3>2
  <2>7. t.hosts[b] = None
    BY <1>5
  <2> QED BY <1>5, <2>1, <2>6, <2>7 DEF BotKept, SameRegistry
<1>7. ASSUME NEW k \in Backends PROVE BackendKept(t, k)
  <2> DEFINE b == botOf[k]
             w == t.backend[k]
  <2>1. /\ Bonds(k, backend[k], backends[b], hosts[b], pending)
        /\ Shown(k, backend[k], hosts[b]) /\ b \in Bots /\ None # k
        /\ Turn(k, act[k], backend[k], generation[b], backends[b], activations[b], stops[b])
    BY <1>4, KeptOf
  <2>2. t.hosts[b] = None
    BY <1>5, <2>1
  <2>3. /\ w.owner <=> backend[k].owner /\ ~told(k)
        /\ w.phase = IF told(k) THEN "degraded" ELSE backend[k].phase
        /\ w.awaited.undo = None /\ w.awaited.stop = None
        /\ w.moved = backend[k].moved
        /\ backend[k].start = "settled" => w.start = "settled"
        /\ w.start \notin {"control", "returned"}
        /\ w.stop = "none" <=> backend[k].stop = "none"
        /\ w.stop = "idle" => backend[k].stop = "idle"
        /\ backend[k].stop = "confirmed" => w.stop = "confirmed"
        /\ backend[k] = NewBackend => w = NewBackend
    BY <1>2, <1>5
  <2> HIDE DEF w
  <2>4. Bonds(k, w, backends[b], None, {})
    BY <2>1, <2>3 DEF Bonds
  <2>5. Shown(k, w, None)
    BY <2>1, <2>3 DEF Shown
  <2>6. Turn(k, act[k], w, generation[b], backends[b], activations[b], stops[b])
    BY <2>1, <2>3 DEF Turn
  <2> QED BY <1>5, <2>2, <2>4, <2>5, <2>6 DEF BackendKept, SameRegistry, w
<1>8. t \in Bonded
  BY <1>3, <1>6, <1>7 DEF Bonded, t
<1> QED BY <1>8 DEF t

LEMMA ToHostOnly ==
  ASSUME NEW s \in Bonded, NEW t \in Desks, SameRegistry(s, t),
         t.backend = s.backend, t.hosts = s.hosts, t.pending = s.pending,
         t.holding = s.holding
  PROVE  t \in Bonded
<1>1. \A b \in Bots : BotKept(t, b)
  BY DEF Bonded, BotKept, SameRegistry
<1>2. \A k \in Backends : BackendKept(t, k)
  BY DEF Bonded, BackendKept, SameRegistry
<1> QED BY <1>1, <1>2 DEF Bonded

\* The engine's own steps and its new start leave the desktop's bonds alone.
LEMMA EngineBonded ==
  ASSUME Desk \in Bonded, Desk' \in Desks,
         UNCHANGED <<generation, backends, activations, stops, act, backend, hosts,
                     pending, holding>>
  PROVE  Desk' \in Bonded
<1>1. /\ SameRegistry(Desk, Desk') /\ Desk'.backend = Desk.backend
      /\ Desk'.hosts = Desk.hosts /\ Desk'.pending = Desk.pending
      /\ Desk'.holding = Desk.holding
  BY DEF Desk, SameRegistry
<1> DEFINE t == Desk'
<1>2. t \in Desks
  OBVIOUS
<1>3. /\ SameRegistry(Desk, t) /\ t.backend = Desk.backend
      /\ t.hosts = Desk.hosts /\ t.pending = Desk.pending
      /\ t.holding = Desk.holding
  BY <1>1
<1> HIDE DEF t
<1>4. t \in Bonded
  BY <1>2, <1>3, ToHostOnly
<1> QED BY <1>4 DEF t

FleetBonded == FleetInv /\ Desk \in Bonded

LEMMA FleetInitBonded == FleetInit => FleetBonded
<1> SUFFICES ASSUME FleetInit PROVE FleetBonded
  OBVIOUS
<1>1. FleetInv /\ Desk \in Desks /\ None \notin Backends
  BY FleetInitInv, HostAssumption DEF FleetInv
<1>2. \A b \in Bots : BotKept(Desk, b)
  BY <1>1, DeskFieldsNow DEF FleetInit, BotKept
<1>3. ASSUME NEW k \in Backends PROVE BackendKept(Desk, k)
  <2>1. /\ botOf[k] \in Bots /\ Desk.backend[k] = NewBackend
        /\ Desk.hosts[botOf[k]] = None /\ Desk.backends[botOf[k]] = None
        /\ Desk.pending = {} /\ Desk.act[k].at = "unused" /\ None # k
    BY <1>1, HostAssumption, DeskFieldsNow DEF FleetInit
  <2> QED BY <2>1 DEF BackendKept, Bonds, Shown, Turn, NewBackend, Running
<1> QED BY <1>1, <1>2, <1>3 DEF FleetBonded, Bonded

LEMMA FleetNextBonded == FleetBonded /\ [FleetNext]_fleetVars => FleetBonded'
<1> SUFFICES ASSUME FleetBonded, [FleetNext]_fleetVars PROVE FleetBonded'
  OBVIOUS
<1>1. FleetInv /\ Desk \in Bonded
  BY DEF FleetBonded
<1>2. FleetInv'
  BY <1>1, FleetNextInv
<1>3. Desk' \in Desks
  BY <1>2 DEF FleetInv
<1>4. CASE UNCHANGED fleetVars
  <2>1. Desk' = Desk
    BY <1>4 DEF fleetVars, hostVars, deskVars, Desk
  <2> QED BY <1>1, <1>2, <2>1 DEF FleetBonded
<1>5. ASSUME NEW b \in Bots, Activate(b) \/ StopBotRuntime(b) \/ Cancelled(b) \/ Update(b)
      PROVE  Desk' \in Bonded
  BY <1>1, <1>5, ActivateBonded, StopBotRuntimeBonded, CancelledStep, UpdateBonded
<1>6. ASSUME NEW k \in Backends, Continue(k) \/ Prepared(k) \/ ExecutionsStopped(k)
      PROVE  Desk' \in Bonded
  BY <1>1, <1>6, ContinueBonded, PreparedStep, ExecutionsStoppedBonded
<1>7. ASSUME NEW c \in pending, ControlTimesOut(c) PROVE Desk' \in Bonded
  BY <1>1, <1>7, ControlTimesOutBonded
<1>8. ASSUME UNCHANGED deskVars \/ EngineStarts PROVE Desk' \in Bonded
  <2>1. UNCHANGED <<generation, backends, activations, stops, act, backend, hosts,
                    pending, holding>>
    BY <1>8 DEF deskVars, EngineStarts
  <2> QED BY <1>1, <1>3, <2>1, EngineBonded
<1>9. ASSUME DesktopReceive PROVE Desk' \in Bonded
  BY <1>1, <1>9, DesktopReceiveBonded
<1>10. ASSUME EngineLost PROVE Desk' \in Bonded
  BY <1>1, <1>10, EngineLostBonded
<1> QED BY <1>2, <1>4, <1>5, <1>6, <1>7, <1>8, <1>9, <1>10 DEF FleetNext, FleetBonded

\* What the host keeps for a bot (its leases and the parents' witnesses) is
\* there exactly while one of the bot's backends owns the engine: every way in
\* which a backend gives it up (the worker's exit, a confirmed stop, a start
\* that failed, the loss of the engine) clears it once, and none clears what
\* the replacement has.
THEOREM AlwaysCleanedUp == FleetSpec => []CleanedUp
<1>1. FleetBonded => CleanedUp
  <2> SUFFICES ASSUME FleetBonded, NEW b \in Bots
               PROVE  b \in holding <=> \E k \in Backends : botOf[k] = b /\ backend[k].owner
    BY DEF CleanedUp
  <2> USE DeskFieldsNow
  <2>1. /\ Desk \in Bonded /\ BotKept(Desk, b) /\ backends[b] \in Maybe
    BY DeskFields DEF FleetBonded, Bonded, Desks
  <2>2. \A k \in Backends : botOf[k] = b /\ backend[k].owner => backends[b] = k
    BY <2>1, KeptOf DEF Bonds
  <2>3. None \notin Backends
    BY HostAssumption
  <2> QED BY <2>1, <2>2, <2>3 DEF BotKept, Maybe
<1> QED BY <1>1, FleetInitBonded, FleetNextBonded, PTL DEF FleetSpec

-----------------------------------------------------------------------------
(* The messages between the desktop and the host *)

\* Bot b is sent a start, or a stop.
StartFor(c, b) == c.op = "start" /\ botOf[c.by] = b
StopFor(c, b) == c.op # "start" /\ botOf[c.by] = b
NoStart(Q, b) == \A i \in 1..Len(Q) : ~StartFor(Q[i], b)

\* A confirmed stop that will release the binding x of b, and whatever takes
\* the binding away.
Freed(m, b, x) ==
  /\ m.kind = "answer" /\ m.ok
  /\ StopFor(m.of, b) /\ m.of.bound # None /\ m.of.bound = x
Ends(m, b, x) == m = BotExit(b) \/ Freed(m, b, x)

\* The answer that makes k's start return.
Said(m, k) == m.kind = "answer" /\ m.ok /\ m.of.op = "start" /\ m.of.by = k

\* A control that a backend sent for itself.
Known(c, s) == c \in Controls /\ c.bound \in {None, c.by} /\ s.backend[c.by].calls # 0

Served(r, b, x, s) ==
  r # None =>
    /\ r.by = x
    /\ \A i \in 1..Len(r.starts) :
         StartFor(r.starts[i], b) /\ r.starts[i].by = x /\ Known(r.starts[i], s)
    /\ \A i \in 1..Len(r.stops) : StopFor(r.stops[i], b) /\ Known(r.stops[i], s)

Sent(Q, b, x, r) ==
  \A i \in 1..Len(Q) : StartFor(Q[i], b) =>
    /\ Q[i].by = x /\ r = None
    /\ \A j \in 1..Len(Q) : j # i => ~StartFor(Q[j], b)
    /\ \A j \in 1..Len(Q) : j < i /\ Q[j].op # "start" => Q[j].bound # x

News(D, Q, b, x, r) ==
  \A i \in 1..Len(D) : Ends(D[i], b, x) =>
    /\ r = None /\ x # None /\ NoStart(Q, b)
    /\ \A j \in 1..Len(D) : j > i => D[j] # BotExit(b)

Ending(D, b) == \E i \in 1..Len(D) : D[i] = BotExit(b)

Heeded(h, s, k) ==
  LET b == botOf[k]
      r == h.residents[b]
      Q == s.toHost
      D == h.toDesktop
  IN Live(s, k) =>
       /\ \A i \in 1..Len(Q) : StopFor(Q[i], b) =>
            \E j \in 1..Len(Q) : j > i /\ StartFor(Q[j], b)
       /\ r # None => ~r.requested
       /\ Heard(s, k) \/ (\E i \in 1..Len(D) : Said(D[i], k)) =>
            Ending(D, b) \/ (r # None /\ r.settled)

BotWired(h, s, X, b) ==
  LET r == h.residents[b]
      x == s.hosts[b]
  IN /\ Served(r, b, x, s)
     /\ Sent(s.toHost, b, x, r)
     /\ News(h.toDesktop, s.toHost, b, x, IF b \in X THEN None ELSE r)

Sane(h, s) ==
  /\ \A i \in 1..Len(s.toHost) : Known(s.toHost[i], s)
  /\ \A i \in 1..Len(h.toDesktop) :
       h.toDesktop[i].kind = "answer" => Known(h.toDesktop[i].of, s)

Wired(h, s, X) ==
  /\ Sane(h, s)
  /\ \A b \in Bots : BotWired(h, s, X, b)
  /\ \A k \in Backends : Heeded(h, s, k)

LEMMA ConcatFacts ==
  ASSUME NEW S, NEW P \in Seq(S), NEW R \in Seq(S), NEW T, T = P \o R
  PROVE  /\ T \in Seq(S) /\ Len(P) \in Nat /\ Len(R) \in Nat /\ Len(T) = Len(P) + Len(R)
         /\ \A i \in 1..Len(P) : i \in 1..Len(T) /\ T[i] = P[i]
         /\ \A j \in 1..Len(R) : Len(P) + j \in 1..Len(T) /\ T[Len(P) + j] = R[j]
         /\ \A i \in 1..Len(T) :
              \/ i \in 1..Len(P) /\ T[i] = P[i]
              \/ /\ i \notin 1..Len(P) /\ i > Len(P)
                 /\ \E j \in 1..Len(R) : i = Len(P) + j /\ T[i] = R[j]
<1>1. /\ T \in Seq(S) /\ Len(P) \in Nat /\ Len(R) \in Nat /\ Len(T) = Len(P) + Len(R)
      /\ \A i \in 1..Len(T) : T[i] = IF i <= Len(P) THEN P[i] ELSE R[i - Len(P)]
  BY ConcatProperties, LenProperties
<1>2. \A j \in 1..Len(R) : /\ Len(P) + j \in 1..Len(T) /\ T[Len(P) + j] = R[j]
  <2> SUFFICES ASSUME NEW j \in 1..Len(R)
               PROVE  Len(P) + j \in 1..Len(T) /\ T[Len(P) + j] = R[j]
    OBVIOUS
  <2>1. Len(P) + j \in 1..Len(T) /\ ~(Len(P) + j <= Len(P)) /\ (Len(P) + j) - Len(P) = j
    BY <1>1
  <2> QED BY <1>1, <2>1
<1>3. ASSUME NEW i \in 1..Len(T), i \notin 1..Len(P)
      PROVE  i > Len(P) /\ \E j \in 1..Len(R) : i = Len(P) + j /\ T[i] = R[j]
  <2>1. i > Len(P) /\ i - Len(P) \in 1..Len(R) /\ i = Len(P) + (i - Len(P))
    BY <1>1, <1>3
  <2> QED BY <1>2, <2>1
<1>4. \A i \in 1..Len(P) : i \in 1..Len(T) /\ T[i] = P[i]
  BY <1>1
<1> QED BY <1>1, <1>2, <1>3, <1>4

\* An exit is no answer.
LEMMA ExitIs ==
  ASSUME NEW b PROVE BotExit(b).kind = "bot-exit"
BY DEF BotExit

\* Answers that free nobody who has a worker, and no start whose worker is not
\* ready.
LEMMA Told ==
  ASSUME NEW h \in HostStore, NEW s \in DeskStore, NEW X, NEW g \in HostStore,
         NEW P \in Seq(Messages),
         g.residents = h.residents, g.toDesktop = h.toDesktop \o P, Wired(h, s, X),
         \A i \in 1..Len(P) :
           /\ P[i].kind = "answer" /\ Known(P[i].of, s)
           /\ \A b \in Bots : Freed(P[i], b, s.hosts[b]) =>
                /\ b \in X \/ h.residents[b] = None
                /\ s.hosts[b] # None /\ NoStart(s.toHost, b)
           /\ \A k \in Backends : Said(P[i], k) /\ Live(s, k) =>
                \/ Ending(h.toDesktop, botOf[k])
                \/ h.residents[botOf[k]] # None /\ h.residents[botOf[k]].settled
  PROVE  Wired(g, s, X)
<1> DEFINE D == h.toDesktop
           T == g.toDesktop
<1>1. /\ Len(D) \in Nat /\ Len(P) \in Nat /\ Len(T) = Len(D) + Len(P)
      /\ \A i \in 1..Len(D) : i \in 1..Len(T) /\ T[i] = D[i]
      /\ \A i \in 1..Len(T) :
           \/ i \in 1..Len(D) /\ T[i] = D[i]
           \/ i \notin 1..Len(D) /\ i > Len(D) /\ \E j \in 1..Len(P) : T[i] = P[j]
  <2>1. D \in Seq(Messages)
    BY StoreFields
  <2> QED BY <2>1, ConcatFacts
<1> HIDE DEF D, T
<1>2. \A j \in 1..Len(P) : \A b : P[j] # BotExit(b)
  BY ExitIs
<1>3. Sane(g, s)
  <2>1. \A i \in 1..Len(T) : T[i].kind = "answer" => Known(T[i].of, s)
    BY <1>1 DEF Wired, Sane, D
  <2> QED BY <2>1 DEF Wired, Sane, T
<1>4. ASSUME NEW b \in Bots PROVE BotWired(g, s, X, b)
  <2> DEFINE r == h.residents[b]
             x == s.hosts[b]
             y == IF b \in X THEN None ELSE r
  <2>1. Served(r, b, x, s) /\ Sent(s.toHost, b, x, r) /\ News(D, s.toHost, b, x, y)
    BY DEF Wired, BotWired, D
  <2>2. ASSUME NEW i \in 1..Len(T), Ends(T[i], b, x)
        PROVE  /\ y = None /\ x # None /\ NoStart(s.toHost, b)
               /\ \A j \in 1..Len(T) : j > i => T[j] # BotExit(b)
    <3>1. CASE i \in 1..Len(D) /\ T[i] = D[i]
      <4>1. /\ y = None /\ x # None /\ NoStart(s.toHost, b)
            /\ \A j \in 1..Len(D) : j > i => D[j] # BotExit(b)
        BY <2>1, <2>2, <3>1 DEF News
      <4>2. ASSUME NEW n \in 1..Len(T), n > i PROVE T[n] # BotExit(b)
        <5>1. CASE n \in 1..Len(D) /\ T[n] = D[n]
          BY <4>1, <4>2, <5>1
        <5> QED BY <1>1, <1>2, <5>1
      <4> QED BY <4>1, <4>2
    <3>2. CASE i > Len(D) /\ \E j \in 1..Len(P) : T[i] = P[j]
      <4>1. PICK j \in 1..Len(P) : T[i] = P[j]
        BY <3>2
      <4>2. Freed(P[j], b, x)
        BY <1>2, <2>2, <4>1 DEF Ends
      <4>3. y = None /\ x # None /\ NoStart(s.toHost, b)
        BY <4>2
      <4>4. ASSUME NEW n \in 1..Len(T), n > i PROVE T[n] # BotExit(b)
        <5>1. n \notin 1..Len(D)
          BY <1>1, <3>2, <4>4
        <5> QED BY <1>1, <1>2, <5>1
      <4> QED BY <4>3, <4>4
    <3> QED BY <1>1, <3>1, <3>2
  <2>3. News(T, s.toHost, b, x, y)
    BY <2>2 DEF News
  <2> QED BY <2>1, <2>3 DEF BotWired, T
<1>5. ASSUME NEW k \in Backends PROVE Heeded(g, s, k)
  <2>1. Heeded(h, s, k)
    BY DEF Wired
  <2>2. Ending(D, botOf[k]) => Ending(T, botOf[k])
    BY <1>1 DEF Ending
  <2>3. ASSUME NEW i \in 1..Len(T), Said(T[i], k), Live(s, k)
        PROVE  \/ Ending(D, botOf[k]) \/ (\E j \in 1..Len(D) : Said(D[j], k))
               \/ h.residents[botOf[k]] # None /\ h.residents[botOf[k]].settled
    BY <1>1, <2>3 DEF D
  <2> QED BY <2>1, <2>2, <2>3 DEF Heeded, D, T
<1> QED BY <1>3, <1>4, <1>5 DEF Wired

\* The host answers controls.
LEMMA SayWired ==
  ASSUME NEW h \in HostStore, NEW s \in DeskStore, NEW X, NEW cs \in Seq(Controls),
         NEW ok \in BOOLEAN, Wired(h, s, X),
         \A i \in 1..Len(cs) :
           /\ Known(cs[i], s)
           /\ ok => \A b \in Bots :
                StopFor(cs[i], b) /\ cs[i].bound # None /\ cs[i].bound = s.hosts[b] =>
                  /\ b \in X \/ h.residents[b] = None
                  /\ NoStart(s.toHost, b)
           /\ ok /\ cs[i].op = "start" /\ Live(s, cs[i].by) =>
                LET b == botOf[cs[i].by] IN
                \/ Ending(h.toDesktop, b)
                \/ h.residents[b] # None /\ h.residents[b].settled
  PROVE  Wired(Say(h, cs, ok), s, X)
<1> DEFINE P == [i \in 1..Len(cs) |-> Answer(cs[i], ok)]
           g == Say(h, cs, ok)
<1>1. g \in HostStore /\ g.residents = h.residents
  BY SayKeeps
<1>2. P \in Seq(Messages) /\ Len(P) = Len(cs)
  <2>1. Len(cs) \in Nat
    BY LenProperties
  <2>2. \A i \in 1..Len(cs) : Answer(cs[i], ok) \in Messages
    BY ElementOfSeq DEF Answer, Messages
  <2>3. P \in Seq(Messages)
    BY <2>1, <2>2, IsASeq
  <2> HIDE DEF P
  <2>4. DOMAIN P = 1..Len(cs)
    BY DEF P
  <2> QED BY <2>1, <2>3, <2>4, LenProperties
<1>3. g.toDesktop = h.toDesktop \o P
  BY DEF Say, HostStore
<1>4. ASSUME NEW i \in 1..Len(P)
      PROVE  i \in 1..Len(cs) /\ P[i].kind = "answer" /\ P[i].of = cs[i] /\ P[i].ok = ok
  <2>1. i \in 1..Len(cs)
    BY <1>2
  <2> QED BY <2>1 DEF Answer
<1> HIDE DEF g, P
<1>5. ASSUME NEW i \in 1..Len(P)
      PROVE  /\ P[i].kind = "answer" /\ Known(P[i].of, s)
             /\ \A b \in Bots : Freed(P[i], b, s.hosts[b]) =>
                  /\ b \in X \/ h.residents[b] = None
                  /\ s.hosts[b] # None /\ NoStart(s.toHost, b)
             /\ \A k \in Backends : Said(P[i], k) /\ Live(s, k) =>
                  \/ Ending(h.toDesktop, botOf[k])
                  \/ h.residents[botOf[k]] # None /\ h.residents[botOf[k]].settled
  <2>1. i \in 1..Len(cs) /\ P[i].kind = "answer" /\ P[i].of = cs[i] /\ P[i].ok = ok
    BY <1>4
  <2>2. Known(P[i].of, s)
    BY <2>1
  <2>3. ASSUME NEW b \in Bots, Freed(P[i], b, s.hosts[b])
        PROVE  /\ b \in X \/ h.residents[b] = None
               /\ s.hosts[b] # None /\ NoStart(s.toHost, b)
    BY <2>1, <2>3 DEF Freed
  <2>4. ASSUME NEW k \in Backends, Said(P[i], k), Live(s, k)
        PROVE  \/ Ending(h.toDesktop, botOf[k])
               \/ h.residents[botOf[k]] # None /\ h.residents[botOf[k]].settled
    BY <2>1, <2>4 DEF Said
  <2> QED BY <2>1, <2>2, <2>3, <2>4
<1>6. Wired(g, s, X)
  BY <1>1, <1>2, <1>3, <1>5, Told
<1> QED BY <1>6 DEF g

LEMMA SayRefused ==
  ASSUME NEW h \in HostStore, NEW s \in DeskStore, NEW X, NEW cs \in Seq(Controls),
         Wired(h, s, X), \A i \in 1..Len(cs) : Known(cs[i], s)
  PROVE  Wired(Say(h, cs, FALSE), s, X)
<1>1. FALSE \in BOOLEAN
  OBVIOUS
<1> QED BY <1>1, SayWired

\* A resident changes.
LEMMA ChangedWired ==
  ASSUME NEW h \in HostStore, NEW s \in DeskStore, NEW X, NEW g \in HostStore,
         NEW b \in Bots, NEW w,
         g.residents = [h.residents EXCEPT ![b] = w], g.toDesktop = h.toDesktop,
         Wired(h, s, X), h.residents[b] # None, w # None,
         Served(w, b, s.hosts[b], s),
         h.residents[b].settled => w.settled,
         w.requested => \/ h.residents[b].requested
                        \/ \A k \in Backends : botOf[k] = b => ~Live(s, k)
  PROVE  Wired(g, s, X)
<1>1. \A x \in Bots : g.residents[x] = IF x = b THEN w ELSE h.residents[x]
  BY StoreFields
<1>2. Sane(g, s)
  BY DEF Wired, Sane
<1>3. ASSUME NEW x \in Bots PROVE BotWired(g, s, X, x)
  <2>1. BotWired(h, s, X, x)
    BY DEF Wired
  <2>2. CASE x # b
    <3>1. g.residents[x] = h.residents[x]
      BY <1>1, <2>2
    <3> QED BY <2>1, <3>1 DEF BotWired
  <2>3. CASE x = b
    <3>1. g.residents[b] = w
      BY <1>1
    <3>2. Sent(s.toHost, b, s.hosts[b], w)
      BY <2>1, <2>3 DEF BotWired, Sent
    <3>3. News(h.toDesktop, s.toHost, b, s.hosts[b], IF b \in X THEN None ELSE w)
      BY <2>1, <2>3 DEF BotWired, News
    <3> QED BY <2>3, <3>1, <3>2, <3>3 DEF BotWired
  <2> QED BY <2>2, <2>3
<1>4. ASSUME NEW k \in Backends PROVE Heeded(g, s, k)
  <2>1. Heeded(h, s, k) /\ botOf[k] \in Bots
    BY HostAssumption DEF Wired
  <2>2. CASE botOf[k] # b
    <3>1. g.residents[botOf[k]] = h.residents[botOf[k]]
      BY <1>1, <2>1, <2>2
    <3> QED BY <2>1, <3>1 DEF Heeded
  <2>3. CASE botOf[k] = b
    <3>1. g.residents[b] = w
      BY <1>1
    <3> QED BY <2>1, <2>3, <3>1 DEF Heeded
  <2> QED BY <2>2, <2>3
<1> QED BY <1>2, <1>3, <1>4 DEF Wired

\* A resident goes.
LEMMA GoneWired ==
  ASSUME NEW h \in HostStore, NEW s \in DeskStore, NEW X, NEW g \in HostStore,
         NEW b \in Bots,
         g.residents = [h.residents EXCEPT ![b] = None], g.toDesktop = h.toDesktop,
         Wired(h, s, X), h.residents[b] # None,
         \A k \in Backends : botOf[k] = b /\ Live(s, k) /\ h.residents[b].settled
                               => Ending(h.toDesktop, b)
  PROVE  Wired(g, s, X \ {b}) /\ NoStart(s.toHost, b)
<1>1. \A x \in Bots : g.residents[x] = IF x = b THEN None ELSE h.residents[x]
  BY StoreFields
<1>2. Sane(g, s)
  BY DEF Wired, Sane
<1>3. ASSUME NEW x \in Bots PROVE BotWired(g, s, X \ {b}, x)
  <2>1. BotWired(h, s, X, x)
    BY DEF Wired
  <2>2. CASE x # b
    <3>1. g.residents[x] = h.residents[x] /\ (x \in X \ {b} <=> x \in X)
      BY <1>1, <2>2
    <3> QED BY <2>1, <3>1 DEF BotWired
  <2>3. CASE x = b
    <3>1. g.residents[b] = None
      BY <1>1
    <3>2. Sent(s.toHost, b, s.hosts[b], None)
      BY <2>1, <2>3 DEF BotWired, Sent
    <3>3. News(h.toDesktop, s.toHost, b, s.hosts[b], None)
      BY <2>1, <2>3 DEF BotWired, News
    <3>4. Served(None, b, s.hosts[b], s)
      BY DEF Served
    <3> QED BY <2>3, <3>1, <3>2, <3>3, <3>4 DEF BotWired
  <2> QED BY <2>2, <2>3
<1>4. ASSUME NEW k \in Backends PROVE Heeded(g, s, k)
  <2>1. Heeded(h, s, k) /\ botOf[k] \in Bots
    BY HostAssumption DEF Wired
  <2>2. CASE botOf[k] # b
    <3>1. g.residents[botOf[k]] = h.residents[botOf[k]]
      BY <1>1, <2>1, <2>2
    <3> QED BY <2>1, <3>1 DEF Heeded
  <2>3. CASE botOf[k] = b
    <3>1. g.residents[b] = None
      BY <1>1
    <3> QED BY <2>1, <2>3, <3>1 DEF Heeded
  <2> QED BY <2>2, <2>3
<1>5. NoStart(s.toHost, b)
  BY DEF Wired, BotWired, Sent, NoStart
<1> QED BY <1>2, <1>3, <1>4, <1>5 DEF Wired

\* removeResident(): the stops that waited for it are answered.
LEMMA RemoveWired ==
  ASSUME NEW h \in HostStore, NEW s \in DeskStore, NEW X, NEW b \in Bots,
         Wired(h, s, X), h.residents[b] # None,
         \A k \in Backends : botOf[k] = b /\ Live(s, k) /\ h.residents[b].settled
                               => Ending(h.toDesktop, b)
  PROVE  Wired(RemoveResident(h, b), s, X \ {b})
<1> DEFINE g == Replaced(h, b, None)
           cs == h.residents[b].stops
<1>1. cs \in Seq(Controls)
  BY StoreFields, ResidentFields
<1>2. RemoveResident(h, b) = Say(g, cs, TRUE)
  BY DEF RemoveResident, Replaced
<1>3. /\ g \in HostStore
      /\ g.residents = [h.residents EXCEPT ![b] = None]
      /\ g.toDesktop = h.toDesktop
  <2>1. g.toDesktop = h.toDesktop
    BY DEF Replaced, HostStore
  <2> QED BY <2>1, ReplacedKeeps
<1> HIDE DEF g
<1>4. g.residents[b] = None
  BY <1>3, StoreFields
<1>5. Wired(g, s, X \ {b}) /\ NoStart(s.toHost, b)
  BY <1>3, GoneWired
<1>6. \A i \in 1..Len(cs) : StopFor(cs[i], b) /\ Known(cs[i], s)
  BY DEF Wired, BotWired, Served
<1> HIDE DEF cs
<1>7. ASSUME NEW i \in 1..Len(cs)
      PROVE  /\ Known(cs[i], s)
             /\ \A x \in Bots :
                  StopFor(cs[i], x) /\ cs[i].bound # None /\ cs[i].bound = s.hosts[x] =>
                    /\ x \in X \ {b} \/ g.residents[x] = None
                    /\ NoStart(s.toHost, x)
             /\ cs[i].op # "start"
  BY <1>4, <1>5, <1>6 DEF StopFor
<1>8. TRUE \in BOOLEAN
  OBVIOUS
<1>9. Wired(Say(g, cs, TRUE), s, X \ {b})
  BY <1>1, <1>3, <1>5, <1>7, <1>8, SayWired
<1> QED BY <1>2, <1>9

-----------------------------------------------------------------------------
(* The host's operators *)

LEMMA WiredSame ==
  ASSUME NEW h, NEW g, NEW s, NEW X, Wired(h, s, X),
         g.residents = h.residents, g.toDesktop = h.toDesktop
  PROVE  Wired(g, s, X)
BY DEF Wired, Sane, BotWired, Heeded

LEMMA WiredMore ==
  ASSUME NEW h, NEW s, NEW X, NEW Y, X \subseteq Y, Wired(h, s, X)
  PROVE  Wired(h, s, Y)
<1>1. ASSUME NEW b \in Bots PROVE BotWired(h, s, Y, b)
  <2>1. BotWired(h, s, X, b)
    BY DEF Wired
  <2> QED BY <2>1 DEF BotWired, News
<1> QED BY <1>1 DEF Wired

\* What every pass of drain() keeps, drain() keeps.
LEMMA DrainStays ==
  ASSUME NEW doomed, NEW S \in SUBSET Hosts, NEW h \in S,
         \A g \in S : DrainPass(g, doomed) \in S
  PROVE  Drain(h, doomed) \in S
<1> DEFINE step == [g \in S |-> DrainPass(g, doomed)]
           rec(f) == [n \in Nat |-> IF n = 0 THEN h ELSE DrainPass(f[n - 1], doomed)]
           passes == CHOOSE f : f = rec(f)
           N == Cardinality(Bots)
<1>0. N \in Nat
  BY FS_CardinalityType, HostAssumption
<1>1. Drain(h, doomed) = passes[N]
  BY DEF Drain
<1>2. \E f : f = rec(f)
  <2>1. step \in [S -> S]
    OBVIOUS
  <2>2. PICK f \in [Nat -> S] : f[0] = h /\ \A n \in Nat \ {0} : f[n] = step[f[n - 1]]
    <3> HIDE DEF step
    <3> QED BY <2>1, IterationExists
  <2>3. ASSUME NEW n \in Nat \ {0}
        PROVE  f[n - 1] \in S /\ f[n] = DrainPass(f[n - 1], doomed)
    <3>1. n - 1 \in Nat /\ f[n] = step[f[n - 1]]
      BY <2>2
    <3> QED BY <2>2, <3>1
  <2> HIDE DEF step
  <2>4. f = rec(f)
    BY <2>2, <2>3
  <2> QED BY <2>4
<1>3. passes = rec(passes)
  BY <1>2
<1> HIDE DEF passes
<1> DEFINE I == {n \in Nat : passes[n] \in S}
<1>4. 0 \in I
  BY <1>3
<1>5. ASSUME NEW n \in Nat, n \in I PROVE n + 1 \in I
  <2>1. passes[n + 1] = DrainPass(passes[n], doomed)
    BY <1>3
  <2> QED BY <1>5, <2>1
<1> HIDE DEF I
<1>6. N \in I
  BY <1>0, <1>4, <1>5, SetInduction
<1> QED BY <1>1, <1>6 DEF I

LEMMA DrainPassWired ==
  ASSUME NEW h \in Hosts, NEW s \in DeskStore, NEW X, NEW doomed, Wired(h, s, X)
  PROVE  Wired(DrainPass(h, doomed), s, X)
<1> USE StoreFields DEF Hosts
<1>1. CASE h.starting >= MaxStarts \/ h.startQueue = <<>>
  BY <1>1 DEF DrainPass
<1>2. CASE ~(h.starting >= MaxStarts) /\ h.startQueue # <<>>
  <2> DEFINE b == Head(h.startQueue)
             taken == [h EXCEPT !.startQueue = Tail(@)]
             r == h.residents[b]
  <2>1. /\ b \in Bots /\ Contains(h.startQueue, b)
        /\ Tail(h.startQueue) \in Seq(Bots)
    BY <1>2, HeadLeaves DEF QueueInv
  <2>2. /\ taken \in HostStore
        /\ taken.residents = h.residents
        /\ taken.toDesktop = h.toDesktop
    BY <2>1 DEF HostStore
  <2> HIDE DEF b, taken
  <2>3. /\ r \in Resident /\ r # None /\ ~r.settled
        /\ r.starts \in Seq(Controls)
    BY <2>1, ResidentFields DEF QueueInv, Queued
  <2>4. Wired(taken, s, X)
    BY <2>2, WiredSame
  <2>5. Served(r, b, s.hosts[b], s)
    BY <2>1 DEF Wired, BotWired
  <2>6. CASE b \in doomed
    <3> DEFINE said == Say(taken, r.starts, FALSE)
               g == RemoveResident(said, b)
    <3>1. DrainPass(h, doomed) = g
      BY <1>2, <2>2, <2>6 DEF DrainPass, b, taken
    <3>2. \A i \in 1..Len(r.starts) : Known(r.starts[i], s)
      BY <2>3, <2>5 DEF Served
    <3>3. said \in HostStore /\ said.residents = h.residents /\ Wired(said, s, X)
      <4>1. FALSE \in BOOLEAN
        OBVIOUS
      <4> HIDE DEF r
      <4> QED BY <2>2, <2>3, <2>4, <3>2, <4>1, SayKeeps, SayRefused
    <3> HIDE DEF said
    <3>4. Wired(g, s, X \ {b})
      BY <2>1, <2>3, <3>3, RemoveWired
    <3> HIDE DEF g
    <3> QED BY <3>1, <3>4, WiredMore
  <2>7. CASE b \notin doomed
    <3> DEFINE w == [r EXCEPT !.worker = TRUE]
               p == Replaced(taken, b, w)
               g == [p EXCEPT !.starting = @ + 1]
    <3>1. w \in Resident /\ w.by = r.by /\ w.starts = r.starts /\ w.stops = r.stops
          /\ w.settled = r.settled /\ w.requested = r.requested
      BY <2>3 DEF Resident
    <3>2. DrainPass(h, doomed) = g
      BY <1>2, <2>2, <2>7 DEF DrainPass, b, taken, Replaced, HostStore
    <3> HIDE DEF w
    <3>3. /\ p \in HostStore
          /\ p.residents = [h.residents EXCEPT ![b] = w]
          /\ p.toDesktop = h.toDesktop
      <4>1. p.toDesktop = taken.toDesktop
        BY <2>2 DEF Replaced, HostStore
      <4> QED BY <2>1, <2>2, <3>1, <4>1, ReplacedKeeps
    <3> HIDE DEF p
    <3>4. /\ g \in HostStore
          /\ g.residents = [h.residents EXCEPT ![b] = w]
          /\ g.toDesktop = h.toDesktop
      BY <3>3 DEF HostStore
    <3> HIDE DEF g
    <3>5. w # None /\ Served(w, b, s.hosts[b], s)
      BY <2>3, <2>5, <3>1, ResidentFields DEF Served
    <3>6. Wired(g, s, X)
      BY <2>1, <2>3, <3>1, <3>4, <3>5, ChangedWired
    <3> QED BY <3>2, <3>6
  <2> QED BY <2>6, <2>7
<1> QED BY <1>1, <1>2

LEMMA DrainWired ==
  ASSUME NEW h \in Hosts, NEW s \in DeskStore, NEW X, NEW doomed, Wired(h, s, X)
  PROVE  Wired(Drain(h, doomed), s, X)
<1> DEFINE S == {g \in Hosts : Wired(g, s, X)}
<1>1. S \in SUBSET Hosts /\ h \in S
  OBVIOUS
<1>2. ASSUME NEW g \in S PROVE DrainPass(g, doomed) \in S
  BY DrainPassKeeps, DrainPassWired DEF PassKeeps
<1> HIDE DEF S
<1>3. Drain(h, doomed) \in S
  BY <1>1, <1>2, DrainStays
<1> QED BY <1>3 DEF S

LEMMA ReadiedIs ==
  ASSUME NEW r \in Resident
  PROVE  /\ Readied(r).by = r.by /\ Readied(r).starts = <<>> /\ Readied(r).stops = r.stops
         /\ Readied(r).requested = r.requested /\ Readied(r).settled
BY DEF Readied, Resident

\* What is served where no start waits.
LEMMA ServedStarted ==
  ASSUME NEW r, NEW w, NEW b, NEW x, NEW s, r # None, Served(r, b, x, s),
         w.by = r.by, w.starts = <<>>, w.stops = r.stops
  PROVE  Served(w, b, x, s)
<1>1. Len(w.starts) = 0
  BY EmptySeq
<1>2. 1..Len(w.starts) = {}
  BY <1>1
<1> QED BY <1>2 DEF Served

\* A worker's boot ends.
LEMMA SettleWired ==
  ASSUME NEW h \in Steady, NEW s \in DeskStore, NEW X, NEW b \in Bots,
         h.residents[b] # None, h.residents[b].worker, NEW ok \in BOOLEAN, NEW doomed,
         Wired(h, s, X)
  PROVE  Wired(Settle(h, b, ok, doomed), s, X)
<1> DEFINE r == h.residents[b]
           w == Readied(r)
           p == Replaced(h, b, w)
           told == Announced(h, b, ok)
           g == Vacated(h, b, ok)
<1>0. h \in HostStore
  BY DEF Steady, Hosts
<1>1. CASE r.settled
  BY <1>1 DEF Settle
<1>2. CASE ~r.settled
  <2>1. /\ w \in Resident /\ w # None
        /\ p \in HostStore /\ p.residents = [h.residents EXCEPT ![b] = w]
        /\ p.toDesktop = h.toDesktop
        /\ Settle(h, b, ok, doomed) = Drain(g, doomed)
        /\ g \in Hosts /\ g.residents = [h.residents EXCEPT ![b] = w]
        /\ g.toDesktop = told.toDesktop
    BY <1>2, SettleMakes
  <2>2. r \in Resident /\ r.starts \in Seq(Controls)
    BY <1>0, StoreFields, ResidentFields
  <2>3. told = Say(p, r.starts, ok)
    BY DEF Announced
  <2>4. /\ w.by = r.by /\ w.starts = <<>> /\ w.stops = r.stops
        /\ w.requested = r.requested /\ w.settled
    BY <2>2, ReadiedIs
  <2>5. Served(r, b, s.hosts[b], s)
    BY DEF Wired, BotWired
  <2> HIDE DEF w, p, told, g
  <2>6. Served(w, b, s.hosts[b], s)
    <3> HIDE DEF r
    <3>1. r # None
      BY DEF r
    <3> QED BY <2>4, <2>5, <3>1, ServedStarted
  <2>7. Wired(p, s, X)
    BY <1>0, <2>1, <2>4, <2>6, ChangedWired
  <2>8. p.residents[b] = w
    BY <1>0, <2>1, StoreFields
  <2>9. \A i \in 1..Len(r.starts) : StartFor(r.starts[i], b) /\ Known(r.starts[i], s)
    BY <2>5 DEF Served
  <2> HIDE DEF r
  <2>10. Wired(told, s, X) /\ told.residents = p.residents
    <3>1. ASSUME NEW i \in 1..Len(r.starts)
          PROVE  /\ Known(r.starts[i], s) /\ r.starts[i].op = "start"
                 /\ p.residents[botOf[r.starts[i].by]] # None
                 /\ p.residents[botOf[r.starts[i].by]].settled
      BY <2>1, <2>4, <2>8, <2>9 DEF StartFor
    <3>2. \A i \in 1..Len(r.starts) :
            /\ Known(r.starts[i], s)
            /\ ok => \A x \in Bots :
                 StopFor(r.starts[i], x) /\ r.starts[i].bound # None
                   /\ r.starts[i].bound = s.hosts[x] =>
                   /\ x \in X \/ p.residents[x] = None
                   /\ NoStart(s.toHost, x)
            /\ ok /\ r.starts[i].op = "start" /\ Live(s, r.starts[i].by) =>
                 LET x == botOf[r.starts[i].by] IN
                 \/ Ending(p.toDesktop, x)
                 \/ p.residents[x] # None /\ p.residents[x].settled
      BY <3>1 DEF StopFor
    <3>3. Wired(Say(p, r.starts, ok), s, X)
      BY <2>1, <2>2, <2>7, <3>2, SayWired
    <3> QED BY <2>1, <2>2, <2>3, <3>3, SayKeeps
  <2>11. Wired(g, s, X)
    BY <2>1, <2>10, WiredSame
  <2> QED BY <2>1, <2>11, DrainWired
<1> QED BY <1>1, <1>2

\* A resident that has no worker is stopped only if its backend was.
LEMMA StopWired ==
  ASSUME NEW h \in Steady, NEW s \in DeskStore, NEW X, NEW b \in Bots,
         h.residents[b] # None, ~h.residents[b].stopping, NEW doomed,
         Wired(h, s, X),
         \/ h.residents[b].worker
         \/ \A k \in Backends : botOf[k] = b => ~Live(s, k)
  PROVE  Wired(Stop(h, b, doomed), s, X)
<1> DEFINE r == h.residents[b]
           w == [r EXCEPT !.stopping = TRUE]
           p == Replaced(h, b, w)
<1>0. h \in HostStore /\ h \in Hosts /\ QueueInv(h)
  BY DEF Steady, Hosts
<1>1. r \in Resident /\ r # None /\ r.starts \in Seq(Controls)
  BY <1>0, StoreFields, ResidentFields
<1>2. Served(r, b, s.hosts[b], s)
  BY DEF Wired, BotWired
<1>3. CASE r.worker
  <2>1. /\ w \in Resident /\ w # None /\ w.worker = r.worker /\ w.settled = r.settled
        /\ w.by = r.by /\ w.starts = r.starts /\ w.stops = r.stops
        /\ w.requested = r.requested
    <3>1. /\ w \in Resident /\ w.worker = r.worker /\ w.settled = r.settled
          /\ w.by = r.by /\ w.starts = r.starts /\ w.stops = r.stops
          /\ w.requested = r.requested
      BY <1>1 DEF Resident
    <3> QED BY <3>1, ResidentFields
  <2>2. p = [h EXCEPT !.residents[b].stopping = TRUE]
    BY <1>0, <1>1 DEF Replaced, HostStore, Resident
  <2>3. Stop(h, b, doomed) = Settle(p, b, FALSE, doomed)
    <3> HIDE DEF p
    <3> QED BY <1>3, <2>2 DEF Stop
  <2> HIDE DEF w
  <2>4. p.residents = [h.residents EXCEPT ![b] = w] /\ p.toDesktop = h.toDesktop
        /\ p \in HostStore
    <3>1. p.toDesktop = h.toDesktop
      BY <1>0 DEF Replaced, HostStore
    <3> QED BY <1>0, <2>1, <3>1, ReplacedKeeps
  <2>5. p \in Steady
    BY <1>1, <1>3, <2>1, ReplacedSteady
  <2> HIDE DEF p
  <2>6. p.residents[b] = w
    BY <1>0, <2>4, StoreFields
  <2>7. Served(w, b, s.hosts[b], s)
    BY <1>1, <1>2, <2>1 DEF Served
  <2>8. Wired(p, s, X)
    BY <1>0, <1>1, <2>1, <2>4, <2>7, ChangedWired
  <2>9. p.residents[b] # None /\ p.residents[b].worker /\ FALSE \in BOOLEAN
    BY <1>3, <2>1, <2>6
  <2>10. Wired(Settle(p, b, FALSE, doomed), s, X)
    BY <2>5, <2>8, <2>9, SettleWired
  <2> QED BY <2>3, <2>10
<1>4. CASE ~r.worker
  <2>1. PICK left \in HostStore, v \in Resident : Rejects(h, b, doomed, left, v)
    BY <1>4, StopMakes
  <2> DEFINE q == Say(h, r.starts, FALSE)
  <2>2. /\ Stop(h, b, doomed) = RemoveResident(left, b)
        /\ v.by = r.by /\ v.stops = r.stops /\ v.starts = <<>>
        /\ v.requested = r.requested
        /\ left.residents = [h.residents EXCEPT ![b] = v]
        /\ left.toDesktop = q.toDesktop
        /\ Contains(h.startQueue, b)
    BY <2>1 DEF Rejects
  <2>3. \A i \in 1..Len(r.starts) : Known(r.starts[i], s)
    BY <1>1, <1>2 DEF Served
  <2>4. q \in HostStore /\ q.residents = h.residents
    BY <1>0, <1>1, SayKeeps
  <2>5. Wired(q, s, X)
    BY <1>0, <1>1, <2>3, SayRefused
  <2> HIDE DEF q
  <2>6. ~r.settled
    BY <1>0, <2>2 DEF QueueInv
  <2>7. v # None /\ Served(v, b, s.hosts[b], s)
    <3> HIDE DEF r
    <3> QED BY <1>1, <1>2, <2>2, ResidentFields, ServedStarted
  <2>8. q.residents[b] = r /\ left.residents = [q.residents EXCEPT ![b] = v]
    BY <2>2, <2>4
  <2>9. Wired(left, s, X)
    BY <1>1, <2>2, <2>4, <2>5, <2>6, <2>7, <2>8, ChangedWired
  <2>10. left.residents[b] = v
    BY <1>0, <2>2, StoreFields
  <2>11. Wired(RemoveResident(left, b), s, X \ {b})
    BY <1>4, <2>7, <2>9, <2>10, RemoveWired
  <2> HIDE DEF r
  <2>12. Wired(RemoveResident(left, b), s, X)
    <3> DEFINE g == RemoveResident(left, b)
    <3>1. Wired(g, s, X \ {b})
      BY <2>11
    <3> HIDE DEF g
    <3>2. Wired(g, s, X)
      BY <3>1, WiredMore
    <3> QED BY <3>2 DEF g
  <2> QED BY <2>2, <2>12
<1> QED BY <1>3, <1>4

\* A worker exits: the desktop is told.
LEMMA ExitToldWired ==
  ASSUME NEW h \in HostStore, NEW s \in DeskStore, NEW b \in Bots,
         NEW g \in HostStore, g.residents = h.residents,
         g.toDesktop = Append(h.toDesktop, BotExit(b)),
         h.residents[b] # None, Wired(h, s, {})
  PROVE  Wired(g, s, {b}) /\ Ending(g.toDesktop, b)
<1> DEFINE D == h.toDesktop
           T == g.toDesktop
<1>1. /\ Len(D) \in Nat /\ Len(T) = Len(D) + 1 /\ T[Len(D) + 1] = BotExit(b)
      /\ \A i \in 1..Len(D) : i \in 1..Len(T) /\ T[i] = D[i]
      /\ \A i \in 1..Len(T) : i \in 1..Len(D) \/ i = Len(D) + 1
      /\ Len(D) + 1 \in 1..Len(T)
  <2>1. D \in Seq(Messages) /\ BotExit(b) \in Messages
    BY StoreFields DEF BotExit, Messages
  <2>2. Len(D) \in Nat /\ Len(T) = Len(D) + 1 /\ T[Len(D) + 1] = BotExit(b)
        /\ \A i \in 1..Len(D) : T[i] = D[i]
    BY <2>1, AppendProperties, LenProperties
  <2> HIDE DEF D, T
  <2> QED BY <2>2
<1>2. Ending(T, b)
  BY <1>1 DEF Ending
<1> HIDE DEF D, T
<1>3. Sane(g, s)
  <2>1. \A i \in 1..Len(T) : T[i].kind = "answer" => Known(T[i].of, s)
    <3>1. BotExit(b).kind # "answer"
      BY ExitIs
    <3> QED BY <1>1, <3>1 DEF Wired, Sane, D
  <2> QED BY <2>1 DEF Wired, Sane, T
<1>4. ASSUME NEW x \in Bots PROVE BotWired(g, s, {b}, x)
  <2> DEFINE r == h.residents[x]
             y == s.hosts[x]
  <2>1. Served(r, x, y, s) /\ Sent(s.toHost, x, y, r) /\ News(D, s.toHost, x, y, r)
    BY DEF Wired, BotWired, D
  <2>2. CASE x = b
    <3>1. \A i \in 1..Len(D) : ~Ends(D[i], b, y)
      BY <2>1, <2>2 DEF News
    <3>2. NoStart(s.toHost, b)
      BY <2>1, <2>2 DEF Sent, NoStart
    <3>3. y # None
      <4>1. y = r.by /\ r \in Resident
        BY <2>1, <2>2, StoreFields DEF Served
      <4> QED BY <4>1, ResidentFields, HostAssumption
    <3>4. News(T, s.toHost, b, y, None)
      <4>1. ASSUME NEW i \in 1..Len(T), Ends(T[i], b, y), NEW j \in 1..Len(T), j > i
            PROVE  T[j] # BotExit(b)
        <5>1. i = Len(D) + 1
          BY <1>1, <3>1, <4>1
        <5> QED BY <1>1, <4>1, <5>1
      <4> QED BY <3>2, <3>3, <4>1 DEF News
    <3> QED BY <2>1, <2>2, <3>4 DEF BotWired, T
  <2>3. CASE x # b
    <3>1. ~Ends(BotExit(b), x, y) /\ BotExit(b) # BotExit(x)
      BY <2>3 DEF Ends, Freed, BotExit
    <3>2. News(T, s.toHost, x, y, r)
      BY <1>1, <2>1, <3>1 DEF News
    <3> QED BY <2>1, <2>3, <3>2 DEF BotWired, T
  <2> QED BY <2>2, <2>3
<1>5. ASSUME NEW k \in Backends PROVE Heeded(g, s, k)
  <2>1. Heeded(h, s, k)
    BY DEF Wired
  <2>2. Ending(D, botOf[k]) => Ending(T, botOf[k])
    BY <1>1 DEF Ending
  <2>3. ~Said(BotExit(b), k)
    BY ExitIs DEF Said
  <2>4. (\E i \in 1..Len(T) : Said(T[i], k)) => \E i \in 1..Len(D) : Said(D[i], k)
    BY <1>1, <2>3
  <2> QED BY <2>1, <2>2, <2>4 DEF Heeded, D, T
<1> QED BY <1>2, <1>3, <1>4, <1>5 DEF Wired, T

\* Nothing that is said takes the news of an exit back.
LEMMA SayEnding ==
  ASSUME NEW h \in HostStore, NEW cs \in Seq(Controls), NEW ok \in BOOLEAN, NEW b,
         Ending(h.toDesktop, b)
  PROVE  Ending(Say(h, cs, ok).toDesktop, b)
<1> DEFINE P == [i \in 1..Len(cs) |-> Answer(cs[i], ok)]
           T == Say(h, cs, ok).toDesktop
<1>1. P \in Seq(Messages)
  <2>1. Len(cs) \in Nat
    BY LenProperties
  <2>2. \A i \in 1..Len(cs) : Answer(cs[i], ok) \in Messages
    BY ElementOfSeq DEF Answer, Messages
  <2> QED BY <2>1, <2>2, IsASeq
<1>2. T = h.toDesktop \o P /\ h.toDesktop \in Seq(Messages)
  BY StoreFields DEF Say, HostStore
<1> HIDE DEF T, P
<1>3. \A i \in 1..Len(h.toDesktop) : i \in 1..Len(T) /\ T[i] = h.toDesktop[i]
  BY <1>1, <1>2, ConcatFacts
<1> QED BY <1>3 DEF Ending, T

LEMMA DrainPassEnding ==
  ASSUME NEW h \in Hosts, NEW doomed, NEW x, Ending(h.toDesktop, x)
  PROVE  Ending(DrainPass(h, doomed).toDesktop, x)
<1> USE StoreFields DEF Hosts
<1>1. CASE h.starting >= MaxStarts \/ h.startQueue = <<>>
  BY <1>1 DEF DrainPass
<1>2. CASE ~(h.starting >= MaxStarts) /\ h.startQueue # <<>>
  <2> DEFINE b == Head(h.startQueue)
             taken == [h EXCEPT !.startQueue = Tail(@)]
             r == h.residents[b]
  <2>1. b \in Bots /\ Contains(h.startQueue, b) /\ Tail(h.startQueue) \in Seq(Bots)
    BY <1>2, HeadLeaves DEF QueueInv
  <2>2. /\ taken \in HostStore
        /\ taken.residents = h.residents
        /\ taken.toDesktop = h.toDesktop
    BY <2>1 DEF HostStore
  <2> HIDE DEF b, taken
  <2>3. r \in Resident /\ r # None /\ r.starts \in Seq(Controls)
    BY <2>1, ResidentFields DEF QueueInv, Queued
  <2>4. CASE b \in doomed
    <3> DEFINE said == Say(taken, r.starts, FALSE)
               gone == Replaced(said, b, None)
               cs == said.residents[b].stops
    <3>0. FALSE \in BOOLEAN /\ TRUE \in BOOLEAN
      OBVIOUS
    <3>1. DrainPass(h, doomed) = RemoveResident(said, b)
      BY <1>2, <2>2, <2>4 DEF DrainPass, b, taken
    <3>2. said \in HostStore /\ said.residents = h.residents /\ Ending(said.toDesktop, x)
      BY <2>2, <2>3, <3>0, SayKeeps, SayEnding
    <3> HIDE DEF said
    <3>3. cs \in Seq(Controls)
      BY <2>3, <3>2, ResidentFields
    <3>4. RemoveResident(said, b) = Say(gone, cs, TRUE)
      BY DEF RemoveResident, Replaced
    <3>5. gone \in HostStore /\ gone.toDesktop = said.toDesktop
      <4>1. gone.toDesktop = said.toDesktop
        BY <3>2 DEF Replaced, HostStore
      <4> QED BY <2>1, <3>2, <4>1, ReplacedKeeps
    <3> HIDE DEF gone, cs
    <3>6. Ending(Say(gone, cs, TRUE).toDesktop, x)
      BY <3>0, <3>2, <3>3, <3>5, SayEnding
    <3> QED BY <3>1, <3>4, <3>6
  <2>5. CASE b \notin doomed
    <3>1. DrainPass(h, doomed).toDesktop = taken.toDesktop
      BY <1>2, <2>2, <2>5 DEF DrainPass, b, taken, HostStore
    <3> QED BY <2>2, <3>1
  <2> QED BY <2>4, <2>5
<1> QED BY <1>1, <1>2

LEMMA SettleEnding ==
  ASSUME NEW h \in Steady, NEW b \in Bots, h.residents[b] # None,
         h.residents[b].worker, NEW ok \in BOOLEAN, NEW doomed, NEW x,
         Ending(h.toDesktop, x)
  PROVE  Ending(Settle(h, b, ok, doomed).toDesktop, x)
<1> DEFINE r == h.residents[b]
           w == Readied(r)
           p == Replaced(h, b, w)
           told == Announced(h, b, ok)
           g == Vacated(h, b, ok)
<1>0. h \in HostStore
  BY DEF Steady, Hosts
<1>1. CASE r.settled
  BY <1>1 DEF Settle
<1>2. CASE ~r.settled
  <2>1. /\ w \in Resident /\ w # None
        /\ p \in HostStore /\ p.residents = [h.residents EXCEPT ![b] = w]
        /\ p.toDesktop = h.toDesktop
        /\ Settle(h, b, ok, doomed) = Drain(g, doomed)
        /\ g \in Hosts /\ g.residents = [h.residents EXCEPT ![b] = w]
        /\ g.toDesktop = told.toDesktop
    BY <1>2, SettleMakes
  <2>2. told = Say(p, r.starts, ok) /\ r.starts \in Seq(Controls)
    BY <1>0, StoreFields, ResidentFields DEF Announced
  <2> HIDE DEF r, w, p, told, g
  <2>3. Ending(told.toDesktop, x)
    BY <2>1, <2>2, SayEnding
  <2> DEFINE S == {f \in Hosts : Ending(f.toDesktop, x)}
  <2>4. S \in SUBSET Hosts /\ g \in S
    BY <2>1, <2>3
  <2>5. ASSUME NEW f \in S PROVE DrainPass(f, doomed) \in S
    BY DrainPassKeeps, DrainPassEnding DEF PassKeeps
  <2> HIDE DEF S
  <2>6. Drain(g, doomed) \in S
    BY <2>4, <2>5, DrainStays
  <2> QED BY <2>1, <2>6 DEF S
<1> QED BY <1>1, <1>2

-----------------------------------------------------------------------------
(* The workers' steps *)

LEMMA HostBecomes ==
  ASSUME NEW h \in HostStore, BecomeHost(h) PROVE Host' = h
<1>1. h = [residents |-> h.residents, startQueue |-> h.startQueue,
           starting |-> h.starting, toDesktop |-> h.toDesktop]
  BY DEF HostStore
<1> QED BY <1>1 DEF BecomeHost, Host

LEMMA ExitsWired ==
  ASSUME NEW h \in Steady, NEW s \in DeskStore, NEW b \in Bots, NEW doomed,
         h.residents[b] # None, h.residents[b].worker, Wired(h, s, {}), NEW told,
         told = IF h.residents[b].requested THEN h
                ELSE [h EXCEPT !.toDesktop = Append(@, BotExit(b))]
  PROVE  LET g == RemoveResident(Settle(told, b, FALSE, doomed), b)
         IN g \in Steady /\ Wired(g, s, {})
<1> DEFINE f == Settle(told, b, FALSE, doomed)
           g == RemoveResident(f, b)
           T == [h EXCEPT !.toDesktop = Append(@, BotExit(b))]
<1>0. h \in HostStore /\ FALSE \in BOOLEAN
  BY DEF Steady, Hosts
<1>1. told \in Steady /\ told.residents = h.residents
  BY TellSteady
<1>2. f \in Steady /\ Answered(f, b)
  BY <1>0, <1>1, SettleWorker
<1>3. g \in Steady
  <2> HIDE DEF f
  <2> QED BY <1>2, RemoveWorker
<1>4. f \in HostStore /\ f.residents[b] # None
  <2> HIDE DEF f
  <2> QED BY <1>2 DEF Steady, Hosts, Answered
<1>5. ASSUME h.residents[b].requested PROVE Wired(g, s, {})
  <2>1. told = h
    BY <1>5
  <2>2. Wired(f, s, {})
    BY <1>0, <2>1, SettleWired
  <2>3. \A k \in Backends : botOf[k] = b => ~Live(s, k)
    BY <1>5 DEF Wired, Heeded
  <2> HIDE DEF f
  <2>4. Wired(g, s, {} \ {b})
    BY <1>4, <2>2, <2>3, RemoveWired
  <2>5. Wired(g, s, {})
    <3> HIDE DEF g
    <3> QED BY <2>4, WiredMore
  <2> QED BY <2>5
<1>6. ASSUME ~h.residents[b].requested PROVE Wired(g, s, {})
  <2>1. told = T
    BY <1>6
  <2>2. T \in HostStore /\ T.residents = h.residents
    BY <1>1, <2>1 DEF Steady, Hosts
  <2>3. T.toDesktop = Append(h.toDesktop, BotExit(b))
    BY <1>0 DEF HostStore
  <2> HIDE DEF T
  <2>4. Wired(T, s, {b}) /\ Ending(T.toDesktop, b)
    BY <1>0, <2>2, <2>3, ExitToldWired
  <2>5. told \in Steady /\ told.residents[b] # None /\ told.residents[b].worker
        /\ Wired(told, s, {b}) /\ Ending(told.toDesktop, b)
    BY <1>1, <2>1, <2>4
  <2>6. Wired(f, s, {b}) /\ Ending(f.toDesktop, b)
    BY <1>0, <2>5, SettleWired, SettleEnding
  <2> HIDE DEF f
  <2>7. Wired(g, s, {b} \ {b})
    BY <1>4, <2>6, RemoveWired
  <2>8. Wired(g, s, {})
    <3> HIDE DEF g
    <3> QED BY <2>7, WiredMore
  <2> QED BY <2>8
<1>7. Wired(g, s, {})
  BY <1>5, <1>6
<1> QED BY <1>3, <1>7

LEMMA WorkerStepWired ==
  ASSUME Host \in Steady, NEW s \in DeskStore, NEW b \in Bots, WorkerStep(b),
         Wired(Host, s, {})
  PROVE  Wired(Host', s, {})
<1> USE HostFields
<1>1. HasWorker(b)
  BY DEF WorkerStep, WorkerReady, WorkerFails, WorkerExits, KillFails
<1>2. Host.residents[b] # None /\ Host.residents[b].worker
      /\ Host \in HostStore
  BY <1>1 DEF HasWorker, Steady, Hosts
<1>3. \A h \in Steady : BecomeHost(h) => Host' = h
  BY HostBecomes DEF Steady, Hosts
<1>4. CASE WorkerReady(b)
  <2>1. PICK doomed : BecomeHost(Settle(Host, b, TRUE, doomed))
    BY <1>4 DEF WorkerReady
  <2>2. Settle(Host, b, TRUE, doomed) \in Steady
        /\ Wired(Settle(Host, b, TRUE, doomed), s, {})
    BY <1>2, SettleWorker, SettleWired
  <2> QED BY <1>3, <2>1, <2>2
<1>5. CASE WorkerFails(b)
  <2>1. PICK doomed : BecomeHost(Stop(Host, b, doomed))
    BY <1>5 DEF WorkerFails
  <2>2. Stop(Host, b, doomed) \in Steady /\ Wired(Stop(Host, b, doomed), s, {})
    BY <1>2, <1>5, StopSteady, StopWired DEF WorkerFails
  <2> QED BY <1>3, <2>1, <2>2
<1>6. CASE WorkerExits(b)
  <2> DEFINE told == IF Host.residents[b].requested THEN Host
                     ELSE [Host EXCEPT !.toDesktop = Append(@, BotExit(b))]
             Gone(d) == RemoveResident(Settle(told, b, FALSE, d), b)
  <2>1. PICK doomed : BecomeHost(Gone(doomed))
    BY <1>6 DEF WorkerExits
  <2>2. Gone(doomed) \in Steady /\ Wired(Gone(doomed), s, {})
    <3> HIDE DEF Host
    <3> QED BY <1>2, ExitsWired
  <2> HIDE DEF Gone
  <2> QED BY <1>3, <2>1, <2>2
<1>7. CASE KillFails(b)
  <2> DEFINE r == Host.residents[b]
             w == [r EXCEPT !.hung = TRUE, !.stops = <<>>]
             p == Replaced(Host, b, w)
  <2>1. r \in Resident /\ r.stops \in Seq(Controls)
    BY <1>2, StoreFields, ResidentFields
  <2>2. w \in Resident /\ w.worker = r.worker /\ w.settled = r.settled
        /\ w.by = r.by /\ w.starts = r.starts /\ w.stops = <<>>
        /\ w.requested = r.requested /\ w.stopping = r.stopping
    <3>1. <<>> \in Seq(Controls)
      BY EmptySeq
    <3> QED BY <2>1, <3>1 DEF Resident
  <2>3. p = [Host EXCEPT !.residents[b].hung = TRUE, !.residents[b].stops = <<>>]
    <3> HIDE DEF Host
    <3> QED BY <1>2, <2>1 DEF Replaced, HostStore, Resident
  <2>4. Served(r, b, s.hosts[b], s)
    BY DEF Wired, BotWired
  <2>5. \A i \in 1..Len(r.stops) : Known(r.stops[i], s)
    BY <1>2, <2>4 DEF Served
  <2>6. w # None /\ Served(w, b, s.hosts[b], s)
    <3>1. 1..Len(w.stops) = {}
      <4>1. Len(w.stops) = 0
        BY <2>2, EmptySeq
      <4> QED BY <4>1
    <3>2. w # None
      BY <2>2, ResidentFields
    <3> QED BY <1>2, <2>2, <2>4, <3>1, <3>2 DEF Served
  <2> HIDE DEF w
  <2>7. p \in Steady
    BY <1>2, <2>2, ReplacedSteady
  <2>8. p \in HostStore /\ p.residents = [Host.residents EXCEPT ![b] = w]
        /\ p.toDesktop = Host.toDesktop
    <3>1. p.toDesktop = Host.toDesktop
      <4> HIDE DEF Host
      <4> QED BY <1>2 DEF Replaced, HostStore
    <3> HIDE DEF Host
    <3> QED BY <1>2, <2>2, <3>1, ReplacedKeeps
  <2> HIDE DEF p
  <2>9. Wired(p, s, {})
    BY <1>2, <2>2, <2>6, <2>8, ChangedWired
  <2>10. Wired(Say(p, r.stops, FALSE), s, {}) /\ Say(p, r.stops, FALSE) \in Steady
    BY <2>1, <2>5, <2>7, <2>8, <2>9, SayRefused, SaySteady
  <2>11. BecomeHost(Say(p, r.stops, FALSE))
    BY <1>7, <2>3 DEF KillFails
  <2> QED BY <1>3, <2>10, <2>11
<1> QED BY <1>4, <1>5, <1>6, <1>7 DEF WorkerStep

-----------------------------------------------------------------------------
(* What the host receives *)

\* The rest of a sequence.
LEMMA TailIs ==
  ASSUME NEW S, NEW Q \in Seq(S), Q # <<>>, NEW T, T = Tail(Q)
  PROVE  /\ T \in Seq(S) /\ Len(Q) \in Nat /\ Len(T) \in Nat /\ Len(Q) = Len(T) + 1
         /\ 1 \in 1..Len(Q) /\ Q[1] = Head(Q) /\ Head(Q) \in S
         /\ \A i \in 1..Len(T) : i + 1 \in 1..Len(Q) /\ T[i] = Q[i + 1]
         /\ \A i \in 1..Len(Q) : i # 1 => i - 1 \in 1..Len(T) /\ T[i - 1] = Q[i]
<1>1. /\ Head(Q) = Q[1] /\ Head(Q) \in S /\ Len(Q) \in Nat /\ 1 \in 1..Len(Q)
  BY HeadFacts
<1>2. /\ T \in Seq(S) /\ Len(T) = Len(Q) - 1 /\ \A i \in 1..Len(T) : T[i] = Q[i + 1]
  BY HeadTailProperties
<1>3. Len(T) \in Nat /\ Len(Q) = Len(T) + 1
  BY <1>1, <1>2
<1>4. \A i \in 1..Len(T) : i + 1 \in 1..Len(Q) /\ T[i] = Q[i + 1]
  BY <1>2, <1>3
<1>5. ASSUME NEW i \in 1..Len(Q), i # 1 PROVE i - 1 \in 1..Len(T) /\ T[i - 1] = Q[i]
  <2>1. i - 1 \in 1..Len(T) /\ (i - 1) + 1 = i
    BY <1>3, <1>5
  <2> QED BY <1>4, <2>1
<1> QED BY <1>1, <1>2, <1>3, <1>4, <1>5

LEMMA TakenWired ==
  ASSUME NEW h, NEW s \in DeskStore, NEW X, NEW t, Wired(h, s, X),
         s.toHost # <<>>, t.toHost = Tail(s.toHost), t.hosts = s.hosts,
         t.backend = s.backend
  PROVE  Wired(h, t, X)
<1> DEFINE Q == s.toHost
           T == t.toHost
<1>1. /\ Len(T) \in Nat /\ Len(Q) = Len(T) + 1
      /\ \A i \in 1..Len(T) : i + 1 \in 1..Len(Q) /\ T[i] = Q[i + 1]
      /\ \A i \in 1..Len(Q) : i # 1 => i - 1 \in 1..Len(T) /\ T[i - 1] = Q[i]
  <2>1. Q \in Seq(Controls)
    BY DeskFields
  <2> QED BY <2>1, TailIs
<1>2. \A c : Known(c, s) => Known(c, t)
  BY DEF Known
<1>3. \A k : Live(t, k) => Live(s, k) /\ (Heard(t, k) => Heard(s, k))
  BY DEF Live, Heard
<1> HIDE DEF Q, T
<1>4. Sane(h, t)
  BY <1>1, <1>2 DEF Wired, Sane, Q, T
<1>5. ASSUME NEW b \in Bots PROVE BotWired(h, t, X, b)
  <2> DEFINE r == h.residents[b]
             x == s.hosts[b]
             y == IF b \in X THEN None ELSE r
  <2>1. Served(r, b, x, s) /\ Sent(Q, b, x, r) /\ News(h.toDesktop, Q, b, x, y)
    BY DEF Wired, BotWired, Q
  <2>2. Served(r, b, x, t)
    BY <1>2, <2>1 DEF Served
  <2>3. Sent(T, b, x, r)
    <3>1. ASSUME NEW i \in 1..Len(T), StartFor(T[i], b)
          PROVE  /\ T[i].by = x /\ r = None
                 /\ \A j \in 1..Len(T) : j # i => ~StartFor(T[j], b)
                 /\ \A j \in 1..Len(T) : j < i /\ T[j].op # "start" => T[j].bound # x
      <4>1. i + 1 \in 1..Len(Q) /\ T[i] = Q[i + 1]
        BY <1>1
      <4>2. /\ Q[i + 1].by = x /\ r = None
            /\ \A j \in 1..Len(Q) : j # i + 1 => ~StartFor(Q[j], b)
            /\ \A j \in 1..Len(Q) : j < i + 1 /\ Q[j].op # "start" => Q[j].bound # x
        BY <2>1, <3>1, <4>1 DEF Sent
      <4>3. ASSUME NEW j \in 1..Len(T)
            PROVE  /\ j + 1 \in 1..Len(Q) /\ T[j] = Q[j + 1]
                   /\ j # i => j + 1 # i + 1
                   /\ j < i => j + 1 < i + 1
        BY <1>1
      <4> QED BY <4>1, <4>2, <4>3
    <3> QED BY <3>1 DEF Sent
  <2>4. NoStart(Q, b) => NoStart(T, b)
    BY <1>1 DEF NoStart
  <2>5. News(h.toDesktop, T, b, x, y)
    BY <2>1, <2>4 DEF News
  <2> QED BY <2>2, <2>3, <2>5 DEF BotWired, T
<1>6. ASSUME NEW k \in Backends PROVE Heeded(h, t, k)
  <2> DEFINE b == botOf[k]
  <2>1. Heeded(h, s, k)
    BY DEF Wired
  <2>2. ASSUME Live(s, k), NEW i \in 1..Len(T), StopFor(T[i], b)
        PROVE  \E j \in 1..Len(T) : j > i /\ StartFor(T[j], b)
    <3>1. i + 1 \in 1..Len(Q) /\ T[i] = Q[i + 1]
      BY <1>1
    <3>2. PICK j \in 1..Len(Q) : j > i + 1 /\ StartFor(Q[j], b)
      BY <2>1, <2>2, <3>1 DEF Heeded, Q
    <3>3. j - 1 \in 1..Len(T) /\ T[j - 1] = Q[j] /\ j - 1 > i
      BY <1>1, <3>2
    <3> QED BY <3>2, <3>3
  <2> QED BY <1>3, <2>1, <2>2 DEF Heeded, T
<1> QED BY <1>4, <1>5, <1>6 DEF Wired

\* What is known of the first control on its way to the host.
LEMMA HeadIs ==
  ASSUME NEW h, NEW s \in DeskStore, Wired(h, s, {}), s.toHost # <<>>,
         NEW c, c = Head(s.toHost), NEW T, T = Tail(s.toHost)
  PROVE  /\ Known(c, s)
         /\ c.op = "start" =>
              /\ h.residents[botOf[c.by]] = None /\ s.hosts[botOf[c.by]] = c.by
              /\ NoStart(T, botOf[c.by])
              /\ \A i \in 1..Len(h.toDesktop) :
                   ~Ends(h.toDesktop[i], botOf[c.by], c.by)
         /\ c.op # "start" =>
              /\ c.bound # None /\ c.bound = s.hosts[botOf[c.by]] => NoStart(T, botOf[c.by])
              /\ h.residents[botOf[c.by]] # None =>
                   \A k \in Backends : botOf[k] = botOf[c.by] => ~Live(s, k)
<1> DEFINE Q == s.toHost
           b == botOf[c.by]
           x == s.hosts[b]
<1>1. /\ Len(T) \in Nat /\ Len(Q) = Len(T) + 1 /\ 1 \in 1..Len(Q) /\ Q[1] = c
      /\ \A i \in 1..Len(T) : i + 1 \in 1..Len(Q) /\ T[i] = Q[i + 1]
  <2>1. Q \in Seq(Controls)
    BY DeskFields
  <2> QED BY <2>1, TailIs
<1> HIDE DEF Q
<1>2. Known(c, s)
  BY <1>1 DEF Wired, Sane, Q
<1>3. b \in Bots
  BY <1>2, HostAssumption DEF Known, Controls
<1>4. /\ Sent(Q, b, x, h.residents[b])
      /\ News(h.toDesktop, Q, b, x, h.residents[b])
  BY <1>3 DEF Wired, BotWired, Q
<1>5. ASSUME c.op = "start"
      PROVE  /\ h.residents[b] = None /\ x = c.by /\ NoStart(T, b)
             /\ \A i \in 1..Len(h.toDesktop) : ~Ends(h.toDesktop[i], b, c.by)
  <2>1. StartFor(Q[1], b)
    BY <1>1, <1>5 DEF StartFor
  <2>2. /\ x = c.by /\ h.residents[b] = None
        /\ \A j \in 1..Len(Q) : j # 1 => ~StartFor(Q[j], b)
    BY <1>1, <1>4, <2>1 DEF Sent
  <2>3. NoStart(T, b)
    <3>1. \A i \in 1..Len(T) : i + 1 # 1
      OBVIOUS
    <3> QED BY <1>1, <2>2, <3>1 DEF NoStart
  <2>4. ~NoStart(Q, b)
    BY <1>1, <2>1 DEF NoStart
  <2> QED BY <1>4, <2>2, <2>3, <2>4 DEF News
<1>6. ASSUME c.op # "start", c.bound # None, c.bound = x PROVE NoStart(T, b)
  <2> SUFFICES ASSUME NEW i \in 1..Len(T), StartFor(T[i], b) PROVE FALSE
    BY DEF NoStart
  <2>1. i + 1 \in 1..Len(Q) /\ T[i] = Q[i + 1] /\ 1 < i + 1
    BY <1>1
  <2> QED BY <1>1, <1>4, <1>6, <2>1 DEF Sent
<1>7. ASSUME c.op # "start", h.residents[b] # None, NEW k \in Backends, botOf[k] = b
      PROVE  ~Live(s, k)
  <2>1. StopFor(Q[1], b)
    BY <1>1, <1>7 DEF StopFor
  <2>2. \A j \in 1..Len(Q) : ~StartFor(Q[j], b)
    BY <1>4, <1>7 DEF Sent
  <2>3. Heeded(h, s, k)
    BY DEF Wired
  <2> QED BY <1>1, <1>7, <2>1, <2>2, <2>3 DEF Heeded, Q
<1> QED BY <1>2, <1>5, <1>6, <1>7

LEMMA SingleIs ==
  ASSUME NEW c \in Controls
  PROVE  /\ <<c>> \in Seq(Controls) /\ Len(<<c>>) = 1
         /\ \A i \in 1..Len(<<c>>) : <<c>>[i] = c
<1>1. <<c>> \in Seq(Controls) /\ Len(<<c>>) = 1 /\ <<c>>[1] = c
  OBVIOUS
<1>2. \A i \in 1..1 : i = 1
  OBVIOUS
<1> QED BY <1>1, <1>2

\* A start is accepted.
LEMMA NewWired ==
  ASSUME NEW h \in HostStore, NEW s \in DeskStore, NEW g, NEW c \in Controls,
         NEW b \in Bots, StartFor(c, b), Known(c, s), s.hosts[b] = c.by,
         h.residents[b] = None, NoStart(s.toHost, b),
         \A i \in 1..Len(h.toDesktop) : ~Ends(h.toDesktop[i], b, c.by),
         g.residents = [h.residents EXCEPT ![b] = NewResident(c)],
         g.toDesktop = h.toDesktop, Wired(h, s, {})
  PROVE  Wired(g, s, {})
<1> DEFINE w == NewResident(c)
<1>1. /\ w.by = c.by /\ w.starts = <<c>> /\ w.stops = <<>>
      /\ w.requested = FALSE /\ w.settled = FALSE
  BY DEF NewResident
<1> HIDE DEF w
<1>2. \A x \in Bots : g.residents[x] = IF x = b THEN w ELSE h.residents[x]
  BY StoreFields DEF w
<1>3. Sane(g, s)
  BY DEF Wired, Sane
<1>4. ASSUME NEW x \in Bots PROVE BotWired(g, s, {}, x)
  <2>1. BotWired(h, s, {}, x)
    BY DEF Wired
  <2>2. CASE x # b
    <3>1. g.residents[x] = h.residents[x]
      BY <1>2, <2>2
    <3> QED BY <2>1, <3>1 DEF BotWired
  <2>3. CASE x = b
    <3>1. Served(w, b, c.by, s)
      <4>1. \A i \in 1..Len(w.starts) :
              StartFor(w.starts[i], b) /\ w.starts[i].by = c.by /\ Known(w.starts[i], s)
        BY <1>1, SingleIs
      <4>2. 1..Len(w.stops) = {}
        <5>1. Len(w.stops) = 0
          BY <1>1, EmptySeq
        <5> QED BY <5>1
      <4> QED BY <1>1, <4>1, <4>2 DEF Served
    <3>2. Sent(s.toHost, b, c.by, w)
      BY DEF Sent, NoStart
    <3>3. News(h.toDesktop, s.toHost, b, c.by, w)
      BY DEF News
    <3> QED BY <1>2, <2>3, <3>1, <3>2, <3>3 DEF BotWired
  <2> QED BY <2>2, <2>3
<1>5. ASSUME NEW k \in Backends PROVE Heeded(g, s, k)
  <2>1. Heeded(h, s, k) /\ botOf[k] \in Bots
    BY HostAssumption DEF Wired
  <2>2. CASE botOf[k] # b
    <3>1. g.residents[botOf[k]] = h.residents[botOf[k]]
      BY <1>2, <2>1, <2>2
    <3> QED BY <2>1, <3>1 DEF Heeded
  <2>3. CASE botOf[k] = b
    <3>1. g.residents[b] = w
      BY <1>2
    <3> QED BY <1>1, <2>1, <2>3, <3>1 DEF Heeded
  <2> QED BY <2>2, <2>3
<1> QED BY <1>3, <1>4, <1>5 DEF Wired

\* start().
LEMMA HandleStartWired ==
  ASSUME NEW h \in Steady, NEW s \in DeskStore, NEW c \in Controls, NEW doomed,
         c.op = "start", Known(c, s), h.residents[botOf[c.by]] = None,
         s.hosts[botOf[c.by]] = c.by, NoStart(s.toHost, botOf[c.by]),
         \A i \in 1..Len(h.toDesktop) : ~Ends(h.toDesktop[i], botOf[c.by], c.by),
         Wired(h, s, {})
  PROVE  Wired(HandleStart(h, c, doomed), s, {})
<1>0. h \in HostStore
  BY DEF Steady, Hosts
<1>1. botOf[c.by] \in Bots
  BY HostAssumption DEF Controls
<1>2. CASE Full(h)
  <2>1. Wired(Say(h, <<c>>, FALSE), s, {})
    BY <1>0, SingleIs, SayRefused
  <2> QED BY <1>2, <2>1 DEF HandleStart
<1>3. CASE ~Full(h)
  <2>1. PICK g \in Hosts : Accepts(h, c, doomed, g)
    BY <1>3, StartMakes
  <2>2. /\ HandleStart(h, c, doomed) = Drain(g, doomed)
        /\ g.residents = [h.residents EXCEPT ![botOf[c.by]] = NewResident(c)]
        /\ g.toDesktop = h.toDesktop
    BY <2>1 DEF Accepts
  <2>3. StartFor(c, botOf[c.by])
    BY DEF StartFor
  <2>4. Wired(g, s, {})
    BY <1>0, <1>1, <2>2, <2>3, NewWired
  <2> QED BY <2>2, <2>4, DrainWired
<1> QED BY <1>2, <1>3

\* The operation "stop".
LEMMA HandleStopWired ==
  ASSUME NEW h \in Steady, NEW s \in DeskStore, NEW c \in Controls, NEW doomed,
         c.op # "start", Known(c, s),
         c.bound # None /\ c.bound = s.hosts[botOf[c.by]] => NoStart(s.toHost, botOf[c.by]),
         h.residents[botOf[c.by]] # None =>
           \A k \in Backends : botOf[k] = botOf[c.by] => ~Live(s, k),
         Wired(h, s, {})
  PROVE  Wired(HandleStop(h, c, doomed), s, {})
<1> DEFINE b == botOf[c.by]
           r == h.residents[b]
           v == [r EXCEPT !.requested = TRUE]
           w == [v EXCEPT !.stops = Append(@, c)]
           asked == Replaced(h, b, v)
           waits == Replaced(h, b, w)
<1>0. h \in HostStore /\ h \in Hosts /\ QueueInv(h)
  BY DEF Steady, Hosts
<1>1. b \in Bots /\ c.by \in Backends
  BY HostAssumption DEF Controls
<1>2. /\ <<c>> \in Seq(Controls) /\ Len(<<c>>) = 1
      /\ \A i \in 1..Len(<<c>>) : <<c>>[i] = c
  BY SingleIs
<1>3. CASE r = None
  <2>1. \A i \in 1..Len(<<c>>) :
          /\ Known(<<c>>[i], s)
          /\ TRUE => \A x \in Bots :
               StopFor(<<c>>[i], x) /\ <<c>>[i].bound # None /\ <<c>>[i].bound = s.hosts[x] =>
                 /\ x \in {} \/ h.residents[x] = None
                 /\ NoStart(s.toHost, x)
          /\ TRUE /\ <<c>>[i].op = "start" /\ Live(s, <<c>>[i].by) =>
               LET x == botOf[<<c>>[i].by] IN
               \/ Ending(h.toDesktop, x)
               \/ h.residents[x] # None /\ h.residents[x].settled
    BY <1>2, <1>3 DEF StopFor
  <2>2. TRUE \in BOOLEAN
    OBVIOUS
  <2>3. Wired(Say(h, <<c>>, TRUE), s, {})
    BY <1>0, <1>2, <2>1, <2>2, SayWired
  <2> QED BY <1>3, <2>3 DEF HandleStop
<1> HIDE DEF b
<1>4. CASE r # None
  <2>0. \A k \in Backends : botOf[k] = b => ~Live(s, k)
    BY <1>4 DEF b
  <2>1. r \in Resident /\ r.stops \in Seq(Controls) /\ (~r.worker => ~r.stopping)
    BY <1>0, <1>1, <1>4, StoreFields, ResidentFields DEF QueueInv, Queued
  <2>2. /\ v \in Resident /\ v.stops = r.stops
        /\ v.worker = r.worker /\ v.settled = r.settled /\ v.stopping = r.stopping
        /\ v.by = r.by /\ v.starts = r.starts
    BY <2>1 DEF Resident
  <2>3. /\ asked = [h EXCEPT !.residents[b].requested = TRUE]
        /\ waits = [asked EXCEPT !.residents[b].stops = Append(@, c)]
    <3>1. asked = [h EXCEPT !.residents[b].requested = TRUE]
      BY <1>0, <1>1, <2>1 DEF Replaced, HostStore, Resident
    <3>2. asked \in HostStore /\ asked.residents = [h.residents EXCEPT ![b] = v]
      <4> HIDE DEF v
      <4> QED BY <1>0, <1>1, <2>2, ReplacedKeeps
    <3>3. asked.residents[b] = v
      <4> HIDE DEF asked, v
      <4> QED BY <1>0, <1>1, <3>2, StoreFields
    <3>4. [asked EXCEPT !.residents[b].stops = Append(@, c)] = Replaced(asked, b, w)
      <4> HIDE DEF asked, v
      <4> QED BY <1>1, <2>2, <3>2, <3>3 DEF Replaced, HostStore, Resident
    <3>5. Replaced(asked, b, w) = waits
      <4> HIDE DEF v, w
      <4> QED BY <1>0, <1>1 DEF Replaced, HostStore
    <3> QED BY <3>1, <3>4, <3>5
  <2>4. /\ w \in Resident /\ w.stops = Append(r.stops, c)
        /\ w.worker = r.worker /\ w.settled = r.settled /\ w.stopping = r.stopping
        /\ w.by = r.by /\ w.starts = r.starts
    <3>1. Append(v.stops, c) \in Seq(Controls)
      BY <2>1, <2>2, AppendProperties
    <3> HIDE DEF v
    <3> QED BY <2>2, <3>1 DEF Resident
  <2> HIDE DEF v, w
  <2>5. v # None /\ w # None
    BY <2>2, <2>4, ResidentFields
  <2>6. Served(r, b, s.hosts[b], s)
    BY <1>1 DEF Wired, BotWired
  <2>7. Served(v, b, s.hosts[b], s)
    BY <1>4, <2>2, <2>6 DEF Served
  <2>8. Served(w, b, s.hosts[b], s)
    <3>1. /\ Len(w.stops) = Len(r.stops) + 1 /\ Len(r.stops) \in Nat
          /\ w.stops[Len(r.stops) + 1] = c
          /\ \A i \in 1..Len(r.stops) : w.stops[i] = r.stops[i]
      BY <2>1, <2>4, AppendProperties, LenProperties
    <3>2. ASSUME NEW i \in 1..Len(w.stops)
          PROVE  StopFor(w.stops[i], b) /\ Known(w.stops[i], s)
      <4>1. CASE i \in 1..Len(r.stops)
        BY <1>4, <2>6, <3>1, <4>1 DEF Served
      <4>2. CASE i \notin 1..Len(r.stops)
        <5>1. i = Len(r.stops) + 1
          <6> DEFINE n == Len(r.stops)
          <6>1. Len(w.stops) = n + 1 /\ n \in Nat
            BY <3>1
          <6> HIDE DEF n
          <6> QED BY <4>2, <6>1 DEF n
        <5> QED BY <3>1, <5>1 DEF StopFor, b
      <4> QED BY <4>1, <4>2
    <3> QED BY <1>4, <2>4, <2>6, <3>2 DEF Served
  <2>9. /\ asked \in HostStore /\ asked.residents = [h.residents EXCEPT ![b] = v]
        /\ waits \in HostStore /\ waits.residents = [h.residents EXCEPT ![b] = w]
        /\ asked.toDesktop = h.toDesktop /\ waits.toDesktop = h.toDesktop
        /\ waits \in Steady
    <3>1. asked.toDesktop = h.toDesktop /\ waits.toDesktop = h.toDesktop
      BY <1>0 DEF Replaced, HostStore
    <3>2. waits \in Steady
      BY <1>1, <1>4, <2>1, <2>4, ReplacedSteady
    <3> QED BY <1>0, <1>1, <2>2, <2>4, <3>1, <3>2, ReplacedKeeps
  <2> HIDE DEF asked, waits
  <2>10. Wired(asked, s, {})
    BY <1>0, <1>1, <1>4, <2>0, <2>2, <2>5, <2>7, <2>9, ChangedWired
  <2>11. Wired(waits, s, {})
    BY <1>0, <1>1, <1>4, <2>0, <2>4, <2>5, <2>8, <2>9, ChangedWired
  <2>12. waits.residents[b] = w
    BY <1>0, <1>1, <2>9, StoreFields
  <2>13. Wired(Say(asked, <<c>>, FALSE), s, {})
    BY <1>2, <2>9, <2>10, SayRefused
  <2>14. CASE ~r.stopping
    <3>1. Wired(Stop(waits, b, doomed), s, {})
      BY <1>1, <2>0, <2>4, <2>5, <2>9, <2>11, <2>12, <2>14, StopWired
    <3> QED BY <1>4, <2>3, <2>14, <3>1 DEF HandleStop, b
  <2>15. CASE r.stopping
    BY <1>4, <2>3, <2>11, <2>13, <2>15 DEF HandleStop, b
  <2> QED BY <2>14, <2>15
<1> QED BY <1>3, <1>4

LEMMA HostReceiveWired ==
  ASSUME Host \in Steady, NEW s \in DeskStore, NEW t \in DeskStore, HostReceive,
         s.toHost = toHost, t.toHost = toHost', t.hosts = s.hosts,
         t.backend = s.backend, Wired(Host, s, {})
  PROVE  Wired(Host', t, {})
<1> DEFINE c == Head(toHost)
           T == Tail(toHost)
<1>0. toHost \in Seq(Controls) /\ toHost # <<>> /\ toHost' = T
  BY DeskFields DEF HostReceive
<1>1. c \in Controls
  BY <1>0, HeadTailProperties
<1>2. PICK doomed : BecomeHost(IF c.op = "start" THEN HandleStart(Host, c, doomed)
                               ELSE HandleStop(Host, c, doomed))
  BY DEF HostReceive
<1> HIDE DEF c, T
<1>3. Wired(Host, t, {})
  BY <1>0, TakenWired DEF T
<1>4. c = Head(s.toHost) /\ T = Tail(s.toHost) /\ s.toHost # <<>> /\ T = t.toHost
  BY <1>0 DEF c, T
<1>5. Known(c, s) /\ Known(c, t) /\ \A k : Live(t, k) => Live(s, k)
  <2>1. Known(c, s)
    BY <1>4, HeadIs
  <2> QED BY <2>1 DEF Known, Live, Heard
<1>6. CASE c.op = "start"
  <2>1. /\ Host.residents[botOf[c.by]] = None /\ t.hosts[botOf[c.by]] = c.by
        /\ NoStart(t.toHost, botOf[c.by])
        /\ \A i \in 1..Len(Host.toDesktop) :
             ~Ends(Host.toDesktop[i], botOf[c.by], c.by)
    BY <1>4, <1>6, HeadIs
  <2>2. HandleStart(Host, c, doomed) \in Steady
        /\ Wired(HandleStart(Host, c, doomed), t, {})
    BY <1>1, <1>3, <1>5, <1>6, <2>1, HandleStartSteady, HandleStartWired
  <2> QED BY <1>2, <1>6, <2>2, HostBecomes DEF Steady, Hosts
<1>7. CASE c.op # "start"
  <2>1. /\ c.bound # None /\ c.bound = t.hosts[botOf[c.by]] => NoStart(t.toHost, botOf[c.by])
        /\ Host.residents[botOf[c.by]] # None =>
             \A k \in Backends : botOf[k] = botOf[c.by] => ~Live(t, k)
    <3>1. /\ c.bound # None /\ c.bound = s.hosts[botOf[c.by]] => NoStart(T, botOf[c.by])
          /\ Host.residents[botOf[c.by]] # None =>
               \A k \in Backends : botOf[k] = botOf[c.by] => ~Live(s, k)
      BY <1>4, <1>7, HeadIs
    <3> QED BY <1>4, <1>5, <3>1
  <2>2. HandleStop(Host, c, doomed) \in Steady
        /\ Wired(HandleStop(Host, c, doomed), t, {})
    BY <1>1, <1>3, <1>5, <1>7, <2>1, HandleStopSteady, HandleStopWired
  <2> QED BY <1>2, <1>7, <2>2, HostBecomes DEF Steady, Hosts
<1> QED BY <1>6, <1>7

-----------------------------------------------------------------------------
(* The desktop's steps *)

\* Only late stops are sent.
LEMMA QuietWired ==
  ASSUME NEW h, NEW s \in DeskStore, NEW t \in DeskStore, Quiet(s, t), Wired(h, s, {})
  PROVE  Wired(h, t, {})
<1> DEFINE Q == s.toHost
           T == t.toHost
<1>0. t.hosts = s.hosts /\ \A k \in Backends : Live(t, k) => Live(s, k) /\ (Heard(t, k) => Heard(s, k))
  BY DEF Quiet
<1>1. PICK L \in Seq(Controls) : T = Q \o L /\ \A i \in 1..Len(L) : LateStop(t, L[i])
  BY DEF Quiet, SendsStops
<1>2. /\ Len(Q) \in Nat
      /\ \A i \in 1..Len(Q) : i \in 1..Len(T) /\ T[i] = Q[i]
      /\ \A i \in 1..Len(T) :
           \/ i \in 1..Len(Q) /\ T[i] = Q[i]
           \/ /\ i \notin 1..Len(Q) /\ i > Len(Q)
              /\ \E j \in 1..Len(L) : i = Len(Q) + j /\ T[i] = L[j]
  <2>1. Q \in Seq(Controls)
    BY DeskFields
  <2> QED BY <1>1, <2>1, ConcatFacts
<1>3. \A c : Known(c, s) => Known(c, t)
  BY DEF Known, Quiet, Controls
<1> HIDE DEF Q, T
<1>4. \A i \in 1..Len(T) : \/ i \in 1..Len(Q) /\ T[i] = Q[i]
                           \/ i \notin 1..Len(Q) /\ i > Len(Q) /\ LateStop(t, T[i]) /\ T[i] \in Controls
  BY <1>1, <1>2, ElementOfSeq
<1>5. Sane(h, t)
  <2>1. ASSUME NEW i \in 1..Len(T) PROVE Known(T[i], t)
    <3>1. CASE i \in 1..Len(Q) /\ T[i] = Q[i]
      BY <1>3, <3>1 DEF Wired, Sane, Q
    <3>2. CASE LateStop(t, T[i]) /\ T[i] \in Controls
      BY <3>2 DEF LateStop, Known
    <3> QED BY <1>4, <3>1, <3>2
  <2> QED BY <1>3, <2>1 DEF Wired, Sane, T
<1>6. ASSUME NEW b \in Bots PROVE BotWired(h, t, {}, b)
  <2> DEFINE r == h.residents[b]
             x == s.hosts[b]
  <2>1. Served(r, b, x, s) /\ Sent(Q, b, x, r) /\ News(h.toDesktop, Q, b, x, r)
    BY DEF Wired, BotWired, Q
  <2>2. Served(r, b, x, t)
    BY <1>3, <2>1 DEF Served
  <2>3. \A i \in 1..Len(T) : StartFor(T[i], b) => i \in 1..Len(Q) /\ T[i] = Q[i]
    BY <1>4 DEF StartFor, LateStop
  <2>4. Sent(T, b, x, r)
    <3>1. ASSUME NEW i \in 1..Len(T), StartFor(T[i], b)
          PROVE  /\ T[i].by = x /\ r = None
                 /\ \A j \in 1..Len(T) : j # i => ~StartFor(T[j], b)
                 /\ \A j \in 1..Len(T) : j < i /\ T[j].op # "start" => T[j].bound # x
      <4>1. i \in 1..Len(Q) /\ T[i] = Q[i]
        BY <2>3, <3>1
      <4>2. /\ Q[i].by = x /\ r = None
            /\ \A j \in 1..Len(Q) : j # i => ~StartFor(Q[j], b)
            /\ \A j \in 1..Len(Q) : j < i /\ Q[j].op # "start" => Q[j].bound # x
        BY <2>1, <3>1, <4>1 DEF Sent
      <4>3. \A j \in 1..Len(T) : j < i => j \in 1..Len(Q) /\ T[j] = Q[j]
        BY <1>2, <4>1
      <4> QED BY <2>3, <4>1, <4>2, <4>3
    <3> QED BY <3>1 DEF Sent
  <2>5. NoStart(Q, b) => NoStart(T, b)
    BY <2>3 DEF NoStart
  <2>6. News(h.toDesktop, T, b, x, r)
    BY <2>1, <2>5 DEF News
  <2> QED BY <1>0, <2>2, <2>4, <2>6 DEF BotWired, T
<1>7. ASSUME NEW k \in Backends PROVE Heeded(h, t, k)
  <2> DEFINE b == botOf[k]
  <2>1. Heeded(h, s, k)
    BY DEF Wired
  <2>2. ASSUME Live(t, k), NEW i \in 1..Len(T), StopFor(T[i], b)
        PROVE  \E j \in 1..Len(T) : j > i /\ StartFor(T[j], b)
    <3>1. ~LateStop(t, T[i])
      BY <2>2 DEF LateStop, StopFor
    <3>2. i \in 1..Len(Q) /\ T[i] = Q[i]
      BY <1>4, <3>1
    <3>3. PICK j \in 1..Len(Q) : j > i /\ StartFor(Q[j], b)
      BY <1>0, <2>1, <2>2, <3>2 DEF Heeded, Q
    <3> QED BY <1>2, <3>3
  <2> QED BY <1>0, <2>1, <2>2 DEF Heeded, T
<1> QED BY <1>5, <1>6, <1>7 DEF Wired

\* A bot that is not bound has nothing on the host, and nothing on its way.
LEMMA UnboundWired ==
  ASSUME NEW h \in HostStore, NEW s \in DeskStore, NEW b \in Bots, s.hosts[b] = None,
         Wired(h, s, {})
  PROVE  /\ h.residents[b] = None /\ NoStart(s.toHost, b)
         /\ \A i \in 1..Len(h.toDesktop) : h.toDesktop[i] # BotExit(b)
<1>1. /\ Served(h.residents[b], b, None, s)
      /\ Sent(s.toHost, b, None, h.residents[b])
      /\ News(h.toDesktop, s.toHost, b, None, h.residents[b])
  BY DEF Wired, BotWired
<1>2. h.residents[b] = None
  <2> SUFFICES ASSUME h.residents[b] # None PROVE FALSE
    OBVIOUS
  <2>1. h.residents[b].by = None
    BY <1>1 DEF Served
  <2>2. h.residents[b].by \in Backends
    BY StoreFields, ResidentFields
  <2> QED BY <2>1, <2>2, HostAssumption
<1>3. ASSUME NEW i \in 1..Len(s.toHost) PROVE ~StartFor(s.toHost[i], b)
  <2>1. s.toHost[i].by \in Backends
    BY DEF Wired, Sane, Known, Controls
  <2>2. s.toHost[i].by # None
    BY <2>1, HostAssumption
  <2> QED BY <1>1, <2>2 DEF Sent
<1>4. \A i \in 1..Len(h.toDesktop) : ~Ends(h.toDesktop[i], b, None)
  BY <1>1 DEF News
<1> QED BY <1>2, <1>3, <1>4 DEF NoStart, Ends

\* Nothing of a backend that has sent nothing is on its way.
LEMMA UnsaidWired ==
  ASSUME NEW h, NEW s, NEW k \in Backends, s.backend[k].calls = 0, Wired(h, s, {})
  PROVE  /\ \A i \in 1..Len(s.toHost) : s.toHost[i].bound # k
         /\ \A i \in 1..Len(h.toDesktop), b \in Bots :
              ~Freed(h.toDesktop[i], b, k) /\ ~Said(h.toDesktop[i], k)
<1>1. k # None
  BY HostAssumption
<1>2. \A c : Known(c, s) => c.by # k /\ c.bound # k
  BY <1>1 DEF Known
<1>3. \A i \in 1..Len(s.toHost) : Known(s.toHost[i], s)
  BY DEF Wired, Sane
<1>4. \A i \in 1..Len(h.toDesktop) :
        h.toDesktop[i].kind = "answer" => Known(h.toDesktop[i].of, s)
  BY DEF Wired, Sane
<1> QED BY <1>2, <1>3, <1>4 DEF Freed, Said

\* A start is sent for a bot that was not bound.
LEMMA BindsWired ==
  ASSUME NEW h \in HostStore, NEW s \in DeskStore, NEW t \in DeskStore,
         NEW k \in Backends, Binds(s, t, k), Wired(h, s, {})
  PROVE  Wired(h, t, {})
<1> DEFINE Q == s.toHost
           T == t.toHost
           D == h.toDesktop
           b == botOf[k]
<1>0. b \in Bots /\ k # None
  BY HostAssumption
<1>1. PICK c : Bound(s, t, k, c)
  BY DEF Binds
<1>2. /\ T = Append(Q, c) /\ c \in Controls /\ c.op = "start" /\ c.by = k /\ c.bound = k
      /\ t.backend[k].start = "control" /\ t.backend[k].calls # 0
      /\ t.backend[k].phase # "ready"
      /\ s.hosts[b] = None /\ s.backend[k].calls = 0
      /\ \A j \in Backends \ {k} : t.backend[j] = s.backend[j]
  BY <1>1 DEF Binds, Bound
<1>3. \A x \in Bots : t.hosts[x] = IF x = b THEN k ELSE s.hosts[x]
  BY <1>1, DeskFields DEF Bound
<1>4. /\ Len(Q) \in Nat /\ Len(T) = Len(Q) + 1 /\ T[Len(Q) + 1] = c
      /\ \A i \in 1..Len(Q) : i \in 1..Len(T) /\ T[i] = Q[i]
      /\ \A i \in 1..Len(T) : i \in 1..Len(Q) \/ i = Len(Q) + 1
      /\ Len(Q) + 1 \in 1..Len(T)
  <2>1. Q \in Seq(Controls)
    BY DeskFields
  <2>2. Len(Q) \in Nat /\ Len(T) = Len(Q) + 1 /\ T[Len(Q) + 1] = c
        /\ \A i \in 1..Len(Q) : T[i] = Q[i]
    BY <1>2, <2>1, AppendProperties, LenProperties
  <2> HIDE DEF Q, T
  <2> QED BY <2>2
<1>5. /\ h.residents[b] = None /\ NoStart(Q, b)
      /\ \A i \in 1..Len(D) : D[i] # BotExit(b)
  BY <1>0, <1>2, UnboundWired
<1>6. /\ \A i \in 1..Len(Q) : Q[i].bound # k
      /\ \A i \in 1..Len(D) : ~Freed(D[i], b, k) /\ ~Said(D[i], k)
  <2> HIDE DEF Q, D
  <2>1. s.backend[k].calls = 0
    BY <1>2
  <2> QED BY <1>0, <2>1, UnsaidWired DEF Q, D
<1>7. \A d : Known(d, s) => Known(d, t) /\ d.by # k
  BY <1>2 DEF Known, Controls
<1>8. \A j \in Backends : Live(t, j) /\ j # k =>
        botOf[j] # b /\ Live(s, j) /\ (Heard(t, j) => Heard(s, j))
  <2>1. \A j \in Backends : botOf[j] \in Bots
    BY HostAssumption
  <2> HIDE DEF b
  <2> QED BY <1>2, <1>3, <2>1 DEF Live, Heard
<1> HIDE DEF Q, T, D
<1>9. Sane(h, t)
  <2>1. Known(c, t)
    BY <1>2 DEF Known
  <2>2. \A i \in 1..Len(T) : Known(T[i], t)
    BY <1>4, <1>7, <2>1 DEF Wired, Sane, Q
  <2> QED BY <1>7, <2>2 DEF Wired, Sane, T
<1>10. ASSUME NEW x \in Bots PROVE BotWired(h, t, {}, x)
  <2> DEFINE r == h.residents[x]
             y == s.hosts[x]
  <2>1. Served(r, x, y, s) /\ Sent(Q, x, y, r) /\ News(D, Q, x, y, r)
    BY DEF Wired, BotWired, Q, D
  <2>2. CASE x = b
    <3>1. Served(r, b, k, t)
      BY <1>5, <2>2 DEF Served
    <3>2. Sent(T, b, k, r)
      <4>1. ASSUME NEW i \in 1..Len(T), StartFor(T[i], b)
            PROVE  /\ T[i].by = k /\ r = None
                   /\ \A j \in 1..Len(T) : j # i => ~StartFor(T[j], b)
                   /\ \A j \in 1..Len(T) : j < i /\ T[j].op # "start" => T[j].bound # k
        <5>1. i = Len(Q) + 1
          BY <1>4, <1>5, <4>1 DEF NoStart
        <5>2. \A j \in 1..Len(T) : j # i => j \in 1..Len(Q) /\ T[j] = Q[j]
          BY <1>4, <5>1
        <5>3. \A j \in 1..Len(T) : j < i => j # i
          BY <1>4
        <5> QED BY <1>2, <1>4, <1>5, <1>6, <2>2, <5>1, <5>2, <5>3 DEF NoStart
      <4> QED BY <4>1 DEF Sent
    <3>3. News(D, T, b, k, r)
      BY <1>5, <1>6 DEF News, Ends
    <3> QED BY <1>3, <2>2, <3>1, <3>2, <3>3 DEF BotWired, T, D
  <2>3. CASE x # b
    <3>1. ~StartFor(c, x)
      BY <1>2, <2>3 DEF StartFor
    <3>2. Served(r, x, y, t)
      BY <1>7, <2>1 DEF Served
    <3>3. \A i \in 1..Len(T) : StartFor(T[i], x) => i \in 1..Len(Q) /\ T[i] = Q[i]
      BY <1>4, <3>1
    <3>4. Sent(T, x, y, r)
      <4>1. ASSUME NEW i \in 1..Len(T), StartFor(T[i], x)
            PROVE  /\ T[i].by = y /\ r = None
                   /\ \A j \in 1..Len(T) : j # i => ~StartFor(T[j], x)
                   /\ \A j \in 1..Len(T) : j < i /\ T[j].op # "start" => T[j].bound # y
        <5>1. i \in 1..Len(Q) /\ T[i] = Q[i]
          BY <3>3, <4>1
        <5>2. /\ Q[i].by = y /\ r = None
              /\ \A j \in 1..Len(Q) : j # i => ~StartFor(Q[j], x)
              /\ \A j \in 1..Len(Q) : j < i /\ Q[j].op # "start" => Q[j].bound # y
          BY <2>1, <4>1, <5>1 DEF Sent
        <5>3. \A j \in 1..Len(T) : j < i => j \in 1..Len(Q) /\ T[j] = Q[j]
          BY <1>4, <5>1
        <5> QED BY <3>3, <5>1, <5>2, <5>3
      <4> QED BY <4>1 DEF Sent
    <3>5. NoStart(Q, x) => NoStart(T, x)
      BY <3>3 DEF NoStart
    <3>6. News(D, T, x, y, r)
      BY <2>1, <3>5 DEF News
    <3> QED BY <1>3, <2>3, <3>2, <3>4, <3>6 DEF BotWired, T, D
  <2> QED BY <2>2, <2>3
<1>11. ASSUME NEW j \in Backends PROVE Heeded(h, t, j)
  <2>1. CASE j = k
    <3>1. \A i \in 1..Len(T) : StopFor(T[i], b) =>
            \E n \in 1..Len(T) : n > i /\ StartFor(T[n], b)
      <4>1. StartFor(c, b)
        BY <1>2 DEF StartFor
      <4>2. ASSUME NEW i \in 1..Len(T), StopFor(T[i], b) PROVE Len(Q) + 1 > i
        <5>1. i # Len(Q) + 1
          BY <1>2, <1>4, <4>2 DEF StopFor
        <5> QED BY <1>4, <5>1
      <4> QED BY <1>4, <4>1, <4>2
    <3>2. ~Heard(t, k) /\ \A i \in 1..Len(D) : ~Said(D[i], k)
      BY <1>2, <1>6 DEF Heard
    <3> QED BY <1>5, <2>1, <3>1, <3>2 DEF Heeded, T, D
  <2>2. CASE j # k
    <3> DEFINE x == botOf[j]
    <3>1. Heeded(h, s, j)
      BY DEF Wired
    <3>2. ASSUME Live(t, j), NEW i \in 1..Len(T), StopFor(T[i], x)
          PROVE  \E n \in 1..Len(T) : n > i /\ StartFor(T[n], x)
      <4>1. i \in 1..Len(Q) /\ T[i] = Q[i]
        BY <1>2, <1>4, <3>2 DEF StopFor
      <4>2. PICK n \in 1..Len(Q) : n > i /\ StartFor(Q[n], x)
        BY <1>8, <2>2, <3>1, <3>2, <4>1 DEF Heeded, Q
      <4> QED BY <1>4, <4>2
    <3> QED BY <1>8, <2>2, <3>1, <3>2 DEF Heeded, T
  <2> QED BY <2>1, <2>2
<1> QED BY <1>9, <1>10, <1>11 DEF Wired

\* The desktop takes a message in: bindings go that it takes away, and starts
\* return that it answers.
LEMMA ReceivedWired ==
  ASSUME NEW h \in HostStore, NEW s \in DeskStore, NEW t \in DeskStore,
         NEW g, NEW m, NEW B, NEW K,
         Settles(s, t, B, K), Wired(h, s, {}), h.toDesktop # <<>>,
         m = Head(h.toDesktop), g.residents = h.residents,
         g.toDesktop = Tail(h.toDesktop),
         \A x \in Bots : x \in B => Ends(m, x, s.hosts[x]),
         \A x \in Bots : m = BotExit(x) => x \in B,
         \A k \in K : Said(m, k)
  PROVE  Wired(g, t, {})
<1> DEFINE Q == s.toHost
           D == h.toDesktop
           E == g.toDesktop
<1>1. /\ t.toHost = Q /\ \A x \in Bots : t.hosts[x] = IF x \in B THEN None ELSE s.hosts[x]
      /\ \A k \in Backends :
           /\ t.backend[k].calls = s.backend[k].calls
           /\ Live(t, k) => Live(s, k) /\ (Heard(t, k) => Heard(s, k) \/ k \in K)
  BY DEF Settles
<1>2. /\ Len(E) \in Nat /\ Len(D) = Len(E) + 1 /\ 1 \in 1..Len(D) /\ D[1] = m
      /\ \A i \in 1..Len(E) : i + 1 \in 1..Len(D) /\ E[i] = D[i + 1]
      /\ \A i \in 1..Len(D) : i # 1 => i - 1 \in 1..Len(E) /\ E[i - 1] = D[i]
  <2>1. D \in Seq(Messages)
    BY StoreFields
  <2> QED BY <2>1, TailIs
<1> HIDE DEF Q, D, E
<1>3. \A c : Known(c, s) => Known(c, t)
  BY <1>1 DEF Known, Controls
<1>4. Sane(g, t)
  <2>0. \A i \in 1..Len(D) : D[i].kind = "answer" => Known(D[i].of, s)
    BY DEF Wired, Sane, D
  <2>1. ASSUME NEW i \in 1..Len(E), E[i].kind = "answer" PROVE Known(E[i].of, t)
    <3>1. i + 1 \in 1..Len(D) /\ E[i] = D[i + 1]
      BY <1>2
    <3>2. Known(D[i + 1].of, s)
      BY <2>0, <2>1, <3>1
    <3> QED BY <1>3, <3>1, <3>2
  <2> QED BY <1>1, <1>3, <2>1 DEF Wired, Sane, Q, E
<1>5. ASSUME NEW x \in Bots PROVE BotWired(g, t, {}, x)
  <2> DEFINE r == h.residents[x]
             y == s.hosts[x]
  <2>1. Served(r, x, y, s) /\ Sent(Q, x, y, r) /\ News(D, Q, x, y, r)
    BY DEF Wired, BotWired, Q, D
  <2>2. CASE x \in B
    <3>1. /\ r = None /\ NoStart(Q, x)
          /\ \A j \in 1..Len(D) : j > 1 => D[j] # BotExit(x)
      BY <1>2, <2>1, <2>2 DEF News
    <3>2. Served(r, x, None, t) /\ Sent(Q, x, None, r)
      BY <3>1 DEF Served, Sent, NoStart
    <3>3. ASSUME NEW i \in 1..Len(E) PROVE ~Ends(E[i], x, None)
      <4>1. i + 1 \in 1..Len(D) /\ i + 1 > 1 /\ E[i] = D[i + 1]
        BY <1>2
      <4> QED BY <3>1, <4>1 DEF Ends, Freed
    <3>4. News(E, Q, x, None, r)
      BY <3>3 DEF News
    <3> QED BY <1>1, <2>2, <3>2, <3>4 DEF BotWired, E
  <2>3. CASE x \notin B
    <3>1. Served(r, x, y, t)
      BY <1>3, <2>1 DEF Served
    <3>2. News(E, Q, x, y, r)
      <4>1. ASSUME NEW i \in 1..Len(E), Ends(E[i], x, y)
            PROVE  /\ r = None /\ y # None /\ NoStart(Q, x)
                   /\ \A j \in 1..Len(E) : j > i => E[j] # BotExit(x)
        <5>1. i + 1 \in 1..Len(D) /\ E[i] = D[i + 1]
          BY <1>2
        <5>2. /\ r = None /\ y # None /\ NoStart(Q, x)
              /\ \A j \in 1..Len(D) : j > i + 1 => D[j] # BotExit(x)
          BY <2>1, <4>1, <5>1 DEF News
        <5>3. \A j \in 1..Len(E) : /\ j + 1 \in 1..Len(D) /\ E[j] = D[j + 1]
                                   /\ j > i => j + 1 > i + 1
          BY <1>2
        <5> QED BY <5>2, <5>3
      <4> QED BY <4>1 DEF News
    <3> QED BY <1>1, <2>1, <2>3, <3>1, <3>2 DEF BotWired, E
  <2> QED BY <2>2, <2>3
<1>6. ASSUME NEW k \in Backends PROVE Heeded(g, t, k)
  <2> DEFINE b == botOf[k]
  <2>1. Heeded(h, s, k) /\ b \in Bots /\ k # None
    BY HostAssumption DEF Wired
  <2>2. ASSUME Live(t, k) PROVE b \notin B
    BY <1>1, <2>1, <2>2 DEF Live
  <2>3. (\E i \in 1..Len(E) : Said(E[i], k)) => \E i \in 1..Len(D) : Said(D[i], k)
    BY <1>2
  <2>4. k \in K => \E i \in 1..Len(D) : Said(D[i], k)
    BY <1>2
  <2>5. Ending(D, b) /\ b \notin B => Ending(E, b)
    <3> SUFFICES ASSUME b \notin B, NEW i \in 1..Len(D), D[i] = BotExit(b)
                 PROVE  Ending(E, b)
      BY DEF Ending
    <3>1. i # 1
      BY <1>2, <2>1
    <3>2. i - 1 \in 1..Len(E) /\ E[i - 1] = BotExit(b)
      BY <1>2, <3>1
    <3> QED BY <3>2 DEF Ending
  <2> QED BY <1>1, <2>1, <2>2, <2>3, <2>4, <2>5 DEF Heeded, Q, D, E
<1> QED BY <1>4, <1>5, <1>6 DEF Wired

\* A timer fires: controls are settled, and nothing else.
LEMMA TimedOutWired ==
  ASSUME NEW h, NEW s \in DeskStore, NEW t \in DeskStore,
         Settles(s, t, {}, {}), Wired(h, s, {})
  PROVE  Wired(h, t, {})
<1>1. /\ t.toHost = s.toHost /\ \A x \in Bots : t.hosts[x] = s.hosts[x]
      /\ \A k \in Backends :
           /\ t.backend[k].calls = s.backend[k].calls
           /\ Live(t, k) => Live(s, k) /\ (Heard(t, k) => Heard(s, k))
  BY DEF Settles
<1>2. \A c : Known(c, s) => Known(c, t)
  BY <1>1 DEF Known, Controls
<1>3. Sane(h, t)
  BY <1>1, <1>2 DEF Wired, Sane
<1>4. ASSUME NEW b \in Bots PROVE BotWired(h, t, {}, b)
  <2>1. BotWired(h, s, {}, b)
    BY DEF Wired
  <2>2. Served(h.residents[b], b, s.hosts[b], t)
    BY <1>2, <2>1 DEF BotWired, Served
  <2> QED BY <1>1, <2>1, <2>2 DEF BotWired
<1>5. ASSUME NEW k \in Backends PROVE Heeded(h, t, k)
  <2>1. Heeded(h, s, k)
    BY DEF Wired
  <2> QED BY <1>1, <2>1 DEF Heeded
<1> QED BY <1>3, <1>4, <1>5 DEF Wired

\* Without workers and messages, and with nobody bound, there is nothing to say.
LEMMA EmptyWired ==
  ASSUME NEW h, NEW s, h.toDesktop = <<>>, s.toHost = <<>>,
         \A b \in Bots : h.residents[b] = None /\ s.hosts[b] = None
  PROVE  Wired(h, s, {})
<1>1. 1..Len(h.toDesktop) = {} /\ 1..Len(s.toHost) = {}
  <2>1. Len(h.toDesktop) = 0 /\ Len(s.toHost) = 0
    BY EmptySeq
  <2> QED BY <2>1
<1>2. \A k \in Backends : botOf[k] \in Bots /\ k # None
  BY HostAssumption
<1>3. \A k \in Backends : ~Live(s, k)
  BY <1>2 DEF Live
<1> QED BY <1>1, <1>3 DEF Wired, Sane, BotWired, Served, Sent, News, Heeded

LEMMA DeskSameWired ==
  ASSUME NEW h, NEW s, NEW t, Wired(h, s, {}), t.hosts = s.hosts, t.toHost = s.toHost,
         t.backend = s.backend
  PROVE  Wired(h, t, {})
<1>1. \A c : Known(c, s) => Known(c, t)
  BY DEF Known
<1>2. \A k : Live(t, k) => Live(s, k) /\ (Heard(t, k) => Heard(s, k))
  BY DEF Live, Heard
<1>3. Sane(h, t)
  BY <1>1 DEF Wired, Sane
<1>4. ASSUME NEW b \in Bots PROVE BotWired(h, t, {}, b)
  <2>1. BotWired(h, s, {}, b)
    BY DEF Wired
  <2>2. Served(h.residents[b], b, s.hosts[b], t)
    BY <1>1, <2>1 DEF BotWired, Served
  <2> QED BY <2>1, <2>2 DEF BotWired
<1>5. ASSUME NEW k \in Backends PROVE Heeded(h, t, k)
  <2>1. Heeded(h, s, k)
    BY DEF Wired
  <2> QED BY <1>2, <2>1 DEF Heeded
<1> QED BY <1>3, <1>4, <1>5 DEF Wired

LEMMA DesktopReceiveWired ==
  ASSUME FleetBonded, DesktopReceive, Wired(Host, Desk, {})
  PROVE  Wired(Host', Desk', {})
<1> DEFINE m == Head(toDesktop)
           h == Host
           g == Host'
           s == Desk
           t == Desk'
<1>1. /\ h \in HostStore /\ s \in DeskStore /\ FleetInv /\ Desk \in Bonded
      /\ h.toDesktop = toDesktop
  BY HostFields DEF FleetBonded, FleetInv, Steady, Hosts, Desks
<1>2. toDesktop # <<>> /\ g.residents = h.residents /\ g.toDesktop = Tail(h.toDesktop)
  BY HostFields DEF DesktopReceive, Host
<1>3. m \in Messages
  <2>1. toDesktop \in Seq(Messages)
    BY <1>1, StoreFields
  <2> QED BY <1>2, <2>1, HeadTailProperties
<1>4. /\ Desk' \in Bonded
      /\ \/ m.kind = "bot-exit" /\ Settles(s, t, {m.bot}, {})
         \/ /\ m.kind = "answer" /\ m.of \in pending /\ m.ok
            /\ Confirms(s, m.of, TRUE)
            /\ Settles(s, t, {botOf[m.of.by]}, {})
         \/ /\ m.kind = "answer"
            /\ Settles(s, t, {}, {k \in Backends : m.ok /\ m.of \in pending
                                                   /\ m.of.op = "start" /\ m.of.by = k})
  BY <1>1, DesktopReceiveBonded
<1>5. t \in DeskStore
  BY <1>4 DEF Bonded, Desks
<1> HIDE DEF g, h, s, t, m
<1>6. m = Head(h.toDesktop) /\ h.toDesktop # <<>> /\ Wired(h, s, {})
  BY <1>1, <1>2 DEF m, h, s
<1>11. ASSUME NEW B, NEW K, Settles(s, t, B, K),
              \A x \in Bots : x \in B => Ends(m, x, s.hosts[x]),
              \A x \in Bots : m = BotExit(x) => x \in B,
              \A k \in K : Said(m, k)
       PROVE  Wired(g, t, {})
  <2>1. /\ h \in HostStore /\ s \in DeskStore /\ t \in DeskStore
        /\ Wired(h, s, {}) /\ h.toDesktop # <<>> /\ m = Head(h.toDesktop)
        /\ g.residents = h.residents /\ g.toDesktop = Tail(h.toDesktop)
    BY <1>1, <1>2, <1>5, <1>6
  <2> QED BY <1>11, <2>1, ReceivedWired
<1>7. CASE m.kind = "bot-exit" /\ Settles(s, t, {m.bot}, {})
  <2>1. m = BotExit(m.bot)
    BY <1>3, <1>7 DEF Messages, BotExit
  <2> DEFINE B == {m.bot}
             K == {}
  <2>2. \A x \in Bots : x \in B => Ends(m, x, s.hosts[x])
    BY <2>1 DEF Ends
  <2>3. \A x \in Bots : m = BotExit(x) => x \in B
    BY DEF BotExit
  <2>4. Settles(s, t, B, K) /\ \A k \in K : Said(m, k)
    BY <1>7
  <2> HIDE DEF B, K
  <2>5. Wired(g, t, {})
    BY <1>11, <2>2, <2>3, <2>4
  <2> QED BY <2>5 DEF g, t
<1>8. ASSUME m.kind = "answer" PROVE \A x \in Bots : m # BotExit(x)
  BY <1>8, ExitIs
<1>9. CASE /\ m.kind = "answer" /\ m.of \in pending /\ m.ok
           /\ Confirms(s, m.of, TRUE)
           /\ Settles(s, t, {botOf[m.of.by]}, {})
  <2> DEFINE B == {botOf[m.of.by]}
             K == {}
  <2>1. \A x \in Bots : x \in B => Ends(m, x, s.hosts[x])
    BY <1>9 DEF Ends, Freed, StopFor, Confirms
  <2>2. \A x \in Bots : m = BotExit(x) => x \in B
    BY <1>8, <1>9
  <2>3. Settles(s, t, B, K) /\ \A k \in K : Said(m, k)
    BY <1>9
  <2> HIDE DEF B, K
  <2>4. Wired(g, t, {})
    BY <1>11, <2>1, <2>2, <2>3
  <2> QED BY <2>4 DEF g, t
<1>10. CASE /\ m.kind = "answer"
            /\ Settles(s, t, {}, {k \in Backends : m.ok /\ m.of \in pending
                                                   /\ m.of.op = "start" /\ m.of.by = k})
  <2> DEFINE K == {k \in Backends : m.ok /\ m.of \in pending
                                    /\ m.of.op = "start" /\ m.of.by = k}
             B == {}
  <2>1. \A k \in K : Said(m, k)
    BY <1>10 DEF Said
  <2>2. Settles(s, t, B, K)
    BY <1>10
  <2>3. /\ \A x \in Bots : x \in B => Ends(m, x, s.hosts[x])
        /\ \A x \in Bots : m = BotExit(x) => x \in B
    BY <1>8, <1>10
  <2> HIDE DEF B, K
  <2>4. Wired(g, t, {})
    BY <1>11, <2>1, <2>2, <2>3
  <2> QED BY <2>4 DEF g, t
<1> QED BY <1>4, <1>7, <1>9, <1>10

FleetWired == FleetBonded /\ Wired(Host, Desk, {})

LEMMA FleetInitWired == FleetInit => FleetWired
<1> SUFFICES ASSUME FleetInit PROVE FleetWired
  OBVIOUS
<1>1. FleetBonded
  BY FleetInitBonded
<1>2. /\ Host.toDesktop = <<>> /\ Desk.toHost = <<>>
      /\ \A b \in Bots : Host.residents[b] = None /\ Desk.hosts[b] = None
  BY HostFields, DeskFieldsNow DEF FleetInit, HostInit
<1> QED BY <1>1, <1>2, EmptyWired DEF FleetWired

LEMMA FleetNextWired == FleetWired /\ [FleetNext]_fleetVars => FleetWired'
<1> SUFFICES ASSUME FleetWired, [FleetNext]_fleetVars PROVE FleetWired'
  OBVIOUS
<1>1. /\ FleetBonded /\ FleetInv /\ Desk \in Bonded /\ Host \in Steady
      /\ Wired(Host, Desk, {})
  BY DEF FleetWired, FleetBonded, FleetInv
<1>2. FleetBonded'
  BY <1>1, FleetNextBonded
<1>3. Desk' \in Bonded /\ Desk \in DeskStore /\ Desk' \in DeskStore
      /\ Host \in HostStore
  BY <1>1, <1>2 DEF FleetBonded, FleetInv, Bonded, Desks, Steady, Hosts
<1>4. ASSUME UNCHANGED OnHost PROVE Host' = Host
  BY <1>4 DEF OnHost, Host
<1>5. CASE UNCHANGED fleetVars
  <2>1. Desk' = Desk /\ Host' = Host
    BY <1>5 DEF fleetVars, hostVars, deskVars, Desk, Host
  <2> QED BY <1>1, <1>2, <2>1 DEF FleetWired
<1>6. ASSUME Quiet(Desk, Desk'), UNCHANGED OnHost PROVE Wired(Host', Desk', {})
  BY <1>1, <1>3, <1>4, <1>6, QuietWired
<1>7. ASSUME NEW b \in Bots, Activate(b) \/ StopBotRuntime(b) \/ Cancelled(b) \/ Update(b)
      PROVE  Wired(Host', Desk', {})
  <2>1. Quiet(Desk, Desk')
    BY <1>1, <1>7, ActivateBonded, StopBotRuntimeBonded, CancelledStep, UpdateBonded
  <2>2. UNCHANGED OnHost
    BY <1>7 DEF Activate, StopBotRuntime, Cancelled, Update
  <2> QED BY <1>6, <2>1, <2>2
<1>8. ASSUME NEW k \in Backends, Continue(k) \/ ExecutionsStopped(k)
      PROVE  Wired(Host', Desk', {})
  <2>1. Quiet(Desk, Desk')
    BY <1>1, <1>8, ContinueBonded, ExecutionsStoppedBonded
  <2>2. UNCHANGED OnHost
    BY <1>8 DEF Continue, ExecutionsStopped
  <2> QED BY <1>6, <2>1, <2>2
<1>9. ASSUME NEW k \in Backends, Prepared(k) PROVE Wired(Host', Desk', {})
  <2>1. Quiet(Desk, Desk') \/ Binds(Desk, Desk', k)
    BY <1>1, <1>9, PreparedStep
  <2>2. UNCHANGED OnHost
    BY <1>9 DEF Prepared
  <2>3. CASE Binds(Desk, Desk', k)
    BY <1>1, <1>3, <1>4, <2>2, <2>3, BindsWired
  <2> QED BY <1>6, <2>1, <2>2, <2>3
<1>10. ASSUME NEW c \in pending, ControlTimesOut(c) PROVE Wired(Host', Desk', {})
  <2>1. Settles(Desk, Desk', {}, {})
    BY <1>1, <1>10, ControlTimesOutBonded
  <2>2. UNCHANGED OnHost
    BY <1>10 DEF ControlTimesOut
  <2> QED BY <1>1, <1>3, <1>4, <2>1, <2>2, TimedOutWired
<1>11. ASSUME HostReceive, UNCHANGED deskVars PROVE Wired(Host', Desk', {})
  <2>1. /\ Desk.toHost = toHost /\ Desk'.toHost = toHost'
        /\ Desk'.hosts = Desk.hosts /\ Desk'.backend = Desk.backend
    BY <1>11, DeskFieldsNow DEF deskVars, Desk
  <2> QED BY <1>1, <1>3, <1>11, <2>1, HostReceiveWired
<1>12. ASSUME NEW b \in Bots, WorkerStep(b), UNCHANGED deskVars
       PROVE  Wired(Host', Desk', {})
  <2>1. UNCHANGED toHost
    BY <1>12 DEF WorkerStep, WorkerReady, WorkerFails, WorkerExits, KillFails
  <2>2. Desk' = Desk
    BY <1>12, <2>1 DEF deskVars, Desk
  <2> QED BY <1>1, <1>3, <1>12, <2>2, WorkerStepWired
<1>13. ASSUME DesktopReceive PROVE Wired(Host', Desk', {})
  BY <1>1, <1>13, DesktopReceiveWired
<1>14. ASSUME EngineLost PROVE Wired(Host', Desk', {})
  <2>1. /\ Host'.toDesktop = <<>> /\ Desk'.toHost = <<>>
        /\ \A b \in Bots : Host'.residents[b] = None /\ Desk'.hosts[b] = None
    BY <1>14 DEF EngineLost, Host, Desk
  <2> QED BY <2>1, EmptyWired
<1>15. ASSUME EngineStarts PROVE Wired(Host', Desk', {})
  <2>1. /\ Host' = Host
        /\ Desk'.hosts = Desk.hosts /\ Desk'.toHost = Desk.toHost
        /\ Desk'.backend = Desk.backend
    BY <1>15 DEF EngineStarts, hostVars, Host, Desk
  <2> QED BY <1>1, <2>1, DeskSameWired
<1> QED BY <1>2, <1>5, <1>7, <1>8, <1>9, <1>10, <1>11, <1>12, <1>13, <1>14, <1>15
        DEF FleetNext, FleetWired

LEMMA WiredAlways == FleetSpec => []FleetWired
BY FleetInitWired, FleetNextWired, PTL DEF FleetSpec

\* A bot has at most one worker and at most one start on its way, and a worker
\* has an owner that will stop it: the registry's backend, to which the client
\* is bound.  No start that was refused, timed out or overtaken by a stop
\* leaves a worker behind, and when the host takes a start in, nothing is left
\* of the worker before, neither booting nor shutting down.
THEOREM AlwaysOneWorker == FleetSpec => []OneWorkerPerBot
<1>1. FleetWired => OneWorkerPerBot
  <2> SUFFICES ASSUME FleetWired PROVE OneWorkerPerBot
    OBVIOUS
  <2> USE DeskFieldsNow, HostFields
  <2>1. Desk \in Bonded /\ Desk \in DeskStore /\ Host \in HostStore /\ Wired(Host, Desk, {})
    BY DEF FleetWired, FleetBonded, FleetInv, Bonded, Desks, Steady, Hosts
  <2>2. \A b \in Bots : hosts[b] \in Maybe /\ (hosts[b] # None => botOf[hosts[b]] = b)
    BY <2>1, DeskFields DEF Bonded, BotKept
  <2>3. \A k \in Backends :
          Bonds(k, backend[k], backends[botOf[k]], hosts[botOf[k]], pending)
    BY <2>1, KeptOf
  <2>4. None \notin Backends /\ \A k \in Backends : botOf[k] \in Bots
    BY HostAssumption
  <2>5. ASSUME NEW b \in Bots, residents[b] # None
        PROVE  /\ backends[b] = residents[b].by
               /\ hosts[b] = residents[b].by
               /\ backend[residents[b].by].owner
    <3>1. residents[b].by = hosts[b]
      BY <2>1, <2>5 DEF Wired, BotWired, Served
    <3>2. residents[b].by \in Backends
      BY <2>1, <2>5, StoreFields, ResidentFields
    <3>3. botOf[residents[b].by] = b
      BY <2>2, <2>4, <3>1, <3>2
    <3> QED BY <2>3, <3>1, <3>2, <3>3 DEF Bonds
  <2>6. ASSUME toHost # <<>>, Head(toHost).op = "start"
        PROVE  residents[botOf[Head(toHost).by]] = None
    <3> DEFINE c == Head(toHost)
               T == Tail(toHost)
    <3>1. c = Head(Desk.toHost) /\ T = Tail(Desk.toHost) /\ Desk.toHost # <<>>
      BY <2>6
    <3>2. c.op = "start"
      BY <2>6
    <3> HIDE DEF c, T
    <3>3. Host.residents[botOf[c.by]] = None
      BY <2>1, <3>1, <3>2, HeadIs
    <3> QED BY <3>3 DEF c
  <2>7. ASSUME NEW k \in Backends, hosts[botOf[k]] # None, backend[k].owner
        PROVE  hosts[botOf[k]] = k
    <3> DEFINE j == hosts[botOf[k]]
    <3>1. j \in Backends /\ botOf[j] = botOf[k]
      BY <2>2, <2>4, <2>7 DEF Maybe
    <3>2. backends[botOf[k]] = j
      BY <2>3, <3>1 DEF Bonds
    <3>3. backends[botOf[k]] = k
      BY <2>3, <2>7 DEF Bonds
    <3> QED BY <3>2, <3>3
  <2> QED BY <2>5, <2>6, <2>7 DEF OneWorkerPerBot
<1> QED BY <1>1, WiredAlways, PTL

\* A bot that is shown ready has its own worker listening, or the news of the
\* worker's end is already on its way, or its stop has begun: no late answer,
\* exit or confirmed stop of an earlier worker makes or leaves a bot ready
\* that nobody serves.
THEOREM ReadyAlwaysListens == FleetSpec => []ReadyMeansListening
<1>1. FleetWired => ReadyMeansListening
  <2> SUFFICES ASSUME FleetWired, NEW k \in Backends, Idle, backend[k].phase = "ready"
               PROVE  /\ backends[botOf[k]] = k
                      /\ hosts[botOf[k]] = k
                      /\ \/ Leaving(botOf[k])
                         \/ /\ residents[botOf[k]] # None
                            /\ residents[botOf[k]].by = k /\ residents[botOf[k]].settled
                         \/ backend[k].stop # "none"
    BY DEF ReadyMeansListening
  <2> DEFINE b == botOf[k]
  <2> USE DeskFieldsNow, HostFields
  <2>1. Desk \in Bonded /\ Desk \in DeskStore /\ Host \in HostStore /\ Wired(Host, Desk, {})
    BY DEF FleetWired, FleetBonded, FleetInv, Bonded, Desks, Steady, Hosts
  <2>2. /\ Bonds(k, backend[k], backends[b], hosts[b], pending)
        /\ Shown(k, backend[k], hosts[b]) /\ b \in Bots
        /\ backend[k].moved \in BOOLEAN
    BY <2>1, KeptOf, BackendFields
  <2>3. backend[k].stop # "confirmed"
    BY DEF Idle, Due
  <2>4. hosts[b] = k /\ backends[b] = k
    BY <2>2, <2>3 DEF Shown, Bonds
  <2>5. ASSUME backend[k].stop = "none"
        PROVE  \/ Leaving(b)
               \/ residents[b] # None /\ residents[b].by = k /\ residents[b].settled
    <3>1. Live(Desk, k) /\ Heard(Desk, k)
      BY <2>2, <2>4, <2>5 DEF Shown, Live, Heard
    <3>2. Heeded(Host, Desk, k) /\ BotWired(Host, Desk, {}, b)
      BY <2>1, <2>2 DEF Wired
    <3>3. Ending(toDesktop, b) \/ (residents[b] # None /\ residents[b].settled)
      BY <3>1, <3>2 DEF Heeded
    <3>4. residents[b] # None => residents[b].by = k
      BY <2>4, <3>2 DEF BotWired, Served
    <3>5. Ending(toDesktop, b) => Leaving(b)
      <4>1. toDesktop \in Seq(Messages)
        BY <2>1, StoreFields
      <4>2. DOMAIN toDesktop = 1..Len(toDesktop)
        BY <4>1, LenProperties
      <4> QED BY <4>2 DEF Ending, Leaving, Range
    <3> QED BY <3>3, <3>4, <3>5
  <2> QED BY <2>4, <2>5
<1> QED BY <1>1, WiredAlways, PTL
=============================================================================
