---------------------- MODULE ExecutionAdmissionProofs ----------------------
(***************************************************************************)
(* Safety of the execution admission, for every fleet, set of claims and   *)
(* limits.  The invariant is stated of a store (a record of all variables) *)
(* so that it can be carried through the passes of drain().                *)
(***************************************************************************)
EXTENDS ExecutionAdmission, SequenceLemmas, TLAPS

StoreType ==
  [leases : SUBSET Claims, pending : [Bots -> Seq(Claims)],
   botOrder : Seq(Bots), pendingCount : Int, promise : [Claims -> Outcomes]]

\* What the grants so far must satisfy for the table to be within its policy.
PolicyHolds(ls) ==
  /\ IsFiniteSet(ls)
  /\ Cardinality(ls) <= MaxConcurrent
  /\ \A b \in Bots : Cardinality(OfBot(b, ls)) <= MaxPerBotActive
  /\ Cardinality(Automatic(ls)) <= MaxAutomaticAcp
  /\ \A c, d \in ls : c # d => ~Conflicting(c, d)
  /\ \A c, d \in ls : c # d => runOf[c] # runOf[d]

QueuesShort(p) == \A b \in Bots : Len(p[b]) <= MaxPendingPerBot

SafeStores ==
  {s \in StoreType : PolicyHolds(s.leases) /\ QueuesShort(s.pending)}

\* The inductive invariant: the variables form a safe store.
Safe == Store \in SafeStores

-----------------------------------------------------------------------------
\* Overlap of mutation roots does not depend on the order they are given in.
LEMMA ConflictingSymmetric ==
  ASSUME NEW c, NEW d, Conflicting(c, d) PROVE Conflicting(d, c)
BY DEF Conflicting, RootsOverlap

\* One more element adds at most one to the size of a set.
LEMMA OneMore ==
  ASSUME NEW S, IsFiniteSet(S), NEW x
  PROVE  /\ IsFiniteSet(S \cup {x})
         /\ Cardinality(S) \in Nat
         /\ Cardinality(S \cup {x}) \in Nat
         /\ Cardinality(S \cup {x}) <= Cardinality(S) + 1
<1>1. Cardinality(S) \in Nat
  BY FS_CardinalityType
<1>2. /\ IsFiniteSet(S \cup {x})
      /\ Cardinality(S \cup {x}) = IF x \in S THEN Cardinality(S) ELSE Cardinality(S) + 1
  BY FS_AddElement
<1> QED BY <1>1, <1>2

\* A grant that check() allows keeps the table within its policy.
LEMMA GrantKeepsPolicy ==
  ASSUME NEW ls \in SUBSET Claims, PolicyHolds(ls),
         NEW c \in Claims, Admissible(c, ls)
  PROVE  PolicyHolds(ls \cup {c})
<1> DEFINE new == ls \cup {c}
<1> USE DEF PolicyHolds
<1>1. IsFiniteSet(new) /\ Cardinality(new) <= Cardinality(ls) + 1
  BY OneMore
<1>2. Cardinality(ls) \in Nat /\ Cardinality(new) \in Nat
  BY OneMore
<1>3. Cardinality(new) <= MaxConcurrent
  BY <1>1, <1>2, LimitsAssumption DEF Admissible, TotalFull
<1>4. ASSUME NEW b \in Bots
      PROVE  Cardinality(OfBot(b, new)) <= MaxPerBotActive
  <2>1. IsFiniteSet(OfBot(b, ls)) /\ Cardinality(OfBot(b, ls)) \in Nat
    BY FS_Subset, FS_CardinalityType DEF OfBot
  <2>2. CASE botOf[c] # b
    <3>1. OfBot(b, new) = OfBot(b, ls)
      BY <2>2 DEF OfBot
    <3> QED BY <3>1
  <2>3. CASE botOf[c] = b
    <3>1. OfBot(b, new) = OfBot(b, ls) \cup {c}
      BY <2>3 DEF OfBot
    <3>2. /\ Cardinality(OfBot(b, new)) <= Cardinality(OfBot(b, ls)) + 1
          /\ Cardinality(OfBot(b, new)) \in Nat
      BY <2>1, <3>1, OneMore
    <3>4. ~ (Cardinality(OfBot(b, ls)) >= MaxPerBotActive)
      BY <2>3 DEF Admissible, BotFull
    <3> QED BY <2>1, <3>2, <3>4, LimitsAssumption
  <2> QED BY <2>2, <2>3
<1>5. Cardinality(Automatic(new)) <= MaxAutomaticAcp
  <2>1. IsFiniteSet(Automatic(ls)) /\ Cardinality(Automatic(ls)) \in Nat
    BY FS_Subset, FS_CardinalityType DEF Automatic
  <2>2. CASE kindOf[c] # "automatic-acp"
    <3>1. Automatic(new) = Automatic(ls)
      BY <2>2 DEF Automatic
    <3> QED BY <3>1
  <2>3. CASE kindOf[c] = "automatic-acp"
    <3>1. Automatic(new) = Automatic(ls) \cup {c}
      BY <2>3 DEF Automatic
    <3>2. /\ Cardinality(Automatic(new)) <= Cardinality(Automatic(ls)) + 1
          /\ Cardinality(Automatic(new)) \in Nat
      BY <2>1, <3>1, OneMore
    <3>4. ~ (Cardinality(Automatic(ls)) >= MaxAutomaticAcp)
      BY <2>3 DEF Admissible, AutomaticFull
    <3> QED BY <2>1, <3>2, <3>4, LimitsAssumption
  <2> QED BY <2>2, <2>3
<1>6. \A d \in ls : ~Conflicting(c, d) /\ ~Conflicting(d, c)
  BY ConflictingSymmetric DEF Admissible, RootTaken
<1>7. \A d \in ls : runOf[d] # runOf[c]
  BY DEF Admissible, RunHeld
<1> QED BY <1>1, <1>3, <1>4, <1>5, <1>6, <1>7

\* Giving leases back keeps it there too.
LEMMA SubsetKeepsPolicy ==
  ASSUME NEW ls, PolicyHolds(ls), NEW new \in SUBSET ls
  PROVE  PolicyHolds(new)
<1> USE DEF PolicyHolds
<1>1. IsFiniteSet(new) /\ Cardinality(new) <= Cardinality(ls)
  BY FS_Subset
<1>2. Cardinality(new) <= MaxConcurrent
  BY <1>1, FS_CardinalityType, LimitsAssumption
<1>3. ASSUME NEW b \in Bots
      PROVE  Cardinality(OfBot(b, new)) <= MaxPerBotActive
  <2>1. OfBot(b, new) \in SUBSET OfBot(b, ls) /\ OfBot(b, ls) \in SUBSET ls
    BY DEF OfBot
  <2>2. IsFiniteSet(OfBot(b, ls))
    BY <2>1, FS_Subset
  <2>3. Cardinality(OfBot(b, new)) <= Cardinality(OfBot(b, ls))
        /\ IsFiniteSet(OfBot(b, new))
    BY <2>1, <2>2, FS_Subset
  <2> QED BY <2>2, <2>3, FS_CardinalityType, LimitsAssumption
<1>4. Cardinality(Automatic(new)) <= MaxAutomaticAcp
  <2>1. Automatic(new) \in SUBSET Automatic(ls) /\ Automatic(ls) \in SUBSET ls
    BY DEF Automatic
  <2>2. IsFiniteSet(Automatic(ls))
    BY <2>1, FS_Subset
  <2>3. Cardinality(Automatic(new)) <= Cardinality(Automatic(ls))
        /\ IsFiniteSet(Automatic(new))
    BY <2>1, <2>2, FS_Subset
  <2> QED BY <2>2, <2>3, FS_CardinalityType, LimitsAssumption
<1> QED BY <1>1, <1>2, <1>3, <1>4

-----------------------------------------------------------------------------
\* What membership in SafeStores gives, field by field.
LEMMA SafeStoreFields ==
  ASSUME NEW s \in SafeStores
  PROVE  /\ s.leases \in SUBSET Claims
         /\ s.pending \in [Bots -> Seq(Claims)]
         /\ s.botOrder \in Seq(Bots)
         /\ s.pendingCount \in Int
         /\ s.promise \in [Claims -> Outcomes]
         /\ PolicyHolds(s.leases)
         /\ QueuesShort(s.pending)
BY DEF SafeStores, StoreType

\* A safe store stays safe when one field changes to a good value.
LEMMA SetLeases ==
  ASSUME NEW s \in SafeStores, NEW l \in SUBSET Claims, PolicyHolds(l)
  PROVE  [s EXCEPT !.leases = l] \in SafeStores
BY DEF SafeStores, StoreType

LEMMA SetPending ==
  ASSUME NEW s \in SafeStores, NEW b \in Bots, NEW q \in Seq(Claims),
         Len(q) <= MaxPendingPerBot
  PROVE  [s EXCEPT !.pending[b] = q] \in SafeStores
<1>1. [s.pending EXCEPT ![b] = q] \in [Bots -> Seq(Claims)]
  BY SafeStoreFields
<1>2. QueuesShort([s.pending EXCEPT ![b] = q])
  BY SafeStoreFields DEF QueuesShort
<1> QED BY <1>1, <1>2 DEF SafeStores, StoreType

LEMMA SetOrder ==
  ASSUME NEW s \in SafeStores, NEW o \in Seq(Bots)
  PROVE  [s EXCEPT !.botOrder = o] \in SafeStores
BY DEF SafeStores, StoreType

LEMMA SetCount ==
  ASSUME NEW s \in SafeStores, NEW n \in Int
  PROVE  [s EXCEPT !.pendingCount = n] \in SafeStores
BY DEF SafeStores, StoreType

LEMMA SetPromise ==
  ASSUME NEW s \in SafeStores, NEW c \in Claims, NEW o \in Outcomes
  PROVE  [s EXCEPT !.promise[c] = o] \in SafeStores
<1>1. [s.promise EXCEPT ![c] = o] \in [Claims -> Outcomes]
  BY SafeStoreFields
<1> QED BY <1>1 DEF SafeStores, StoreType

\* Taking a claim off its queue keeps a store safe.
LEMMA RemovePendingSafe ==
  ASSUME NEW s \in SafeStores, NEW c \in Claims
  PROVE  /\ RemovePending(s, c) \in SafeStores
         /\ RemovePending(s, c).leases = s.leases
<1> DEFINE b == botOf[c]
           rest == RemoveFirst(s.pending[b], c)
           order == IF rest = <<>> THEN RemoveFirst(s.botOrder, b) ELSE s.botOrder
           s1 == [s EXCEPT !.pending[b] = rest]
           s2 == [s1 EXCEPT !.pendingCount = s.pendingCount - 1]
           s3 == [s2 EXCEPT !.botOrder = order]
<1>1. b \in Bots
  BY ClaimsAssumption
<1>2. rest \in Seq(Claims) /\ Len(rest) <= MaxPendingPerBot
  <2>1. s.pending[b] \in Seq(Claims) /\ Len(s.pending[b]) <= MaxPendingPerBot
    BY <1>1, SafeStoreFields DEF QueuesShort
  <2>2. rest \in Seq(Claims) /\ Len(rest) <= Len(s.pending[b])
    BY <2>1, RemoveFirstType
  <2>3. Len(rest) \in Nat /\ Len(s.pending[b]) \in Nat
    BY <2>1, <2>2, LenProperties
  <2> HIDE DEF rest
  <2> QED BY <2>1, <2>2, <2>3, LimitsAssumption
<1>3. order \in Seq(Bots) /\ s.pendingCount - 1 \in Int
  BY SafeStoreFields, RemoveFirstType
<1>4. s \in StoreType
  BY DEF SafeStores
<1>5. RemovePending(s, c) = s3
  BY <1>4 DEF RemovePending, StoreType
<1> HIDE DEF rest, order, b
<1>6. s1 \in SafeStores
  BY <1>1, <1>2, SetPending
<1>7. s2 \in SafeStores
  BY <1>3, <1>6, SetCount
<1>8. s3 \in SafeStores
  BY <1>3, <1>7, SetOrder
<1>9. s3.leases = s.leases
  BY <1>4 DEF StoreType
<1> QED BY <1>5, <1>8, <1>9

\* An allowed grant keeps a store safe.
LEMMA GrantSafe ==
  ASSUME NEW s \in SafeStores, NEW c \in Claims, Admissible(c, s.leases)
  PROVE  Grant(s, c) \in SafeStores
<1> DEFINE s1 == [s EXCEPT !.leases = s.leases \cup {c}]
<1>1. PolicyHolds(s.leases \cup {c}) /\ s.leases \cup {c} \in SUBSET Claims
  BY SafeStoreFields, GrantKeepsPolicy
<1>2. s1 \in SafeStores
  BY <1>1, SetLeases
<1>3. s \in StoreType
  BY DEF SafeStores
<1>4. Grant(s, c) = [s1 EXCEPT !.promise[c] = "accepted"]
  BY <1>3 DEF Grant, StoreType
<1> HIDE DEF s1
<1>5. "accepted" \in Outcomes
  BY DEF Outcomes
<1> QED BY <1>2, <1>4, <1>5, SetPromise

\* Rotating the order of service keeps it an order of bots.
LEMMA RotateType ==
  ASSUME NEW order \in Seq(Bots), NEW b \in Bots
  PROVE  Rotate(order, b) \in Seq(Bots)
<1>1. RemoveFirst(order, b) \in Seq(Bots)
  BY RemoveFirstType
<1> QED BY <1>1, AppendProperties DEF Rotate

\* One pass of the drain loop keeps a store safe: the claim it grants passed
\* check() against the very leases it joins.
LEMMA DrainPassSafe ==
  ASSUME NEW s \in SafeStores
  PROVE  DrainPass(s) \in SafeStores
<1>1. CASE Servable(s) = {}
  BY <1>1 DEF DrainPass
<1>2. CASE Servable(s) # {}
  <2> DEFINE i == Min(Servable(s))
             b == NextServed(s)
             c == First(s.pending[b])
             granted == Grant(RemovePending(s, c), c)
  <2>1. s.botOrder \in Seq(Bots) /\ Servable(s) \subseteq Nat
    BY SafeStoreFields DEF Servable
  <2>2. i \in Servable(s)
    BY <1>2, <2>1, LeastExists DEF Min
  <2>3. /\ b \in Bots
        /\ s.pending[b] # <<>>
        /\ Admissible(c, s.leases)
    BY <2>1, <2>2, LenProperties DEF Servable, NextServed
  <2>4. c \in Claims
    BY <2>3, SafeStoreFields, HeadTailProperties DEF First
  <2> HIDE DEF i, b, c
  <2>5. granted \in SafeStores
    BY <2>3, <2>4, RemovePendingSafe, GrantSafe
  <2>6. Rotate(granted.botOrder, b) \in Seq(Bots)
    BY <2>3, <2>5, SafeStoreFields, RotateType
  <2>7. DrainPass(s) = [granted EXCEPT !.botOrder = Rotate(@, b)]
    BY <1>2 DEF DrainPass, b, c
  <2> HIDE DEF granted
  <2> QED BY <2>5, <2>6, <2>7, SetOrder
<1> QED BY <1>1, <1>2

\* The function that Drain(s) defines exists.
LEMMA PassesExist ==
  ASSUME NEW s \in SafeStores
  PROVE  \E g \in [Nat -> SUBSET SafeStores] :
           g = [n \in Nat |-> IF n = 0 THEN {s} ELSE {DrainPass(t) : t \in g[n - 1]}]
<1> DEFINE T == SUBSET SafeStores
           step == [X \in T |-> {DrainPass(t) : t \in X}]
           s0 == {s}
<1>1. step \in [T -> T]
  BY DrainPassSafe
<1>2. s0 \in T
  OBVIOUS
<1>3. PICK g \in [Nat -> T] : g[0] = s0 /\ \A n \in Nat \ {0} : g[n] = step[g[n - 1]]
  <2> HIDE DEF T, step, s0
  <2> QED BY <1>1, <1>2, IterationExists
<1>4. ASSUME NEW n \in Nat, n # 0
      PROVE  g[n] = {DrainPass(t) : t \in g[n - 1]}
  <2>1. g[n - 1] \in T /\ g[n] = step[g[n - 1]]
    <3> HIDE DEF T, step
    <3>1. n \in Nat \ {0} /\ n - 1 \in Nat
      BY <1>4
    <3> QED BY <1>3, <3>1
  <2> QED BY <2>1
<1> HIDE DEF step
<1> QED BY <1>3, <1>4

\* What holds before the drain, and after n + 1 passes if after n, holds when
\* it is over.
LEMMA DrainWithin ==
  ASSUME NEW G \in [Nat -> SUBSET SafeStores], NEW s \in G[0],
         \A n \in Nat : \A t \in G[n] : DrainPass(t) \in G[n + 1]
  PROVE  Drain(s) \subseteq G[MaxPending]
<1> DEFINE rec(g) == [n \in Nat |->
                        IF n = 0 THEN {s} ELSE {DrainPass(t) : t \in g[n - 1]}]
           passes == CHOOSE g : g = rec(g)
<1>1. Drain(s) = passes[MaxPending]
  BY DEF Drain
<1>2. s \in SafeStores
  OBVIOUS
<1>3. \E g : g = rec(g)
  BY <1>2, PassesExist
<1>4. passes = rec(passes)
  BY <1>3
<1> HIDE DEF passes
<1>5. \A n \in Nat : n \in {k \in Nat : passes[k] \subseteq G[k]}
  <2> DEFINE N == {k \in Nat : passes[k] \subseteq G[k]}
  <2>1. 0 \in N
    BY <1>4
  <2>2. ASSUME NEW n \in Nat, n \in N PROVE n + 1 \in N
    <3>1. passes[n + 1] = {DrainPass(t) : t \in passes[n]}
      BY <1>4
    <3> QED BY <2>2, <3>1
  <2> HIDE DEF N
  <2>3. \A n \in Nat : n \in N
    BY <2>1, <2>2, SetInduction
  <2> QED BY <2>3 DEF N
<1> QED BY <1>1, <1>5, LimitsAssumption

\* So does the whole drain, however many grants it makes.
LEMMA DrainSafe ==
  ASSUME NEW s \in SafeStores
  PROVE  Drain(s) \subseteq SafeStores
<1> DEFINE G == [n \in Nat |-> SafeStores]
<1>1. G \in [Nat -> SUBSET SafeStores] /\ s \in G[0]
  OBVIOUS
<1>2. \A n \in Nat : \A t \in G[n] : DrainPass(t) \in G[n + 1]
  BY DrainPassSafe
<1>3. G[MaxPending] = SafeStores
  BY LimitsAssumption
<1> HIDE DEF G
<1> QED BY <1>1, <1>2, <1>3, DrainWithin

-----------------------------------------------------------------------------
\* A step that takes over a safe store ends in a safe state.
LEMMA BecomeSafe ==
  ASSUME NEW s \in SafeStores, Become(s) PROVE Safe'
<1>1. [leases |-> s.leases, pending |-> s.pending, botOrder |-> s.botOrder,
       pendingCount |-> s.pendingCount, promise |-> s.promise] \in SafeStores
  BY DEF SafeStores, StoreType
<1> QED BY <1>1 DEF Become, Safe, Store

LEMMA BecomeDrainedSafe ==
  ASSUME NEW s \in SafeStores, BecomeOneOf(Drain(s)) PROVE Safe'
<1>1. PICK t \in Drain(s) : Become(t)
  BY DEF BecomeOneOf
<1>2. t \in SafeStores
  BY DrainSafe
<1> QED BY <1>1, <1>2, BecomeSafe

\* The fields of the store are the variables.
LEMMA StoreFields ==
  /\ Store.leases = leases
  /\ Store.pending = pending
  /\ Store.botOrder = botOrder
  /\ Store.pendingCount = pendingCount
  /\ Store.promise = promise
BY DEF Store

LEMMA SettleSafe ==
  ASSUME Safe, NEW c \in Claims, NEW o \in Outcomes, Settle(c, o)
  PROVE  Safe'
<1>1. [Store EXCEPT !.promise[c] = o] \in SafeStores
  BY SetPromise DEF Safe
<1>2. Become([Store EXCEPT !.promise[c] = o])
  BY DEF Become, Store, Settle
<1> QED BY <1>1, <1>2, BecomeSafe

\* A claim joins a queue that has room for it.
LEMMA EnqueueSafe ==
  ASSUME Safe, NEW c \in Claims, ~QueueFull(c)
  PROVE  Enqueue(Store, c) \in SafeStores
<1> DEFINE b == botOf[c]
           q == Append(pending[b], c)
           order == IF pending[b] = <<>> THEN Append(botOrder, b) ELSE botOrder
           s1 == [Store EXCEPT !.pending[b] = q]
           s2 == [s1 EXCEPT !.botOrder = order]
           s3 == [s2 EXCEPT !.pendingCount = pendingCount + 1]
           s4 == [s3 EXCEPT !.promise[c] = "waiting"]
<1> USE StoreFields DEF Safe
<1>1. b \in Bots /\ pending[b] \in Seq(Claims) /\ botOrder \in Seq(Bots)
  BY SafeStoreFields, ClaimsAssumption
<1>2. q \in Seq(Claims) /\ Len(q) = Len(pending[b]) + 1 /\ Len(pending[b]) \in Nat
  BY <1>1, AppendProperties, LenProperties
<1>3. Len(q) <= MaxPendingPerBot
  BY <1>2, LimitsAssumption DEF QueueFull
<1>4. order \in Seq(Bots)
  BY <1>1, AppendProperties
<1>5. pendingCount + 1 \in Int
  BY SafeStoreFields
<1>6. Enqueue(Store, c) = s4
  BY DEF Enqueue, Store
<1> HIDE DEF b, q, order
<1>7. s1 \in SafeStores
  BY <1>1, <1>2, <1>3, SetPending
<1>8. s2 \in SafeStores
  BY <1>4, <1>7, SetOrder
<1>9. s3 \in SafeStores
  BY <1>5, <1>8, SetCount
<1>10. "waiting" \in Outcomes
  BY DEF Outcomes
<1>11. s4 \in SafeStores
  BY <1>9, <1>10, SetPromise
<1> QED BY <1>6, <1>11

LEMMA WithdrawSafe ==
  ASSUME Safe, NEW c \in Claims, NEW o \in Outcomes, Withdraw(c, o)
  PROVE  Safe'
<1>1. RemovePending(Store, c) \in SafeStores
  BY RemovePendingSafe DEF Safe
<1>2. [RemovePending(Store, c) EXCEPT !.promise[c] = o] \in SafeStores
  BY <1>1, SetPromise
<1> QED BY <1>2, BecomeDrainedSafe DEF Withdraw

LEMMA ReleaseSafe ==
  ASSUME Safe, NEW c \in Claims, Release(c)
  PROVE  Safe'
<1> DEFINE done == [Store EXCEPT !.promise[c] = "idle"]
           freed == [done EXCEPT !.leases = @ \ {c}]
<1>1. done \in SafeStores
  <2>1. "idle" \in Outcomes
    BY DEF Outcomes
  <2> QED BY <2>1, SetPromise DEF Safe
<1>2. CASE c \notin leases
  BY <1>1, <1>2, BecomeSafe DEF Release
<1>3. CASE c \in leases
  <2>1. BecomeOneOf(Drain(freed))
    BY <1>3 DEF Release
  <2> HIDE DEF done
  <2>2. done.leases \ {c} \in SUBSET Claims /\ PolicyHolds(done.leases \ {c})
    <3>1. done.leases \in SUBSET Claims /\ PolicyHolds(done.leases)
      BY <1>1, SafeStoreFields
    <3> QED BY <3>1, SubsetKeepsPolicy
  <2>3. freed \in SafeStores
    BY <1>1, <2>2, SetLeases
  <2> QED BY <2>1, <2>3, BecomeDrainedSafe
<1> QED BY <1>2, <1>3

\* What releaseBot() leaves to drain() is safe.
LEMMA ReleaseBotStoreSafe ==
  ASSUME Safe, NEW b \in Bots
  PROVE  [leases |-> leases \ OfBot(b, leases),
          pending |-> [pending EXCEPT ![b] = <<>>],
          botOrder |-> RemoveFirst(botOrder, b),
          pendingCount |-> pendingCount - Len(pending[b]),
          promise |-> [c \in Claims |->
                         IF c \in Waiting(b) THEN "bot_stopped" ELSE promise[c]]]
           \in SafeStores
<1> DEFINE l == leases \ OfBot(b, leases)
           p == [pending EXCEPT ![b] = <<>>]
           o == RemoveFirst(botOrder, b)
           n == pendingCount - Len(pending[b])
           m == [c \in Claims |->
                   IF c \in Waiting(b) THEN "bot_stopped" ELSE promise[c]]
<1> USE StoreFields DEF Safe
<1>1. l \in SUBSET Claims /\ PolicyHolds(l)
  BY SafeStoreFields, SubsetKeepsPolicy
<1>2. p \in [Bots -> Seq(Claims)]
  BY SafeStoreFields, EmptySeq
<1>3. QueuesShort(p)
  BY SafeStoreFields, EmptySeq, LimitsAssumption DEF QueuesShort
<1>4. o \in Seq(Bots)
  BY SafeStoreFields, RemoveFirstType
<1>5. n \in Int
  BY SafeStoreFields, LenProperties
<1>6. m \in [Claims -> Outcomes]
  BY SafeStoreFields DEF Outcomes
<1> HIDE DEF l, p, o, n, m
<1>7. [leases |-> l, pending |-> p, botOrder |-> o, pendingCount |-> n,
       promise |-> m] \in SafeStores
  BY <1>1, <1>2, <1>3, <1>4, <1>5, <1>6 DEF SafeStores, StoreType
<1> QED BY <1>7 DEF l, p, o, n, m

LEMMA ReleaseBotSafe ==
  ASSUME Safe, NEW b \in Bots, ReleaseBot(b)
  PROVE  Safe'
BY ReleaseBotStoreSafe, BecomeDrainedSafe DEF ReleaseBot

\* A desktop write is granted by the same check(), past the queues.
LEMMA ClaimSafe ==
  ASSUME Safe, NEW c \in Claims, Claim(c)
  PROVE  Safe'
<1>1. CASE Admissible(c, leases)
  <2>1. Grant(Store, c) \in SafeStores
    BY <1>1, StoreFields, GrantSafe DEF Safe
  <2> QED BY <1>1, <2>1, BecomeSafe DEF Claim
<1>2. CASE ~Admissible(c, leases)
  <2>1. FirstRefusal(c, leases) \in Outcomes
    BY DEF FirstRefusal, Outcomes
  <2> QED BY <1>2, <2>1, SettleSafe DEF Claim
<1> QED BY <1>1, <1>2

LEMMA AcquireSafe ==
  ASSUME Safe, NEW c \in Claims, Acquire(c)
  PROVE  Safe'
<1>1. CASE Settle(c, "run_exists") \/ Settle(c, "queue_full")
  BY <1>1, SettleSafe DEF Outcomes
<1>2. CASE ~QueueFull(c) /\ BecomeOneOf(Drain(Enqueue(Store, c)))
  BY <1>2, EnqueueSafe, BecomeDrainedSafe
<1> QED BY <1>1, <1>2 DEF Acquire

\* No action leaves the safe states.
LEMMA StepSafe == Safe /\ [Next]_vars => Safe'
<1> SUFFICES ASSUME Safe, [Next]_vars PROVE Safe'
  OBVIOUS
<1>1. ASSUME NEW c \in Claims, Claim(c) PROVE Safe'
  BY <1>1, ClaimSafe
<1>2. ASSUME NEW c \in Claims, AcquireAborted(c) PROVE Safe'
  BY <1>2, SettleSafe DEF AcquireAborted, Outcomes
<1>3. ASSUME NEW c \in Claims, Acquire(c) PROVE Safe'
  BY <1>3, AcquireSafe
<1>4. ASSUME NEW c \in Claims, Expire(c) \/ Abort(c) PROVE Safe'
  BY <1>4, WithdrawSafe DEF Expire, Abort, Outcomes
<1>5. ASSUME NEW c \in Claims, Release(c) PROVE Safe'
  BY <1>5, ReleaseSafe
<1>6. ASSUME NEW b \in Bots, ReleaseBot(b) PROVE Safe'
  BY <1>6, ReleaseBotSafe
<1>7. CASE UNCHANGED vars
  BY <1>7 DEF vars, Safe, Store
<1> QED BY <1>1, <1>2, <1>3, <1>4, <1>5, <1>6, <1>7 DEF Next

LEMMA InitSafe == Init => Safe
<1> SUFFICES ASSUME Init PROVE Safe
  OBVIOUS
<1>1. PolicyHolds({})
  <2>1. Cardinality({}) = 0 /\ IsFiniteSet({})
    BY FS_EmptySet
  <2>2. Automatic({}) = {} /\ \A b \in Bots : OfBot(b, {}) = {}
    BY DEF Automatic, OfBot
  <2> QED BY <2>1, <2>2, LimitsAssumption DEF PolicyHolds
<1>2. pending \in [Bots -> Seq(Claims)] /\ QueuesShort(pending)
  BY EmptySeq, LimitsAssumption DEF Init, QueuesShort
<1>3. botOrder \in Seq(Bots) /\ pendingCount \in Int
  BY EmptySeq DEF Init
<1>4. promise \in [Claims -> Outcomes]
  BY DEF Init, Outcomes
<1>5. leases = {}
  BY DEF Init
<1> QED BY <1>1, <1>2, <1>3, <1>4, <1>5 DEF Safe, Store, SafeStores, StoreType

\* Every reachable state is safe.
THEOREM SafeAlways == Spec => []Safe
BY InitSafe, StepSafe, PTL DEF Spec

-----------------------------------------------------------------------------
\* The tables, queues and promises keep their types and the per-bot queue its
\* length, whatever the fleet, the claims and the limits.
THEOREM TypeCorrect == Spec => []TypeOK
<1>1. Safe => TypeOK
  BY StoreFields, SafeStoreFields DEF Safe, TypeOK, PolicyHolds, QueuesShort
<1> QED BY <1>1, SafeAlways, PTL

\* The lease table never exceeds the total, per-bot or automatic-ACP limit.
THEOREM LimitsCorrect == Spec => []LimitsHold
<1>1. Safe => LimitsHold
  BY StoreFields, SafeStoreFields DEF Safe, LimitsHold, PolicyHolds
<1> QED BY <1>1, SafeAlways, PTL

\* No run ever holds two leases.
THEOREM RunExclusiveCorrect == Spec => []RunExclusive
<1>1. Safe => RunExclusive
  BY StoreFields, SafeStoreFields DEF Safe, RunExclusive, PolicyHolds
<1> QED BY <1>1, SafeAlways, PTL

\* Two writers never hold roots that overlap as rootsOverlap computes it.
THEOREM MutationExclusionCorrect == Spec => []MutationExclusion
<1>1. Safe => MutationExclusion
  BY StoreFields, SafeStoreFields DEF Safe, MutationExclusion, PolicyHolds
<1> QED BY <1>1, SafeAlways, PTL

\* While no folder name begins with "..", the computed overlap is containment.
LEMMA PrefixesOverlap ==
  ASSUME NEW Segments,
         NEW a \in Seq(Segments \ DotNames), NEW b \in Seq(Segments \ DotNames),
         IsPrefix(a, b)
  PROVE  RootsOverlap(a, b)
<1>1. Len(a) \in Nat /\ Len(b) \in Nat /\ Len(a) <= Len(b)
  BY LenProperties DEF IsPrefix
<1>2. CASE a = b
  BY <1>2 DEF RootsOverlap
<1>3. CASE a # b
  <2>1. SubSeq(a, 1, Len(a)) = a /\ SubSeq(b, 1, Len(b)) = b
    BY SubSeqFull
  <2>2. Len(a) # Len(b)
    BY <1>3, <2>1 DEF IsPrefix
  <2>3. Len(a) + 1 \in 1..Len(b)
    BY <1>1, <2>2
  <2>4. b[Len(a) + 1] \notin DotNames
    BY <2>3, LenProperties
  <2> QED BY <1>3, <2>4 DEF RootsOverlap, Inside, IsStrictPrefix
<1> QED BY <1>2, <1>3

\* In such a fleet two leases that may write never share a folder: neither
\* root is, contains or lies within the other.
THEOREM WritersDisjointCorrect ==
  ASSUME NEW Segments,
         \A c \in Claims :
           rootOf[c] # NoRoot => rootOf[c] \in Seq(Segments \ DotNames)
  PROVE  Spec => []WritersDisjoint
<1>1. ASSUME Safe PROVE WritersDisjoint
  <2>1. SUFFICES ASSUME NEW c \in leases, NEW d \in leases, c # d,
                        rootOf[c] # NoRoot, rootOf[d] # NoRoot,
                        IsPrefix(rootOf[c], rootOf[d])
                 PROVE  FALSE
    BY DEF WritersDisjoint
  <2>2. c \in Claims /\ d \in Claims /\ ~Conflicting(d, c)
    BY <1>1, <2>1, StoreFields, SafeStoreFields DEF Safe, PolicyHolds
  <2>3. RootsOverlap(rootOf[c], rootOf[d])
    BY <2>1, <2>2, PrefixesOverlap
  <2> QED BY <2>1, <2>2, <2>3 DEF Conflicting
<1> QED BY <1>1, SafeAlways, PTL
=============================================================================
