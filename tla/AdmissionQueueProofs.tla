------------------------ MODULE AdmissionQueueProofs ------------------------
(***************************************************************************)
(* The waiting queues of the execution admission, for every fleet, set of  *)
(* claims and limits: that the records of who waits agree and drain() goes *)
(* as far as it can, that it serves claims and bots in order, and that all *)
(* of it amounts to the lease table callers are promised.                  *)
(***************************************************************************)
EXTENDS ExecutionAdmissionProofs

WaitingIn(s) == {c \in Claims : s.promise[c] = "waiting"}

\* The records of who waits agree, in a store, and no lease is without a grant.
Queued(s) ==
  /\ \A c \in Claims, b \in Bots :
       Contains(s.pending[b], c) <=> s.promise[c] = "waiting" /\ b = botOf[c]
  /\ \A b \in Bots : IsInjective(s.pending[b])
  /\ IsInjective(s.botOrder)
  /\ \A b \in Bots : Contains(s.botOrder, b) <=> s.pending[b] # <<>>
  /\ IsFiniteSet(WaitingIn(s))
  /\ s.pendingCount = Cardinality(WaitingIn(s))
  /\ s.pendingCount <= MaxPending
  /\ \A c \in s.leases : s.promise[c] = "accepted"

GoodStores == {s \in SafeStores : Queued(s)}

\* No bot's first waiting claim could be admitted.
AtRest(s) ==
  \A b \in Bots :
    s.pending[b] # <<>> => ~Admissible(Head(s.pending[b]), s.leases)

\* The inductive invariant of the queues.
Orderly == Store \in GoodStores /\ AtRest(Store)

-----------------------------------------------------------------------------
\* A claim check() allows beside some leases it allows beside fewer.
LEMMA AdmissibleBesideFewer ==
  ASSUME NEW ms, IsFiniteSet(ms), NEW ls \in SUBSET ms, NEW c, Admissible(c, ms)
  PROVE  Admissible(c, ls)
<1> USE DEF Admissible
<1>1. ~RunHeld(c, ls) /\ ~RootTaken(c, ls)
  BY DEF RunHeld, RootTaken
<1>2. ~TotalFull(c, ls)
  <2>1. /\ Cardinality(ls) <= Cardinality(ms)
        /\ Cardinality(ls) \in Nat /\ Cardinality(ms) \in Nat
    BY FS_Subset, FS_CardinalityType
  <2> QED BY <2>1, LimitsAssumption DEF TotalFull
<1>3. ~BotFull(c, ls)
  <2>1. OfBot(botOf[c], ls) \in SUBSET OfBot(botOf[c], ms)
        /\ OfBot(botOf[c], ms) \in SUBSET ms
    BY DEF OfBot
  <2>2. /\ Cardinality(OfBot(botOf[c], ls)) <= Cardinality(OfBot(botOf[c], ms))
        /\ Cardinality(OfBot(botOf[c], ls)) \in Nat
        /\ Cardinality(OfBot(botOf[c], ms)) \in Nat
    BY <2>1, FS_Subset, FS_CardinalityType
  <2> QED BY <2>2, LimitsAssumption DEF BotFull
<1>4. ~AutomaticFull(c, ls)
  <2>1. Automatic(ls) \in SUBSET Automatic(ms) /\ Automatic(ms) \in SUBSET ms
    BY DEF Automatic
  <2>2. /\ Cardinality(Automatic(ls)) <= Cardinality(Automatic(ms))
        /\ Cardinality(Automatic(ls)) \in Nat
        /\ Cardinality(Automatic(ms)) \in Nat
    BY <2>1, FS_Subset, FS_CardinalityType
  <2> QED BY <2>2, LimitsAssumption DEF AutomaticFull
<1> QED BY <1>1, <1>2, <1>3, <1>4

\* What membership in GoodStores gives.
LEMMA GoodStoreFields ==
  ASSUME NEW s \in GoodStores
  PROVE  /\ s \in SafeStores
         /\ Queued(s)
         /\ \A b \in Bots : s.pending[b] \in Seq(Claims)
         /\ s.botOrder \in Seq(Bots)
         /\ \A c \in Claims : s.promise[c] \in Outcomes /\ botOf[c] \in Bots
         /\ \A c \in WaitingIn(s) : c \in Claims /\ Contains(s.pending[botOf[c]], c)
         /\ s.pendingCount \in Nat
         /\ s.leases \subseteq Claims
         /\ \A c \in WaitingIn(s) : c \notin s.leases
<1>1. s \in SafeStores /\ Queued(s)
  BY DEF GoodStores
<1>2. \A c \in Claims : botOf[c] \in Bots
  BY ClaimsAssumption
<1>3. s.pendingCount \in Nat
  BY <1>1, FS_CardinalityType DEF Queued
<1>4. \A c \in WaitingIn(s) : c \in Claims /\ Contains(s.pending[botOf[c]], c)
  BY <1>1, <1>2 DEF Queued, WaitingIn
<1>5. \A c \in WaitingIn(s) : c \notin s.leases
  BY <1>1 DEF Queued, WaitingIn
<1> QED BY <1>1, <1>2, <1>3, <1>4, <1>5, SafeStoreFields

\* What taking a waiting claim off its queue changes.
LEMMA RemovePendingFields ==
  ASSUME NEW s \in SafeStores, NEW c \in Claims
  PROVE  LET b == botOf[c]
             rest == RemoveFirst(s.pending[b], c)
             t == RemovePending(s, c)
         IN /\ t.leases = s.leases
            /\ t.promise = s.promise
            /\ t.pendingCount = s.pendingCount - 1
            /\ t.pending[b] = rest
            /\ \A a \in Bots \ {b} : t.pending[a] = s.pending[a]
            /\ t.botOrder = IF rest = <<>> THEN RemoveFirst(s.botOrder, b)
                                           ELSE s.botOrder
<1>1. s \in StoreType /\ botOf[c] \in Bots
  BY ClaimsAssumption DEF SafeStores
<1>2. RemovePending(s, c).pending =
        [s.pending EXCEPT ![botOf[c]] = RemoveFirst(s.pending[botOf[c]], c)]
  BY <1>1 DEF RemovePending, StoreType
<1>3. s.pending \in [Bots -> Seq(Claims)]
  BY SafeStoreFields
<1>4. /\ RemovePending(s, c).leases = s.leases
      /\ RemovePending(s, c).promise = s.promise
      /\ RemovePending(s, c).pendingCount = s.pendingCount - 1
  BY <1>1 DEF RemovePending, StoreType
<1>5. RemovePending(s, c).botOrder =
        IF RemoveFirst(s.pending[botOf[c]], c) = <<>>
        THEN RemoveFirst(s.botOrder, botOf[c]) ELSE s.botOrder
  BY <1>1 DEF RemovePending, StoreType
<1> QED BY <1>1, <1>2, <1>3, <1>4, <1>5

\* A waiting claim taken off its queue and answered leaves the records agreed.
LEMMA UnqueueKeepsQueued ==
  ASSUME NEW s \in GoodStores, NEW c \in WaitingIn(s), NEW o \in Outcomes \ {"waiting"},
         NEW t,
         t.pending = RemovePending(s, c).pending,
         t.botOrder = RemovePending(s, c).botOrder,
         t.pendingCount = RemovePending(s, c).pendingCount,
         t.promise = [s.promise EXCEPT ![c] = o],
         \A d \in t.leases : d \in s.leases \/ (d = c /\ o = "accepted")
  PROVE  Queued(t)
<1> DEFINE b == botOf[c]
           rest == RemoveFirst(s.pending[b], c)
<1>0. /\ c \in Claims /\ b \in Bots /\ s \in SafeStores /\ Queued(s)
      /\ s.promise[c] = "waiting" /\ Contains(s.pending[b], c)
      /\ s.promise \in [Claims -> Outcomes] /\ s.pendingCount \in Nat
      /\ \A a \in Bots : s.pending[a] \in Seq(Claims)
      /\ s.botOrder \in Seq(Bots)
  BY GoodStoreFields, SafeStoreFields DEF WaitingIn
<1>1. /\ t.pendingCount = s.pendingCount - 1
      /\ t.pending[b] = rest
      /\ \A a \in Bots \ {b} : t.pending[a] = s.pending[a]
      /\ t.botOrder = IF rest = <<>> THEN RemoveFirst(s.botOrder, b) ELSE s.botOrder
  BY <1>0, RemovePendingFields
<1>2. /\ rest \in Seq(Claims) /\ IsInjective(rest)
      /\ \A x : Contains(rest, x) <=> Contains(s.pending[b], x) /\ x # c
  BY <1>0, RemoveFirstType, RemoveFirstOnce DEF Queued
<1>3. /\ IsInjective(t.botOrder)
      /\ \A a \in Bots :
           Contains(t.botOrder, a) <=> Contains(s.botOrder, a) /\ (a # b \/ rest # <<>>)
  <2>1. /\ IsInjective(RemoveFirst(s.botOrder, b))
        /\ \A a : Contains(RemoveFirst(s.botOrder, b), a) <=> Contains(s.botOrder, a) /\ a # b
    BY <1>0, RemoveFirstOnce DEF Queued
  <2>2. IsInjective(s.botOrder)
    BY <1>0 DEF Queued
  <2> HIDE DEF rest
  <2> QED BY <1>1, <2>1, <2>2
<1>4. \A d \in Claims : t.promise[d] = IF d = c THEN o ELSE s.promise[d]
  BY <1>0
<1> HIDE DEF rest
<1>5. ASSUME NEW d \in Claims, NEW a \in Bots
      PROVE  Contains(t.pending[a], d) <=> t.promise[d] = "waiting" /\ a = botOf[d]
  <2>1. Contains(s.pending[a], d) <=> s.promise[d] = "waiting" /\ a = botOf[d]
    BY <1>0 DEF Queued
  <2>2. CASE a = b
    BY <1>1, <1>2, <1>4, <2>1, <2>2
  <2>3. CASE a # b
    BY <1>1, <1>4, <2>1, <2>3
  <2> QED BY <2>2, <2>3
<1>6. ASSUME NEW a \in Bots PROVE IsInjective(t.pending[a])
  BY <1>0, <1>1, <1>2 DEF Queued
<1>7. ASSUME NEW a \in Bots PROVE Contains(t.botOrder, a) <=> t.pending[a] # <<>>
  <2>1. Contains(s.botOrder, a) <=> s.pending[a] # <<>>
    BY <1>0 DEF Queued
  <2>2. s.pending[b] # <<>>
    BY <1>0, ContainsEmpty
  <2> QED BY <1>1, <1>3, <2>1, <2>2
<1>8. /\ IsFiniteSet(WaitingIn(t))
      /\ Cardinality(WaitingIn(t)) = Cardinality(WaitingIn(s)) - 1
  <2>1. WaitingIn(t) = WaitingIn(s) \ {c}
    BY <1>0, <1>4 DEF WaitingIn
  <2>2. IsFiniteSet(WaitingIn(s))
    BY <1>0 DEF Queued
  <2> QED BY <2>1, <2>2, FS_RemoveElement
<1>9. /\ t.pendingCount = Cardinality(WaitingIn(t))
      /\ t.pendingCount <= MaxPending
  BY <1>0, <1>1, <1>8, LimitsAssumption DEF Queued
<1>10. ASSUME NEW d \in t.leases PROVE t.promise[d] = "accepted"
  <2>1. CASE d = c /\ o = "accepted"
    BY <1>0, <1>4, <2>1
  <2>2. CASE d \in s.leases
    <3>1. d \in Claims /\ s.promise[d] = "accepted" /\ d # c
      BY <1>0, <2>2, SafeStoreFields DEF Queued
    <3> QED BY <1>4, <3>1
  <2> QED BY <2>1, <2>2
<1> QED BY <1>3, <1>5, <1>6, <1>7, <1>8, <1>9, <1>10 DEF Queued

-----------------------------------------------------------------------------
(* One pass of drain() *)

\* The order of service keeps its members.
LEMMA RotateOnce ==
  ASSUME NEW order \in Seq(Bots), IsInjective(order), NEW b \in Bots
  PROVE  /\ IsInjective(Rotate(order, b))
         /\ \A x : Contains(Rotate(order, b), x) <=> Contains(order, x)
<1>1. CASE ~Contains(order, b)
  BY <1>1 DEF Rotate
<1>2. CASE Contains(order, b)
  <2> DEFINE q == RemoveFirst(order, b)
  <2>1. /\ q \in Seq(Bots) /\ IsInjective(q)
        /\ \A x : Contains(q, x) <=> Contains(order, x) /\ x # b
    BY RemoveFirstType, RemoveFirstOnce
  <2>2. Rotate(order, b) = Append(q, b)
    BY <1>2 DEF Rotate
  <2> HIDE DEF q
  <2>3. /\ IsInjective(Append(q, b))
        /\ \A x : Contains(Append(q, b), x) <=> Contains(q, x) \/ x = b
    BY <2>1, AppendOnce
  <2> QED BY <1>2, <2>1, <2>2, <2>3
<1> QED BY <1>1, <1>2

\* Whom a pass serves, c of bot b, and what it leaves in t.
Serves(s, t, b, c) ==
  /\ s.pending[b] # <<>> /\ c = Head(s.pending[b])
  /\ c \in WaitingIn(s) /\ botOf[c] = b
  /\ Contains(s.botOrder, b)
  /\ Admissible(c, s.leases)
  /\ \A a \in Bots :
       Before(s.botOrder, a, b) => ~Admissible(Head(s.pending[a]), s.leases)
  /\ t.leases = s.leases \cup {c}
  /\ t.promise = [s.promise EXCEPT ![c] = "accepted"]
  /\ t.pendingCount = s.pendingCount - 1
  /\ t.pending[b] = RemoveFirst(s.pending[b], c)
  /\ \A a \in Bots \ {b} : t.pending[a] = s.pending[a]
  /\ t.botOrder = Rotate(IF t.pending[b] = <<>> THEN RemoveFirst(s.botOrder, b)
                                                ELSE s.botOrder, b)

\* A pass serves the first claim of the first bot it can, or nobody.
LEMMA PassServes ==
  ASSUME NEW s \in GoodStores, Servable(s) # {}
  PROVE  \E b \in Bots, c \in Claims : Serves(s, DrainPass(s), b, c)
<1> DEFINE I == Servable(s)
           i == Min(I)
           b == NextServed(s)
           c == First(s.pending[b])
           removed == RemovePending(s, c)
           granted == Grant(removed, c)
           t == DrainPass(s)
<1>0. /\ s \in SafeStores /\ Queued(s)
      /\ s.botOrder \in Seq(Bots) /\ Len(s.botOrder) \in Nat
      /\ \A j \in 1..Len(s.botOrder) : s.botOrder[j] \in Bots
      /\ \A a \in Bots : s.pending[a] \in Seq(Claims)
      /\ s.promise \in [Claims -> Outcomes]
  BY GoodStoreFields, SafeStoreFields, ElementOfSeq
<1>1. I \subseteq Nat
  BY <1>0 DEF Servable
<1>2. i \in I /\ \A j \in I : i <= j
  BY <1>1, LeastExists DEF Min
<1>3. i \in 1..Len(s.botOrder) /\ b = s.botOrder[i] /\ b \in Bots
  BY <1>0, <1>2 DEF Servable, NextServed
<1>4. s.pending[b] # <<>> /\ Admissible(c, s.leases)
  BY <1>2, <1>3 DEF Servable
<1>5. c = Head(s.pending[b]) /\ c \in Claims /\ Contains(s.pending[b], c)
  BY <1>0, <1>3, <1>4, HeadFacts DEF First
<1>6. c \in WaitingIn(s) /\ botOf[c] = b
  BY <1>0, <1>3, <1>5 DEF Queued, WaitingIn
<1>7. Contains(s.botOrder, b)
  BY <1>3 DEF Contains
<1>8. ASSUME NEW a \in Bots, Before(s.botOrder, a, b)
      PROVE  ~Admissible(Head(s.pending[a]), s.leases)
  <2>1. PICK j \in 1..Len(s.botOrder), k \in 1..Len(s.botOrder) :
           j < k /\ s.botOrder[j] = a /\ s.botOrder[k] = b
    BY <1>8 DEF Before
  <2>2. k = i
    <3>1. IsInjective(s.botOrder) /\ DOMAIN s.botOrder = 1..Len(s.botOrder)
      BY <1>0 DEF Queued
    <3> QED BY <1>3, <2>1, <3>1 DEF IsInjective
  <2>3. j \notin I
    BY <1>0, <1>2, <1>3, <2>1, <2>2
  <2>4. s.pending[a] # <<>>
    BY <1>0, <2>1 DEF Queued, Contains
  <2> QED BY <2>1, <2>3, <2>4 DEF Servable, First
<1>9. t = [granted EXCEPT !.botOrder = Rotate(granted.botOrder, b)]
  BY DEF DrainPass
<1> HIDE DEF I, i, b, c
<1>10. /\ removed \in SafeStores
       /\ removed.leases = s.leases /\ removed.promise = s.promise
       /\ removed.pendingCount = s.pendingCount - 1
       /\ removed.pending[b] = RemoveFirst(s.pending[b], c)
       /\ \A a \in Bots \ {b} : removed.pending[a] = s.pending[a]
       /\ removed.botOrder = IF removed.pending[b] = <<>>
                             THEN RemoveFirst(s.botOrder, b) ELSE s.botOrder
  BY <1>0, <1>5, <1>6, RemovePendingSafe, RemovePendingFields
<1> HIDE DEF removed
<1>11. removed \in StoreType
  BY <1>10 DEF SafeStores
<1>12. /\ granted \in StoreType
       /\ granted.leases = s.leases \cup {c}
       /\ granted.promise = [s.promise EXCEPT ![c] = "accepted"]
       /\ granted.pendingCount = removed.pendingCount
       /\ granted.pending = removed.pending
       /\ granted.botOrder = removed.botOrder
  <2>1. /\ granted.leases = removed.leases \cup {c}
        /\ granted.promise = [removed.promise EXCEPT ![c] = "accepted"]
        /\ granted.pendingCount = removed.pendingCount
        /\ granted.pending = removed.pending
        /\ granted.botOrder = removed.botOrder
    BY <1>11 DEF Grant, StoreType
  <2>2. granted \in SafeStores
    BY <1>4, <1>5, <1>10, GrantSafe
  <2> QED BY <1>10, <2>1, <2>2 DEF SafeStores
<1> HIDE DEF granted
<1>13. /\ t.leases = granted.leases /\ t.promise = granted.promise
       /\ t.pendingCount = granted.pendingCount /\ t.pending = granted.pending
       /\ t.botOrder = Rotate(granted.botOrder, b)
  BY <1>9, <1>12 DEF StoreType
<1> HIDE DEF t
<1>14. Serves(s, t, b, c)
  BY <1>4, <1>5, <1>6, <1>7, <1>8, <1>10, <1>12, <1>13 DEF Serves
<1> QED BY <1>3, <1>5, <1>14 DEF t

\* A pass keeps the records agreed.
LEMMA PassGood ==
  ASSUME NEW s \in GoodStores, NEW t \in SafeStores,
         NEW b \in Bots, NEW c \in Claims, Serves(s, t, b, c)
  PROVE  t \in GoodStores
<1> DEFINE removed == RemovePending(s, c)
           u == [leases |-> t.leases, pending |-> removed.pending,
                 botOrder |-> removed.botOrder,
                 pendingCount |-> removed.pendingCount, promise |-> t.promise]
<1>0. /\ s \in SafeStores /\ Queued(s) /\ botOf[c] = b /\ c \in WaitingIn(s)
      /\ s.botOrder \in Seq(Bots) /\ IsInjective(s.botOrder)
  BY GoodStoreFields DEF Serves, Queued
<1>1. Queued(u)
  <2>1. "accepted" \in Outcomes \ {"waiting"}
    BY DEF Outcomes
  <2>2. u.promise = [s.promise EXCEPT ![c] = "accepted"]
        /\ u.leases = s.leases \cup {c}
    BY DEF Serves
  <2>3. /\ u.pending = removed.pending /\ u.botOrder = removed.botOrder
        /\ u.pendingCount = removed.pendingCount
    OBVIOUS
  <2> HIDE DEF u
  <2> QED BY <1>0, <2>1, <2>2, <2>3, UnqueueKeepsQueued
<1>2. /\ t.pendingCount = u.pendingCount
      /\ \A a \in Bots : t.pending[a] = u.pending[a]
      /\ t.leases = u.leases /\ t.promise = u.promise
      /\ t.botOrder = Rotate(u.botOrder, b)
  BY <1>0, RemovePendingFields DEF Serves
<1>3. u.botOrder \in Seq(Bots)
  BY <1>0, RemovePendingSafe, SafeStoreFields
<1> HIDE DEF u
<1>4. /\ IsInjective(t.botOrder)
      /\ \A x : Contains(t.botOrder, x) <=> Contains(u.botOrder, x)
  BY <1>1, <1>2, <1>3, RotateOnce DEF Queued
<1>5. WaitingIn(t) = WaitingIn(u)
  BY <1>2 DEF WaitingIn
<1>6. Queued(t)
  BY <1>1, <1>2, <1>4, <1>5 DEF Queued
<1> QED BY <1>6 DEF GoodStores

-----------------------------------------------------------------------------
(* The whole drain *)

\* The leases that t has and s had not, of bot b.
Served(s, t, b) == OfBot(b, t.leases \ s.leases)

\* What any number of passes from s to t have done.  A claim gets its lease with
\* its answer, or stays as it was.  In each queue the order of arrival is kept:
\* whoever still waits stands before those it stood before.  A queue that is
\* changed got shorter.  A bot that was not served keeps its place before those
\* it stood before; and if one of them was served, the first claim of the bot
\* not served could not be admitted beside the other leases.
Drained(s, t) ==
  /\ t \in GoodStores
  /\ s.leases \subseteq t.leases
  /\ \A c \in Claims :
       \/ t.promise[c] = s.promise[c] /\ (c \in t.leases <=> c \in s.leases)
       \/ s.promise[c] = "waiting" /\ t.promise[c] = "accepted" /\ c \in t.leases
  /\ \A b \in Bots : \A c, d :
       Before(s.pending[b], c, d) /\ Contains(t.pending[b], c)
         => Before(t.pending[b], c, d)
  /\ \A b \in Bots :
       t.pending[b] = s.pending[b] \/ Len(t.pending[b]) < Len(s.pending[b])
  /\ \A a, b \in Bots :
       /\ Before(s.botOrder, a, b)
       /\ t.pending[a] = s.pending[a]
       => /\ Contains(t.botOrder, b) => Before(t.botOrder, a, b)
          /\ Served(s, t, b) # {}
               => ~Admissible(Head(s.pending[a]), t.leases \ Served(s, t, b))

LEMMA NothingDrained ==
  ASSUME NEW s \in GoodStores PROVE Drained(s, s)
BY DEF Drained, Served, OfBot

\* Whoever stands after another is not the first, in a sequence that holds
\* each member once.
LEMMA HeadIsBefore ==
  ASSUME NEW S, NEW q \in Seq(S), IsInjective(q), NEW c, NEW d, Before(q, c, d)
  PROVE  d # Head(q) /\ c # d /\ Contains(q, c) /\ Contains(q, d) /\ q # <<>>
<1>1. PICK i \in 1..Len(q), j \in 1..Len(q) : i < j /\ q[i] = c /\ q[j] = d
  BY DEF Before
<1>2. Len(q) \in Nat /\ DOMAIN q = 1..Len(q)
  OBVIOUS
<1>3. q # <<>>
  BY <1>1, <1>2
<1>4. Head(q) = q[1] /\ 1 \in 1..Len(q)
  BY <1>3, HeadFacts
<1>5. j # 1 /\ i # j
  BY <1>1, <1>2
<1> QED BY <1>1, <1>2, <1>3, <1>4, <1>5 DEF IsInjective, Contains

\* One more pass.
LEMMA PassDrained ==
  ASSUME NEW s \in GoodStores, NEW t, Drained(s, t),
         NEW u \in GoodStores, NEW e \in Bots, NEW c \in Claims, Serves(t, u, e, c)
  PROVE  Drained(s, u)
<1>0. t \in GoodStores
  BY DEF Drained
<1>1. /\ Queued(t) /\ c \in WaitingIn(t) /\ c \notin t.leases
      /\ \A b \in Bots : t.pending[b] \in Seq(Claims) /\ IsInjective(t.pending[b])
      /\ t.botOrder \in Seq(Bots) /\ IsInjective(t.botOrder)
      /\ t.promise \in [Claims -> Outcomes] /\ t.promise[c] = "waiting"
  <2>1. c \in WaitingIn(t)
    BY DEF Serves
  <2>2. t \in SafeStores /\ Queued(t)
    BY <1>0, GoodStoreFields
  <2>3. t.promise \in [Claims -> Outcomes]
    BY <2>2, SafeStoreFields
  <2>4. /\ c \notin t.leases /\ t.botOrder \in Seq(Bots)
        /\ \A b \in Bots : t.pending[b] \in Seq(Claims)
    BY <1>0, <2>1, GoodStoreFields
  <2> QED BY <2>1, <2>2, <2>3, <2>4 DEF Queued, WaitingIn
<1>2. /\ u.pending[e] = RemoveFirst(t.pending[e], c)
      /\ \A b \in Bots \ {e} : u.pending[b] = t.pending[b]
      /\ c = Head(t.pending[e]) /\ t.pending[e] # <<>> /\ botOf[c] = e
      /\ u.leases = t.leases \cup {c}
  BY DEF Serves
<1>3. /\ Contains(t.pending[e], c)
      /\ IsInjective(u.pending[e])
      /\ \A x : Contains(u.pending[e], x) <=> Contains(t.pending[e], x) /\ x # c
  BY <1>1, <1>2, HeadFacts, RemoveFirstOnce
<1>4. Len(u.pending[e]) < Len(t.pending[e])
  <2>1. Len(u.pending[e]) = Len(t.pending[e]) - 1 /\ Len(t.pending[e]) \in Nat
    BY <1>1, <1>2, <1>3, RemoveFirstShape
  <2> QED BY <2>1
<1>5. ASSUME NEW d \in Claims
      PROVE  \/ u.promise[d] = s.promise[d] /\ (d \in u.leases <=> d \in s.leases)
             \/ s.promise[d] = "waiting" /\ u.promise[d] = "accepted" /\ d \in u.leases
  <2>1. u.promise[d] = IF d = c THEN "accepted" ELSE t.promise[d]
    BY <1>1 DEF Serves
  <2>2. \/ t.promise[d] = s.promise[d] /\ (d \in t.leases <=> d \in s.leases)
        \/ s.promise[d] = "waiting" /\ t.promise[d] = "accepted" /\ d \in t.leases
    BY DEF Drained
  <2> QED BY <1>1, <1>2, <2>1, <2>2
<1>6. ASSUME NEW b \in Bots, NEW x, NEW y, Before(s.pending[b], x, y),
             Contains(u.pending[b], x)
      PROVE  Before(u.pending[b], x, y)
  <2>1. Contains(t.pending[b], x)
    BY <1>2, <1>3, <1>6
  <2>2. Before(t.pending[b], x, y)
    BY <1>6, <2>1 DEF Drained
  <2>3. CASE b # e
    BY <1>2, <2>2, <2>3
  <2>4. CASE b = e
    <3>1. x # c /\ y # c
      BY <1>1, <1>2, <1>3, <1>6, <2>2, <2>4, HeadIsBefore
    <3> QED BY <1>1, <1>2, <2>2, <2>4, <3>1, RemoveFirstBefore
  <2> QED BY <2>3, <2>4
<1>7. ASSUME NEW b \in Bots
      PROVE  u.pending[b] = s.pending[b] \/ Len(u.pending[b]) < Len(s.pending[b])
  <2>1. t.pending[b] = s.pending[b] \/ Len(t.pending[b]) < Len(s.pending[b])
    BY DEF Drained
  <2>2. CASE b # e
    BY <1>2, <2>1, <2>2
  <2>3. CASE b = e
    <3>1. /\ Len(s.pending[b]) \in Nat /\ Len(t.pending[b]) \in Nat
          /\ Len(u.pending[b]) \in Nat
      BY <1>1, GoodStoreFields, LenProperties
    <3> QED BY <1>4, <2>1, <2>3, <3>1
  <2> QED BY <2>2, <2>3
\* A bot that no pass has served.
<1>8. ASSUME NEW a \in Bots, u.pending[a] = s.pending[a]
      PROVE  t.pending[a] = s.pending[a] /\ a # e
  <2>1. t.pending[a] = s.pending[a] \/ Len(t.pending[a]) < Len(s.pending[a])
    BY DEF Drained
  <2>2. Len(s.pending[a]) \in Nat /\ Len(t.pending[a]) \in Nat
    BY <1>1, GoodStoreFields, LenProperties
  <2>3. CASE a = e
    BY <1>4, <1>8, <2>1, <2>2, <2>3
  <2>4. CASE a # e
    BY <1>2, <1>8, <2>4
  <2> QED BY <2>3, <2>4
<1>9. ASSUME NEW a \in Bots, NEW b \in Bots, Before(s.botOrder, a, b),
             u.pending[a] = s.pending[a], Contains(u.botOrder, b)
      PROVE  Before(u.botOrder, a, b)
  <2>1. t.pending[a] = s.pending[a] /\ a # e
    BY <1>8, <1>9
  <2>2. Contains(t.botOrder, b)
    <3>1. u.pending[b] # <<>>
      BY <1>9, GoodStoreFields DEF Queued
    <3>2. t.pending[b] # <<>>
      BY <1>2, <3>1
    <3> QED BY <1>1, <3>2 DEF Queued
  <2>3. Before(t.botOrder, a, b)
    BY <1>9, <2>1, <2>2 DEF Drained
  <2> DEFINE rest == RemoveFirst(t.botOrder, e)
  <2>4. /\ rest \in Seq(Bots)
        /\ \A x : Contains(rest, x) <=> Contains(t.botOrder, x) /\ x # e
    BY <1>1, RemoveFirstType, RemoveFirstOnce
  <2>5. Contains(t.botOrder, a)
    BY <1>1, <2>3, HeadIsBefore
  <2>6. CASE u.pending[e] = <<>>
    <3>1. u.botOrder = rest
      BY <2>4, <2>6 DEF Serves, Rotate
    <3>2. b # e
      BY <1>9, <2>4, <3>1
    <3> QED BY <1>1, <2>1, <2>3, <3>1, <3>2, RemoveFirstBefore
  <2>7. CASE u.pending[e] # <<>>
    <3>1. u.botOrder = Append(rest, e)
      BY <2>7 DEF Serves, Rotate
    <3>2. CASE b = e
      <4>1. Contains(rest, a)
        BY <2>1, <2>4, <2>5
      <4> HIDE DEF rest
      <4> QED BY <2>4, <3>1, <3>2, <4>1, AppendBefore
    <3>3. CASE b # e
      <4>1. Before(rest, a, b)
        BY <1>1, <2>1, <2>3, <3>3, RemoveFirstBefore
      <4> HIDE DEF rest
      <4> QED BY <2>4, <3>1, <4>1, AppendBefore
    <3> QED BY <3>2, <3>3
  <2> QED BY <2>6, <2>7
<1>10. ASSUME NEW a \in Bots, NEW b \in Bots, Before(s.botOrder, a, b),
              u.pending[a] = s.pending[a], Served(s, u, b) # {}
       PROVE  ~Admissible(Head(s.pending[a]), u.leases \ Served(s, u, b))
  <2>1. t.pending[a] = s.pending[a] /\ a # e
    BY <1>8, <1>10
  <2>2. IsFiniteSet(u.leases)
    BY GoodStoreFields, SafeStoreFields DEF PolicyHolds
  <2>3. CASE Served(s, t, b) # {}
    <3>1. ~Admissible(Head(s.pending[a]), t.leases \ Served(s, t, b))
      BY <1>10, <2>1, <2>3 DEF Drained
    <3>2. t.leases \ Served(s, t, b) \subseteq u.leases \ Served(s, u, b)
      BY <1>1, <1>2 DEF Served, OfBot
    <3>3. IsFiniteSet(u.leases \ Served(s, u, b))
      BY <2>2, FS_Subset
    <3> QED BY <3>1, <3>2, <3>3, AdmissibleBesideFewer
  <2>4. CASE Served(s, t, b) = {}
    <3>1. b = e /\ Served(s, u, b) = {c}
      BY <1>1, <1>2, <1>10, <2>4 DEF Served, OfBot
    <3>2. u.leases \ Served(s, u, b) = t.leases
      BY <1>1, <1>2, <3>1
    <3>3. Before(t.botOrder, a, b)
      <4>1. Contains(t.botOrder, b)
        BY <3>1 DEF Serves
      <4> QED BY <1>10, <2>1, <4>1 DEF Drained
    <3>4. ~Admissible(Head(t.pending[a]), t.leases)
      BY <3>1, <3>3 DEF Serves
    <3> QED BY <2>1, <3>2, <3>4
  <2> QED BY <2>3, <2>4
<1>11. s.leases \subseteq u.leases
  BY <1>2 DEF Drained
<1> QED BY <1>5, <1>6, <1>7, <1>9, <1>10, <1>11 DEF Drained

\* A store with nobody waiting serves nobody.
LEMMA NobodyWaits ==
  ASSUME NEW s \in GoodStores, s.pendingCount = 0 PROVE Servable(s) = {}
<1>1. WaitingIn(s) = {}
  BY GoodStoreFields, FS_EmptySet DEF Queued
<1>2. ASSUME NEW b \in Bots PROVE s.pending[b] = <<>>
  <2>1. SUFFICES ASSUME s.pending[b] # <<>> PROVE FALSE
    OBVIOUS
  <2>2. s.pending[b] \in Seq(Claims) /\ Queued(s)
    BY GoodStoreFields
  <2>3. /\ Head(s.pending[b]) \in Claims
        /\ Contains(s.pending[b], Head(s.pending[b]))
    BY <2>1, <2>2, HeadFacts
  <2>4. Head(s.pending[b]) \in WaitingIn(s)
    BY <2>2, <2>3 DEF Queued, WaitingIn
  <2> QED BY <1>1, <2>4
<1>3. \A i \in 1..Len(s.botOrder) : s.botOrder[i] \in Bots
  BY GoodStoreFields, ElementOfSeq
<1> QED BY <1>2, <1>3 DEF Servable

\* drain() does what its passes do, and ends at rest.
LEMMA DrainEnds ==
  ASSUME NEW s \in GoodStores, NEW t \in Drain(s)
  PROVE  Drained(s, t) /\ AtRest(t)
<1> DEFINE G == [n \in Nat |->
                   {v \in GoodStores :
                      /\ Drained(s, v)
                      /\ Servable(v) = {} \/ v.pendingCount + n <= s.pendingCount}]
<1>0. GoodStores \subseteq SafeStores
  BY DEF GoodStores
<1>1. G \in [Nat -> SUBSET SafeStores]
  BY <1>0
<1>2. s \in G[0]
  BY NothingDrained, GoodStoreFields
<1>3. ASSUME NEW n \in Nat, NEW v \in G[n] PROVE DrainPass(v) \in G[n + 1]
  <2>1. /\ v \in GoodStores /\ Drained(s, v)
        /\ Servable(v) = {} \/ v.pendingCount + n <= s.pendingCount
    OBVIOUS
  <2> HIDE DEF G
  <2>2. CASE Servable(v) = {}
    <3>1. DrainPass(v) = v
      BY <2>2 DEF DrainPass
    <3> QED BY <2>1, <2>2, <3>1 DEF G
  <2>3. CASE Servable(v) # {}
    <3>1. PICK b \in Bots, c \in Claims : Serves(v, DrainPass(v), b, c)
      BY <2>1, <2>3, PassServes
    <3>2. DrainPass(v) \in GoodStores
      BY <1>0, <2>1, <3>1, DrainPassSafe, PassGood
    <3>3. Drained(s, DrainPass(v))
      BY <2>1, <3>1, <3>2, PassDrained
    <3>4. DrainPass(v).pendingCount + (n + 1) <= s.pendingCount
      <4>1. DrainPass(v).pendingCount = v.pendingCount - 1
        BY <3>1 DEF Serves
      <4>2. v.pendingCount \in Nat /\ s.pendingCount \in Nat
        BY <2>1, GoodStoreFields
      <4> QED BY <2>1, <2>3, <4>1, <4>2
    <3> QED BY <3>2, <3>3, <3>4 DEF G
  <2> QED BY <2>2, <2>3
<1>4. t \in G[MaxPending]
  <2> HIDE DEF G
  <2> QED BY <1>1, <1>2, <1>3, DrainWithin
<1>5. /\ t \in GoodStores /\ Drained(s, t)
      /\ Servable(t) = {} \/ t.pendingCount + MaxPending <= s.pendingCount
  BY <1>4, LimitsAssumption
<1> HIDE DEF G
<1>6. Servable(t) = {}
  <2>1. SUFFICES ASSUME t.pendingCount + MaxPending <= s.pendingCount
                 PROVE  Servable(t) = {}
    BY <1>5
  <2>2. /\ t.pendingCount \in Nat /\ s.pendingCount \in Nat
        /\ s.pendingCount <= MaxPending
    BY <1>5, GoodStoreFields DEF Queued
  <2>3. t.pendingCount = 0
    BY <2>1, <2>2, LimitsAssumption
  <2> QED BY <1>5, <2>3, NobodyWaits
<1>7. ASSUME NEW b \in Bots, t.pending[b] # <<>>
      PROVE  ~Admissible(Head(t.pending[b]), t.leases)
  <2>1. Contains(t.botOrder, b)
    BY <1>5, <1>7, GoodStoreFields DEF Queued
  <2>2. PICK i \in 1..Len(t.botOrder) : t.botOrder[i] = b
    BY <2>1 DEF Contains
  <2> QED BY <1>6, <1>7, <2>2 DEF Servable, First
<1> QED BY <1>5, <1>7 DEF AtRest

-----------------------------------------------------------------------------
(* What one call, timer or event does to the store *)

\* The order of service, from store o to store t: the two parts of
\* ServiceInOrder.
InOrder(o, t) ==
  /\ \A b \in Bots : \A c, d :
       Before(o.pending[b], c, d) /\ d \in t.leases /\ d \notin o.leases
         => ~Contains(t.pending[b], c)
  /\ \A a, b \in Bots :
       /\ Before(o.botOrder, a, b)
       /\ Served(o, t, b) \subseteq {c \in Claims : Contains(o.pending[b], c)}
       /\ Served(o, t, b) # {}
       /\ t.pending[a] = o.pending[a]
       => ~Admissible(Head(o.pending[a]), t.leases \ Served(o, t, b))

Refusals == Outcomes \ {"idle", "waiting", "accepted"}

\* The answers callers get, from o to t: the parts of LeaseTable's TableStep.
Answered(o, t) ==
  /\ \A c \in Claims :
       /\ o.promise[c] = "waiting" => t.promise[c] # "idle"
       /\ o.promise[c] = "accepted" => t.promise[c] \in {"accepted", "idle"}
       /\ o.promise[c] \in Refusals => t.promise[c] # "idle"
       /\ c \in t.leases \ o.leases
            <=> t.promise[c] = "accepted" /\ o.promise[c] # "accepted"
  /\ \E x : \A c \in Claims :
       c # x /\ o.promise[c] # "waiting" => t.promise[c] = o.promise[c]

\* A good step, to a store at rest.
GoodStep(o, t) ==
  /\ t \in GoodStores
  /\ AtRest(t)
  /\ InOrder(o, t)
  /\ Answered(o, t)

\* What a method does to the store o before it calls drain() on s: one caller,
\* of claim x, asks, returns its lease or gives up waiting, or a bot's claims
\* and leases go.  No lease is given; in the queues nobody overtakes another;
\* and a queue that changes loses a claim or gets one more at its end.
Edited(o, s, x) ==
  /\ s \in GoodStores
  /\ s.leases \subseteq o.leases
  /\ \A c \in o.leases \ s.leases : s.promise[c] # "waiting"
  /\ \A c \in Claims :
       \/ s.promise[c] = o.promise[c]
       \/ o.promise[c] = "waiting" /\ s.promise[c] \in Refusals
       \/ c = x /\ o.promise[c] = "accepted" /\ s.promise[c] = "idle"
       \/ c = x /\ o.promise[c] # "accepted" /\ s.promise[c] = "waiting"
  /\ \A b \in Bots : \A c, d :
       /\ Before(o.pending[b], c, d)
       /\ Contains(s.pending[b], c)
       /\ Contains(s.pending[b], d)
       => Before(s.pending[b], c, d)
  /\ \A b \in Bots :
       \/ s.pending[b] = o.pending[b]
       \/ \E c : Contains(o.pending[b], c) /\ ~Contains(s.pending[b], c)
       \/ \E c : /\ ~Contains(o.pending[b], c)
                 /\ \A d : Contains(o.pending[b], d) => Before(s.pending[b], d, c)
  /\ \A a, b \in Bots :
       /\ Before(o.botOrder, a, b)
       /\ Contains(s.botOrder, a)
       /\ Contains(s.botOrder, b)
       => Before(s.botOrder, a, b)

\* A claim that waits after a drain waited before it, in the same queue.
LEMMA StillWaiting ==
  ASSUME NEW s \in GoodStores, NEW t, Drained(s, t), NEW b \in Bots,
         NEW c, Contains(t.pending[b], c)
  PROVE  /\ c \in Claims /\ botOf[c] = b /\ t.promise[c] = "waiting"
         /\ s.promise[c] = "waiting" /\ Contains(s.pending[b], c)
<1>1. t \in GoodStores /\ Queued(t) /\ Queued(s) /\ t.pending[b] \in Seq(Claims)
  BY GoodStoreFields DEF Drained
<1>2. c \in Claims
  BY <1>1, ElementOfSeq DEF Contains
<1>3. t.promise[c] = "waiting" /\ b = botOf[c]
  BY <1>1, <1>2 DEF Queued
<1>4. s.promise[c] = "waiting"
  BY <1>2, <1>3 DEF Drained
<1> QED BY <1>1, <1>2, <1>3, <1>4 DEF Queued

\* A drain gives leases to claims that waited, and to no other.
LEMMA NewlyServed ==
  ASSUME NEW o \in GoodStores, NEW s, NEW x, Edited(o, s, x),
         NEW t, Drained(s, t)
  PROVE  /\ t.leases \ o.leases = t.leases \ s.leases
         /\ \A d \in t.leases \ o.leases :
              /\ d \in Claims /\ botOf[d] \in Bots
              /\ s.promise[d] = "waiting" /\ t.promise[d] = "accepted"
              /\ Contains(s.pending[botOf[d]], d)
<1>1. s \in GoodStores /\ t \in GoodStores
  BY DEF Edited, Drained
<1>2. ASSUME NEW d \in t.leases \ s.leases
      PROVE  /\ d \in Claims /\ botOf[d] \in Bots
             /\ s.promise[d] = "waiting" /\ t.promise[d] = "accepted"
             /\ Contains(s.pending[botOf[d]], d)
  <2>1. d \in Claims /\ botOf[d] \in Bots
    BY <1>1, GoodStoreFields
  <2>2. s.promise[d] = "waiting" /\ t.promise[d] = "accepted"
    BY <2>1 DEF Drained
  <2> QED BY <1>1, <2>1, <2>2, GoodStoreFields DEF Queued
<1>3. t.leases \ o.leases = t.leases \ s.leases
  BY <1>2 DEF Edited
<1> QED BY <1>2, <1>3

\* A bot whose queue a call leaves as it found it was not touched by the method
\* nor by the drain.
LEMMA Untouched ==
  ASSUME NEW o \in GoodStores, NEW s, NEW x, Edited(o, s, x), NEW t, Drained(s, t),
         NEW a \in Bots, o.pending[a] # <<>>, t.pending[a] = o.pending[a]
  PROVE  s.pending[a] = o.pending[a]
<1>1. s \in GoodStores /\ o.pending[a] \in Seq(Claims)
  BY GoodStoreFields DEF Edited
<1>2. ASSUME NEW c, Contains(o.pending[a], c) PROVE Contains(s.pending[a], c)
  BY <1>1, <1>2, StillWaiting
<1>3. ASSUME NEW c, ~Contains(o.pending[a], c),
             \A d : Contains(o.pending[a], d) => Before(s.pending[a], d, c)
      PROVE  FALSE
  <2> DEFINE h == Head(o.pending[a])
  <2>1. Contains(o.pending[a], h)
    BY <1>1, HeadFacts
  <2> HIDE DEF h
  <2>2. Before(t.pending[a], h, c)
    BY <1>3, <2>1 DEF Drained
  <2>3. Contains(t.pending[a], c)
    BY <2>2 DEF Before, Contains
  <2> QED BY <1>3, <2>3
<1> QED BY <1>2, <1>3 DEF Edited

\* A method that edits the store and drains it takes a good step.
LEMMA EditedAndDrained ==
  ASSUME NEW o \in GoodStores, NEW s, NEW x, Edited(o, s, x), NEW t \in Drain(s)
  PROVE  GoodStep(o, t)
<1>0. s \in GoodStores
  BY DEF Edited
<1>1. Drained(s, t) /\ AtRest(t) /\ t \in GoodStores
  BY <1>0, DrainEnds DEF Drained
<1>2. /\ Queued(o) /\ Queued(s) /\ Queued(t)
      /\ \A b \in Bots : o.pending[b] \in Seq(Claims) /\ t.pending[b] \in Seq(Claims)
      /\ o.botOrder \in Seq(Bots)
  BY <1>0, <1>1, GoodStoreFields
<1>3. /\ t.leases \ o.leases = t.leases \ s.leases
      /\ \A d \in t.leases \ o.leases :
           /\ d \in Claims /\ botOf[d] \in Bots
           /\ s.promise[d] = "waiting" /\ t.promise[d] = "accepted"
           /\ Contains(s.pending[botOf[d]], d)
  BY <1>1, NewlyServed
<1>4. ASSUME NEW b \in Bots, NEW c, NEW d, Before(o.pending[b], c, d),
             d \in t.leases, d \notin o.leases, Contains(t.pending[b], c)
      PROVE  FALSE
  <2>1. Contains(s.pending[b], c)
    BY <1>0, <1>1, <1>4, StillWaiting
  <2>2. Contains(s.pending[b], d)
    <3>1. Contains(o.pending[b], d) /\ d \in Claims
      BY <1>3, <1>4 DEF Before, Contains
    <3>2. b = botOf[d]
      BY <1>2, <3>1 DEF Queued
    <3> QED BY <1>3, <1>4, <3>2
  <2>3. Before(s.pending[b], c, d)
    BY <1>4, <2>1, <2>2 DEF Edited
  <2>4. Before(t.pending[b], c, d)
    BY <1>1, <1>4, <2>3 DEF Drained
  <2>5. Contains(t.pending[b], d)
    BY <2>4 DEF Before, Contains
  <2>6. t.promise[d] = "waiting"
    BY <1>0, <1>1, <2>5, StillWaiting
  <2> QED BY <1>3, <1>4, <2>6
<1>5. ASSUME NEW a \in Bots, NEW b \in Bots, Before(o.botOrder, a, b),
             Served(o, t, b) # {}, t.pending[a] = o.pending[a]
      PROVE  ~Admissible(Head(o.pending[a]), t.leases \ Served(o, t, b))
  <2>1. o.pending[a] # <<>>
    BY <1>2, <1>5 DEF Before, Contains, Queued
  <2>2. s.pending[a] = o.pending[a]
    BY <1>1, <1>5, <2>1, Untouched
  <2>3. Served(o, t, b) = Served(s, t, b)
    BY <1>3 DEF Served
  <2>4. Contains(s.botOrder, a)
    BY <1>2, <2>1, <2>2 DEF Queued
  <2>5. Contains(s.botOrder, b)
    <3>1. PICK d : d \in t.leases \ o.leases /\ botOf[d] = b
      BY <1>5 DEF Served, OfBot
    <3>2. Contains(s.pending[b], d)
      BY <1>3, <3>1
    <3>3. s.pending[b] # <<>>
      BY <1>0, <3>2, GoodStoreFields, ContainsEmpty
    <3> QED BY <1>2, <3>3 DEF Queued
  <2>6. Before(s.botOrder, a, b)
    BY <1>5, <2>4, <2>5 DEF Edited
  <2> QED BY <1>1, <1>5, <2>2, <2>3, <2>6 DEF Drained
<1>6. InOrder(o, t)
  BY <1>4, <1>5 DEF InOrder
<1>7. ASSUME NEW c \in Claims
      PROVE  /\ o.promise[c] = "waiting" => t.promise[c] # "idle"
             /\ o.promise[c] = "accepted" => t.promise[c] \in {"accepted", "idle"}
             /\ o.promise[c] \in Refusals => t.promise[c] # "idle"
             /\ c \in t.leases \ o.leases
                  <=> t.promise[c] = "accepted" /\ o.promise[c] # "accepted"
             /\ c # x /\ o.promise[c] # "waiting" => t.promise[c] = o.promise[c]
  <2>1. \/ s.promise[c] = o.promise[c]
        \/ o.promise[c] = "waiting" /\ s.promise[c] \in Refusals
        \/ c = x /\ o.promise[c] = "accepted" /\ s.promise[c] = "idle"
        \/ c = x /\ o.promise[c] # "accepted" /\ s.promise[c] = "waiting"
    BY DEF Edited
  <2>2. \/ t.promise[c] = s.promise[c] /\ (c \in t.leases <=> c \in s.leases)
        \/ s.promise[c] = "waiting" /\ t.promise[c] = "accepted" /\ c \in t.leases
    BY <1>1 DEF Drained
  <2>3. /\ c \in o.leases => o.promise[c] = "accepted"
        /\ c \in s.leases => c \in o.leases
    BY <1>2 DEF Queued, Edited
  <2>4. c \in o.leases \ s.leases => s.promise[c] # "waiting"
    BY DEF Edited
  <2> QED BY <2>1, <2>2, <2>3, <2>4 DEF Refusals
<1>8. Answered(o, t)
  BY <1>7 DEF Answered
<1> QED BY <1>1, <1>6, <1>8 DEF GoodStep

-----------------------------------------------------------------------------
(* The methods *)

\* The caller of a claim that does not wait hears something else.
LEMMA AnswerKeepsQueued ==
  ASSUME NEW o \in GoodStores, NEW c \in Claims, o.promise[c] # "waiting",
         NEW p \in Outcomes \ {"waiting"}, NEW t,
         t.pending = o.pending, t.botOrder = o.botOrder,
         t.pendingCount = o.pendingCount,
         t.promise = [o.promise EXCEPT ![c] = p],
         \A d \in t.leases : (d \in o.leases /\ d # c) \/ (d = c /\ p = "accepted")
  PROVE  Queued(t) /\ WaitingIn(t) = WaitingIn(o)
<1>1. o \in SafeStores /\ Queued(o) /\ o.leases \subseteq Claims
  BY GoodStoreFields
<1>2. o.promise \in [Claims -> Outcomes]
  BY <1>1, SafeStoreFields
<1>3. \A d \in Claims : t.promise[d] = IF d = c THEN p ELSE o.promise[d]
  BY <1>2
<1>4. \A d \in Claims : t.promise[d] = "waiting" <=> o.promise[d] = "waiting"
  BY <1>3
<1>5. WaitingIn(t) = WaitingIn(o)
  BY <1>4 DEF WaitingIn
<1>6. \A d \in t.leases : t.promise[d] = "accepted"
  BY <1>1, <1>3 DEF Queued
<1> QED BY <1>1, <1>4, <1>5, <1>6 DEF Queued

\* Where no queue and no order changes, nothing can be served out of turn.
LEMMA NothingServed ==
  ASSUME NEW o \in GoodStores, NEW t \in GoodStores,
         \A d \in t.leases \ o.leases : o.promise[d] # "waiting"
  PROVE  InOrder(o, t)
<1>1. Queued(o) /\ \A d \in t.leases : d \in Claims /\ botOf[d] \in Bots
  BY GoodStoreFields
<1>2. ASSUME NEW b \in Bots, NEW d \in t.leases \ o.leases, Contains(o.pending[b], d)
      PROVE  FALSE
  BY <1>1, <1>2 DEF Queued
<1>3. ASSUME NEW b \in Bots, NEW c, NEW d, Before(o.pending[b], c, d),
             d \in t.leases, d \notin o.leases
      PROVE  FALSE
  BY <1>2, <1>3 DEF Before, Contains
<1>4. ASSUME NEW b \in Bots, Served(o, t, b) # {},
             Served(o, t, b) \subseteq {c \in Claims : Contains(o.pending[b], c)}
      PROVE  FALSE
  BY <1>2, <1>4 DEF Served, OfBot
<1> QED BY <1>3, <1>4 DEF InOrder

\* claim() of a desktop write that check() allows.
LEMMA DirectGrant ==
  ASSUME NEW o \in GoodStores, AtRest(o), NEW c \in Claims,
         o.promise[c] \notin {"waiting", "accepted"}, Admissible(c, o.leases)
  PROVE  GoodStep(o, Grant(o, c))
<1> DEFINE t == Grant(o, c)
<1>1. o \in SafeStores /\ o \in StoreType /\ Queued(o) /\ c \notin o.leases
  BY GoodStoreFields DEF SafeStores, Queued
<1>2. t \in SafeStores
  BY <1>1, GrantSafe
<1>3. /\ t.leases = o.leases \cup {c} /\ t.pending = o.pending
      /\ t.botOrder = o.botOrder /\ t.pendingCount = o.pendingCount
      /\ t.promise = [o.promise EXCEPT ![c] = "accepted"]
  BY <1>1 DEF Grant, StoreType
<1> HIDE DEF t
<1>4. t \in GoodStores
  <2>1. "accepted" \in Outcomes \ {"waiting"}
    BY DEF Outcomes
  <2>2. \A d \in t.leases : (d \in o.leases /\ d # c) \/ d = c
    BY <1>1, <1>3
  <2>3. Queued(t)
    BY <1>3, <2>1, <2>2, AnswerKeepsQueued
  <2> QED BY <1>2, <2>3 DEF GoodStores
<1>5. AtRest(t)
  <2>1. IsFiniteSet(t.leases)
    BY <1>2, SafeStoreFields DEF PolicyHolds
  <2> QED BY <1>3, <2>1, AdmissibleBesideFewer DEF AtRest
<1>6. InOrder(o, t)
  BY <1>3, <1>4, NothingServed
<1>7. o.promise \in [Claims -> Outcomes]
  BY <1>1, SafeStoreFields
<1>8. \A d \in Claims : t.promise[d] = IF d = c THEN "accepted" ELSE o.promise[d]
  BY <1>3, <1>7
<1>9. Answered(o, t)
  BY <1>1, <1>3, <1>8 DEF Answered, Refusals
<1> QED BY <1>4, <1>5, <1>6, <1>9 DEF GoodStep, t

\* A caller that does not wait and holds no lease gets an answer, or one whose
\* lease was taken away gives it back.
LEMMA PlainAnswer ==
  ASSUME NEW o \in GoodStores, AtRest(o), NEW c \in Claims,
         o.promise[c] # "waiting", c \notin o.leases,
         NEW p \in {"idle"} \cup Refusals,
         o.promise[c] = "accepted" <=> p = "idle"
  PROVE  GoodStep(o, [o EXCEPT !.promise[c] = p])
<1> DEFINE t == [o EXCEPT !.promise[c] = p]
<1>1. /\ o \in SafeStores /\ o \in StoreType /\ Queued(o)
      /\ p \in Outcomes \ {"waiting", "accepted"}
  BY GoodStoreFields DEF SafeStores, Refusals, Outcomes
<1>2. t \in SafeStores
  BY <1>1, SetPromise
<1>3. /\ t.leases = o.leases /\ t.pending = o.pending
      /\ t.botOrder = o.botOrder /\ t.pendingCount = o.pendingCount
      /\ t.promise = [o.promise EXCEPT ![c] = p]
  BY <1>1 DEF StoreType
<1> HIDE DEF t
<1>4. t \in GoodStores
  <2>1. \A d \in t.leases : d \in o.leases /\ d # c
    BY <1>3
  <2>2. p \in Outcomes \ {"waiting"}
    BY <1>1
  <2>3. Queued(t)
    BY <1>3, <2>1, <2>2, AnswerKeepsQueued
  <2> QED BY <1>2, <2>3 DEF GoodStores
<1>5. AtRest(t)
  BY <1>3 DEF AtRest
<1>6. InOrder(o, t)
  BY <1>3, <1>4, NothingServed
<1>7. \A d \in Claims : t.promise[d] = IF d = c THEN p ELSE o.promise[d]
  <2>1. o.promise \in [Claims -> Outcomes]
    BY <1>1, SafeStoreFields
  <2> QED BY <1>3, <2>1
<1>8. Answered(o, t)
  BY <1>1, <1>3, <1>7 DEF Answered, Refusals
<1> QED BY <1>4, <1>5, <1>6, <1>8 DEF GoodStep, t

\* acquire() of a claim there is room for.
LEMMA EnqueueEdits ==
  ASSUME NEW o \in GoodStores, NEW c \in Claims,
         o.promise[c] \notin {"waiting", "accepted"},
         o.pendingCount < MaxPending, Enqueue(o, c) \in SafeStores
  PROVE  Edited(o, Enqueue(o, c), c)
<1> DEFINE b == botOf[c]
           s == Enqueue(o, c)
<1>0. /\ o \in SafeStores /\ o \in StoreType /\ Queued(o) /\ b \in Bots
      /\ o.promise \in [Claims -> Outcomes] /\ o.pending \in [Bots -> Seq(Claims)]
      /\ o.botOrder \in Seq(Bots) /\ o.pendingCount \in Nat
      /\ \A d \in o.leases : d \in Claims
  BY GoodStoreFields, SafeStoreFields DEF SafeStores
<1>1. /\ s.leases = o.leases
      /\ s.pending = [o.pending EXCEPT ![b] = Append(o.pending[b], c)]
      /\ s.botOrder = IF o.pending[b] = <<>> THEN Append(o.botOrder, b) ELSE o.botOrder
      /\ s.pendingCount = o.pendingCount + 1
      /\ s.promise = [o.promise EXCEPT ![c] = "waiting"]
  BY <1>0 DEF Enqueue, StoreType
<1> HIDE DEF s
<1>2. /\ s.pending[b] = Append(o.pending[b], c)
      /\ \A a \in Bots \ {b} : s.pending[a] = o.pending[a]
      /\ \A d \in Claims : s.promise[d] = IF d = c THEN "waiting" ELSE o.promise[d]
  BY <1>0, <1>1
<1> HIDE DEF b
<1>3. ~Contains(o.pending[b], c)
  BY <1>0 DEF Queued
<1>4. /\ \A x : Contains(s.pending[b], x) <=> Contains(o.pending[b], x) \/ x = c
      /\ IsInjective(s.pending[b])
      /\ s.pending[b] # <<>>
  <2>1. o.pending[b] \in Seq(Claims) /\ IsInjective(o.pending[b])
    BY <1>0 DEF Queued
  <2>2. /\ \A x : Contains(s.pending[b], x) <=> Contains(o.pending[b], x) \/ x = c
        /\ IsInjective(s.pending[b])
    BY <1>2, <1>3, <2>1, AppendOnce
  <2> QED BY <2>2 DEF Contains
<1>5. /\ IsInjective(s.botOrder)
      /\ \A a : Contains(s.botOrder, a)
                  <=> Contains(o.botOrder, a) \/ (a = b /\ o.pending[b] = <<>>)
  <2>1. CASE o.pending[b] = <<>>
    <3>1. ~Contains(o.botOrder, b) /\ IsInjective(o.botOrder)
      BY <1>0, <2>1 DEF Queued
    <3> QED BY <1>0, <1>1, <2>1, <3>1, AppendOnce
  <2>2. CASE o.pending[b] # <<>>
    <3>1. IsInjective(o.botOrder)
      BY <1>0 DEF Queued
    <3> QED BY <1>1, <2>2, <3>1
  <2> QED BY <2>1, <2>2
<1>6. Queued(s)
  <2>1. ASSUME NEW d \in Claims, NEW a \in Bots
        PROVE  Contains(s.pending[a], d) <=> s.promise[d] = "waiting" /\ a = botOf[d]
    <3>1. Contains(o.pending[a], d) <=> o.promise[d] = "waiting" /\ a = botOf[d]
      BY <1>0 DEF Queued
    <3>2. CASE a = b
      BY <1>2, <1>4, <3>1, <3>2 DEF b
    <3>3. CASE a # b
      BY <1>2, <3>1, <3>3 DEF b
    <3> QED BY <3>2, <3>3
  <2>2. ASSUME NEW a \in Bots
        PROVE  /\ IsInjective(s.pending[a])
               /\ Contains(s.botOrder, a) <=> s.pending[a] # <<>>
    <3>1. IsInjective(o.pending[a]) /\ (Contains(o.botOrder, a) <=> o.pending[a] # <<>>)
      BY <1>0 DEF Queued
    <3>2. CASE a = b
      <4>1. Contains(s.botOrder, b)
        BY <1>5, <3>1, <3>2
      <4> QED BY <1>4, <3>2, <4>1
    <3>3. CASE a # b
      <4>1. s.pending[a] = o.pending[a]
        BY <1>2, <3>3
      <4>2. Contains(s.botOrder, a) <=> Contains(o.botOrder, a)
        BY <1>5, <3>3
      <4> QED BY <3>1, <4>1, <4>2
    <3> QED BY <3>2, <3>3
  <2>3. /\ IsFiniteSet(WaitingIn(s))
        /\ Cardinality(WaitingIn(s)) = Cardinality(WaitingIn(o)) + 1
    <3>1. WaitingIn(s) = WaitingIn(o) \cup {c} /\ c \notin WaitingIn(o)
      BY <1>2 DEF WaitingIn
    <3>2. IsFiniteSet(WaitingIn(o))
      BY <1>0 DEF Queued
    <3> QED BY <3>1, <3>2, FS_AddElement
  <2>4. s.pendingCount = Cardinality(WaitingIn(s)) /\ s.pendingCount <= MaxPending
    BY <1>0, <1>1, <2>3, LimitsAssumption DEF Queued
  <2>5. \A d \in s.leases : s.promise[d] = "accepted"
    BY <1>0, <1>1, <1>2 DEF Queued
  <2> QED BY <1>5, <2>1, <2>2, <2>3, <2>4, <2>5 DEF Queued
<1>7. s \in GoodStores
  BY <1>6 DEF GoodStores, s
<1>8. ASSUME NEW a \in Bots, NEW d, NEW e, Before(o.pending[a], d, e)
      PROVE  Before(s.pending[a], d, e)
  <2>1. CASE a = b
    <3>1. o.pending[b] \in Seq(Claims)
      BY <1>0
    <3> QED BY <1>2, <1>8, <2>1, <3>1, AppendBefore
  <2>2. CASE a # b
    BY <1>2, <1>8, <2>2
  <2> QED BY <2>1, <2>2
<1>9. ASSUME NEW a \in Bots, s.pending[a] # o.pending[a]
      PROVE  /\ ~Contains(o.pending[a], c)
             /\ \A d : Contains(o.pending[a], d) => Before(s.pending[a], d, c)
  <2>1. a = b /\ o.pending[b] \in Seq(Claims)
    BY <1>0, <1>2, <1>9
  <2> QED BY <1>2, <1>3, <2>1, AppendBefore
<1>10. ASSUME NEW a \in Bots, NEW e \in Bots, Before(o.botOrder, a, e)
       PROVE  Before(s.botOrder, a, e)
  BY <1>0, <1>1, <1>10, AppendBefore
<1>11. \A d \in Claims :
         \/ s.promise[d] = o.promise[d]
         \/ d = c /\ o.promise[d] # "accepted" /\ s.promise[d] = "waiting"
  BY <1>2
<1> HIDE DEF Queued
<1> QED BY <1>1, <1>7, <1>8, <1>9, <1>10, <1>11 DEF Edited, s

\* A waiting claim gives up.
LEMMA WithdrawEdits ==
  ASSUME NEW o \in GoodStores, NEW c \in Claims, o.promise[c] = "waiting",
         NEW p \in Refusals
  PROVE  Edited(o, [RemovePending(o, c) EXCEPT !.promise[c] = p], c)
<1> DEFINE b == botOf[c]
           r == RemovePending(o, c)
           s == [r EXCEPT !.promise[c] = p]
<1>0. /\ o \in SafeStores /\ Queued(o) /\ b \in Bots
      /\ o.promise \in [Claims -> Outcomes]
      /\ \A a \in Bots : o.pending[a] \in Seq(Claims) /\ IsInjective(o.pending[a])
      /\ o.botOrder \in Seq(Bots) /\ IsInjective(o.botOrder)
      /\ c \in WaitingIn(o) /\ Contains(o.pending[b], c)
      /\ p \in Outcomes \ {"waiting"}
  <2>1. o \in SafeStores /\ Queued(o) /\ b \in Bots /\ c \in WaitingIn(o)
    BY GoodStoreFields DEF WaitingIn
  <2>2. Contains(o.pending[b], c) /\ \A a \in Bots : o.pending[a] \in Seq(Claims)
    BY <2>1, GoodStoreFields
  <2>3. o.promise \in [Claims -> Outcomes] /\ o.botOrder \in Seq(Bots)
    BY <2>1, SafeStoreFields
  <2>4. p \in Outcomes \ {"waiting"}
    BY DEF Refusals
  <2> QED BY <2>1, <2>2, <2>3, <2>4 DEF Queued
<1>1. /\ r \in SafeStores /\ r.leases = o.leases /\ r.promise = o.promise
      /\ r.pending[b] = RemoveFirst(o.pending[b], c)
      /\ \A a \in Bots \ {b} : r.pending[a] = o.pending[a]
      /\ r.botOrder = IF r.pending[b] = <<>> THEN RemoveFirst(o.botOrder, b)
                                             ELSE o.botOrder
  BY <1>0, RemovePendingSafe, RemovePendingFields
<1> HIDE DEF r
<1>2. /\ s \in SafeStores
      /\ s.leases = o.leases /\ s.promise = [o.promise EXCEPT ![c] = p]
      /\ s.pending = r.pending /\ s.botOrder = r.botOrder
      /\ s.pendingCount = r.pendingCount
  <2>1. r \in StoreType
    BY <1>1 DEF SafeStores
  <2>2. s \in SafeStores
    BY <1>0, <1>1, SetPromise
  <2> QED BY <1>1, <2>1, <2>2 DEF StoreType
<1> HIDE DEF s
<1>3. s \in GoodStores
  <2>1. \A d \in s.leases : d \in o.leases \/ (d = c /\ p = "accepted")
    BY <1>2
  <2>2. Queued(s)
    BY <1>0, <1>2, <2>1, UnqueueKeepsQueued DEF r
  <2> QED BY <1>2, <2>2 DEF GoodStores
<1>4. ~Contains(s.pending[b], c)
  BY <1>0, <1>1, <1>2, RemoveFirstOnce
<1> HIDE DEF b
<1>5. ASSUME NEW a \in Bots, NEW d, NEW e, Before(o.pending[a], d, e),
             Contains(s.pending[a], d), Contains(s.pending[a], e)
      PROVE  Before(s.pending[a], d, e)
  <2>1. CASE a = b
    <3>1. d # c /\ e # c
      BY <1>4, <1>5, <2>1
    <3> QED BY <1>0, <1>1, <1>2, <1>5, <2>1, <3>1, RemoveFirstBefore
  <2>2. CASE a # b
    BY <1>1, <1>2, <1>5, <2>2
  <2> QED BY <2>1, <2>2
<1>6. ASSUME NEW a \in Bots, s.pending[a] # o.pending[a]
      PROVE  Contains(o.pending[a], c) /\ ~Contains(s.pending[a], c)
  <2>1. a = b
    BY <1>1, <1>2, <1>6
  <2> QED BY <1>0, <1>4, <2>1
<1>7. ASSUME NEW a \in Bots, NEW e \in Bots, Before(o.botOrder, a, e),
             Contains(s.botOrder, a), Contains(s.botOrder, e)
      PROVE  Before(s.botOrder, a, e)
  <2>1. CASE s.botOrder = o.botOrder
    BY <1>7, <2>1
  <2>2. CASE s.botOrder = RemoveFirst(o.botOrder, b)
    <3>1. a # b /\ e # b
      BY <1>0, <1>7, <2>2, RemoveFirstOnce
    <3> QED BY <1>0, <1>7, <2>2, <3>1, RemoveFirstBefore
  <2> QED BY <1>1, <1>2, <2>1, <2>2
<1>8. \A d \in Claims : s.promise[d] = IF d = c THEN p ELSE o.promise[d]
  BY <1>0, <1>2
<1> HIDE DEF Queued
<1> QED BY <1>2, <1>3, <1>5, <1>6, <1>7, <1>8 DEF Edited, s, r

\* A caller gives its lease back.
LEMMA ReleaseEdits ==
  ASSUME NEW o \in GoodStores, NEW c \in o.leases,
         NEW s \in SafeStores, s.leases = o.leases \ {c},
         s.pending = o.pending, s.botOrder = o.botOrder,
         s.pendingCount = o.pendingCount,
         s.promise = [o.promise EXCEPT ![c] = "idle"]
  PROVE  Edited(o, s, c)
<1>0. /\ c \in Claims /\ o \in SafeStores /\ Queued(o)
      /\ o.promise[c] = "accepted" /\ o.promise \in [Claims -> Outcomes]
  <2>1. c \in Claims /\ o \in SafeStores /\ Queued(o)
    BY GoodStoreFields
  <2> QED BY <2>1, SafeStoreFields DEF Queued
<1>1. s \in GoodStores
  <2>1. "idle" \in Outcomes \ {"waiting"}
    BY DEF Outcomes
  <2>2. \A d \in s.leases : d \in o.leases /\ d # c
    OBVIOUS
  <2>3. Queued(s)
    BY <1>0, <2>1, <2>2, AnswerKeepsQueued
  <2> QED BY <2>3 DEF GoodStores
<1>2. \A d \in Claims : s.promise[d] = IF d = c THEN "idle" ELSE o.promise[d]
  BY <1>0
<1> QED BY <1>0, <1>1, <1>2 DEF Edited

\* A bot stops: its leases and its queue go.
LEMMA ReleaseBotEdits ==
  ASSUME NEW o \in GoodStores, NEW b \in Bots,
         NEW s \in SafeStores, s.leases = o.leases \ OfBot(b, o.leases),
         s.pending = [o.pending EXCEPT ![b] = <<>>],
         s.botOrder = RemoveFirst(o.botOrder, b),
         s.pendingCount = o.pendingCount - Len(o.pending[b]),
         s.promise = [c \in Claims |->
                        IF Contains(o.pending[b], c) THEN "bot_stopped"
                                                     ELSE o.promise[c]]
  PROVE  Edited(o, s, b)
<1>0. /\ o \in SafeStores /\ Queued(o)
      /\ o.promise \in [Claims -> Outcomes] /\ o.pending \in [Bots -> Seq(Claims)]
      /\ \A a \in Bots : o.pending[a] \in Seq(Claims) /\ IsInjective(o.pending[a])
      /\ o.botOrder \in Seq(Bots) /\ IsInjective(o.botOrder)
      /\ \A d \in o.leases : d \in Claims
  <2>1. o \in SafeStores /\ Queued(o) /\ \A d \in o.leases : d \in Claims
    BY GoodStoreFields
  <2>2. /\ o.promise \in [Claims -> Outcomes] /\ o.pending \in [Bots -> Seq(Claims)]
        /\ o.botOrder \in Seq(Bots)
    BY <2>1, SafeStoreFields
  <2> QED BY <2>1, <2>2 DEF Queued
<1>1. /\ s.pending[b] = <<>>
      /\ \A a \in Bots \ {b} : s.pending[a] = o.pending[a]
      /\ \A x : ~Contains(s.pending[b], x)
      /\ IsInjective(s.pending[b])
  <2>1. s.pending[b] = <<>> /\ \A a \in Bots \ {b} : s.pending[a] = o.pending[a]
    BY <1>0
  <2> QED BY <2>1 DEF Contains, IsInjective
<1>2. \A c \in Claims : s.promise[c] = IF o.promise[c] = "waiting" /\ botOf[c] = b
                                       THEN "bot_stopped" ELSE o.promise[c]
  BY <1>0 DEF Queued
<1>3. /\ IsInjective(s.botOrder)
      /\ \A x : Contains(s.botOrder, x) <=> Contains(o.botOrder, x) /\ x # b
  BY <1>0, RemoveFirstOnce
<1>4. Queued(s)
  <2>1. ASSUME NEW d \in Claims, NEW a \in Bots
        PROVE  Contains(s.pending[a], d) <=> s.promise[d] = "waiting" /\ a = botOf[d]
    <3>1. Contains(o.pending[a], d) <=> o.promise[d] = "waiting" /\ a = botOf[d]
      BY <1>0 DEF Queued
    <3>2. CASE a = b
      BY <1>1, <1>2, <3>2
    <3>3. CASE a # b
      BY <1>1, <1>2, <3>1, <3>3
    <3> QED BY <3>2, <3>3
  <2>2. ASSUME NEW a \in Bots
        PROVE  /\ IsInjective(s.pending[a])
               /\ Contains(s.botOrder, a) <=> s.pending[a] # <<>>
    <3>1. Contains(o.botOrder, a) <=> o.pending[a] # <<>>
      BY <1>0 DEF Queued
    <3>2. CASE a = b
      BY <1>1, <1>3, <3>2
    <3>3. CASE a # b
      BY <1>0, <1>1, <1>3, <3>1, <3>3
    <3> QED BY <3>2, <3>3
  <2>3. /\ IsFiniteSet(WaitingIn(s))
        /\ s.pendingCount = Cardinality(WaitingIn(s))
    <3> DEFINE T == {c \in Claims : Contains(o.pending[b], c)}
    <3>1. IsFiniteSet(T) /\ Cardinality(T) = Len(o.pending[b])
      BY <1>0, CountOnce
    <3>2. WaitingIn(s) = WaitingIn(o) \ T
      BY <1>0, <1>2 DEF WaitingIn, Queued
    <3>3. WaitingIn(o) \cap T = T
      BY <1>0 DEF WaitingIn, Queued
    <3>4. IsFiniteSet(WaitingIn(o)) /\ o.pendingCount = Cardinality(WaitingIn(o))
      BY <1>0 DEF Queued
    <3> HIDE DEF T
    <3>5. /\ IsFiniteSet(WaitingIn(o) \ T)
          /\ Cardinality(WaitingIn(o) \ T)
               = Cardinality(WaitingIn(o)) - Cardinality(WaitingIn(o) \cap T)
      BY <3>4, FS_Difference
    <3> QED BY <3>1, <3>2, <3>3, <3>4, <3>5
  <2>4. s.pendingCount <= MaxPending
    <3>1. o.pendingCount <= MaxPending /\ o.pendingCount \in Nat
      BY <1>0, GoodStoreFields DEF Queued
    <3>2. Len(o.pending[b]) \in Nat
      BY <1>0
    <3> QED BY <3>1, <3>2, LimitsAssumption
  <2>5. \A d \in s.leases : s.promise[d] = "accepted"
    BY <1>0, <1>2 DEF Queued
  <2> QED BY <1>3, <2>1, <2>2, <2>3, <2>4, <2>5 DEF Queued
<1>5. s \in GoodStores
  BY <1>4 DEF GoodStores
<1>6. \A d \in o.leases \ s.leases : s.promise[d] # "waiting"
  BY <1>0, <1>2 DEF Queued
<1>7. \A d \in Claims :
        \/ s.promise[d] = o.promise[d]
        \/ o.promise[d] = "waiting" /\ s.promise[d] \in Refusals
  BY <1>2 DEF Refusals, Outcomes
<1>8. ASSUME NEW a \in Bots, s.pending[a] # o.pending[a]
      PROVE  \E c : Contains(o.pending[a], c) /\ ~Contains(s.pending[a], c)
  <2>1. a = b /\ o.pending[b] # <<>>
    BY <1>1, <1>8
  <2> QED BY <1>0, <1>1, <2>1, HeadFacts
<1>9. ASSUME NEW a \in Bots, NEW e \in Bots, Before(o.botOrder, a, e),
             Contains(s.botOrder, a), Contains(s.botOrder, e)
      PROVE  Before(s.botOrder, a, e)
  BY <1>0, <1>3, <1>9, RemoveFirstBefore
<1>10. ASSUME NEW a \in Bots, NEW d, NEW e, Before(o.pending[a], d, e),
             Contains(s.pending[a], d)
       PROVE  Before(s.pending[a], d, e)
  BY <1>1, <1>10
<1> HIDE DEF Queued
<1> QED BY <1>5, <1>6, <1>7, <1>8, <1>9, <1>10 DEF Edited

-----------------------------------------------------------------------------
(* The actions *)

\* A step whose next store is a good step away from this one.
Step == \E t : Become(t) /\ GoodStep(Store, t)

LEMMA DrainedStep ==
  ASSUME Orderly, NEW s, NEW x, Edited(Store, s, x), BecomeOneOf(Drain(s))
  PROVE  Step
<1>1. PICK t \in Drain(s) : Become(t)
  BY DEF BecomeOneOf
<1>2. GoodStep(Store, t)
  BY EditedAndDrained DEF Orderly
<1> QED BY <1>1, <1>2 DEF Step

LEMMA OrderlyFields ==
  ASSUME Orderly
  PROVE  /\ Store \in GoodStores /\ Store \in SafeStores /\ Safe /\ AtRest(Store)
         /\ Queued(Store) /\ pendingCount \in Nat
         /\ promise \in [Claims -> Outcomes]
         /\ \A c \in Claims : botOf[c] \in Bots
         /\ \A c \in leases : c \in Claims /\ promise[c] = "accepted"
<1>1. Store \in GoodStores /\ AtRest(Store)
  BY DEF Orderly
<1>2. Store \in SafeStores /\ Queued(Store)
  BY <1>1, GoodStoreFields
<1>3. /\ pendingCount \in Nat /\ leases \subseteq Claims
      /\ \A c \in Claims : botOf[c] \in Bots
  BY <1>1, StoreFields, GoodStoreFields
<1>4. promise \in [Claims -> Outcomes]
  BY <1>2, StoreFields, SafeStoreFields
<1>5. \A c \in leases : promise[c] = "accepted"
  BY <1>2, StoreFields DEF Queued
<1> QED BY <1>1, <1>2, <1>3, <1>4, <1>5 DEF Safe

LEMMA SettleStep ==
  ASSUME Orderly, NEW c \in Claims, Free(c), NEW p \in Refusals, Settle(c, p)
  PROVE  Step
<1> DEFINE t == [Store EXCEPT !.promise[c] = p]
<1>1. Become(t)
  BY DEF Become, Store, Settle
<1>2. /\ Store.promise[c] \notin {"waiting", "accepted"} /\ c \notin Store.leases
      /\ p # "idle"
  BY StoreFields, OrderlyFields DEF Free, Refusals
<1>3. GoodStep(Store, t)
  BY <1>2, OrderlyFields, PlainAnswer
<1> QED BY <1>1, <1>3 DEF Step

LEMMA ClaimStep ==
  ASSUME Orderly, NEW c \in Claims, Claim(c)
  PROVE  Step
<1>1. CASE Admissible(c, leases)
  <2>1. Become(Grant(Store, c)) /\ Free(c)
    BY <1>1 DEF Claim
  <2>2. GoodStep(Store, Grant(Store, c))
    BY <1>1, <2>1, StoreFields, OrderlyFields, DirectGrant DEF Free
  <2> QED BY <2>1, <2>2 DEF Step
<1>2. CASE ~Admissible(c, leases)
  <2>1. FirstRefusal(c, leases) \in Refusals
    BY DEF FirstRefusal, Refusals, Outcomes
  <2> QED BY <1>2, <2>1, SettleStep DEF Claim
<1> QED BY <1>1, <1>2

LEMMA AcquireStep ==
  ASSUME Orderly, NEW c \in Claims, Acquire(c)
  PROVE  Step
<1>0. Free(c)
  BY DEF Acquire
<1>1. CASE Settle(c, "run_exists") \/ Settle(c, "queue_full")
  BY <1>0, <1>1, SettleStep DEF Refusals, Outcomes
<1>2. CASE ~QueueFull(c) /\ BecomeOneOf(Drain(Enqueue(Store, c)))
  <2>1. Enqueue(Store, c) \in SafeStores
    BY <1>2, OrderlyFields, EnqueueSafe
  <2>2. Store.pendingCount < MaxPending
    BY <1>2, StoreFields, OrderlyFields, LimitsAssumption DEF QueueFull
  <2>3. Edited(Store, Enqueue(Store, c), c)
    BY <1>0, <2>1, <2>2, StoreFields, OrderlyFields, EnqueueEdits DEF Free
  <2> QED BY <1>2, <2>3, DrainedStep
<1> QED BY <1>1, <1>2 DEF Acquire

LEMMA WithdrawStep ==
  ASSUME Orderly, NEW c \in Claims, NEW p \in Refusals, Withdraw(c, p)
  PROVE  Step
<1>1. Store.promise[c] = "waiting"
  BY StoreFields, OrderlyFields DEF Withdraw, Queued
<1>2. Edited(Store, [RemovePending(Store, c) EXCEPT !.promise[c] = p], c)
  BY <1>1, OrderlyFields, WithdrawEdits
<1> QED BY <1>2, DrainedStep DEF Withdraw

LEMMA ReleaseStep ==
  ASSUME Orderly, NEW c \in Claims, Release(c)
  PROVE  Step
<1> DEFINE done == [Store EXCEPT !.promise[c] = "idle"]
           freed == [done EXCEPT !.leases = @ \ {c}]
<1>1. CASE c \notin leases
  <2>1. Become(done) /\ promise[c] = "accepted"
    BY <1>1 DEF Release
  <2>2. GoodStep(Store, done)
    BY <1>1, <2>1, StoreFields, OrderlyFields, PlainAnswer
  <2> QED BY <2>1, <2>2 DEF Step
<1>2. CASE c \in leases
  <2>1. BecomeOneOf(Drain(freed))
    BY <1>2 DEF Release
  <2>2. done \in SafeStores /\ done.leases = leases
    <3>1. "idle" \in Outcomes
      BY DEF Outcomes
    <3>2. done \in SafeStores
      BY <3>1, OrderlyFields, SetPromise
    <3> QED BY <3>2 DEF Store
  <2>3. /\ freed.leases = Store.leases \ {c} /\ freed.pending = Store.pending
        /\ freed.botOrder = Store.botOrder /\ freed.pendingCount = Store.pendingCount
        /\ freed.promise = [Store.promise EXCEPT ![c] = "idle"]
    BY DEF Store
  <2> HIDE DEF done
  <2>4. done.leases \ {c} \in SUBSET Claims /\ PolicyHolds(done.leases \ {c})
    BY <2>2, SafeStoreFields, SubsetKeepsPolicy
  <2>5. freed \in SafeStores
    BY <2>2, <2>4, SetLeases
  <2> HIDE DEF freed
  <2>6. Edited(Store, freed, c)
    BY <1>2, <2>3, <2>5, StoreFields, OrderlyFields, ReleaseEdits
  <2> QED BY <2>1, <2>6, DrainedStep DEF freed
<1> QED BY <1>1, <1>2

LEMMA ReleaseBotStep ==
  ASSUME Orderly, NEW b \in Bots, ReleaseBot(b)
  PROVE  Step
<1> DEFINE s == [leases |-> leases \ OfBot(b, leases),
                 pending |-> [pending EXCEPT ![b] = <<>>],
                 botOrder |-> RemoveFirst(botOrder, b),
                 pendingCount |-> pendingCount - Len(pending[b]),
                 promise |-> [c \in Claims |->
                   IF c \in Waiting(b) THEN "bot_stopped" ELSE promise[c]]]
<1>1. BecomeOneOf(Drain(s))
  BY DEF ReleaseBot
<1>2. /\ s.leases = Store.leases \ OfBot(b, Store.leases)
      /\ s.pending = [Store.pending EXCEPT ![b] = <<>>]
      /\ s.botOrder = RemoveFirst(Store.botOrder, b)
      /\ s.pendingCount = Store.pendingCount - Len(Store.pending[b])
      /\ s.promise = [c \in Claims |->
                        IF Contains(Store.pending[b], c) THEN "bot_stopped"
                                                         ELSE Store.promise[c]]
  BY StoreFields DEF Waiting
<1>3. s \in SafeStores
  BY OrderlyFields, ReleaseBotStoreSafe
<1> HIDE DEF s
<1>4. Edited(Store, s, b)
  BY <1>2, <1>3, OrderlyFields, ReleaseBotEdits
<1> QED BY <1>1, <1>4, DrainedStep

\* Every step is a good one, or changes nothing.
LEMMA EveryStep ==
  ASSUME Orderly, [Next]_vars
  PROVE  Step \/ UNCHANGED vars
<1>1. ASSUME NEW c \in Claims, Claim(c) PROVE Step
  BY <1>1, ClaimStep
<1>2. ASSUME NEW c \in Claims, AcquireAborted(c) PROVE Step
  BY <1>2, SettleStep DEF AcquireAborted, Refusals, Outcomes
<1>3. ASSUME NEW c \in Claims, Acquire(c) PROVE Step
  BY <1>3, AcquireStep
<1>4. ASSUME NEW c \in Claims, Expire(c) \/ Abort(c) PROVE Step
  BY <1>4, WithdrawStep DEF Expire, Abort, Refusals, Outcomes
<1>5. ASSUME NEW c \in Claims, Release(c) PROVE Step
  BY <1>5, ReleaseStep
<1>6. ASSUME NEW b \in Bots, ReleaseBot(b) PROVE Step
  BY <1>6, ReleaseBotStep
<1> QED BY <1>1, <1>2, <1>3, <1>4, <1>5, <1>6 DEF Next

LEMMA BecomeStore ==
  ASSUME NEW t \in SafeStores, Become(t) PROVE Store' = t
<1>1. t \in StoreType
  BY DEF SafeStores
<1> QED BY <1>1 DEF Become, Store, StoreType

LEMMA StepOrderly == Orderly /\ [Next]_vars => Orderly'
<1> SUFFICES ASSUME Orderly, [Next]_vars PROVE Orderly'
  OBVIOUS
<1>1. CASE Step
  <2>1. PICK t : Become(t) /\ GoodStep(Store, t)
    BY <1>1 DEF Step
  <2>2. t \in GoodStores /\ AtRest(t) /\ t \in SafeStores
    BY <2>1 DEF GoodStep, GoodStores
  <2>3. Store' = t
    BY <2>1, <2>2, BecomeStore
  <2>4. AtRest(Store')
    BY <2>2, <2>3
  <2> QED BY <2>2, <2>3, <2>4 DEF Orderly, AtRest
<1>2. CASE UNCHANGED vars
  BY <1>2 DEF vars, Orderly, Store, AtRest
<1> QED BY <1>1, <1>2, EveryStep

LEMMA InitOrderly == Init => Orderly
<1> SUFFICES ASSUME Init PROVE Orderly
  OBVIOUS
<1>1. Store \in SafeStores
  BY InitSafe DEF Safe
<1>2. /\ Store.leases = {} /\ Store.botOrder = <<>> /\ Store.pendingCount = 0
      /\ \A b \in Bots : Store.pending[b] = <<>>
      /\ \A c \in Claims : Store.promise[c] = "idle"
  BY StoreFields DEF Init
<1>3. (\A x : ~Contains(<<>>, x)) /\ IsInjective(<<>>)
  BY DEF Contains, IsInjective
<1>4. WaitingIn(Store) = {}
  BY <1>2 DEF WaitingIn
<1>5. IsFiniteSet(WaitingIn(Store)) /\ Cardinality(WaitingIn(Store)) = 0
  BY <1>4, FS_EmptySet
<1>6. Queued(Store)
  BY <1>2, <1>3, <1>5, LimitsAssumption DEF Queued
<1>7. AtRest(Store)
  BY <1>2 DEF AtRest
<1> QED BY <1>1, <1>6, <1>7 DEF Orderly, GoodStores

\* Every reachable state is orderly.
THEOREM OrderlyAlways == Spec => []Orderly
BY InitOrderly, StepOrderly, PTL DEF Spec

\* The queues, the order of service, the counter and the promises agree, and no
\* way capacity comes back leaves a claim waiting that could be admitted: for
\* every fleet, set of claims and limits.
THEOREM QueuesServedCorrect == Spec => []QueuesServed
<1>1. ASSUME Orderly PROVE QueuesServed
  <2>1. Queued(Store) /\ AtRest(Store)
    BY <1>1, OrderlyFields
  <2> QED BY <2>1, StoreFields DEF Queued, AtRest, QueuesServed, WaitingIn
<1> QED BY <1>1, OrderlyAlways, PTL

\* Positions in a queue are the order of its members.
LEMMA PositionBefore ==
  ASSUME NEW b \in Bots, NEW c \in Waiting(b), NEW d \in Waiting(b),
         Position(b, c) < Position(b, d)
  PROVE  Before(pending[b], c, d)
<1>1. /\ Position(b, c) \in 1..Len(pending[b]) /\ pending[b][Position(b, c)] = c
      /\ Position(b, d) \in 1..Len(pending[b]) /\ pending[b][Position(b, d)] = d
  BY DEF Waiting, Contains, Position
<1> QED BY <1>1 DEF Before

\* Within a bot claims are served in the order they arrived, and between bots
\* nobody is passed over whose first claim could have been admitted.
THEOREM ServiceInOrderHolds == Spec => ServiceInOrder
<1>1. ASSUME Orderly, [Next]_vars, ~ UNCHANGED vars
      PROVE  /\ \A b \in Bots : \A c, d \in Waiting(b) :
                  Position(b, c) < Position(b, d) /\ d \in leases' /\ d \notin leases
                    => ~Contains(pending'[b], c)
             /\ \A i, j \in 1..Len(botOrder) :
                  LET a == botOrder[i]
                      b == botOrder[j]
                      served == OfBot(b, leases' \ leases)
                  IN i < j /\ served \subseteq Waiting(b) /\ served # {}
                       /\ pending'[a] = pending[a]
                       => ~Admissible(Head(pending[a]), leases' \ served)
  <2>1. PICK t : Become(t) /\ GoodStep(Store, t)
    BY <1>1, EveryStep DEF Step
  <2>2. InOrder(Store, t) /\ leases' = t.leases /\ pending' = t.pending
    BY <2>1 DEF GoodStep, Become
  <2>3. ASSUME NEW b \in Bots, NEW c \in Waiting(b), NEW d \in Waiting(b),
               Position(b, c) < Position(b, d), d \in leases', d \notin leases
        PROVE  ~Contains(pending'[b], c)
    <3>1. Before(pending[b], c, d)
      BY <2>3, PositionBefore
    <3> QED BY <2>2, <2>3, <3>1, StoreFields DEF InOrder
  <2>4. ASSUME NEW i \in 1..Len(botOrder), NEW j \in 1..Len(botOrder), i < j,
               OfBot(botOrder[j], leases' \ leases) \subseteq Waiting(botOrder[j]),
               OfBot(botOrder[j], leases' \ leases) # {},
               pending'[botOrder[i]] = pending[botOrder[i]]
        PROVE  ~Admissible(Head(pending[botOrder[i]]),
                           leases' \ OfBot(botOrder[j], leases' \ leases))
    <3>1. botOrder \in Seq(Bots)
      BY <1>1, StoreFields, OrderlyFields, GoodStoreFields
    <3>2. botOrder[i] \in Bots /\ botOrder[j] \in Bots
      BY <3>1, ElementOfSeq
    <3>3. Before(botOrder, botOrder[i], botOrder[j])
      BY <2>4 DEF Before
    <3>4. /\ Served(Store, t, botOrder[j]) = OfBot(botOrder[j], leases' \ leases)
          /\ Waiting(botOrder[j]) = {c \in Claims : Contains(Store.pending[botOrder[j]], c)}
      BY <2>2, StoreFields DEF Served, Waiting
    <3> QED BY <2>2, <2>4, <3>2, <3>3, <3>4, StoreFields DEF InOrder
  <2> QED BY <2>3, <2>4
<1>2. Orderly /\ [Next]_vars
        => [/\ \A b \in Bots : \A c, d \in Waiting(b) :
                  Position(b, c) < Position(b, d) /\ d \in leases' /\ d \notin leases
                    => ~Contains(pending'[b], c)
            /\ \A i, j \in 1..Len(botOrder) :
                  LET a == botOrder[i]
                      b == botOrder[j]
                      served == OfBot(b, leases' \ leases)
                  IN i < j /\ served \subseteq Waiting(b) /\ served # {}
                       /\ pending'[a] = pending[a]
                       => ~Admissible(Head(pending[a]), leases' \ served)]_vars
  BY <1>1
<1> QED BY <1>2, OrderlyAlways, PTL DEF Spec, ServiceInOrder

-----------------------------------------------------------------------------
(* The table callers are promised *)

\* What callers know, from what the promises say.
LEMMA ToldFacts ==
  ASSUME promise \in [Claims -> Outcomes], NEW c \in Claims
  PROVE  /\ Told[c] \in {"idle", "waiting", "granted", "refused"}
         /\ Told[c] = "granted" <=> promise[c] = "accepted"
         /\ Told[c] = "idle" <=> promise[c] = "idle"
         /\ Told[c] = "waiting" <=> promise[c] = "waiting"
         /\ Told[c] = "refused" <=> promise[c] \in Refusals
BY DEF Told, Refusals

\* A good step of the store is a step of the table.
LEMMA GoodStepTable ==
  ASSUME Orderly, NEW t, Become(t), GoodStep(Store, t)
  PROVE  Table!TableStep
<1>0. /\ promise \in [Claims -> Outcomes]
      /\ Answered(Store, t) /\ t \in SafeStores /\ Queued(t) /\ t.leases \subseteq Claims
      /\ leases' = t.leases /\ promise' = t.promise /\ leases \subseteq Claims
  BY OrderlyFields, GoodStoreFields DEF GoodStep, Become
<1>1. promise' \in [Claims -> Outcomes]
  BY <1>0, SafeStoreFields
<1>2. \A c \in Claims :
        /\ Told[c] \in {"idle", "waiting", "granted", "refused"}
        /\ Told[c] = "granted" <=> promise[c] = "accepted"
        /\ Told[c] = "idle" <=> promise[c] = "idle"
        /\ Told[c] = "waiting" <=> promise[c] = "waiting"
        /\ Told[c] = "refused" <=> promise[c] \in Refusals
  BY <1>0, ToldFacts
<1>3. \A c \in Claims :
        /\ Told'[c] \in {"idle", "waiting", "granted", "refused"}
        /\ Told'[c] = "granted" <=> promise'[c] = "accepted"
        /\ Told'[c] = "idle" <=> promise'[c] = "idle"
        /\ Told'[c] = "waiting" <=> promise'[c] = "waiting"
        /\ Told'[c] = "refused" <=> promise'[c] \in Refusals
  BY <1>1 DEF Told, Refusals
<1>4. Told' \in [Claims -> {"idle", "waiting", "granted", "refused"}]
  BY <1>3 DEF Told
<1>5. ASSUME NEW c \in Claims
      PROVE  /\ promise[c] = "waiting" => promise'[c] # "idle"
             /\ promise[c] = "accepted" => promise'[c] \in {"accepted", "idle"}
             /\ promise[c] \in Refusals => promise'[c] # "idle"
             /\ c \in leases' \ leases
                  <=> promise'[c] = "accepted" /\ promise[c] # "accepted"
  BY <1>0, StoreFields DEF Answered
<1>6. PICK x : \A c \in Claims :
                 c # x /\ promise[c] # "waiting" => promise'[c] = promise[c]
  BY <1>0, StoreFields DEF Answered
<1>7. \A c \in Claims : c # x /\ promise[c] # "waiting" => Told'[c] = Told[c]
  BY <1>6 DEF Told
<1>8. ASSUME NEW c \in Claims, Table!Acts(c) PROVE c = x
  BY <1>2, <1>7, <1>8 DEF Table!Acts, Table!Asks, Table!Returns
<1>9. leases' \in Compatible
  <2>1. PolicyHolds(t.leases)
    BY <1>0, SafeStoreFields
  <2> QED BY <1>0, <2>1 DEF PolicyHolds, Compatible
<1>10. leases' \ leases = {c \in Claims : Told'[c] = "granted" /\ Told[c] # "granted"}
  BY <1>0, <1>2, <1>3, <1>5
<1>11. leases' \subseteq {c \in Claims : Told'[c] = "granted"}
  BY <1>0, <1>3 DEF Queued
<1>12. \A c \in Claims :
         /\ Told[c] = "waiting" => Told'[c] \in {"waiting", "granted", "refused"}
         /\ Told[c] = "granted" => Told'[c] \in {"granted", "idle"}
         /\ Told[c] = "idle" => Told'[c] \in {"idle", "waiting", "granted", "refused"}
         /\ Told[c] = "refused" => Told'[c] # "idle"
  BY <1>2, <1>3, <1>5
<1>13. Table!Answers = {"idle", "waiting", "granted", "refused"}
  BY DEF Table!Answers
<1> QED BY <1>4, <1>8, <1>9, <1>10, <1>11, <1>12, <1>13 DEF Table!TableStep

\* The execution admission implements the table of leases its callers are
\* promised, for every fleet, set of claims and limits.
THEOREM KeepsTableHolds == Spec => KeepsTable
<1>1. Init => Table!TableInit
  BY DEF Init, Table!TableInit, Told
<1>2. Orderly /\ [Next]_vars => [Table!TableStep]_(Table!tableVars)
  <2> SUFFICES ASSUME Orderly, [Next]_vars
               PROVE  Table!TableStep \/ UNCHANGED Table!tableVars
    OBVIOUS
  <2>1. CASE Step
    BY <2>1, GoodStepTable DEF Step
  <2>2. CASE UNCHANGED vars
    BY <2>2 DEF vars, Table!tableVars, Told
  <2> QED BY <2>1, <2>2, EveryStep
<1> QED BY <1>1, <1>2, OrderlyAlways, PTL DEF Spec, KeepsTable, Table!TableSpec
=============================================================================
