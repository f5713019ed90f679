------------------------ MODULE GatewayIngressProofs ------------------------
(***************************************************************************)
(* What is proved of the gateway's inbound path, for any messages,         *)
(* sessions, tombstones, kinds and numbers of failing writes: a message's  *)
(* turn is started once; what was acknowledged is in the journal until it  *)
(* is settled, and what was settled stays so, if no write tears a line.    *)
(* The first rests on the receipt of the message's run alone, the others   *)
(* on how the map of the spool and its journal may differ.                 *)
(***************************************************************************)
EXTENDS GatewayIngress, SequenceLemmas, TLAPS

\* Whose turn was started has a run, which is never forgotten.
TurnsInv ==
  /\ run \in [Messages -> {"none", "active", "ended"}]
  /\ turns \in [Messages -> Nat]
  /\ \A m \in Messages : turns[m] <= 1 /\ (run[m] = "none" => turns[m] = 0)

LEMMA TurnsInit == GatewayInit => TurnsInv
BY DEF GatewayInit, TurnsInv

\* A turn starts only for a message whose run does not exist.
LEMMA StartTurnInv ==
  ASSUME TurnsInv, NEW m \in Messages, StartTurn(m)
  PROVE  TurnsInv'
<1>1. run[m] = "none" /\ turns[m] = 0
  BY DEF StartTurn, Startable, TurnsInv
<1>2. run' = [run EXCEPT ![m] = "active"] /\ turns' = [turns EXCEPT ![m] = @ + 1]
  BY DEF StartTurn
<1> QED BY <1>1, <1>2 DEF TurnsInv

\* The other steps of an execution end runs and start none.
LEMMA ExecuteInv ==
  ASSUME TurnsInv, NEW m \in Messages, Execute(m)
  PROVE  TurnsInv'
<1>1. CASE StartTurn(m)
  BY <1>1, StartTurnInv
<1>2. CASE Refused(m)
  <2>1. /\ turns' = turns
        /\ run' = [x \in Messages |->
                     IF sessionOf[x] = sessionOf[m] /\ run[x] = "active"
                     THEN "ended" ELSE run[x]]
    BY <1>2 DEF Refused
  <2> QED BY <2>1 DEF TurnsInv
<1>3. CASE TurnEnds(m) \/ TurnThrows(m)
  <2>1. /\ turns' = turns
        /\ run' = run \/ run' = [run EXCEPT ![m] = "ended"]
    BY <1>3 DEF TurnEnds, TurnThrows
  <2> QED BY <2>1 DEF TurnsInv
<1>4. CASE TurnedAway(m) \/ Unauthorized(m) \/ Delivered(m) \/ Throws(m)
  BY <1>4 DEF TurnedAway, Unauthorized, Delivered, Throws, TurnsInv
<1> QED BY <1>1, <1>2, <1>3, <1>4 DEF Execute

\* A restart ends the runs it finds, and forgets none.
LEMMA CrashInv == ASSUME TurnsInv, Crash PROVE TurnsInv'
<1>1. /\ turns' = turns
      /\ run' = [m \in Messages |-> IF run[m] = "none" THEN "none" ELSE "ended"]
  BY DEF Crash
<1> QED BY <1>1 DEF TurnsInv

LEMMA TurnsNext == TurnsInv /\ [GatewayNext]_gatewayVars => TurnsInv'
<1> SUFFICES ASSUME TurnsInv, [GatewayNext]_gatewayVars PROVE TurnsInv'
  OBVIOUS
<1>1. CASE UNCHANGED gatewayVars
  BY <1>1 DEF gatewayVars, TurnsInv
<1>2. CASE \E m \in Messages : Deliver(m) \/ HandOver(m)
  BY <1>2 DEF Deliver, HandOver, TurnsInv
<1>3. CASE \E m \in Messages : Execute(m)
  BY <1>3, ExecuteInv
<1>4. CASE \/ TakeNext \/ Settle \/ TimerFires \/ Answered \/ Start \/ Stop \/ Stopped
  BY <1>4 DEF TakeNext, Settle, TimerFires, Answered, Start, Stop, Stopped, TurnsInv
<1>5. CASE Crash
  BY <1>5, CrashInv
<1> QED BY <1>1, <1>2, <1>3, <1>4, <1>5 DEF GatewayNext

\* "No duplicate agent run was started": over redeliveries, retries, hand-overs,
\* discarded tombstones, writes that fail or tear, and restarts.
THEOREM AtMostOneTurnCorrect == GatewaySpec => []AtMostOneTurn
<1>1. TurnsInv => AtMostOneTurn
  BY DEF TurnsInv, AtMostOneTurn
<1> QED BY <1>1, TurnsInit, TurnsNext, PTL DEF GatewaySpec

-----------------------------------------------------------------------------
\* The filters of the spool.

\* What the recursion of Selected computes.
IsSelection(f, es, I) ==
  /\ DOMAIN f = 0 .. Len(es)
  /\ f[0] = <<>>
  /\ \A n \in 1 .. Len(es) :
       f[n] = IF n \in I THEN Append(f[n - 1], es[n]) ELSE f[n - 1]

LEMMA SelectionExists ==
  ASSUME NEW S, NEW es \in Seq(S), NEW I
  PROVE  \E f : IsSelection(f, es, I) /\ Selected(es, I) = f[Len(es)]
<1> DEFINE N == Len(es)
           step == [p \in (1..N) \X Seq(S) |->
                      IF p[1] \in I THEN Append(p[2], es[p[1]]) ELSE p[2]]
           rec(g) == [n \in 0..N |->
                        IF n = 0 THEN <<>>
                        ELSE IF n \in I THEN Append(g[n - 1], es[n]) ELSE g[n - 1]]
           f == CHOOSE g : g = rec(g)
<1>1. N \in Nat
  OBVIOUS
<1>2. step \in [(1..N) \X Seq(S) -> Seq(S)]
  <2>1. ASSUME NEW p \in (1..N) \X Seq(S)
        PROVE  (IF p[1] \in I THEN Append(p[2], es[p[1]]) ELSE p[2]) \in Seq(S)
    <3>1. p[1] \in 1..N /\ p[2] \in Seq(S) /\ es[p[1]] \in S
      BY ElementOfSeq
    <3>2. Append(p[2], es[p[1]]) \in Seq(S)
      BY <3>1
    <3> QED BY <3>1, <3>2
  <2> QED BY <2>1
<1>3. <<>> \in Seq(S)
  OBVIOUS
<1>4. PICK g \in [0..N -> Seq(S)] :
        g[0] = <<>> /\ \A n \in 1..N : g[n] = step[<<n, g[n - 1]>>]
  <2> DEFINE T == Seq(S)
             s0 == <<>>
  <2>1. s0 \in T /\ step \in StepFunctions(N, T)
    BY <1>2, <1>3 DEF StepFunctions
  <2> HIDE DEF T, s0, step, N, rec, f
  <2>2. PICK g : Unfolds(g, N, T, step, s0)
    BY <1>1, <2>1, RecursionExists
  <2> QED BY <2>2 DEF T, s0, Unfolds
<1>5. g = rec(g)
  <2>1. ASSUME NEW n \in 0..N, n # 0
        PROVE  g[n] = IF n \in I THEN Append(g[n - 1], es[n]) ELSE g[n - 1]
    <3>1. n \in 1..N /\ n - 1 \in 0..N
      BY <2>1
    <3>2. <<n, g[n - 1]>> \in (1..N) \X Seq(S)
      BY <3>1
    <3> QED BY <1>4, <3>1, <3>2
  <2> HIDE DEF step, N
  <2>2. DOMAIN g = 0..N
    OBVIOUS
  <2>3. g = [n \in 0..N |-> g[n]]
    OBVIOUS
  <2> QED BY <1>4, <2>1, <2>3
<1>6. f = rec(f)
  BY <1>5
<1>7. Selected(es, I) = f[N]
  BY DEF Selected
<1> HIDE DEF f
<1>8. IsSelection(f, es, I)
  <2>1. DOMAIN f = 0..N
    BY <1>6
  <2>2. 0 \in 0..N /\ \A n \in 1..N : n \in 0..N /\ n # 0
    OBVIOUS
  <2>3. f[0] = <<>>
    BY <1>6, <2>2
  <2>4. ASSUME NEW n \in 1..N
        PROVE  f[n] = IF n \in I THEN Append(f[n - 1], es[n]) ELSE f[n - 1]
    BY <1>6, <2>2
  <2> QED BY <2>1, <2>3, <2>4 DEF IsSelection
<1> QED BY <1>7, <1>8

\* A filter gives the entries at the positions selected, each once.
LEMMA SelectedFacts ==
  ASSUME NEW S, NEW es \in Seq(S), NEW I, I \subseteq DOMAIN es
  PROVE  /\ Selected(es, I) \in Seq(S)
         /\ \A k \in DOMAIN Selected(es, I) : \E i \in I : Selected(es, I)[k] = es[i]
         /\ \A i \in I : \E k \in DOMAIN Selected(es, I) : Selected(es, I)[k] = es[i]
         /\ IsInjective(es) => IsInjective(Selected(es, I))
<1>0. Len(es) \in Nat /\ DOMAIN es = 1..Len(es) /\ \A i \in 1..Len(es) : es[i] \in S
  BY ElementOfSeq
<1>1. PICK f : IsSelection(f, es, I) /\ Selected(es, I) = f[Len(es)]
  BY SelectionExists
<1> DEFINE Part(n) ==
             /\ f[n] \in Seq(S)
             /\ \A k \in 1..Len(f[n]) : \E i \in I : i <= n /\ f[n][k] = es[i]
             /\ \A i \in I : i <= n => \E k \in 1..Len(f[n]) : f[n][k] = es[i]
             /\ IsInjective(es) =>
                  \A j, k \in 1..Len(f[n]) : f[n][j] = f[n][k] => j = k
           P == {n \in Nat : n <= Len(es) => Part(n)}
<1>2. 0 \in P
  <2>1. f[0] = <<>>
    BY <1>1 DEF IsSelection
  <2>2. f[0] \in Seq(S) /\ 1..Len(f[0]) = {} /\ \A i \in I : ~(i <= 0)
    BY <1>0, <2>1
  <2>3. Part(0)
    BY <2>2
  <2> QED BY <2>3
<1>3. ASSUME NEW n \in Nat, n \in P PROVE n + 1 \in P
  <2>1. SUFFICES ASSUME n + 1 <= Len(es) PROVE Part(n + 1)
    OBVIOUS
  <2>2. Part(n)
    BY <1>0, <1>3, <2>1
  <2>3. n + 1 \in 1..Len(es) /\ (n + 1) - 1 = n /\ es[n + 1] \in S
    BY <1>0, <2>1
  <2>4. f[n + 1] = IF n + 1 \in I THEN Append(f[n], es[n + 1]) ELSE f[n]
    BY <1>1, <2>3 DEF IsSelection
  <2> DEFINE u == f[n]
             t == Append(u, es[n + 1])
             L == Len(u)
  <2>5. u \in Seq(S) /\ L \in Nat
    BY <2>2
  <2>6. CASE n + 1 \in I
    <3>1. /\ t \in Seq(S) /\ Len(t) = L + 1 /\ t[L + 1] = es[n + 1]
          /\ \A k \in 1..L : t[k] = u[k]
      BY <2>3, <2>5, AppendProperties
    <3>2. f[n + 1] = t
      BY <2>4, <2>6
    <3>3. /\ \A k \in 1..L : \E i \in I : i <= n /\ u[k] = es[i]
          /\ \A i \in I : i <= n => \E k \in 1..L : u[k] = es[i]
          /\ IsInjective(es) => \A j, k \in 1..L : u[j] = u[k] => j = k
      BY <2>2
    <3> HIDE DEF t, u, L
    <3>4. ASSUME NEW k \in 1..(L + 1) PROVE \E i \in I : i <= n + 1 /\ t[k] = es[i]
      <4>1. CASE k = L + 1
        BY <2>6, <3>1, <4>1
      <4>2. CASE k \in 1..L
        <5>1. PICK i \in I : i <= n /\ u[k] = es[i]
          BY <3>3, <4>2
        <5>2. i \in Nat /\ i <= n + 1
          BY <1>0, <5>1
        <5> QED BY <3>1, <4>2, <5>1, <5>2
      <4> QED BY <2>5, <4>1, <4>2
    <3>5. ASSUME NEW i \in I, i <= n + 1
          PROVE  \E k \in 1..(L + 1) : t[k] = es[i]
      <4>1. CASE i = n + 1
        <5>1. L + 1 \in 1..(L + 1)
          BY <2>5
        <5> QED BY <3>1, <4>1, <5>1
      <4>2. CASE i <= n
        <5>1. PICK k \in 1..L : u[k] = es[i]
          BY <3>3, <4>2
        <5>2. k \in 1..(L + 1)
          BY <2>5
        <5> QED BY <3>1, <5>1, <5>2
      <4> QED BY <1>0, <3>5, <4>1, <4>2
    <3>6. ASSUME IsInjective(es), NEW j \in 1..(L + 1), NEW k \in 1..(L + 1), t[j] = t[k]
          PROVE  j = k
      <4>1. ASSUME NEW p \in 1..L PROVE t[p] # es[n + 1]
        <5>1. PICK i \in I : i <= n /\ u[p] = es[i]
          BY <3>3
        <5>2. i \in DOMAIN es /\ i # n + 1 /\ n + 1 \in DOMAIN es
          BY <1>0, <2>3, <5>1
        <5> QED BY <3>1, <3>6, <5>1, <5>2 DEF IsInjective
      <4>2. CASE j \in 1..L /\ k \in 1..L
        BY <3>1, <3>3, <3>6, <4>2
      <4>3. CASE j = L + 1 \/ k = L + 1
        BY <2>5, <3>1, <3>6, <4>1, <4>3
      <4> QED BY <2>5, <4>2, <4>3
    <3>7. /\ f[n + 1] \in Seq(S)
          /\ \A k \in 1..Len(f[n + 1]) : \E i \in I : i <= n + 1 /\ f[n + 1][k] = es[i]
          /\ \A i \in I : i <= n + 1 => \E k \in 1..Len(f[n + 1]) : f[n + 1][k] = es[i]
          /\ IsInjective(es) =>
               \A j, k \in 1..Len(f[n + 1]) : f[n + 1][j] = f[n + 1][k] => j = k
      BY <3>1, <3>2, <3>4, <3>5, <3>6
    <3> QED BY <3>7
  <2>7. CASE n + 1 \notin I
    <3> DEFINE v == f[n]
    <3>1. f[n + 1] = v
      BY <2>4, <2>7
    <3>2. ASSUME NEW i \in I, i <= n + 1 PROVE i <= n
      BY <1>0, <2>7, <3>2
    <3>3. /\ v \in Seq(S)
          /\ \A k \in 1..Len(v) : \E i \in I : i <= n /\ v[k] = es[i]
          /\ \A i \in I : i <= n => \E k \in 1..Len(v) : v[k] = es[i]
          /\ IsInjective(es) => \A j, k \in 1..Len(v) : v[j] = v[k] => j = k
      BY <2>2
    <3> HIDE DEF v, u, t, L
    <3>4. \A i \in I : i <= n => i <= n + 1
      BY <1>0
    <3>5. \A k \in 1..Len(v) : \E i \in I : i <= n + 1 /\ v[k] = es[i]
      BY <3>3, <3>4
    <3>6. \A i \in I : i <= n + 1 => \E k \in 1..Len(v) : v[k] = es[i]
      BY <3>2, <3>3
    <3> QED BY <3>1, <3>3, <3>5, <3>6
  <2> QED BY <2>6, <2>7
<1> HIDE DEF P
<1>4. Part(Len(es))
  <2>1. Len(es) \in P
    BY <1>0, <1>2, <1>3, SetInduction
  <2>2. Len(es) <= Len(es)
    BY <1>0
  <2> HIDE DEF Part
  <2> QED BY <2>1, <2>2 DEF P
<1> DEFINE r == Selected(es, I)
<1>5. r = f[Len(es)]
  BY <1>1
<1>6. /\ r \in Seq(S) /\ DOMAIN r = 1..Len(r)
      /\ \A k \in 1..Len(r) : \E i \in I : i <= Len(es) /\ r[k] = es[i]
      /\ \A i \in I : i <= Len(es) => \E k \in 1..Len(r) : r[k] = es[i]
      /\ IsInjective(es) => \A j, k \in 1..Len(r) : r[j] = r[k] => j = k
  BY <1>4, <1>5
<1>7. \A i \in I : i <= Len(es)
  BY <1>0
<1> HIDE DEF r
<1>8. /\ \A k \in DOMAIN r : \E i \in I : r[k] = es[i]
      /\ \A i \in I : \E k \in DOMAIN r : r[k] = es[i]
  BY <1>6, <1>7
<1>9. IsInjective(es) => IsInjective(r)
  BY <1>6 DEF IsInjective
<1> QED BY <1>6, <1>8, <1>9 DEF r

-----------------------------------------------------------------------------
\* A reading of the spool: the entries of the map, or of the journal.

\* A message has one entry at most.
Distinct(es) == IsInjective([i \in DOMAIN es |-> es[i].msg])
Reading(es) == es \in Seq(Entry) /\ Distinct(es)

\* The payload of m is there.
HasPayload(es, m) == \E i \in DOMAIN es : es[i].msg = m /\ es[i].payload

LEMMA ReadingFacts ==
  ASSUME NEW es, Reading(es)
  PROVE  /\ Len(es) \in Nat /\ DOMAIN es = 1..Len(es)
         /\ \A i \in DOMAIN es :
              /\ es[i] \in Entry /\ es[i].msg \in Messages
              /\ es[i].status \in Terminal \cup Live /\ es[i].payload \in BOOLEAN
         /\ \A i, j \in DOMAIN es : es[i].msg = es[j].msg => i = j
         /\ IsInjective(es)
<1>1. Len(es) \in Nat /\ DOMAIN es = 1..Len(es) /\ \A i \in DOMAIN es : es[i] \in Entry
  BY ElementOfSeq DEF Reading
<1>2. \A i, j \in DOMAIN es : es[i].msg = es[j].msg => i = j
  <2> DEFINE f == [i \in DOMAIN es |-> es[i].msg]
  <2>1. DOMAIN f = DOMAIN es /\ \A i \in DOMAIN es : f[i] = es[i].msg
    OBVIOUS
  <2>2. IsInjective(f)
    BY DEF Reading, Distinct
  <2> HIDE DEF f
  <2> QED BY <2>1, <2>2 DEF IsInjective
<1>3. IsInjective(es)
  BY <1>2 DEF IsInjective
<1> QED BY <1>1, <1>2, <1>3 DEF Entry

\* What makes a reading.
LEMMA ReadingRule ==
  ASSUME NEW es \in Seq(Entry),
         \A i, j \in DOMAIN es : es[i].msg = es[j].msg => i = j
  PROVE  Reading(es)
BY DEF Reading, Distinct, IsInjective

\* The status of a message is that of its entry.
LEMMA StatusFacts ==
  ASSUME NEW es, Reading(es)
  PROVE  /\ \A i \in DOMAIN es : StatusOf(es, es[i].msg) = es[i].status
         /\ \A m : ~Has(es, m) => StatusOf(es, m) = "none"
         /\ \A m : Has(es, m) => StatusOf(es, m) \in Terminal \cup Live
         /\ \A m : StatusOf(es, m) # "none" => Has(es, m)
<1>1. ASSUME NEW i \in DOMAIN es PROVE StatusOf(es, es[i].msg) = es[i].status
  <2> DEFINE k == CHOOSE k \in DOMAIN es : es[k].msg = es[i].msg
  <2>1. k \in DOMAIN es /\ es[k].msg = es[i].msg
    OBVIOUS
  <2>2. k = i
    BY <2>1, ReadingFacts
  <2>3. Has(es, es[i].msg)
    BY DEF Has
  <2>4. StatusOf(es, es[i].msg) = es[k].status
    BY <2>3 DEF StatusOf
  <2> HIDE DEF k
  <2> QED BY <2>2, <2>4
<1>2. ASSUME NEW m, ~Has(es, m) PROVE StatusOf(es, m) = "none"
  BY <1>2 DEF StatusOf
<1>3. ASSUME NEW m, Has(es, m) PROVE StatusOf(es, m) \in Terminal \cup Live
  <2>1. PICK i \in DOMAIN es : es[i].msg = m
    BY <1>3 DEF Has
  <2> QED BY <1>1, <2>1, ReadingFacts
<1> QED BY <1>1, <1>2, <1>3

\* A status has one of three kinds.
LEMMA Kinds == /\ "none" \notin Terminal \cup Live
               /\ Terminal \cap Live = {}
               /\ \A st \in Terminal \cup Live : st \in Terminal \/ st \in Live
BY DEF Terminal, Live

\* The event of a status changes that of the message it names.
LEMMA ChangedFacts ==
  ASSUME NEW es, Reading(es), NEW m, NEW st \in Terminal \cup Live
  PROVE  /\ Reading(Changed(es, m, st))
         /\ StatusOf(Changed(es, m, st), m) = IF Has(es, m) THEN st ELSE "none"
         /\ \A x : x # m => StatusOf(Changed(es, m, st), x) = StatusOf(es, x)
         /\ \A x : HasPayload(es, x) => HasPayload(Changed(es, m, st), x)
         /\ \A x : Has(es, x) <=> Has(Changed(es, m, st), x)
<1> DEFINE c == Changed(es, m, st)
<1>0. Len(es) \in Nat /\ DOMAIN es = 1..Len(es)
  BY ReadingFacts
<1>1. /\ DOMAIN c = DOMAIN es
      /\ \A i \in DOMAIN es :
           c[i] = IF es[i].msg = m THEN [es[i] EXCEPT !.status = st] ELSE es[i]
  BY DEF Changed
<1> HIDE DEF c
<1>2. ASSUME NEW i \in DOMAIN es
      PROVE  /\ c[i] \in Entry
             /\ c[i].msg = es[i].msg /\ c[i].payload = es[i].payload
             /\ c[i].status = IF es[i].msg = m THEN st ELSE es[i].status
  <2>1. es[i] \in Entry
    BY ReadingFacts
  <2> QED BY <1>1, <2>1 DEF Entry
<1>3. c \in Seq(Entry)
  <2>1. c \in [1..Len(es) -> Entry]
    <3>1. c = [i \in DOMAIN es |-> c[i]]
      BY <1>1 DEF c, Changed
    <3> QED BY <1>0, <1>2, <3>1
  <2> QED BY <1>0, <2>1, IsASeq
<1>4. Reading(c)
  BY <1>1, <1>2, <1>3, ReadingFacts, ReadingRule
<1>5. \A x : Has(es, x) <=> Has(c, x)
  BY <1>1, <1>2 DEF Has
<1>6. \A x : HasPayload(es, x) => HasPayload(c, x)
  BY <1>1, <1>2 DEF HasPayload
<1>7. ASSUME NEW x PROVE StatusOf(c, x) = IF x = m /\ Has(es, m) THEN st ELSE StatusOf(es, x)
  <2>1. CASE Has(es, x)
    <3>1. PICK i \in DOMAIN es : es[i].msg = x
      BY <2>1 DEF Has
    <3>2. StatusOf(c, x) = c[i].status /\ StatusOf(es, x) = es[i].status
      BY <1>1, <1>2, <1>4, <3>1, StatusFacts
    <3> QED BY <1>2, <2>1, <3>1, <3>2
  <2>2. CASE ~Has(es, x)
    BY <1>4, <1>5, <2>2, StatusFacts
  <2> QED BY <2>1, <2>2
<1>8. StatusOf(c, m) = IF Has(es, m) THEN st ELSE "none"
  BY <1>7, StatusFacts
<1> QED BY <1>4, <1>5, <1>6, <1>7, <1>8 DEF c

\* a is es with a new entry of m at k, where one of m was if there was one.
PutAt(es, m, a, k) ==
  /\ a \in Seq(Entry) /\ k \in DOMAIN a /\ a[k] = Fresh(m)
  /\ \A i \in DOMAIN a : i # k => i \in DOMAIN es /\ a[i] = es[i] /\ es[i].msg # m
  /\ \A i \in DOMAIN es : i \in DOMAIN a /\ (es[i].msg # m => i # k)

\* Wherever the entry of a new message is put, the others keep theirs.
LEMMA PutFacts ==
  ASSUME NEW es, Reading(es), NEW m \in Messages, NEW a, NEW k, PutAt(es, m, a, k)
  PROVE  /\ Reading(a)
         /\ StatusOf(a, m) = "queued"
         /\ HasPayload(a, m)
         /\ \A x : x # m => StatusOf(a, x) = StatusOf(es, x)
         /\ \A x : HasPayload(es, x) => HasPayload(a, x)
<1> USE DEF PutAt
<1>0. Fresh(m) \in Entry /\ Fresh(m).msg = m /\ Fresh(m).status = "queued" /\ Fresh(m).payload
  BY DEF Fresh, Entry, Live
<1>1. Reading(a)
  <2>1. ASSUME NEW i \in DOMAIN a, NEW j \in DOMAIN a, a[i].msg = a[j].msg
        PROVE  i = j
    <3>1. CASE i = k \/ j = k
      BY <1>0, <2>1, <3>1
    <3>2. CASE i # k /\ j # k
      BY <2>1, <3>2, ReadingFacts
    <3> QED BY <3>1, <3>2
  <2> QED BY <2>1, ReadingRule
<1>2. StatusOf(a, m) = "queued"
  BY <1>0, <1>1, StatusFacts
<1>3. HasPayload(a, m)
  BY <1>0 DEF HasPayload
<1>4. ASSUME NEW x, x # m PROVE StatusOf(a, x) = StatusOf(es, x)
  <2>1. CASE Has(es, x)
    <3>1. PICK i \in DOMAIN es : es[i].msg = x
      BY <2>1 DEF Has
    <3>2. i \in DOMAIN a /\ a[i] = es[i]
      BY <1>4, <3>1
    <3> QED BY <1>1, <3>1, <3>2, StatusFacts
  <2>2. CASE ~Has(es, x)
    <3>1. ~Has(a, x)
      BY <1>0, <1>4, <2>2 DEF Has
    <3> QED BY <1>1, <2>2, <3>1, StatusFacts
  <2> QED BY <2>1, <2>2
<1>5. ASSUME NEW x, HasPayload(es, x) PROVE HasPayload(a, x)
  <2>1. CASE x = m
    BY <1>3, <2>1
  <2>2. CASE x # m
    BY <1>5, <2>2 DEF HasPayload
  <2> QED BY <2>1, <2>2
<1> QED BY <1>1, <1>2, <1>3, <1>4, <1>5

\* The event of an acceptance adds the message, or renews it.
LEMMA AcceptedFacts ==
  ASSUME NEW es, Reading(es), NEW m \in Messages
  PROVE  /\ Reading(Accepted(es, m))
         /\ StatusOf(Accepted(es, m), m) = "queued"
         /\ HasPayload(Accepted(es, m), m)
         /\ \A x : x # m => StatusOf(Accepted(es, m), x) = StatusOf(es, x)
         /\ \A x : HasPayload(es, x) => HasPayload(Accepted(es, m), x)
<1> DEFINE a == Accepted(es, m)
<1>0. Len(es) \in Nat /\ DOMAIN es = 1..Len(es)
  BY ReadingFacts
<1>1. Fresh(m) \in Entry /\ Fresh(m).msg = m /\ Fresh(m).status = "queued" /\ Fresh(m).payload
  BY DEF Fresh, Entry, Live
<1>3. CASE Has(es, m)
  <2>1. PICK k \in DOMAIN es : es[k].msg = m
    BY <1>3 DEF Has
  <2>2. \A i \in DOMAIN es : es[i].msg = m => i = k
    BY <2>1, ReadingFacts
  <2>3. /\ DOMAIN a = DOMAIN es
        /\ \A i \in DOMAIN es : a[i] = IF es[i].msg = m THEN Fresh(m) ELSE es[i]
    BY <1>3 DEF Accepted
  <2>4. a \in Seq(Entry)
    <3>1. \A i \in DOMAIN es : (IF es[i].msg = m THEN Fresh(m) ELSE es[i]) \in Entry
      BY <1>1, ReadingFacts
    <3>2. a \in [1..Len(es) -> Entry]
      BY <1>0, <1>3, <3>1 DEF Accepted
    <3> QED BY <1>0, <3>2, IsASeq
  <2>5. a[k] = Fresh(m) /\ k \in DOMAIN a
    BY <2>1, <2>3
  <2> HIDE DEF a
  <2>6. ASSUME NEW i \in DOMAIN a, i # k
        PROVE  i \in DOMAIN es /\ a[i] = es[i] /\ es[i].msg # m
    <3>1. i \in DOMAIN es /\ es[i].msg # m
      BY <2>2, <2>3, <2>6
    <3> QED BY <2>3, <3>1
  <2>7. \A i \in DOMAIN es : i \in DOMAIN a /\ (es[i].msg # m => i # k)
    BY <2>1, <2>3
  <2>8. PutAt(es, m, a, k)
    BY <2>4, <2>5, <2>6, <2>7 DEF PutAt
  <2> QED BY <2>8, PutFacts DEF a
<1>4. CASE ~Has(es, m)
  <2>1. a = Append(es, Fresh(m))
    BY <1>4 DEF Accepted
  <2>2. es \in Seq(Entry)
    BY DEF Reading
  <2> DEFINE k == Len(es) + 1
  <2> HIDE DEF a
  <2>3. /\ a \in Seq(Entry) /\ Len(a) = k /\ a[k] = Fresh(m)
        /\ \A i \in 1..Len(es) : a[i] = es[i]
    BY <1>1, <2>1, <2>2, AppendProperties
  <2>4. DOMAIN a = 1..k /\ k \in DOMAIN a
    BY <1>0, <2>3
  <2>5. ASSUME NEW i \in DOMAIN a, i # k
        PROVE  i \in DOMAIN es /\ a[i] = es[i] /\ es[i].msg # m
    <3>1. i \in 1..Len(es)
      BY <1>0, <2>4, <2>5
    <3>2. i \in DOMAIN es /\ a[i] = es[i]
      BY <1>0, <2>3, <3>1
    <3>3. es[i].msg # m
      BY <1>4, <3>2 DEF Has
    <3> QED BY <3>2, <3>3
  <2>6. \A i \in DOMAIN es : i \in DOMAIN a /\ (es[i].msg # m => i # k)
    BY <1>0, <2>4
  <2> HIDE DEF k
  <2>7. PutAt(es, m, a, k)
    BY <2>3, <2>4, <2>5, <2>6 DEF PutAt
  <2> QED BY <2>7, PutFacts DEF a
<1> QED BY <1>3, <1>4

\* The settled messages of a reading; enough of them to discard one.
SettledIn(es) == {m \in Messages : StatusOf(es, m) \in Terminal}
Enough(S) == Cardinality(S) >= MaxTombstones

\* They are not more than its entries.
LEMMA SettledFinite == ASSUME NEW es, Reading(es) PROVE IsFiniteSet(SettledIn(es))
<1> DEFINE f == [m \in SettledIn(es) |-> CHOOSE i \in DOMAIN es : es[i].msg = m]
<1>1. ASSUME NEW m \in SettledIn(es) PROVE f[m] \in DOMAIN es /\ es[f[m]].msg = m
  <2>1. Has(es, m)
    BY StatusFacts, Kinds DEF SettledIn
  <2> QED BY <2>1 DEF Has
<1>2. f \in [SettledIn(es) -> DOMAIN es]
  BY <1>1
<1>3. DOMAIN f = SettledIn(es)
  OBVIOUS
<1> HIDE DEF f
<1>4. f \in Injection(SettledIn(es), DOMAIN es)
  <2>1. IsInjective(f)
    BY <1>1, <1>3 DEF IsInjective
  <2> QED BY <1>2, <2>1 DEF Injection
<1>5. IsFiniteSet(DOMAIN es)
  <2>1. DOMAIN es = 1..Len(es) /\ Len(es) \in Int /\ 1 \in Int
    BY ReadingFacts
  <2> QED BY <2>1, FS_Interval
<1> QED BY <1>4, <1>5, FS_Injection

\* Whoever is discarded leaves enough behind.
LEMMA DiscardedLeavesEnough ==
  ASSUME NEW es, Reading(es), NEW c, Reading(c), Discarded(es) # {},
         \A i \in DOMAIN es \ Discarded(es) : StatusOf(c, es[i].msg) = es[i].status
  PROVE  Enough(SettledIn(c))
<1>0. /\ Len(es) \in Nat /\ DOMAIN es = 1..Len(es)
      /\ \A i \in DOMAIN es : es[i].msg \in Messages
  BY ReadingFacts
<1>1. PICK g \in Discarded(es) : \A i \in Discarded(es) : i <= g
  <2>1. Discarded(es) \subseteq Nat /\ \A i \in Discarded(es) : i <= Len(es)
    BY <1>0 DEF Discarded
  <2> QED BY <1>0, <2>1, GreatestExists
<1> DEFINE N == {j \in DOMAIN es : j > g /\ IsSettled(es[j])}
           f == [j \in N |-> es[j].msg]
<1>2. g \in Nat /\ Cardinality(N) >= MaxTombstones
  BY <1>0, <1>1 DEF Discarded
<1>3. ASSUME NEW j \in N PROVE es[j].msg \in SettledIn(c)
  <2>1. j \in DOMAIN es /\ j > g /\ IsSettled(es[j])
    OBVIOUS
  <2>2. j \notin Discarded(es)
    BY <1>0, <1>1, <1>2, <2>1
  <2> QED BY <1>0, <2>1, <2>2 DEF SettledIn, IsSettled
<1>4. f \in [N -> SettledIn(c)] /\ DOMAIN f = N
  BY <1>3
<1>5. \A i, j \in N : f[i] = f[j] => i = j
  BY ReadingFacts
<1> HIDE DEF f, N
<1>6. f \in Injection(N, SettledIn(c))
  <2>1. IsInjective(f)
    BY <1>4, <1>5 DEF IsInjective
  <2> QED BY <1>4, <2>1 DEF Injection
<1>7. IsFiniteSet(N) /\ Cardinality(N) <= Cardinality(SettledIn(c))
  BY <1>6, SettledFinite, FS_Injection
<1>8. Cardinality(N) \in Nat /\ Cardinality(SettledIn(c)) \in Nat
  BY <1>7, SettledFinite, FS_CardinalityType
<1> QED BY <1>2, <1>7, <1>8, SpoolAssumption DEF Enough

\* A compaction keeps what is not settled, payload and all, and forgets who is
\* settled only if it keeps enough that are.
LEMMA CompactFacts ==
  ASSUME NEW es, Reading(es)
  PROVE  /\ Reading(Compact(es))
         /\ \A x : StatusOf(Compact(es), x) \in {StatusOf(es, x), "none"}
         /\ \A x : StatusOf(es, x) \in Live =>
              /\ StatusOf(Compact(es), x) = StatusOf(es, x)
              /\ HasPayload(es, x) => HasPayload(Compact(es), x)
         /\ \A x : StatusOf(Compact(es), x) # StatusOf(es, x) =>
              Enough(SettledIn(Compact(es)))
<1> DEFINE J == DOMAIN es \ Discarded(es)
           k == Selected(es, J)
           c == Compact(es)
<1>0. Len(es) \in Nat /\ DOMAIN es = 1..Len(es) /\ es \in Seq(Entry)
  BY ReadingFacts DEF Reading
<1>1. /\ k \in Seq(Entry)
      /\ \A n \in DOMAIN k : \E i \in J : k[n] = es[i]
      /\ \A i \in J : \E n \in DOMAIN k : k[n] = es[i]
      /\ IsInjective(k)
  <2>1. J \subseteq DOMAIN es /\ IsInjective(es)
    BY ReadingFacts
  <2> HIDE DEF J
  <2>2. /\ Selected(es, J) \in Seq(Entry)
        /\ \A n \in DOMAIN Selected(es, J) : \E i \in J : Selected(es, J)[n] = es[i]
        /\ \A i \in J : \E n \in DOMAIN Selected(es, J) : Selected(es, J)[n] = es[i]
        /\ IsInjective(es) => IsInjective(Selected(es, J))
    BY <1>0, <2>1, SelectedFacts
  <2> QED BY <2>1, <2>2
<1>2. /\ DOMAIN c = DOMAIN k
      /\ \A n \in DOMAIN k :
           c[n] = IF IsSettled(k[n]) THEN [k[n] EXCEPT !.payload = FALSE] ELSE k[n]
      /\ c = [n \in DOMAIN k |-> c[n]]
  BY DEF Compact
<1> HIDE DEF k, c
<1>3. ASSUME NEW n \in DOMAIN k
      PROVE  /\ c[n] \in Entry /\ c[n].msg = k[n].msg /\ c[n].status = k[n].status
             /\ ~IsSettled(k[n]) => c[n] = k[n]
  <2>1. k[n] \in Entry
    BY <1>1, ElementOfSeq
  <2> QED BY <1>2, <2>1 DEF Entry
<1>4. c \in Seq(Entry)
  <2>1. DOMAIN k = 1..Len(k) /\ Len(k) \in Nat
    BY <1>1
  <2>2. c \in [1..Len(k) -> Entry]
    BY <1>2, <1>3, <2>1
  <2> QED BY <2>1, <2>2, IsASeq
<1>5. Reading(c)
  <2>1. ASSUME NEW n \in DOMAIN k, NEW p \in DOMAIN k, k[n].msg = k[p].msg
        PROVE  n = p
    <3>1. PICK i \in J : k[n] = es[i]
      BY <1>1
    <3>2. PICK j \in J : k[p] = es[j]
      BY <1>1
    <3>3. i = j
      BY <2>1, <3>1, <3>2, ReadingFacts
    <3> QED BY <1>1, <3>1, <3>2, <3>3 DEF IsInjective
  <2> QED BY <1>2, <1>3, <1>4, <2>1, ReadingRule
<1>6. ASSUME NEW i \in J
      PROVE  /\ StatusOf(c, es[i].msg) = es[i].status
             /\ StatusOf(es, es[i].msg) = es[i].status
             /\ ~IsSettled(es[i]) /\ es[i].payload => HasPayload(c, es[i].msg)
  <2>1. PICK n \in DOMAIN k : k[n] = es[i]
    BY <1>1
  <2>2. c[n].msg = es[i].msg /\ c[n].status = es[i].status /\ n \in DOMAIN c
    BY <1>2, <1>3, <2>1
  <2>3. StatusOf(c, es[i].msg) = es[i].status
    BY <1>5, <2>2, StatusFacts
  <2>4. StatusOf(es, es[i].msg) = es[i].status
    BY StatusFacts
  <2>5. ASSUME ~IsSettled(es[i]), es[i].payload PROVE HasPayload(c, es[i].msg)
    <3>1. c[n] = es[i]
      BY <1>3, <2>1, <2>5
    <3> QED BY <2>2, <2>5, <3>1 DEF HasPayload
  <2> QED BY <2>3, <2>4, <2>5
<1>7. ASSUME NEW x PROVE StatusOf(c, x) \in {StatusOf(es, x), "none"}
  <2>1. CASE Has(c, x)
    <3>1. PICK n \in DOMAIN k : k[n].msg = x
      BY <1>2, <1>3, <2>1 DEF Has
    <3>2. PICK i \in J : k[n] = es[i]
      BY <1>1
    <3> QED BY <1>6, <3>1, <3>2
  <2>2. CASE ~Has(c, x)
    BY <1>5, <2>2, StatusFacts
  <2> QED BY <2>1, <2>2
<1>8. ASSUME NEW x, StatusOf(es, x) \in Live
      PROVE  /\ StatusOf(c, x) = StatusOf(es, x)
             /\ HasPayload(es, x) => HasPayload(c, x)
  <2>1. PICK i \in DOMAIN es : es[i].msg = x
    BY <1>8, StatusFacts, Kinds DEF Has
  <2>2. es[i].status \in Live
    BY <1>8, <2>1, StatusFacts
  <2>3. ~IsSettled(es[i])
    BY <2>2, Kinds DEF IsSettled
  <2>4. i \in J
    BY <2>3 DEF Discarded
  <2>5. HasPayload(es, x) => es[i].payload
    BY <2>1, ReadingFacts DEF HasPayload
  <2> QED BY <1>6, <2>1, <2>3, <2>4, <2>5
<1>9. ASSUME NEW x, StatusOf(c, x) # StatusOf(es, x) PROVE Enough(SettledIn(c))
  <2>1. Has(es, x)
    BY <1>7, <1>9, StatusFacts
  <2>2. PICK i \in DOMAIN es : es[i].msg = x
    BY <2>1 DEF Has
  <2>3. i \in Discarded(es)
    BY <1>6, <1>9, <2>2
  <2> QED BY <1>5, <1>6, <2>3, DiscardedLeavesEnough
<1> QED BY <1>5, <1>7, <1>8, <1>9 DEF c

-----------------------------------------------------------------------------
\* The operations of the spool.

SpoolOK(s) == s \in Spool /\ Reading(s.mem) /\ Reading(s.disk)

Outcome == [spool : Spool, ok : BOOLEAN]

\* No line was cut short, and none can be.
Whole(s) == s.torn = FALSE /\ "torn" \notin Faults

\* An append leaves the map alone, and the journal as it was or with the event.
LEMMA AppendedShape ==
  ASSUME NEW s, s \in Spool, NEW es \in Seq(Entry), NEW o \in Appended(s, es)
  PROVE  /\ o \in Outcome /\ o.ok \in BOOLEAN /\ o.spool \in Spool
         /\ o.spool.mem = s.mem
         /\ o.spool.disk \in {s.disk, es}
         /\ Whole(s) => Whole(o.spool) /\ (o.ok => o.spool.disk = es)
<1>1. /\ Written(s, es) \in Spool /\ Written(s, es).mem = s.mem
      /\ Written(s, es).disk \in {s.disk, es}
      /\ Written(s, es).torn = FALSE
      /\ Whole(s) => Written(s, es).disk = es
  BY DEF Written, Spool, Whole
<1>2. CASE o = [spool |-> Written(s, es), ok |-> TRUE]
  BY <1>1, <1>2 DEF Whole, Outcome
<1>3. ASSUME NEW f \in MayFail(s),
             o = [spool |-> OneLess(CASE f = "lost" -> s
                                      [] f = "kept" -> Written(s, es)
                                      [] f = "torn" -> [s EXCEPT !.torn = TRUE]),
                  ok |-> FALSE]
      PROVE  /\ o \in Outcome /\ o.ok \in BOOLEAN /\ o.spool \in Spool
             /\ o.spool.mem = s.mem
             /\ o.spool.disk \in {s.disk, es}
             /\ Whole(s) => Whole(o.spool) /\ (o.ok => o.spool.disk = es)
  <2>0. f \in Faults /\ s.left > 0
    BY DEF MayFail
  <2>1. f \in {"lost", "kept", "torn"} /\ s.left \in Nat /\ s.left > 0 /\ MaxFailures \in Nat
    BY <2>0, SpoolAssumption DEF Spool
  <2>2. ASSUME NEW t, t \in Spool, t.left = s.left
        PROVE  /\ OneLess(t) \in Spool /\ OneLess(t).mem = t.mem
               /\ OneLess(t).disk = t.disk /\ OneLess(t).torn = t.torn
    <3>1. t.left - 1 \in 0 .. MaxFailures
      BY <2>1, <2>2 DEF Spool
    <3> QED BY <2>2, <3>1 DEF OneLess, Spool
  <2>3. CASE f = "lost"
    <3>1. o = [spool |-> OneLess(s), ok |-> FALSE]
      BY <1>3, <2>3
    <3> QED BY <2>2, <3>1 DEF Whole, Outcome
  <2>4. CASE f = "kept"
    <3>1. o = [spool |-> OneLess(Written(s, es)), ok |-> FALSE]
      BY <1>3, <2>4
    <3>2. Written(s, es).left = s.left
      BY DEF Written, Spool
    <3> QED BY <1>1, <2>2, <3>1, <3>2 DEF Whole, Outcome
  <2>5. CASE f = "torn"
    <3> DEFINE t == [s EXCEPT !.torn = TRUE]
    <3>1. o = [spool |-> OneLess(t), ok |-> FALSE]
      BY <1>3, <2>5
    <3>2. t \in Spool /\ t.left = s.left /\ t.mem = s.mem /\ t.disk = s.disk
      BY DEF Spool
    <3>3. ~Whole(s)
      BY <2>0, <2>5 DEF Whole, Outcome
    <3> HIDE DEF t
    <3> QED BY <2>2, <3>1, <3>2, <3>3 DEF Outcome
  <2> QED BY <2>1, <2>3, <2>4, <2>5
<1> QED BY <1>2, <1>3 DEF Appended

\* A compaction that fails leaves the map alone, and the journal perhaps.
LEMMA CompactedShape ==
  ASSUME NEW s, s \in Spool, Reading(s.mem), NEW t \in Compacted(s)
  PROVE  /\ t \in Spool
         /\ \/ t.mem = s.mem /\ t.disk = s.disk
            \/ t.mem = s.mem /\ t.disk = Compact(s.mem)
            \/ t.mem = Compact(s.mem) /\ t.disk = Compact(s.mem)
         /\ Whole(s) => Whole(t)
<1> DEFINE es == Compact(s.mem)
           r == [s EXCEPT !.disk = es, !.torn = FALSE]
<1>1. es \in Seq(Entry)
  BY CompactFacts DEF Reading
<1> HIDE DEF es
<1>2. /\ r \in Spool /\ r.mem = s.mem /\ r.disk = es /\ r.torn = FALSE /\ r.left = s.left
      /\ [r EXCEPT !.mem = es] \in Spool /\ [r EXCEPT !.mem = es].mem = es
      /\ [r EXCEPT !.mem = es].disk = es /\ [r EXCEPT !.mem = es].torn = FALSE
  BY <1>1 DEF Spool
<1>3. ASSUME NEW f \in MayFail(s), NEW u, u \in Spool, u.left = s.left
      PROVE  /\ OneLess(u) \in Spool /\ OneLess(u).mem = u.mem
             /\ OneLess(u).disk = u.disk /\ OneLess(u).torn = u.torn
  <2>1. s.left > 0 /\ s.left \in Nat /\ MaxFailures \in Nat
    BY SpoolAssumption DEF MayFail, Spool
  <2>2. u.left - 1 \in 0 .. MaxFailures
    BY <1>3, <2>1 DEF Spool
  <2> QED BY <1>3, <2>2 DEF OneLess, Spool
<1>4. \/ t = s
      \/ t = [r EXCEPT !.mem = es]
      \/ \E f \in MayFail(s) : t = OneLess(s) \/ t = OneLess(r)
  BY DEF Compacted, es
<1> HIDE DEF r
<1>5. CASE t = s
  BY <1>5
<1>6. CASE t = [r EXCEPT !.mem = es]
  BY <1>2, <1>6 DEF Whole, es
<1>7. ASSUME NEW f \in MayFail(s), t = OneLess(s) \/ t = OneLess(r)
      PROVE  /\ t \in Spool
             /\ \/ t.mem = s.mem /\ t.disk = s.disk
                \/ t.mem = s.mem /\ t.disk = es
             /\ Whole(s) => Whole(t)
  <2>1. CASE t = OneLess(s)
    BY <1>3, <2>1 DEF Whole
  <2>2. CASE t = OneLess(r)
    BY <1>2, <1>3, <2>2 DEF Whole
  <2> QED BY <1>7, <2>1, <2>2
<1> QED BY <1>4, <1>5, <1>6, <1>7 DEF es

\* The map and the journal after a status was set: nothing has changed but
\* perhaps the journal, or the map and the journal have it, perhaps compacted.
SetAs(s, t, m, st, ok) ==
  LET c == Changed(s.mem, m, st)
      d == Changed(s.disk, m, st)
  IN \/ ~ok /\ t.mem = s.mem /\ t.disk \in {s.disk, d}
     \/ ok /\ t.mem = c /\ (t.disk = d \/ (~Whole(s) /\ t.disk = s.disk))
     \/ ok /\ st \in Terminal /\ t.mem \in {c, Compact(c)} /\ t.disk = Compact(c)

LEMMA SetStatusShape ==
  ASSUME NEW s, SpoolOK(s), NEW m, NEW st \in Terminal \cup Live,
         NEW o \in SetStatus(s, m, st)
  PROVE  /\ o \in Outcome /\ o.ok \in BOOLEAN /\ SpoolOK(o.spool)
         /\ SetAs(s, o.spool, m, st, o.ok)
         /\ Whole(s) => Whole(o.spool)
<1> DEFINE c == Changed(s.mem, m, st)
           d == Changed(s.disk, m, st)
<1>1. Reading(c) /\ Reading(d) /\ Reading(Compact(c)) /\ c \in Seq(Entry) /\ d \in Seq(Entry)
  <2>1. Reading(c) /\ Reading(d)
    BY ChangedFacts DEF SpoolOK
  <2> HIDE DEF c, d
  <2> QED BY <2>1, CompactFacts DEF Reading
<1> HIDE DEF c, d
<1>2. s \in Spool /\ Reading(s.mem) /\ Reading(s.disk)
  BY DEF SpoolOK
<1>3. PICK a \in Appended(s, d) :
        o \in LET changed == [a.spool EXCEPT !.mem = Changed(@, m, st)] IN
              IF ~a.ok THEN {a}
              ELSE {[spool |-> t, ok |-> TRUE] :
                      t \in IF st \in Terminal THEN Compacted(changed) ELSE {changed}}
  BY DEF SetStatus, d
<1>4. /\ a \in Outcome /\ a.ok \in BOOLEAN /\ a.spool \in Spool /\ a.spool.mem = s.mem
      /\ a.spool.disk \in {s.disk, d}
      /\ Whole(s) => Whole(a.spool) /\ (a.ok => a.spool.disk = d)
  BY <1>1, <1>2, AppendedShape
<1>5. CASE ~a.ok
  <2>1. o = a
    BY <1>3, <1>5
  <2> QED BY <1>1, <1>2, <1>4, <1>5, <2>1 DEF SpoolOK, SetAs, c, d
<1>6. CASE a.ok
  <2> DEFINE h == [a.spool EXCEPT !.mem = c]
  <2>1. [a.spool EXCEPT !.mem = Changed(@, m, st)] = h
    BY <1>4 DEF c, Spool
  <2>2. PICK t \in IF st \in Terminal THEN Compacted(h) ELSE {h} :
          o = [spool |-> t, ok |-> TRUE]
    BY <1>3, <1>6, <2>1
  <2>3. /\ h \in Spool /\ h.mem = c /\ h.disk \in {s.disk, d} /\ Reading(h.mem)
        /\ Whole(s) => Whole(h) /\ h.disk = d
    BY <1>1, <1>4, <1>6 DEF Spool, Whole
  <2> HIDE DEF h
  <2>4. CASE t = h
    BY <1>1, <1>2, <2>2, <2>3, <2>4 DEF SpoolOK, SetAs, Outcome, c, d
  <2>5. CASE st \in Terminal /\ t \in Compacted(h)
    <3>1. /\ t \in Spool
          /\ \/ t.mem = c /\ t.disk = h.disk
             \/ t.mem \in {c, Compact(c)} /\ t.disk = Compact(c)
          /\ Whole(s) => Whole(t)
      BY <2>3, <2>5, CompactedShape
    <3>2. Reading(t.mem) /\ Reading(t.disk)
      BY <1>1, <1>2, <2>3, <3>1
    <3>3. o.ok = TRUE /\ o.spool = t /\ o \in Outcome
      BY <2>2, <3>1 DEF Outcome
    <3>4. SetAs(s, t, m, st, TRUE)
      BY <2>3, <2>5, <3>1 DEF SetAs, c, d
    <3> QED BY <3>1, <3>2, <3>3, <3>4 DEF SpoolOK
  <2> QED BY <2>2, <2>4, <2>5
<1> QED BY <1>4, <1>5, <1>6

-----------------------------------------------------------------------------
\* How the map and the journal of a spool may differ where no line is torn.

LiveIn(es, m) == StatusOf(es, m) \in Live

\* What is live in the map is in the journal; what is settled in the map is
\* settled so in the journal, unless a compaction that failed after its rename
\* has discarded it there; what is settled in the journal is in the map.
Agree(mem, disk) ==
  \A m \in Messages :
    /\ LiveIn(mem, m) => StatusOf(disk, m) # "none"
    /\ StatusOf(disk, m) \in Terminal => StatusOf(mem, m) # "none"
    /\ StatusOf(mem, m) \in Terminal =>
         \/ StatusOf(disk, m) = StatusOf(mem, m)
         \/ /\ StatusOf(disk, m) = "none"
            /\ Enough(SettledIn(mem) \cap SettledIn(disk))

\* A message that is kept: live in the map, with its payload there and in the
\* journal.
Kept(s, m) ==
  LiveIn(s.mem, m) /\ HasPayload(s.mem, m) /\ HasPayload(s.disk, m)

\* More than enough is enough.
LEMMA EnoughMore ==
  ASSUME NEW S, NEW T, S \subseteq T, IsFiniteSet(T), Enough(S)
  PROVE  Enough(T)
<1>1. IsFiniteSet(S) /\ Cardinality(S) <= Cardinality(T)
  BY FS_Subset
<1>2. Cardinality(S) \in Nat /\ Cardinality(T) \in Nat
  BY <1>1, FS_CardinalityType
<1> QED BY <1>1, <1>2, SpoolAssumption DEF Enough

\* A map agrees with itself, and with itself compacted.
LEMMA AgreeSelf == ASSUME NEW es, Reading(es) PROVE Agree(es, es)
BY Kinds DEF Agree, LiveIn

LEMMA AgreeCompact == ASSUME NEW es, Reading(es) PROVE Agree(es, Compact(es))
<1> DEFINE c == Compact(es)
<1>1. /\ \A x : StatusOf(c, x) \in {StatusOf(es, x), "none"}
      /\ \A x : StatusOf(es, x) \in Live => StatusOf(c, x) = StatusOf(es, x)
      /\ \A x : StatusOf(c, x) # StatusOf(es, x) => Enough(SettledIn(c))
  BY CompactFacts
<1> HIDE DEF c
<1>2. SettledIn(es) \cap SettledIn(c) = SettledIn(c)
  BY <1>1, Kinds DEF SettledIn
<1> QED BY <1>1, <1>2, Kinds DEF Agree, LiveIn, c

\* Setting the status of a live message.
LEMMA SetAsFacts ==
  ASSUME NEW s, SpoolOK(s), Whole(s), Agree(s.mem, s.disk),
         NEW m \in Messages, LiveIn(s.mem, m), NEW st \in Terminal \cup Live,
         NEW ok \in BOOLEAN, NEW t, SpoolOK(t), SetAs(s, t, m, st, ok)
  PROVE  /\ Agree(t.mem, t.disk)
         /\ \A x \in Messages :
              LiveIn(s.mem, x) /\ (x # m \/ st \in Live) => LiveIn(t.mem, x)
         /\ ~ok => t.mem = s.mem
         /\ ok /\ st \in Live => StatusOf(t.mem, m) = st
         /\ \A x \in Messages : Kept(s, x) /\ LiveIn(t.mem, x) => Kept(t, x)
         /\ \A x \in Messages : StatusOf(s.mem, x) \in Terminal =>
              \/ StatusOf(t.mem, x) = StatusOf(s.mem, x)
              \/ /\ st \in Terminal /\ ok
                 /\ StatusOf(t.mem, x) = "none"
                 /\ Enough(SettledIn(t.mem))
<1> DEFINE c == Changed(s.mem, m, st)
           d == Changed(s.disk, m, st)
           C == Compact(c)
<1>1. Reading(s.mem) /\ Reading(s.disk)
  BY DEF SpoolOK
<1>2. /\ Reading(c) /\ Reading(d)
      /\ StatusOf(c, m) = st
      /\ StatusOf(s.disk, m) # "none" /\ StatusOf(d, m) = st
      /\ \A x : x # m => StatusOf(c, x) = StatusOf(s.mem, x)
      /\ \A x : x # m => StatusOf(d, x) = StatusOf(s.disk, x)
      /\ \A x : HasPayload(s.mem, x) => HasPayload(c, x)
      /\ \A x : HasPayload(s.disk, x) => HasPayload(d, x)
  <2>1. StatusOf(s.disk, m) # "none" /\ StatusOf(s.mem, m) # "none"
    BY Kinds DEF Agree, LiveIn
  <2>2. Has(s.disk, m) /\ Has(s.mem, m)
    BY <1>1, <2>1, StatusFacts
  <2> QED BY <1>1, <2>1, <2>2, ChangedFacts
<1>3. /\ Reading(C)
      /\ \A x : StatusOf(C, x) \in {StatusOf(c, x), "none"}
      /\ \A x : StatusOf(c, x) \in Live =>
           /\ StatusOf(C, x) = StatusOf(c, x)
           /\ HasPayload(c, x) => HasPayload(C, x)
      /\ \A x : StatusOf(C, x) # StatusOf(c, x) => Enough(SettledIn(C))
      /\ Agree(c, C) /\ Agree(C, C)
  <2> HIDE DEF c
  <2> QED BY <1>2, CompactFacts, AgreeCompact, AgreeSelf
<1>4. \/ ~ok /\ t.mem = s.mem /\ t.disk = s.disk
      \/ ~ok /\ t.mem = s.mem /\ t.disk = d
      \/ ok /\ t.mem = c /\ t.disk = d
      \/ ok /\ st \in Terminal /\ t.mem = c /\ t.disk = C
      \/ ok /\ st \in Terminal /\ t.mem = C /\ t.disk = C
  BY DEF SetAs
<1> HIDE DEF c, d, C
\* The settled messages that the map and the journal agree on stay so.
<1>5. ASSUME NEW mem \in {s.mem, c}, Enough(SettledIn(s.mem) \cap SettledIn(s.disk))
      PROVE  Enough(SettledIn(mem) \cap SettledIn(d))
  <2>1. \A x \in SettledIn(s.mem) : x # m
    BY Kinds DEF SettledIn, LiveIn
  <2>2. SettledIn(s.mem) \cap SettledIn(s.disk) \subseteq SettledIn(mem) \cap SettledIn(d)
    BY <1>2, <2>1 DEF SettledIn
  <2>3. IsFiniteSet(SettledIn(mem) \cap SettledIn(d))
    <3>1. IsFiniteSet(SettledIn(d))
      BY <1>2, SettledFinite
    <3> QED BY <3>1, FS_Subset
  <2> QED BY <1>5, <2>2, <2>3, EnoughMore
<1>6. Agree(t.mem, t.disk)
  <2>1. CASE t.mem = s.mem /\ t.disk = s.disk
    BY <2>1
  <2>2. CASE t.mem = s.mem /\ t.disk = d
    <3>1. ASSUME NEW x \in Messages
          PROVE  /\ LiveIn(s.mem, x) => StatusOf(d, x) # "none"
                 /\ StatusOf(d, x) \in Terminal => StatusOf(s.mem, x) # "none"
                 /\ StatusOf(s.mem, x) \in Terminal =>
                      \/ StatusOf(d, x) = StatusOf(s.mem, x)
                      \/ /\ StatusOf(d, x) = "none"
                         /\ Enough(SettledIn(s.mem) \cap SettledIn(d))
      <4>1. CASE x = m
        BY <1>2, <4>1, Kinds DEF LiveIn
      <4>2. CASE x # m
        BY <1>2, <1>5, <4>2 DEF Agree
      <4> QED BY <4>1, <4>2
    <3> QED BY <2>2, <3>1 DEF Agree
  <2>3. CASE t.mem = c /\ t.disk = d
    <3>1. ASSUME NEW x \in Messages
          PROVE  /\ LiveIn(c, x) => StatusOf(d, x) # "none"
                 /\ StatusOf(d, x) \in Terminal => StatusOf(c, x) # "none"
                 /\ StatusOf(c, x) \in Terminal =>
                      \/ StatusOf(d, x) = StatusOf(c, x)
                      \/ /\ StatusOf(d, x) = "none"
                         /\ Enough(SettledIn(c) \cap SettledIn(d))
      <4>1. CASE x = m
        BY <1>2, <4>1, Kinds DEF LiveIn
      <4>2. CASE x # m
        BY <1>2, <1>5, <4>2 DEF Agree, LiveIn
      <4> QED BY <4>1, <4>2
    <3> QED BY <2>3, <3>1 DEF Agree
  <2> QED BY <1>3, <1>4, <2>1, <2>2, <2>3
<1>7. ASSUME NEW x \in Messages, LiveIn(s.mem, x), x # m \/ st \in Live
      PROVE  LiveIn(t.mem, x)
  BY <1>2, <1>3, <1>4, <1>7 DEF LiveIn
<1>8. /\ ~ok => t.mem = s.mem
      /\ ok /\ st \in Live => StatusOf(t.mem, m) = st
  BY <1>2, <1>4, Kinds
<1>9. ASSUME NEW x \in Messages, Kept(s, x), LiveIn(t.mem, x) PROVE Kept(t, x)
  <2>1. CASE t.mem = C
    <3>1. StatusOf(c, x) = StatusOf(C, x)
      BY <1>3, <1>9, <2>1, Kinds DEF LiveIn
    <3> QED BY <1>2, <1>3, <1>4, <1>9, <2>1, <3>1 DEF Kept, LiveIn
  <2>2. CASE t.mem \in {s.mem, c}
    BY <1>2, <1>3, <1>4, <1>9, <2>2 DEF Kept, LiveIn
  <2> QED BY <1>4, <2>1, <2>2
<1>10. ASSUME NEW x \in Messages, StatusOf(s.mem, x) \in Terminal
       PROVE  \/ StatusOf(t.mem, x) = StatusOf(s.mem, x)
              \/ /\ st \in Terminal /\ ok
                 /\ StatusOf(t.mem, x) = "none"
                 /\ Enough(SettledIn(t.mem))
  <2>1. x # m
    BY <1>10, Kinds DEF LiveIn
  <2> QED BY <1>2, <1>3, <1>4, <2>1
<1> QED BY <1>6, <1>7, <1>8, <1>9, <1>10

\* Accepting a message: nothing if it is known, else the map has it if the
\* journal has.
LEMMA AcceptShape ==
  ASSUME NEW s, SpoolOK(s), NEW m \in Messages, NEW o \in Accept(s, m)
  PROVE  /\ o.ok \in BOOLEAN /\ SpoolOK(o.spool)
         /\ Whole(s) => Whole(o.spool)
         /\ Has(s.mem, m) => o.spool = s
         /\ ~Has(s.mem, m) /\ ~o.ok =>
              /\ o.spool.mem = s.mem
              /\ o.spool.disk \in {s.disk, Accepted(s.disk, m)}
         /\ ~Has(s.mem, m) /\ o.ok =>
              /\ o.spool.mem = Accepted(s.mem, m)
              /\ Whole(s) => o.spool.disk = Accepted(s.disk, m)
<1> DEFINE d == Accepted(s.disk, m)
           c == Accepted(s.mem, m)
<1>0. s \in Spool /\ Reading(s.mem) /\ Reading(s.disk)
  BY DEF SpoolOK
<1>1. Reading(d) /\ Reading(c) /\ d \in Seq(Entry) /\ c \in Seq(Entry)
  <2>1. Reading(d) /\ Reading(c)
    BY <1>0, AcceptedFacts
  <2> QED BY <2>1 DEF Reading
<1> HIDE DEF c, d
<1>2. CASE Has(s.mem, m)
  <2>1. o = [spool |-> s, ok |-> TRUE]
    BY <1>2 DEF Accept
  <2>2. o.ok = TRUE /\ o.spool = s
    BY <2>1
  <2> QED BY <1>2, <2>2
<1>3. CASE ~Has(s.mem, m)
  <2>1. PICK a \in Appended(s, d) :
          o = IF a.ok THEN [a EXCEPT !.spool.mem = Accepted(@, m)] ELSE a
    BY <1>3 DEF Accept, d
  <2>2. /\ a \in Outcome /\ a.ok \in BOOLEAN /\ a.spool \in Spool
        /\ a.spool.mem = s.mem /\ a.spool.disk \in {s.disk, d}
        /\ Whole(s) => Whole(a.spool) /\ (a.ok => a.spool.disk = d)
    BY <1>0, <1>1, <2>1, AppendedShape
  <2>3. CASE ~a.ok
    BY <1>0, <1>1, <1>3, <2>1, <2>2, <2>3 DEF SpoolOK, d
  <2>4. CASE a.ok
    <3>1. o = [a EXCEPT !.spool = [a.spool EXCEPT !.mem = c]]
      BY <2>1, <2>2, <2>4 DEF Outcome, Spool, c
    <3>2. o.ok = TRUE /\ o.spool = [a.spool EXCEPT !.mem = c]
      BY <2>2, <2>4, <3>1 DEF Outcome
    <3>3. /\ o.spool \in Spool /\ o.spool.mem = c /\ o.spool.disk = a.spool.disk
          /\ o.spool.torn = a.spool.torn
      BY <1>1, <2>2, <3>2 DEF Spool
    <3> QED BY <1>0, <1>1, <1>3, <2>2, <2>4, <3>2, <3>3 DEF SpoolOK, Whole, c, d
  <2> QED BY <2>2, <2>3, <2>4
<1> QED BY <1>2, <1>3

\* An acceptance changes no other message, and what it tells of is kept.
LEMMA AcceptFacts ==
  ASSUME NEW s, SpoolOK(s), Whole(s), Agree(s.mem, s.disk),
         NEW m \in Messages, NEW o \in Accept(s, m)
  PROVE  /\ Agree(o.spool.mem, o.spool.disk)
         /\ \A x : StatusOf(s.mem, x) # "none" => StatusOf(o.spool.mem, x) = StatusOf(s.mem, x)
         /\ \A x : Kept(s, x) => Kept(o.spool, x)
         /\ o.ok /\ ~Has(s.mem, m) => Kept(o.spool, m)
<1> DEFINE t == o.spool
           d == Accepted(s.disk, m)
           c == Accepted(s.mem, m)
<1>0. Reading(s.mem) /\ Reading(s.disk)
  BY DEF SpoolOK
<1>1. CASE Has(s.mem, m)
  <2>1. t = s
    BY <1>1, AcceptShape
  <2> QED BY <1>1, <2>1
<1>2. CASE ~Has(s.mem, m)
  <2>1. /\ StatusOf(d, m) = "queued" /\ HasPayload(d, m)
        /\ StatusOf(c, m) = "queued" /\ HasPayload(c, m)
        /\ Reading(c) /\ Reading(d)
        /\ \A x : x # m => StatusOf(d, x) = StatusOf(s.disk, x)
        /\ \A x : x # m => StatusOf(c, x) = StatusOf(s.mem, x)
        /\ \A x : HasPayload(s.disk, x) => HasPayload(d, x)
        /\ \A x : HasPayload(s.mem, x) => HasPayload(c, x)
    BY <1>0, AcceptedFacts
  <2>2. StatusOf(s.mem, m) = "none"
    BY <1>0, <1>2, StatusFacts
  <2>3. \/ ~o.ok /\ t.mem = s.mem /\ t.disk \in {s.disk, d}
        \/ o.ok /\ t.mem = c /\ t.disk = d
    BY <1>2, AcceptShape
  <2>4. "queued" \in Live /\ "queued" \notin Terminal /\ "queued" # "none" /\ "none" \notin Terminal
    BY DEF Live, Terminal
  <2> HIDE DEF c, d, t
  <2>5. ASSUME NEW mem \in {s.mem, c}, Enough(SettledIn(s.mem) \cap SettledIn(s.disk))
        PROVE  Enough(SettledIn(mem) \cap SettledIn(d))
    <3>1. SettledIn(s.mem) \cap SettledIn(s.disk) \subseteq SettledIn(mem) \cap SettledIn(d)
      BY <2>1, <2>2, <2>4 DEF SettledIn
    <3>2. IsFiniteSet(SettledIn(mem) \cap SettledIn(d))
      <4>1. IsFiniteSet(SettledIn(d))
        BY <2>1, SettledFinite
      <4> QED BY <4>1, FS_Subset
    <3> QED BY <2>5, <3>1, <3>2, EnoughMore
  <2>6. ASSUME NEW mem \in {s.mem, c} PROVE Agree(mem, d)
    <3>1. ASSUME NEW x \in Messages
          PROVE  /\ LiveIn(mem, x) => StatusOf(d, x) # "none"
                 /\ StatusOf(d, x) \in Terminal => StatusOf(mem, x) # "none"
                 /\ StatusOf(mem, x) \in Terminal =>
                      \/ StatusOf(d, x) = StatusOf(mem, x)
                      \/ /\ StatusOf(d, x) = "none"
                         /\ Enough(SettledIn(mem) \cap SettledIn(d))
      <4>1. CASE x = m
        BY <2>1, <2>2, <2>4, <4>1 DEF LiveIn
      <4>2. CASE x # m
        BY <2>1, <2>5, <4>2 DEF Agree, LiveIn
      <4> QED BY <4>1, <4>2
    <3> QED BY <3>1 DEF Agree
  <2>7. Agree(t.mem, t.disk)
    BY <2>3, <2>6
  <2>8. ASSUME NEW x, StatusOf(s.mem, x) # "none"
        PROVE  StatusOf(t.mem, x) = StatusOf(s.mem, x)
    BY <2>1, <2>2, <2>3, <2>8
  <2>9. ASSUME NEW x, Kept(s, x) PROVE Kept(t, x)
    <3>1. StatusOf(t.mem, x) = StatusOf(s.mem, x)
      BY <2>8, <2>9, Kinds DEF Kept, LiveIn
    <3> QED BY <2>1, <2>3, <2>9, <3>1 DEF Kept, LiveIn
  <2>10. o.ok => Kept(t, m)
    BY <2>1, <2>3, <2>4 DEF Kept, LiveIn
  <2> QED BY <2>7, <2>8, <2>9, <2>10 DEF t
<1> QED BY <1>1, <1>2

\* A new process reads what the journal has, compacted or not.
LEMMA LoadedShape ==
  ASSUME NEW s, SpoolOK(s), NEW t \in Loaded(s)
  PROVE  /\ SpoolOK(t)
         /\ Whole(s) => Whole(t)
         /\ Agree(t.mem, t.disk)
         /\ t.mem \in {s.disk, Compact(s.disk)}
         /\ t.disk \in {s.disk, Compact(s.disk)}
<1> DEFINE r == [s EXCEPT !.mem = s.disk]
           C == Compact(s.disk)
<1>0. s \in Spool /\ Reading(s.disk)
  BY DEF SpoolOK
<1>1. r \in Spool /\ r.mem = s.disk /\ r.disk = s.disk /\ (Whole(s) => Whole(r))
  BY <1>0 DEF Spool, Whole
<1>2. t \in Compacted(r)
  BY DEF Loaded
<1> HIDE DEF r
<1>3. /\ t \in Spool
      /\ \/ t.mem = s.disk /\ t.disk = s.disk
         \/ t.mem = s.disk /\ t.disk = C
         \/ t.mem = C /\ t.disk = C
      /\ Whole(s) => Whole(t)
  <2>1. Reading(r.mem)
    BY <1>0, <1>1
  <2> QED BY <1>1, <1>2, <2>1, CompactedShape
<1>4. Reading(C)
  BY <1>0, CompactFacts
<1>5. Agree(s.disk, s.disk) /\ Agree(s.disk, C) /\ Agree(C, C)
  BY <1>0, <1>4, AgreeSelf, AgreeCompact
<1> QED BY <1>0, <1>3, <1>4, <1>5 DEF SpoolOK

\* What a restart finds live in the journal is live, and kept if it was.
LEMMA LoadedKeeps ==
  ASSUME NEW s, SpoolOK(s), NEW t \in Loaded(s), NEW m,
         HasPayload(s.disk, m), StatusOf(s.disk, m) \notin Terminal
  PROVE  Kept(t, m)
<1> DEFINE C == Compact(s.disk)
<1>0. Reading(s.disk)
  BY DEF SpoolOK
<1>1. StatusOf(s.disk, m) \in Live
  <2>1. Has(s.disk, m)
    BY DEF HasPayload, Has
  <2> QED BY <1>0, <2>1, StatusFacts
<1>2. StatusOf(C, m) \in Live /\ HasPayload(C, m)
  BY <1>0, <1>1, CompactFacts
<1>3. t.mem \in {s.disk, C} /\ t.disk \in {s.disk, C}
  BY LoadedShape
<1> QED BY <1>1, <1>2, <1>3 DEF Kept, LiveIn

\* What was settled is so after a restart, or is forgotten for enough others.
LEMMA LoadedSettled ==
  ASSUME NEW s, SpoolOK(s), Agree(s.mem, s.disk), NEW t \in Loaded(s),
         NEW m \in Messages, StatusOf(s.mem, m) \in Terminal
  PROVE  \/ StatusOf(t.mem, m) = StatusOf(s.mem, m)
         \/ StatusOf(t.mem, m) = "none" /\ Enough(SettledIn(t.mem))
<1> DEFINE C == Compact(s.disk)
<1>0. Reading(s.disk)
  BY DEF SpoolOK
<1>1. /\ Reading(C)
      /\ StatusOf(C, m) \in {StatusOf(s.disk, m), "none"}
      /\ \A x : StatusOf(C, x) # StatusOf(s.disk, x) => Enough(SettledIn(C))
  BY <1>0, CompactFacts
<1>2. t.mem \in {s.disk, C}
  BY LoadedShape
<1>3. CASE StatusOf(s.disk, m) = StatusOf(s.mem, m)
  BY <1>1, <1>2, <1>3
<1>4. CASE StatusOf(s.disk, m) # StatusOf(s.mem, m)
  <2>1. /\ StatusOf(s.disk, m) = "none"
        /\ Enough(SettledIn(s.mem) \cap SettledIn(s.disk))
    BY <1>4 DEF Agree
  <2>2. Enough(SettledIn(s.disk))
    <3>1. SettledIn(s.mem) \cap SettledIn(s.disk) \subseteq SettledIn(s.disk)
      OBVIOUS
    <3> QED BY <1>0, <2>1, <3>1, SettledFinite, EnoughMore
  <2>3. CASE \A x : StatusOf(C, x) = StatusOf(s.disk, x)
    <3>1. SettledIn(C) = SettledIn(s.disk)
      BY <2>3 DEF SettledIn
    <3> QED BY <1>1, <1>2, <2>1, <2>2, <3>1
  <2>4. CASE \E x : StatusOf(C, x) # StatusOf(s.disk, x)
    BY <1>1, <1>2, <2>1, <2>2, <2>4
  <2> QED BY <2>3, <2>4
<1> QED BY <1>3, <1>4

-----------------------------------------------------------------------------
\* What was being processed is interrupted, entry by entry.

\* What holds of the spool, and after each entry if it held before it, holds
\* in the end.
LEMMA MarkInterruptedWithin ==
  ASSUME NEW s, s.mem \in Seq(Entry), NEW X, [spool |-> s, ok |-> TRUE] \in X,
         \A n \in 1..Len(s.mem) : s.mem[n].status = "processing" =>
           \A o \in X : o.ok => SetStatus(o.spool, s.mem[n].msg, "interrupted") \subseteq X
  PROVE  MarkInterrupted(s) \subseteq X
<1> DEFINE N == Len(s.mem)
           After(n, os) ==
             IF s.mem[n].status # "processing" THEN os
             ELSE UNION {IF o.ok THEN SetStatus(o.spool, s.mem[n].msg, "interrupted")
                         ELSE {o} : o \in os}
           rec(g) == [n \in 0..N |->
                        IF n = 0 THEN {[spool |-> s, ok |-> TRUE]}
                        ELSE IF s.mem[n].status # "processing" THEN g[n - 1]
                        ELSE UNION {IF o.ok THEN SetStatus(o.spool, s.mem[n].msg, "interrupted")
                                    ELSE {o} : o \in g[n - 1]}]
           f == CHOOSE g : g = rec(g)
           T == SUBSET X
           s0 == {[spool |-> s, ok |-> TRUE]}
           step == [p \in (1..N) \X T |-> After(p[1], p[2])]
<1>0. N \in Nat
  OBVIOUS
<1>1. ASSUME NEW n \in 1..N, NEW os \in T PROVE After(n, os) \in T
  <2>1. CASE s.mem[n].status # "processing"
    BY <2>1
  <2>2. CASE s.mem[n].status = "processing"
    <3>1. \A o \in os : (IF o.ok THEN SetStatus(o.spool, s.mem[n].msg, "interrupted")
                         ELSE {o}) \subseteq X
      BY <2>2
    <3> QED BY <2>2, <3>1
  <2> QED BY <2>1, <2>2
<1>2. step \in StepFunctions(N, T)
  <2>1. ASSUME NEW p \in (1..N) \X T PROVE After(p[1], p[2]) \in T
    <3> HIDE DEF After, T
    <3>1. p[1] \in 1..N /\ p[2] \in T
      OBVIOUS
    <3> QED BY <1>1, <3>1
  <2> HIDE DEF After, T
  <2> QED BY <2>1 DEF StepFunctions
<1>3. s0 \in T
  OBVIOUS
<1>4. PICK g : Unfolds(g, N, T, step, s0)
  <2> HIDE DEF T, s0, step, N, rec, f, After
  <2> QED BY <1>0, <1>2, <1>3, RecursionExists
<1>5. /\ g \in [0..N -> T] /\ g[0] = s0
      /\ \A n \in 1..N : g[n] = After(n, g[n - 1])
  <2>1. /\ g \in [0..N -> T] /\ g[0] = s0
        /\ \A n \in 1..N : g[n] = step[<<n, g[n - 1]>>]
    <3> HIDE DEF step, T, s0, N
    <3> QED BY <1>4 DEF Unfolds
  <2>2. ASSUME NEW n \in 1..N PROVE g[n] = After(n, g[n - 1])
    <3> HIDE DEF After, T, s0
    <3>1. n - 1 \in 0..N
      BY <1>0
    <3>2. <<n, g[n - 1]>> \in (1..N) \X T
      BY <2>1, <3>1
    <3> QED BY <2>1, <3>2
  <2> HIDE DEF After, T, s0, step
  <2> QED BY <2>1, <2>2
<1>6. g = rec(g)
  <2>1. ASSUME NEW n \in 0..N
        PROVE  g[n] = IF n = 0 THEN s0 ELSE After(n, g[n - 1])
    <3>1. CASE n = 0
      BY <1>5, <3>1
    <3>2. CASE n # 0
      <4>1. n \in 1..N
        BY <1>0, <3>2
      <4> HIDE DEF After, T, s0
      <4> QED BY <1>5, <3>2, <4>1
    <3> QED BY <3>1, <3>2
  <2>2. g = [n \in 0..N |-> g[n]]
    BY <1>5
  <2> QED BY <2>1, <2>2
<1>7. f = rec(f)
  BY <1>6
<1>8. MarkInterrupted(s) = f[N]
  BY DEF MarkInterrupted
<1> HIDE DEF f
<1>9. /\ f[0] = s0
      /\ \A n \in 1..N : f[n] = After(n, f[n - 1])
  <2>1. \A n \in 0..N : f[n] = IF n = 0 THEN s0 ELSE After(n, f[n - 1])
    BY <1>7
  <2>2. 0 \in 0..N /\ \A n \in 1..N : n \in 0..N /\ n # 0
    BY <1>0
  <2> HIDE DEF After, s0
  <2> QED BY <2>1, <2>2
<1> DEFINE P == {n \in Nat : n <= N => f[n] \in T}
<1> HIDE DEF After, T, s0, N, rec, step
<1>10. 0 \in P
  BY <1>3, <1>9
<1>11. ASSUME NEW n \in Nat, n \in P PROVE n + 1 \in P
  <2>1. SUFFICES ASSUME n + 1 <= N PROVE f[n + 1] \in T
    OBVIOUS
  <2>2. n + 1 \in 1..N /\ (n + 1) - 1 = n /\ n <= N
    BY <1>0, <2>1
  <2> QED BY <1>1, <1>9, <1>11, <2>2
<1> HIDE DEF P
<1>12. N \in P
  BY <1>0, <1>10, <1>11, SetInduction
<1> QED BY <1>0, <1>8, <1>12 DEF P, T

\* The types are kept, whatever writes fail.
LEMMA MarkInterruptedType ==
  ASSUME NEW s, SpoolOK(s), NEW o \in MarkInterrupted(s)
  PROVE  o.ok \in BOOLEAN /\ SpoolOK(o.spool)
<1> DEFINE X == {q \in Outcome : SpoolOK(q.spool)}
<1>1. s \in Spool /\ Reading(s.mem) /\ s.mem \in Seq(Entry)
  BY DEF SpoolOK, Reading
<1>2. [spool |-> s, ok |-> TRUE] \in X
  BY <1>1 DEF Outcome
<1>3. "interrupted" \in Terminal \cup Live
  BY DEF Live
<1>4. ASSUME NEW n \in 1..Len(s.mem), NEW q \in X
      PROVE  SetStatus(q.spool, s.mem[n].msg, "interrupted") \subseteq X
  BY <1>3, SetStatusShape
<1>5. MarkInterrupted(s) \subseteq X
  <2> HIDE DEF X
  <2> QED BY <1>1, <1>2, <1>4, MarkInterruptedWithin
<1> QED BY <1>5 DEF Outcome

\* Where no line is torn, what is live stays so and is kept if it was, and what
\* is settled stays as it is.
LEMMA MarkInterruptedFacts ==
  ASSUME NEW s, SpoolOK(s), Whole(s), Agree(s.mem, s.disk),
         NEW o \in MarkInterrupted(s)
  PROVE  /\ Whole(o.spool) /\ Agree(o.spool.mem, o.spool.disk)
         /\ \A x \in Messages :
              /\ LiveIn(s.mem, x) => LiveIn(o.spool.mem, x)
              /\ Kept(s, x) => Kept(o.spool, x)
              /\ StatusOf(s.mem, x) \in Terminal =>
                   StatusOf(o.spool.mem, x) = StatusOf(s.mem, x)
<1> DEFINE Like(t) ==
             /\ SpoolOK(t) /\ Whole(t) /\ Agree(t.mem, t.disk)
             /\ \A x \in Messages :
                  /\ LiveIn(s.mem, x) => LiveIn(t.mem, x)
                  /\ Kept(s, x) => Kept(t, x)
                  /\ StatusOf(s.mem, x) \in Terminal => StatusOf(t.mem, x) = StatusOf(s.mem, x)
           X == {q \in Outcome : Like(q.spool)}
<1>1. s \in Spool /\ Reading(s.mem) /\ s.mem \in Seq(Entry)
  BY DEF SpoolOK, Reading
<1>2. [spool |-> s, ok |-> TRUE] \in X
  BY <1>1 DEF Outcome
<1>3. "interrupted" \in Live /\ "processing" \in Live
  BY DEF Live
<1>4. ASSUME NEW n \in 1..Len(s.mem), s.mem[n].status = "processing",
             NEW q \in X, NEW r \in SetStatus(q.spool, s.mem[n].msg, "interrupted")
      PROVE  r \in X
  <2> DEFINE m == s.mem[n].msg
  <2>1. m \in Messages /\ LiveIn(s.mem, m)
    BY <1>1, <1>3, <1>4, ReadingFacts, StatusFacts DEF LiveIn
  <2>2. /\ r \in Outcome /\ r.ok \in BOOLEAN /\ SpoolOK(r.spool) /\ Whole(r.spool)
        /\ SetAs(q.spool, r.spool, m, "interrupted", r.ok)
    BY <1>3, SetStatusShape
  <2> HIDE DEF m
  <2>3. LiveIn(q.spool.mem, m)
    BY <2>1
  <2>4. /\ Agree(r.spool.mem, r.spool.disk)
        /\ \A x \in Messages :
             /\ LiveIn(q.spool.mem, x) => LiveIn(r.spool.mem, x)
             /\ Kept(q.spool, x) /\ LiveIn(r.spool.mem, x) => Kept(r.spool, x)
             /\ StatusOf(q.spool.mem, x) \in Terminal =>
                  StatusOf(r.spool.mem, x) = StatusOf(q.spool.mem, x)
    BY <1>3, <2>1, <2>2, <2>3, SetAsFacts, Kinds
  <2>5. ASSUME NEW x \in Messages
        PROVE  /\ LiveIn(s.mem, x) => LiveIn(r.spool.mem, x)
               /\ Kept(s, x) => Kept(r.spool, x)
               /\ StatusOf(s.mem, x) \in Terminal =>
                    StatusOf(r.spool.mem, x) = StatusOf(s.mem, x)
    <3>1. /\ LiveIn(s.mem, x) => LiveIn(q.spool.mem, x)
          /\ Kept(s, x) => Kept(q.spool, x)
          /\ StatusOf(s.mem, x) \in Terminal => StatusOf(q.spool.mem, x) = StatusOf(s.mem, x)
      OBVIOUS
    <3>2. Kept(q.spool, x) => LiveIn(q.spool.mem, x)
      BY DEF Kept
    <3> QED BY <2>4, <3>1, <3>2
  <2> QED BY <2>2, <2>4, <2>5
<1>5. MarkInterrupted(s) \subseteq X
  <2>1. \A n \in 1..Len(s.mem) : s.mem[n].status = "processing" =>
          \A q \in X : q.ok => SetStatus(q.spool, s.mem[n].msg, "interrupted") \subseteq X
    <3> HIDE DEF X
    <3> QED BY <1>4
  <2> HIDE DEF X
  <2> QED BY <1>1, <1>2, <2>1, MarkInterruptedWithin
<1> QED BY <1>5

-----------------------------------------------------------------------------
\* The types: the spool is well formed, and so is the worker.

WorkerOK(w, e) ==
  /\ w \in WorkerType
  /\ w.drain = "receiving" <=> w.cur # NoMessage
  /\ w.drain = "receiving" => w.answer # "none" \/ e[w.cur] # "none"

Exec == [Messages -> {"none", "setup", "turn", "deliver"}]

TypeInv ==
  /\ SpoolOK(spool)
  /\ WorkerOK(worker, exec)
  /\ exec \in Exec
  /\ run \in [Messages -> {"none", "active", "ended"}]
  /\ outcome \subseteq Messages
  /\ inbox \subseteq Messages
  /\ unanswered \in BOOLEAN
  /\ owed \subseteq Messages
  /\ turns \in [Messages -> Nat]

LEMMA TypeInvType == TypeInv => GatewayTypeOK
BY DEF TypeInv, GatewayTypeOK, SpoolOK, Reading, Distinct, WorkerOK, Exec

LEMMA TypeInit == GatewayInit => TypeInv
<1> SUFFICES ASSUME GatewayInit PROVE TypeInv
  OBVIOUS
<1>1. SpoolOK(spool)
  <2>1. MaxFailures \in Nat
    BY SpoolAssumption
  <2>2. <<>> \in Seq(Entry) /\ DOMAIN <<>> = {}
    OBVIOUS
  <2>3. EmptySpool \in Spool
    BY <2>1, <2>2 DEF EmptySpool, Spool
  <2>4. Reading(<<>>)
    BY <2>2, ReadingRule
  <2> QED BY <2>3, <2>4 DEF GatewayInit, EmptySpool, SpoolOK
<1>2. WorkerOK(worker, exec)
  BY DEF GatewayInit, OffWorker, WorkerOK, WorkerType
<1> QED BY <1>1, <1>2 DEF GatewayInit, TypeInv, Exec

LEMMA KickOK ==
  ASSUME NEW w, NEW e, WorkerOK(w, e)
  PROVE  WorkerOK(Kick(w), e) /\ Kick(w).cur = w.cur /\ Kick(w).on = w.on
BY DEF Kick, WorkerOK, WorkerType

LEMMA EndDrainOK ==
  ASSUME NEW w \in WorkerType, NEW es, NEW e
  PROVE  WorkerOK(EndDrain(w, es), e) /\ EndDrain(w, es).cur = NoMessage
<1> DEFINE d == IF /\ w.on = "on" /\ ~w.stalled /\ ~w.timer
                   /\ Pending(es, w) # <<>>
                THEN "loop" ELSE "none"
<1>1. d \in {"loop", "none"}
  OBVIOUS
<1>2. EndDrain(w, es) = [w EXCEPT !.drain = d, !.cur = NoMessage, !.answer = "none"]
  BY DEF EndDrain
<1> HIDE DEF d
<1> QED BY <1>1, <1>2 DEF WorkerOK, WorkerType

\* The entries that may be claimed wait, and one of them is claimed.
LEMMA PendingFacts ==
  ASSUME NEW es, Reading(es), NEW w
  PROVE  /\ Pending(es, w) \in Seq(Entry)
         /\ \A k \in DOMAIN Pending(es, w) :
              /\ Pending(es, w)[k].msg \in Messages
              /\ LiveIn(es, Pending(es, w)[k].msg)
<1> DEFINE I == {i \in DOMAIN es : \/ es[i].status = "queued"
                                   \/ es[i].status = "retrying" /\ ~w.timer}
<1>1. I \subseteq DOMAIN es /\ \A i \in I : es[i].status \in Live
  BY DEF Live
<1>2. Pending(es, w) = Selected(es, I)
  BY DEF Pending
<1> HIDE DEF I
<1>3. /\ Selected(es, I) \in Seq(Entry)
      /\ \A k \in DOMAIN Selected(es, I) : \E i \in I : Selected(es, I)[k] = es[i]
  <2>1. es \in Seq(Entry)
    BY DEF Reading
  <2> QED BY <1>1, <2>1, SelectedFacts
<1>4. \A i \in I : es[i].msg \in Messages /\ LiveIn(es, es[i].msg)
  BY <1>1, ReadingFacts, StatusFacts DEF LiveIn
<1> QED BY <1>2, <1>3, <1>4

LEMMA NextPendingFacts ==
  ASSUME NEW es, Reading(es), NEW w, Pending(es, w) # <<>>
  PROVE  NextPending(es, w) \in Messages /\ LiveIn(es, NextPending(es, w))
<1> DEFINE p == Pending(es, w)
           queued == {i \in DOMAIN p : p[i].status = "queued"}
           cursor == {i \in DOMAIN p : p[i].msg = w.cursor}
<1>1. /\ p \in Seq(Entry) /\ p # <<>>
      /\ \A k \in DOMAIN p : p[k].msg \in Messages /\ LiveIn(es, p[k].msg)
  BY PendingFacts
<1>2. NextPending(es, w) =
        CASE queued # {} -> p[CHOOSE i \in queued : \A j \in queued : i <= j].msg
          [] queued = {} /\ cursor = {} -> p[1].msg
          [] queued = {} /\ cursor # {} ->
               p[((CHOOSE i \in cursor : TRUE) % Len(p)) + 1].msg
  BY DEF NextPending
<1> HIDE DEF p
<1>3. Len(p) \in Nat /\ Len(p) > 0 /\ DOMAIN p = 1..Len(p)
  BY <1>1
<1>4. CASE queued # {}
  <2> DEFINE k == CHOOSE i \in queued : \A j \in queued : i <= j
  <2>1. queued \subseteq Nat
    BY <1>3
  <2>2. \E i \in queued : \A j \in queued : i <= j
    <3> HIDE DEF queued
    <3> QED BY <1>4, <2>1, LeastExists
  <2>3. k \in queued
    BY <2>2
  <2>4. NextPending(es, w) = p[k].msg
    BY <1>2, <1>4
  <2> HIDE DEF k
  <2> QED BY <1>1, <2>3, <2>4
<1>5. CASE queued = {} /\ cursor = {}
  <2>1. NextPending(es, w) = p[1].msg /\ 1 \in DOMAIN p
    BY <1>2, <1>3, <1>5
  <2> QED BY <1>1, <2>1
<1>6. CASE queued = {} /\ cursor # {}
  <2> DEFINE c == CHOOSE i \in cursor : TRUE
             k == (c % Len(p)) + 1
  <2>1. c \in 1..Len(p)
    BY <1>3, <1>6
  <2>2. NextPending(es, w) = p[k].msg
    BY <1>2, <1>6
  <2> HIDE DEF c
  <2>3. k \in DOMAIN p
    BY <1>3, <2>1
  <2> HIDE DEF k
  <2> QED BY <1>1, <2>2, <2>3
<1> QED BY <1>4, <1>5, <1>6

\* The end of an execution leaves no worker waiting for it.
LEMMA EndOK ==
  ASSUME WorkerOK(worker, exec), exec \in Exec, NEW m \in Messages,
         NEW answer \in {"transient", "threw", "completed"}, End(m, answer)
  PROVE  /\ WorkerOK(worker', exec') /\ exec' \in Exec
         /\ worker'.cur = worker.cur
<1>1. exec' = [exec EXCEPT ![m] = "none"]
  BY DEF End
<1>2. CASE worker.cur = m /\ worker.answer = "none"
  <2>1. worker' = [worker EXCEPT !.answer = answer]
    BY <1>2 DEF End
  <2> QED BY <1>1, <2>1 DEF WorkerOK, WorkerType, Exec
<1>3. CASE ~(worker.cur = m /\ worker.answer = "none")
  <2>1. worker' = worker
    BY <1>3 DEF End
  <2> QED BY <1>1, <1>3, <2>1 DEF WorkerOK, WorkerType, Exec
<1> QED BY <1>2, <1>3

LEMMA StartIngressType ==
  ASSUME TypeInv, StartIngress(worker)
  PROVE  SpoolOK(spool') /\ WorkerOK(worker', exec) /\ worker'.cur = worker.cur
<1>0. SpoolOK(spool) /\ WorkerOK(worker, exec)
  BY DEF TypeInv
<1>1. CASE worker.on = "off"
  <2>1. PICK o \in MarkInterrupted(spool) :
          LET started == [worker EXCEPT !.on = "on", !.stalled = FALSE, !.failed = ~o.ok]
          IN /\ spool' = o.spool
             /\ worker' = IF o.ok THEN Kick(started) ELSE started
    BY <1>1 DEF StartIngress
  <2>2. o.ok \in BOOLEAN /\ SpoolOK(o.spool)
    BY <1>0, MarkInterruptedType
  <2> DEFINE w == [worker EXCEPT !.on = "on", !.stalled = FALSE, !.failed = ~o.ok]
  <2>3. WorkerOK(w, exec) /\ w.cur = worker.cur
    BY <1>0, <2>2 DEF WorkerOK, WorkerType
  <2>4. spool' = o.spool /\ worker' \in {w, Kick(w)}
    BY <2>1
  <2> HIDE DEF w
  <2> QED BY <2>2, <2>3, <2>4, KickOK
<1>2. CASE worker.on # "off"
  BY <1>0, <1>2, KickOK DEF StartIngress
<1> QED BY <1>1, <1>2

LEMMA SafeStatusType ==
  ASSUME NEW s, SpoolOK(s), NEW m, NEW st \in Terminal \cup Live,
         NEW t \in SafeStatus(s, m, st)
  PROVE  SpoolOK(t)
BY SetStatusShape DEF SafeStatus

LEMMA Statuses ==
  /\ {"queued", "processing", "retrying", "interrupted"} \subseteq Live
  /\ {"completed", "failed"} \subseteq Terminal
BY DEF Live, Terminal

LEMMA TakeNextType == ASSUME TypeInv, TakeNext PROVE TypeInv'
<1>0. /\ SpoolOK(spool) /\ WorkerOK(worker, exec) /\ worker \in WorkerType
      /\ exec \in Exec /\ worker.drain = "loop" /\ Reading(spool.mem)
  BY DEF TypeInv, TakeNext, WorkerOK, SpoolOK
<1>1. UNCHANGED <<run, outcome, inbox, unanswered, turns>>
  BY DEF TakeNext
<1>2. CASE worker.on # "on" \/ Pending(spool.mem, worker) = <<>>
  <2>1. worker' = EndDrain(worker, spool.mem) /\ UNCHANGED <<spool, exec, owed>>
    BY <1>2 DEF TakeNext
  <2> QED BY <1>0, <1>1, <2>1, EndDrainOK DEF TypeInv
<1>3. CASE ~(worker.on # "on" \/ Pending(spool.mem, worker) = <<>>)
  <2> DEFINE m == NextPending(spool.mem, worker)
  <2>1. m \in Messages
    BY <1>0, <1>3, NextPendingFacts
  <2>2. PICK o \in SetStatus(spool, m, "processing") :
          \/ /\ o.ok
             /\ spool' = o.spool
             /\ Receive(m, worker)
             /\ UNCHANGED owed
          \/ /\ ~o.ok
             /\ spool' \in SafeStatus(o.spool, m, "failed")
             /\ owed' = StillOwed(spool'.mem, m)
             /\ worker' = EndDrain([worker EXCEPT !.stalled = TRUE, !.failed = TRUE],
                                   spool'.mem)
             /\ UNCHANGED exec
    BY <1>3 DEF TakeNext
  <2> HIDE DEF m
  <2>3. SpoolOK(o.spool)
    BY <1>0, Statuses, SetStatusShape
  <2>4. CASE o.ok /\ spool' = o.spool /\ Receive(m, worker) /\ UNCHANGED owed
    <3> DEFINE w == [worker EXCEPT !.drain = "receiving", !.cur = m]
    <3>1. w \in WorkerType /\ w.cur = m /\ w.drain = "receiving" /\ m # NoMessage
      BY <1>0, <2>1, GatewayAssumption DEF WorkerType
    <3>2. CASE m \in outcome
      <4>1. worker' = [w EXCEPT !.answer = "completed"] /\ exec' = exec
        BY <2>4, <3>2 DEF Receive
      <4> HIDE DEF w
      <4>2. WorkerOK(worker', exec')
        BY <3>1, <4>1 DEF WorkerOK, WorkerType
      <4> QED BY <1>0, <1>1, <2>3, <2>4, <4>1, <4>2 DEF TypeInv
    <3>3. CASE m \notin outcome
      <4>1. /\ worker' = w
            /\ exec' = [exec EXCEPT ![m] = IF @ = "none" THEN "setup" ELSE @]
        BY <2>4, <3>3 DEF Receive
      <4> HIDE DEF w
      <4>2. exec' \in Exec /\ exec'[m] # "none"
        BY <1>0, <2>1, <4>1 DEF Exec
      <4>3. WorkerOK(worker', exec')
        BY <3>1, <4>1, <4>2 DEF WorkerOK
      <4> QED BY <1>0, <1>1, <2>3, <2>4, <4>2, <4>3 DEF TypeInv
    <3> QED BY <3>2, <3>3
  <2>5. CASE /\ spool' \in SafeStatus(o.spool, m, "failed")
             /\ owed' = StillOwed(spool'.mem, m)
             /\ worker' = EndDrain([worker EXCEPT !.stalled = TRUE, !.failed = TRUE],
                                   spool'.mem)
             /\ UNCHANGED exec
    <3>1. SpoolOK(spool')
      BY <2>3, <2>5, Statuses, SafeStatusType
    <3>2. [worker EXCEPT !.stalled = TRUE, !.failed = TRUE] \in WorkerType
      BY <1>0 DEF WorkerType
    <3>3. WorkerOK(worker', exec')
      BY <2>5, <3>2, EndDrainOK
    <3>4. owed' \subseteq Messages
      BY <2>5 DEF StillOwed, TypeInv
    <3> QED BY <1>0, <1>1, <2>5, <3>1, <3>3, <3>4 DEF TypeInv
  <2> QED BY <2>2, <2>4, <2>5
<1> QED BY <1>2, <1>3

LEMMA SettleType == ASSUME TypeInv, Settle PROVE TypeInv'
<1> DEFINE m == worker.cur
<1>0. /\ SpoolOK(spool) /\ WorkerOK(worker, exec) /\ worker \in WorkerType
      /\ exec \in Exec /\ owed \subseteq Messages
  BY DEF TypeInv, WorkerOK
<1>1. UNCHANGED <<exec, run, outcome, inbox, unanswered, turns>>
  BY DEF Settle
<1>2. SpoolOK(spool') /\ WorkerOK(worker', exec) /\ owed' \subseteq Messages
  <2>1. CASE Finish(m)
    <3>1. PICK o \in SetStatus(spool, m, "completed") :
            /\ spool' \in IF o.ok THEN {o.spool} ELSE SafeStatus(o.spool, m, "failed")
            /\ owed' = StillOwed(spool'.mem, m)
            /\ worker' = [worker EXCEPT !.drain = "loop", !.cur = NoMessage,
                                        !.answer = "none",
                                        !.stalled = @ \/ ~o.ok, !.failed = @ \/ ~o.ok]
      BY <2>1 DEF Finish
    <3>2. o.ok \in BOOLEAN /\ SpoolOK(o.spool)
      BY <1>0, Statuses, SetStatusShape
    <3>3. SpoolOK(spool')
      BY <3>1, <3>2, Statuses, SafeStatusType
    <3>4. WorkerOK(worker', exec)
      BY <1>0, <3>1, <3>2 DEF WorkerOK, WorkerType
    <3> QED BY <1>0, <3>1, <3>3, <3>4 DEF StillOwed
  <2>2. CASE PutBack(m)
    <3>1. CASE /\ spool' \in SafeStatus(spool, m, "interrupted")
               /\ worker' = EndDrain(worker, spool'.mem)
               /\ UNCHANGED owed
      BY <1>0, <3>1, Statuses, SafeStatusType, EndDrainOK
    <3>2. ASSUME NEW o \in SetStatus(spool, m, "retrying"),
                 \/ /\ o.ok
                    /\ spool' = o.spool
                    /\ worker' = EndDrain([worker EXCEPT !.cursor = m, !.timer = TRUE],
                                          spool'.mem)
                    /\ UNCHANGED owed
                 \/ /\ ~o.ok
                    /\ spool' \in SafeStatus(o.spool, m, "failed")
                    /\ owed' = StillOwed(spool'.mem, m)
                    /\ worker' = EndDrain([worker EXCEPT !.failed = TRUE], spool'.mem)
          PROVE  SpoolOK(spool') /\ WorkerOK(worker', exec) /\ owed' \subseteq Messages
      <4>1. SpoolOK(o.spool)
        BY <1>0, Statuses, SetStatusShape
      <4>2. SpoolOK(spool')
        BY <3>2, <4>1, Statuses, SafeStatusType
      <4>3. /\ [worker EXCEPT !.cursor = m, !.timer = TRUE] \in WorkerType
            /\ [worker EXCEPT !.failed = TRUE] \in WorkerType
        BY <1>0 DEF WorkerType
      <4>4. WorkerOK(worker', exec)
        BY <3>2, <4>3, EndDrainOK
      <4> QED BY <1>0, <3>2, <4>2, <4>4 DEF StillOwed
    <3> QED BY <2>2, <3>1, <3>2 DEF PutBack
  <2> QED BY <2>1, <2>2 DEF Settle
<1> QED BY <1>0, <1>1, <1>2 DEF TypeInv

\* Writing an outcome down, the spool of which keeps its map and its journal.
LEMMA RecordType ==
  ASSUME TypeInv, NEW m \in Messages, Record(m)
  PROVE  /\ SpoolOK(spool') /\ WorkerOK(worker', exec') /\ exec' \in Exec
         /\ outcome' \subseteq Messages /\ inbox' \subseteq Messages
         /\ worker'.cur = worker.cur
         /\ spool'.mem = spool.mem /\ spool'.disk = spool.disk
         /\ spool'.torn = spool.torn
<1>0. /\ SpoolOK(spool) /\ WorkerOK(worker, exec) /\ exec \in Exec /\ spool \in Spool
      /\ outcome \subseteq Messages /\ inbox \subseteq Messages
  BY DEF TypeInv, SpoolOK
<1>1. /\ outcome' = outcome \cup {m}
      /\ inbox' \in {inbox, inbox \cup {m}}
      /\ End(m, "completed") \/ End(m, "threw")
      /\ spool' = spool \/ (MayFail(spool) # {} /\ spool' = OneLess(spool))
  BY DEF Record
<1>2. /\ WorkerOK(worker', exec') /\ exec' \in Exec /\ worker'.cur = worker.cur
  BY <1>0, <1>1, EndOK
<1>3. ASSUME MayFail(spool) # {}
      PROVE  /\ OneLess(spool) \in Spool
             /\ OneLess(spool).mem = spool.mem /\ OneLess(spool).disk = spool.disk
             /\ OneLess(spool).torn = spool.torn
  <2>1. spool.left > 0 /\ spool.left \in Nat /\ MaxFailures \in Nat
    BY <1>0, <1>3, SpoolAssumption DEF MayFail, Spool
  <2>2. spool.left - 1 \in 0 .. MaxFailures
    BY <1>0, <2>1 DEF Spool
  <2> QED BY <1>0, <2>2 DEF OneLess, Spool
<1> QED BY <1>0, <1>1, <1>2, <1>3 DEF SpoolOK

LEMMA ExecuteType == ASSUME TypeInv, NEW m \in Messages, Execute(m) PROVE TypeInv'
<1>0. /\ SpoolOK(spool) /\ WorkerOK(worker, exec) /\ exec \in Exec
  BY DEF TypeInv
<1>1. CASE Unauthorized(m) \/ Delivered(m)
  <2>1. Record(m) /\ UNCHANGED <<run, unanswered, owed, turns>>
    BY <1>1 DEF Unauthorized, Delivered
  <2> QED BY <2>1, RecordType DEF TypeInv
<1>2. CASE TurnedAway(m) \/ Throws(m)
  <2>1. /\ End(m, "transient") \/ End(m, "threw")
        /\ UNCHANGED <<spool, run, outcome, inbox, unanswered, owed, turns>>
    BY <1>2 DEF TurnedAway, Throws
  <2>2. WorkerOK(worker', exec') /\ exec' \in Exec
    BY <1>0, <2>1, EndOK
  <2> QED BY <2>1, <2>2 DEF TypeInv
<1>3. CASE Refused(m) \/ TurnThrows(m)
  <2>1. /\ End(m, "threw")
        /\ UNCHANGED <<spool, outcome, inbox, unanswered, owed, turns>>
    BY <1>3 DEF Refused, TurnThrows
  <2>2. WorkerOK(worker', exec') /\ exec' \in Exec
    BY <1>0, <2>1, EndOK
  <2>3. run' \in [Messages -> {"none", "active", "ended"}]
    <3>1. CASE Refused(m)
      BY <3>1 DEF Refused, TypeInv
    <3>2. CASE TurnThrows(m)
      <4>1. run' = run \/ run' = [run EXCEPT ![m] = "ended"]
        BY <3>2 DEF TurnThrows
      <4> QED BY <4>1 DEF TypeInv
    <3> QED BY <1>3, <3>1, <3>2
  <2> QED BY <2>1, <2>2, <2>3 DEF TypeInv
<1>4. CASE StartTurn(m)
  <2>1. /\ exec' = [exec EXCEPT ![m] = "turn"] /\ run' = [run EXCEPT ![m] = "active"]
        /\ turns' = [turns EXCEPT ![m] = @ + 1]
        /\ UNCHANGED <<spool, worker, outcome, inbox, unanswered, owed>>
    BY <1>4 DEF StartTurn
  <2>2. WorkerOK(worker', exec') /\ exec' \in Exec
    BY <1>0, <2>1 DEF WorkerOK, Exec
  <2>3. turns' \in [Messages -> Nat] /\ run' \in [Messages -> {"none", "active", "ended"}]
    BY <2>1 DEF TypeInv
  <2> QED BY <2>1, <2>2, <2>3 DEF TypeInv
<1>5. CASE TurnEnds(m)
  <2>1. /\ exec' = [exec EXCEPT ![m] = "deliver"] /\ run' = [run EXCEPT ![m] = "ended"]
        /\ UNCHANGED <<spool, worker, outcome, inbox, unanswered, owed, turns>>
    BY <1>5 DEF TurnEnds
  <2>2. WorkerOK(worker', exec') /\ exec' \in Exec
    BY <1>0, <2>1 DEF WorkerOK, Exec
  <2>3. run' \in [Messages -> {"none", "active", "ended"}]
    BY <2>1 DEF TypeInv
  <2> QED BY <2>1, <2>2, <2>3 DEF TypeInv
<1> QED BY <1>1, <1>2, <1>3, <1>4, <1>5 DEF Execute

\* The steps of the worker that write nothing to the spool.
LEMMA WorkerOnlyType ==
  ASSUME TypeInv, TimerFires \/ Stop \/ Stopped
  PROVE  /\ TypeInv' /\ worker'.cur = worker.cur
         /\ UNCHANGED <<spool, owed>>
<1>0. WorkerOK(worker, exec)
  BY DEF TypeInv
<1>1. /\ UNCHANGED <<spool, exec, run, outcome, inbox, unanswered, owed, turns>>
      /\ \/ worker' = Kick([worker EXCEPT !.timer = FALSE])
         \/ worker' = [worker EXCEPT !.on = "stopping", !.timer = FALSE]
         \/ worker' = [worker EXCEPT !.on = "off", !.timer = FALSE]
  BY DEF TimerFires, Stop, Stopped
<1>2. /\ WorkerOK([worker EXCEPT !.timer = FALSE], exec)
      /\ [worker EXCEPT !.timer = FALSE].cur = worker.cur
      /\ WorkerOK([worker EXCEPT !.on = "stopping", !.timer = FALSE], exec)
      /\ [worker EXCEPT !.on = "stopping", !.timer = FALSE].cur = worker.cur
      /\ WorkerOK([worker EXCEPT !.on = "off", !.timer = FALSE], exec)
      /\ [worker EXCEPT !.on = "off", !.timer = FALSE].cur = worker.cur
  BY <1>0 DEF WorkerOK, WorkerType
<1>3. WorkerOK(worker', exec) /\ worker'.cur = worker.cur
  <2> DEFINE w == [worker EXCEPT !.timer = FALSE]
  <2>1. WorkerOK(w, exec) /\ w.cur = worker.cur
    BY <1>2
  <2>2. WorkerOK(Kick(w), exec) /\ Kick(w).cur = w.cur
    <3> HIDE DEF w
    <3> QED BY <2>1, KickOK
  <2>3. CASE worker' = Kick(w)
    <3> HIDE DEF w
    <3> QED BY <2>1, <2>2, <2>3
  <2>4. CASE worker' # Kick(w)
    BY <1>1, <1>2, <2>4
  <2> QED BY <2>3, <2>4
<1> QED BY <1>1, <1>3 DEF TypeInv

LEMMA TypeNext == TypeInv /\ [GatewayNext]_gatewayVars => TypeInv'
<1> SUFFICES ASSUME TypeInv, [GatewayNext]_gatewayVars PROVE TypeInv'
  OBVIOUS
<1>1. CASE UNCHANGED gatewayVars
  BY <1>1 DEF gatewayVars, TypeInv
<1>2. ASSUME NEW m \in Messages, Deliver(m) PROVE TypeInv'
  <2>1. PICK o \in Accept(spool, m) :
          /\ spool' = o.spool
          /\ unanswered' = (unanswered \/ o.ok)
          /\ owed' = IF o.ok /\ ~Has(spool.mem, m) THEN owed \cup {m} ELSE owed
    BY <1>2 DEF Deliver
  <2>2. o.ok \in BOOLEAN /\ SpoolOK(spool')
    BY <2>1, AcceptShape DEF TypeInv
  <2>3. owed' \subseteq Messages /\ unanswered' \in BOOLEAN
    BY <2>1, <2>2 DEF TypeInv
  <2> QED BY <1>2, <2>2, <2>3 DEF Deliver, TypeInv
<1>3. ASSUME NEW m \in Messages, HandOver(m) PROVE TypeInv'
  <2>1. /\ exec' = [exec EXCEPT ![m] = "setup"]
        /\ UNCHANGED <<spool, worker, run, outcome, inbox, unanswered, owed, turns>>
    BY <1>3 DEF HandOver
  <2>2. WorkerOK(worker', exec') /\ exec' \in Exec
    BY <2>1 DEF TypeInv, WorkerOK, Exec
  <2> QED BY <2>1, <2>2 DEF TypeInv
<1>4. ASSUME NEW m \in Messages, Execute(m) PROVE TypeInv'
  BY <1>4, ExecuteType
<1>5. CASE TakeNext
  BY <1>5, TakeNextType
<1>6. CASE Settle
  BY <1>6, SettleType
<1>7. CASE TimerFires \/ Stop \/ Stopped
  BY <1>7, WorkerOnlyType
<1>8. CASE Answered \/ Start
  <2>1. /\ StartIngress(worker) /\ unanswered' \in {unanswered, FALSE}
        /\ UNCHANGED <<exec, run, outcome, inbox, owed, turns>>
    BY <1>8 DEF Answered, Start
  <2> QED BY <2>1, StartIngressType DEF TypeInv
<1>9. CASE Crash
  <2>1. SpoolOK(spool')
    BY <1>9, LoadedShape DEF Crash, TypeInv
  <2>2. exec' \in Exec /\ WorkerOK(worker', exec')
    BY <1>9 DEF Crash, OffWorker, WorkerOK, WorkerType, Exec
  <2>3. /\ run' \in [Messages -> {"none", "active", "ended"}]
        /\ owed' \subseteq Messages /\ outcome' \subseteq Messages
        /\ UNCHANGED <<inbox, unanswered, turns>>
    BY <1>9 DEF Crash, TypeInv
  <2> QED BY <2>1, <2>2, <2>3 DEF TypeInv
<1> QED BY <1>1, <1>2, <1>3, <1>4, <1>5, <1>6, <1>7, <1>8, <1>9 DEF GatewayNext

LEMMA TypeAlways == GatewaySpec => []TypeInv
BY TypeInit, TypeNext, PTL DEF GatewaySpec

\* The types of the gateway, among them that an entry is there once in the map
\* and once in the journal, whatever writes fail, and that a worker that waits
\* waits for an execution or has been told how it ended.
THEOREM GatewayTypes == GatewaySpec => []GatewayTypeOK
BY TypeAlways, TypeInvType, PTL

-----------------------------------------------------------------------------
\* What is acknowledged is kept, and what is settled stays, if no line is torn.

\* The map and the journal agree, what is owed is kept in both, and what the
\* worker has taken up is live.
KeptInv ==
  /\ Whole(spool) /\ Agree(spool.mem, spool.disk)
  /\ \A m \in owed : Kept(spool, m)
  /\ worker.cur # NoMessage => LiveIn(spool.mem, worker.cur)

\* The map es is followed by the map fs: what is settled stays so, or makes
\* place for enough others.
Follows(es, fs) ==
  \A x \in Messages : StatusOf(es, x) \in Terminal =>
    \/ StatusOf(fs, x) = StatusOf(es, x)
    \/ StatusOf(fs, x) = "none" /\ Enough(SettledIn(fs))

\* A spool after writes that concern m alone.
Moved(s, t, m) ==
  /\ SpoolOK(t) /\ Whole(t) /\ Agree(t.mem, t.disk)
  /\ Follows(s.mem, t.mem)
  /\ \A x \in Messages : LiveIn(s.mem, x) /\ x # m => LiveIn(t.mem, x)
  /\ \A x \in Messages : Kept(s, x) /\ LiveIn(t.mem, x) => Kept(t, x)

LEMMA SetStatusMoves ==
  ASSUME NEW s, SpoolOK(s), Whole(s), Agree(s.mem, s.disk),
         NEW m \in Messages, LiveIn(s.mem, m), NEW st \in Terminal \cup Live,
         NEW o \in SetStatus(s, m, st)
  PROVE  /\ o.ok \in BOOLEAN /\ Moved(s, o.spool, m)
         /\ ~o.ok => o.spool.mem = s.mem
         /\ st \in Live => LiveIn(o.spool.mem, m)
<1>1. /\ o.ok \in BOOLEAN /\ SpoolOK(o.spool) /\ Whole(o.spool)
      /\ SetAs(s, o.spool, m, st, o.ok)
  BY SetStatusShape
<1>2. /\ Agree(o.spool.mem, o.spool.disk)
      /\ \A x \in Messages :
           LiveIn(s.mem, x) /\ (x # m \/ st \in Live) => LiveIn(o.spool.mem, x)
      /\ ~o.ok => o.spool.mem = s.mem
      /\ \A x \in Messages : Kept(s, x) /\ LiveIn(o.spool.mem, x) => Kept(o.spool, x)
      /\ \A x \in Messages : StatusOf(s.mem, x) \in Terminal =>
           \/ StatusOf(o.spool.mem, x) = StatusOf(s.mem, x)
           \/ StatusOf(o.spool.mem, x) = "none" /\ Enough(SettledIn(o.spool.mem))
  BY <1>1, SetAsFacts
<1>3. Follows(s.mem, o.spool.mem)
  BY <1>2 DEF Follows
<1> QED BY <1>1, <1>2, <1>3 DEF Moved

LEMMA SafeStatusMoves ==
  ASSUME NEW s, SpoolOK(s), Whole(s), Agree(s.mem, s.disk),
         NEW m \in Messages, LiveIn(s.mem, m), NEW st \in Terminal \cup Live,
         NEW t \in SafeStatus(s, m, st)
  PROVE  Moved(s, t, m) /\ (st \in Live => LiveIn(t.mem, m))
BY SetStatusMoves DEF SafeStatus

\* A status that could not be written is followed by another, which may not be
\* written either.
LEMMA FailedMoves ==
  ASSUME NEW s, SpoolOK(s), Whole(s), Agree(s.mem, s.disk),
         NEW m \in Messages, LiveIn(s.mem, m), NEW st \in Terminal \cup Live,
         NEW o \in SetStatus(s, m, st), ~o.ok,
         NEW t \in SafeStatus(o.spool, m, "failed")
  PROVE  Moved(s, t, m)
<1> DEFINE r == o.spool
<1>1. /\ Moved(s, r, m) /\ r.mem = s.mem
      /\ SpoolOK(r) /\ Whole(r) /\ Agree(r.mem, r.disk)
  BY SetStatusMoves DEF Moved
<1> HIDE DEF r
<1>2. Moved(r, t, m)
  <2>1. LiveIn(r.mem, m) /\ t \in SafeStatus(r, m, "failed")
    BY <1>1 DEF r
  <2> QED BY <1>1, <2>1, Statuses, SafeStatusMoves
<1>3. \A x \in Messages : Kept(s, x) => Kept(r, x)
  BY <1>1 DEF Moved, Kept
<1> QED BY <1>1, <1>2, <1>3 DEF Moved

\* Such writes keep what is still owed.
LEMMA MovedKept ==
  ASSUME KeptInv, owed \subseteq Messages, NEW m \in Messages, Moved(spool, spool', m),
         \/ owed' = StillOwed(spool'.mem, m)
         \/ owed' = owed /\ LiveIn(spool'.mem, m),
         worker'.cur # NoMessage => LiveIn(spool'.mem, worker'.cur)
  PROVE  KeptInv' /\ Follows(spool.mem, spool'.mem)
<1>1. ASSUME NEW x \in owed' PROVE Kept(spool', x)
  <2>1. x \in owed /\ x \in Messages /\ (x = m => LiveIn(spool'.mem, m))
    BY DEF StillOwed, LiveIn
  <2>2. Kept(spool, x) /\ LiveIn(spool.mem, x)
    BY <2>1 DEF KeptInv, Kept
  <2>3. LiveIn(spool'.mem, x)
    BY <2>1, <2>2 DEF Moved
  <2> QED BY <2>1, <2>2, <2>3 DEF Moved
<1> QED BY <1>1 DEF KeptInv, Moved

LEMMA TakeNextKept ==
  ASSUME TypeInv, KeptInv, TakeNext
  PROVE  KeptInv' /\ Follows(spool.mem, spool'.mem)
<1>0. /\ SpoolOK(spool) /\ Whole(spool) /\ Agree(spool.mem, spool.disk)
      /\ worker \in WorkerType /\ Reading(spool.mem) /\ owed \subseteq Messages
  BY DEF TypeInv, KeptInv, WorkerOK, SpoolOK
<1>1. CASE worker.on # "on" \/ Pending(spool.mem, worker) = <<>>
  <2>1. worker' = EndDrain(worker, spool.mem) /\ UNCHANGED <<spool, exec, owed>>
    BY <1>1 DEF TakeNext
  <2> QED BY <1>0, <2>1, EndDrainOK DEF KeptInv, Follows
<1>2. CASE ~(worker.on # "on" \/ Pending(spool.mem, worker) = <<>>)
  <2> DEFINE m == NextPending(spool.mem, worker)
  <2>1. m \in Messages /\ LiveIn(spool.mem, m)
    BY <1>0, <1>2, NextPendingFacts
  <2>2. PICK o \in SetStatus(spool, m, "processing") :
          \/ /\ o.ok
             /\ spool' = o.spool
             /\ Receive(m, worker)
             /\ UNCHANGED owed
          \/ /\ ~o.ok
             /\ spool' \in SafeStatus(o.spool, m, "failed")
             /\ owed' = StillOwed(spool'.mem, m)
             /\ worker' = EndDrain([worker EXCEPT !.stalled = TRUE, !.failed = TRUE],
                                   spool'.mem)
    BY <1>2 DEF TakeNext
  <2> HIDE DEF m
  <2>3. CASE o.ok /\ spool' = o.spool /\ Receive(m, worker) /\ UNCHANGED owed
    <3>1. Moved(spool, spool', m) /\ LiveIn(spool'.mem, m)
      BY <1>0, <2>1, <2>3, Statuses, SetStatusMoves
    <3>2. worker'.cur = m
      BY <1>0, <2>3 DEF Receive, WorkerType
    <3> QED BY <1>0, <2>1, <2>3, <3>1, <3>2, MovedKept
  <2>4. CASE /\ ~o.ok
             /\ spool' \in SafeStatus(o.spool, m, "failed")
             /\ owed' = StillOwed(spool'.mem, m)
             /\ worker' = EndDrain([worker EXCEPT !.stalled = TRUE, !.failed = TRUE],
                                   spool'.mem)
    <3>1. Moved(spool, spool', m)
      BY <1>0, <2>1, <2>4, Statuses, FailedMoves
    <3>2. [worker EXCEPT !.stalled = TRUE, !.failed = TRUE] \in WorkerType
      BY <1>0 DEF WorkerType
    <3>3. worker'.cur = NoMessage
      BY <2>4, <3>2, EndDrainOK
    <3> QED BY <1>0, <2>1, <2>4, <3>1, <3>3, MovedKept
  <2> QED BY <2>2, <2>3, <2>4
<1> QED BY <1>1, <1>2

LEMMA SettleKept ==
  ASSUME TypeInv, KeptInv, Settle
  PROVE  KeptInv' /\ Follows(spool.mem, spool'.mem)
<1> DEFINE m == worker.cur
<1>0. /\ SpoolOK(spool) /\ Whole(spool) /\ Agree(spool.mem, spool.disk)
      /\ worker \in WorkerType /\ owed \subseteq Messages
  BY DEF TypeInv, KeptInv, WorkerOK
<1>1. m \in Messages /\ LiveIn(spool.mem, m)
  BY DEF Settle, TypeInv, KeptInv, WorkerOK, WorkerType
<1>2. CASE Finish(m)
  <2>1. PICK o \in SetStatus(spool, m, "completed") :
          /\ spool' \in IF o.ok THEN {o.spool} ELSE SafeStatus(o.spool, m, "failed")
          /\ owed' = StillOwed(spool'.mem, m)
          /\ worker' = [worker EXCEPT !.drain = "loop", !.cur = NoMessage,
                                      !.answer = "none",
                                      !.stalled = @ \/ ~o.ok, !.failed = @ \/ ~o.ok]
    BY <1>2 DEF Finish
  <2>2. Moved(spool, spool', m)
    <3>1. CASE o.ok
      BY <1>0, <1>1, <2>1, <3>1, Statuses, SetStatusMoves
    <3>2. CASE ~o.ok
      BY <1>0, <1>1, <2>1, <3>2, Statuses, FailedMoves
    <3> QED BY <3>1, <3>2
  <2>3. worker'.cur = NoMessage
    BY <1>0, <2>1 DEF WorkerType
  <2> QED BY <1>0, <1>1, <2>1, <2>2, <2>3, MovedKept
<1>3. CASE PutBack(m)
  <2>1. CASE /\ spool' \in SafeStatus(spool, m, "interrupted")
             /\ worker' = EndDrain(worker, spool'.mem)
             /\ UNCHANGED owed
    <3>1. Moved(spool, spool', m) /\ LiveIn(spool'.mem, m)
      BY <1>0, <1>1, <2>1, Statuses, SafeStatusMoves
    <3>2. worker'.cur = NoMessage
      BY <1>0, <2>1, EndDrainOK
    <3> QED BY <1>0, <1>1, <2>1, <3>1, <3>2, MovedKept
  <2>2. ASSUME NEW o \in SetStatus(spool, m, "retrying"), o.ok, spool' = o.spool,
               worker' = EndDrain([worker EXCEPT !.cursor = m, !.timer = TRUE], spool'.mem),
               UNCHANGED owed
        PROVE  KeptInv' /\ Follows(spool.mem, spool'.mem)
    <3>1. Moved(spool, spool', m) /\ LiveIn(spool'.mem, m)
      BY <1>0, <1>1, <2>2, Statuses, SetStatusMoves
    <3>2. [worker EXCEPT !.cursor = m, !.timer = TRUE] \in WorkerType
      BY <1>0 DEF WorkerType
    <3>3. worker'.cur = NoMessage
      BY <2>2, <3>2, EndDrainOK
    <3> QED BY <1>0, <1>1, <2>2, <3>1, <3>3, MovedKept
  <2>3. ASSUME NEW o \in SetStatus(spool, m, "retrying"), ~o.ok,
               spool' \in SafeStatus(o.spool, m, "failed"),
               owed' = StillOwed(spool'.mem, m),
               worker' = EndDrain([worker EXCEPT !.failed = TRUE], spool'.mem)
        PROVE  KeptInv' /\ Follows(spool.mem, spool'.mem)
    <3>1. Moved(spool, spool', m)
      BY <1>0, <1>1, <2>3, Statuses, FailedMoves
    <3>2. [worker EXCEPT !.failed = TRUE] \in WorkerType
      BY <1>0 DEF WorkerType
    <3>3. worker'.cur = NoMessage
      BY <2>3, <3>2, EndDrainOK
    <3> QED BY <1>0, <1>1, <2>3, <3>1, <3>3, MovedKept
  <2> QED BY <1>3, <2>1, <2>2, <2>3 DEF PutBack
<1> QED BY <1>2, <1>3 DEF Settle

LEMMA SameSpoolKept ==
  ASSUME KeptInv, spool'.mem = spool.mem, spool'.disk = spool.disk,
         spool'.torn = spool.torn, owed' = owed,
         worker'.cur \in {worker.cur, NoMessage}
  PROVE  KeptInv' /\ Follows(spool.mem, spool'.mem)
BY DEF KeptInv, Whole, Kept, Follows

LEMMA ExecuteKept ==
  ASSUME TypeInv, KeptInv, NEW m \in Messages, Execute(m)
  PROVE  KeptInv' /\ Follows(spool.mem, spool'.mem)
<1>0. WorkerOK(worker, exec) /\ exec \in Exec
  BY DEF TypeInv
<1>1. CASE Unauthorized(m) \/ Delivered(m)
  <2>1. Record(m) /\ UNCHANGED owed
    BY <1>1 DEF Unauthorized, Delivered
  <2> QED BY <2>1, RecordType, SameSpoolKept
<1>2. CASE TurnedAway(m) \/ Throws(m) \/ Refused(m) \/ TurnThrows(m)
  <2>1. /\ End(m, "transient") \/ End(m, "threw")
        /\ UNCHANGED <<spool, owed>>
    BY <1>2 DEF TurnedAway, Throws, Refused, TurnThrows
  <2> QED BY <1>0, <2>1, EndOK, SameSpoolKept
<1>3. CASE StartTurn(m) \/ TurnEnds(m)
  BY <1>3, SameSpoolKept DEF StartTurn, TurnEnds
<1> QED BY <1>1, <1>2, <1>3 DEF Execute

LEMMA StartIngressKept ==
  ASSUME TypeInv, KeptInv, StartIngress(worker), UNCHANGED owed
  PROVE  KeptInv' /\ Follows(spool.mem, spool'.mem)
<1>0. /\ SpoolOK(spool) /\ Whole(spool) /\ Agree(spool.mem, spool.disk)
      /\ WorkerOK(worker, exec) /\ owed \subseteq Messages
      /\ worker'.cur = worker.cur
  BY StartIngressType DEF TypeInv, KeptInv
<1>1. CASE worker.on # "off"
  BY <1>0, <1>1, SameSpoolKept DEF StartIngress
<1>2. CASE worker.on = "off"
  <2>1. spool' \in {o.spool : o \in MarkInterrupted(spool)}
    BY <1>2 DEF StartIngress
  <2>2. /\ Whole(spool') /\ Agree(spool'.mem, spool'.disk)
        /\ \A x \in Messages :
             /\ LiveIn(spool.mem, x) => LiveIn(spool'.mem, x)
             /\ Kept(spool, x) => Kept(spool', x)
             /\ StatusOf(spool.mem, x) \in Terminal =>
                  StatusOf(spool'.mem, x) = StatusOf(spool.mem, x)
    BY <1>0, <2>1, MarkInterruptedFacts
  <2>3. worker.cur # NoMessage => worker.cur \in Messages
    BY <1>0 DEF WorkerOK, WorkerType
  <2> QED BY <1>0, <2>2, <2>3 DEF KeptInv, Follows
<1> QED BY <1>1, <1>2

LEMMA KeptInit == GatewayInit /\ "torn" \notin Faults => KeptInv
<1> SUFFICES ASSUME GatewayInit, "torn" \notin Faults PROVE KeptInv
  OBVIOUS
<1>1. Reading(<<>>)
  <2>1. <<>> \in Seq(Entry) /\ DOMAIN <<>> = {}
    OBVIOUS
  <2> QED BY <2>1, ReadingRule
<1>2. Agree(<<>>, <<>>)
  BY <1>1, AgreeSelf
<1> QED BY <1>2 DEF GatewayInit, EmptySpool, OffWorker, KeptInv, Whole

LEMMA KeptNext ==
  ASSUME TypeInv, KeptInv, [GatewayNext]_gatewayVars
  PROVE  KeptInv' /\ Follows(spool.mem, spool'.mem)
<1>0. SpoolOK(spool) /\ Whole(spool) /\ Agree(spool.mem, spool.disk) /\ owed \subseteq Messages
  BY DEF TypeInv, KeptInv
<1>1. CASE UNCHANGED gatewayVars
  BY <1>1, SameSpoolKept DEF gatewayVars
<1>2. ASSUME NEW m \in Messages, Deliver(m)
      PROVE  KeptInv' /\ Follows(spool.mem, spool'.mem)
  <2>1. PICK o \in Accept(spool, m) :
          /\ spool' = o.spool
          /\ owed' = IF o.ok /\ ~Has(spool.mem, m) THEN owed \cup {m} ELSE owed
    BY <1>2 DEF Deliver
  <2>2. worker' = worker
    BY <1>2 DEF Deliver
  <2>3. Whole(spool')
    BY <1>0, <2>1, AcceptShape
  <2>4. /\ Agree(spool'.mem, spool'.disk)
        /\ \A x : StatusOf(spool.mem, x) # "none" => StatusOf(spool'.mem, x) = StatusOf(spool.mem, x)
        /\ \A x : Kept(spool, x) => Kept(spool', x)
        /\ o.ok /\ ~Has(spool.mem, m) => Kept(spool', m)
    BY <1>0, <2>1, AcceptFacts
  <2>5. \A x \in owed' : Kept(spool', x)
    BY <2>1, <2>4 DEF KeptInv
  <2>6. worker'.cur # NoMessage => LiveIn(spool'.mem, worker'.cur)
    BY <2>2, <2>4, Kinds DEF KeptInv, LiveIn
  <2>7. Follows(spool.mem, spool'.mem)
    BY <2>4, Kinds DEF Follows
  <2> QED BY <2>3, <2>4, <2>5, <2>6, <2>7 DEF KeptInv
<1>3. ASSUME NEW m \in Messages, HandOver(m)
      PROVE  KeptInv' /\ Follows(spool.mem, spool'.mem)
  BY <1>3, SameSpoolKept DEF HandOver
<1>4. ASSUME NEW m \in Messages, Execute(m)
      PROVE  KeptInv' /\ Follows(spool.mem, spool'.mem)
  BY <1>4, ExecuteKept
<1>5. CASE TakeNext
  BY <1>5, TakeNextKept
<1>6. CASE Settle
  BY <1>6, SettleKept
<1>7. CASE TimerFires \/ Stop \/ Stopped
  BY <1>7, WorkerOnlyType, SameSpoolKept
<1>8. CASE Answered \/ Start
  BY <1>8, StartIngressKept DEF Answered, Start
<1>9. CASE Crash
  <2>1. /\ spool' \in Loaded(spool) /\ worker' = OffWorker
        /\ owed' = {m \in owed : StatusOf(spool.disk, m) \notin Terminal}
    BY <1>9 DEF Crash
  <2>2. Whole(spool') /\ Agree(spool'.mem, spool'.disk)
    BY <1>0, <2>1, LoadedShape
  <2>3. \A m \in owed' : Kept(spool', m)
    BY <1>0, <2>1, LoadedKeeps DEF KeptInv, Kept
  <2>4. worker'.cur = NoMessage
    BY <2>1 DEF OffWorker
  <2>5. Follows(spool.mem, spool'.mem)
    BY <1>0, <2>1, LoadedSettled DEF Follows
  <2> QED BY <2>2, <2>3, <2>4, <2>5 DEF KeptInv
<1> QED BY <1>1, <1>2, <1>3, <1>4, <1>5, <1>6, <1>7, <1>8, <1>9 DEF GatewayNext

LEMMA KeptAlways == ASSUME "torn" \notin Faults PROVE GatewaySpec => []KeptInv
<1>1. GatewayInit => KeptInv
  BY KeptInit
<1>2. TypeInv /\ KeptInv /\ [GatewayNext]_gatewayVars => KeptInv'
  BY KeptNext
<1> QED BY <1>1, <1>2, TypeAlways, PTL DEF GatewaySpec

\* "Durably acknowledge provider callbacks before their model turn begins": if
\* no write stops within a line, a message whose callback was accepted is in the
\* journal with its payload until it is settled, over any number of writes that
\* are refused or reported as failed, compactions that fail before or after
\* their rename, and restarts.
THEOREM AcknowledgedKeptHolds ==
  ASSUME "torn" \notin Faults PROVE GatewaySpec => []AcknowledgedKept
<1>1. KeptInv => AcknowledgedKept
  BY DEF KeptInv, Kept, HasPayload, AcknowledgedKept
<1> QED BY <1>1, KeptAlways, PTL

\* What is settled stays so, over restarts too, until enough others were settled
\* for its tombstone to be discarded.
THEOREM SettledStaysHolds ==
  ASSUME "torn" \notin Faults PROVE GatewaySpec => SettledStays
<1>1. TypeInv /\ KeptInv /\ [GatewayNext]_gatewayVars
        => [\A m \in Messages :
              LET was == StatusOf(spool.mem, m)
                  is == StatusOf(spool'.mem, m)
              IN was \in Terminal /\ is # was =>
                   /\ is = "none"
                   /\ Cardinality({x \in Messages : StatusOf(spool'.mem, x) \in Terminal})
                        >= MaxTombstones]_gatewayVars
  BY KeptNext DEF Follows, Enough, SettledIn
<1> QED BY <1>1, TypeAlways, KeptAlways, PTL DEF GatewaySpec, SettledStays
=============================================================================
