---------------------------- MODULE IngressSpool ----------------------------
(***************************************************************************)
(* The gateway's durable spool of provider messages: a journal file, and   *)
(* the map the process keeps of it (gateway/receive/ingress-spool.ts).     *)
(*                                                                         *)
(* A spool is a record of `mem`, the entries of the map in the order they  *)
(* were inserted; `disk`, the entries that loading the journal would give; *)
(* `torn`, whether the journal ends in a line that was cut short; and      *)
(* `left`, how many more writes may fail, which only bounds the model.     *)
(* An operation is an operator that gives its outcomes, the spool it       *)
(* leaves and whether it returned: a write may                             *)
(*   - be refused without effect ("lost"),                                 *)
(*   - reach the file and be reported as failed by fsync ("kept"),         *)
(*   - stop within the line ("torn"); the next line is then glued to the   *)
(*     torn one, and loading skips both.                                   *)
(* A message stands for its idempotency key, its digest and its payload;   *)
(* one key with two digests is refused by accept() and changes nothing.    *)
(***************************************************************************)
EXTENDS Naturals, Sequences, FiniteSets, SequencesExt

CONSTANTS
  Messages,       \* inbound messages, by idempotency key
  MaxTombstones,  \* settled entries kept for duplicates, 1000 in the code
  Faults,         \* the ways a write may fail
  MaxFailures     \* a bound: how many writes fail

ASSUME SpoolAssumption ==
  /\ MaxTombstones \in Nat \ {0}
  /\ Faults \subseteq {"lost", "kept", "torn"}
  /\ MaxFailures \in Nat

\* "completed" stands for "rejected" as well, where the answer could not be
\* delivered: nothing tells them apart.
Terminal == {"completed", "failed"}
Live == {"queued", "processing", "retrying", "interrupted"}
Entry == [msg : Messages, status : Terminal \cup Live, payload : BOOLEAN]
Spool == [mem : Seq(Entry), disk : Seq(Entry), torn : BOOLEAN,
          left : 0 .. MaxFailures]

EmptySpool ==
  [mem |-> <<>>, disk |-> <<>>, torn |-> FALSE, left |-> MaxFailures]

Has(es, m) == \E i \in DOMAIN es : es[i].msg = m
StatusOf(es, m) ==
  IF Has(es, m)
  THEN es[CHOOSE i \in DOMAIN es : es[i].msg = m].status
  ELSE "none"

Fresh(m) == [msg |-> m, status |-> "queued", payload |-> TRUE]

\* An accepted event is always the last.
AcceptedLast(es, m) == Append(es, Fresh(m))

\* An accepted event takes the place of an entry with its key, or is the last.
Accepted(es, m) ==
  IF Has(es, m)
  THEN [i \in DOMAIN es |-> IF es[i].msg = m THEN Fresh(m) ELSE es[i]]
  ELSE Append(es, Fresh(m))

\* A status event changes the entry it names, if there is one.
Changed(es, m, status) ==
  [i \in DOMAIN es |->
     IF es[i].msg = m THEN [es[i] EXCEPT !.status = status] ELSE es[i]]

-----------------------------------------------------------------------------
Written(s, es) ==
  [s EXCEPT !.disk = IF s.torn THEN @ ELSE es, !.torn = FALSE]

MayFail(s) == IF s.left > 0 THEN Faults ELSE {}
OneLess(s) == [s EXCEPT !.left = @ - 1]

\* Appending an event after which the file reads es.
Appended(s, es) ==
  {[spool |-> Written(s, es), ok |-> TRUE]}
  \cup {[spool |-> OneLess(CASE f = "lost" -> s
                             [] f = "kept" -> Written(s, es)
                             [] f = "torn" -> [s EXCEPT !.torn = TRUE]),
         ok |-> FALSE] : f \in MayFail(s)}

\* The caller is told although the write failed.
AcceptUnwritten(s, m) ==
  IF Has(s.mem, m)
  THEN {[spool |-> s, ok |-> TRUE]}
  ELSE {[ok |-> TRUE, spool |-> [o.spool EXCEPT !.mem = Accepted(@, m)]] :
          o \in Appended(s, Accepted(s.disk, m))}

\* A settled message that is delivered again is queued again.
AcceptSettled(s, m) ==
  IF StatusOf(s.mem, m) \in Live
  THEN {[spool |-> s, ok |-> TRUE]}
  ELSE {IF o.ok THEN [o EXCEPT !.spool.mem = Accepted(@, m)] ELSE o :
          o \in Appended(s, Accepted(s.disk, m))}

\* A known key is answered from the map; a new one is on disk before it is in
\* the map, and the caller is told only then.
Accept(s, m) ==
  IF Has(s.mem, m)
  THEN {[spool |-> s, ok |-> TRUE]}
  ELSE {IF o.ok THEN [o EXCEPT !.spool.mem = Accepted(@, m)] ELSE o :
          o \in Appended(s, Accepted(s.disk, m))}

IsSettled(e) == e.status \in Terminal

\* The entries of es at the positions in I, in their order.
Selected(es, I) ==
  LET upTo[n \in 0 .. Len(es)] ==
        IF n = 0 THEN <<>>
        ELSE IF n \in I THEN Append(upTo[n - 1], es[n]) ELSE upTo[n - 1]
  IN upTo[Len(es)]

\* The settled entries of es that have too many settled after them.
Discarded(es) ==
  {i \in DOMAIN es :
     /\ IsSettled(es[i])
     /\ Cardinality({j \in DOMAIN es : j > i /\ IsSettled(es[j])}) >= MaxTombstones}

\* Settled entries lose their payload, and the oldest of them their place.
Compact(es) ==
  LET kept == Selected(es, DOMAIN es \ Discarded(es))
  IN [i \in DOMAIN kept |->
        IF IsSettled(kept[i]) THEN [kept[i] EXCEPT !.payload = FALSE]
        ELSE kept[i]]

\* The file is replaced by one rename; if anything throws, the map is left as
\* it was, and the file too or not.
Compacted(s) ==
  LET es == Compact(s.mem) IN
  IF \A i \in DOMAIN s.mem : IsSettled(s.mem[i]) => ~s.mem[i].payload
  THEN {s}
  ELSE LET replaced == [s EXCEPT !.disk = es, !.torn = FALSE] IN
       {[replaced EXCEPT !.mem = es]}
       \cup {OneLess(s) : f \in MayFail(s) \ {"kept"}}
       \cup {OneLess(replaced) : f \in MayFail(s) \cap {"kept"}}

SetStatus(s, m, status) ==
  UNION {LET changed == [o.spool EXCEPT !.mem = Changed(@, m, status)] IN
         IF ~o.ok THEN {o}
         ELSE {[spool |-> c, ok |-> TRUE] :
                 c \in IF status \in Terminal THEN Compacted(changed)
                       ELSE {changed}} :
           o \in Appended(s, Changed(s.disk, m, status))}

\* What was being processed when the worker stopped or the process ended.
MarkInterrupted(s) ==
  LET marked[n \in 0 .. Len(s.mem)] ==
        IF n = 0 THEN {[spool |-> s, ok |-> TRUE]}
        ELSE IF s.mem[n].status # "processing" THEN marked[n - 1]
        ELSE UNION {IF o.ok THEN SetStatus(o.spool, s.mem[n].msg, "interrupted")
                    ELSE {o} : o \in marked[n - 1]}
  IN marked[Len(s.mem)]

\* A new process reads the file, and compacts it.
Loaded(s) == Compacted([s EXCEPT !.mem = s.disk])
=============================================================================
