------------------------------ MODULE EngineHost ------------------------------
(***************************************************************************)
(* The shared engine's host: the process that keeps one worker thread per  *)
(* active bot and starts at most MaxStarts of them at a time.              *)
(*                                                                         *)
(* It is driven by control messages from the desktop, which arrive and are *)
(* answered in order (Node IPC), and by what its workers do.  One action   *)
(* is one event with all the callbacks its promises run before the next.   *)
(*                                                                         *)
(* An environment contains the control token of the desktop's backend that *)
(* asks for the worker, so environments are equal when the backends are.   *)
(***************************************************************************)
EXTENDS Integers, FiniteSets, SequencesExt

CONSTANTS
  Bots,
  Backends,     \* the desktop's backends, each of one bot
  botOf,        \* [Backends -> Bots]
  None,
  MaxWorkers,   \* residents the host accepts
  MaxStarts,    \* workers that may be booting at a time
  SlowBots      \* bots whose controls may outlast the timers that watch them

\* What the desktop sends: a start, a stop, or the stop that undoes a failed
\* start; and the binding of the bot it was sent for.
Controls ==
  [op : {"start", "undo", "stop"}, by : Backends, bound : Backends \cup {None},
   n : Nat]

\* A resident: the backend it runs for; whether it has a worker, and whether
\* its ready promise is settled; why and how far it is stopping; the controls
\* that wait for it to be ready or closed.
Resident ==
  [by : Backends, worker : BOOLEAN, settled : BOOLEAN, stopping : BOOLEAN,
   requested : BOOLEAN, hung : BOOLEAN, starts : Seq(Controls),
   stops : Seq(Controls)]

ASSUME HostAssumption ==
  /\ IsFiniteSet(Bots)
  /\ botOf \in [Backends -> Bots]
  /\ None \notin Backends \cup Resident \cup Controls
  /\ MaxWorkers \in Nat \ {0}
  /\ MaxStarts \in Nat \ {0}
  /\ SlowBots \subseteq Bots

VARIABLES
  residents,    \* per bot, its resident or None
  startQueue,   \* bots whose resident waits for a start slot
  starting,     \* the code's counter of booting workers
  toHost,       \* controls on their way to the host
  toDesktop     \* answers and exits on their way back

hostVars == <<residents, startQueue, starting, toHost, toDesktop>>

NewResident(c) ==
  [by |-> c.by, worker |-> FALSE, settled |-> FALSE, stopping |-> FALSE,
   requested |-> FALSE, hung |-> FALSE, starts |-> <<c>>, stops |-> <<>>]

Answer(c, ok) == [kind |-> "answer", of |-> c, ok |-> ok]
BotExit(b) == [kind |-> "bot-exit", bot |-> b]

Host == [residents |-> residents, startQueue |-> startQueue,
         starting |-> starting, toDesktop |-> toDesktop]

BecomeHost(h) ==
  /\ residents' = h.residents
  /\ startQueue' = h.startQueue
  /\ starting' = h.starting
  /\ toDesktop' = h.toDesktop

Say(h, controls, ok) ==
  [h EXCEPT !.toDesktop = @ \o [i \in 1..Len(controls) |-> Answer(controls[i], ok)]]

\* removeResident(): whoever waits for the worker's end is answered.
RemoveResident(h, b) ==
  Say([h EXCEPT !.residents[b] = None], h.residents[b].stops, TRUE)

\* One turn of drain()'s loop.  The worker of a doomed bot cannot be created.
DrainPass(h, doomed) ==
  IF h.starting >= MaxStarts \/ h.startQueue = <<>> THEN h
  ELSE LET b == Head(h.startQueue)
           taken == [h EXCEPT !.startQueue = Tail(@)]
       IN IF b \in doomed
          THEN RemoveResident(Say(taken, taken.residents[b].starts, FALSE), b)
          ELSE [taken EXCEPT !.residents[b].worker = TRUE, !.starting = @ + 1]

Drain(h, doomed) ==
  LET passes[n \in Nat] ==
        IF n = 0 THEN h ELSE DrainPass(passes[n - 1], doomed)
  IN passes[Cardinality(Bots)]

\* Mutants: operators that no definition uses.  Each is a plausible bug in the
\* operator defined after it and shows which property would notice.

SettleReadyOnly(h, b, ok, doomed) ==
  IF h.residents[b].settled THEN h
  ELSE LET said == Say([h EXCEPT !.residents[b].settled = TRUE,
                                 !.residents[b].starts = <<>>],
                       h.residents[b].starts, ok)
       IN IF ok /\ h.residents[b].worker
          THEN Drain([said EXCEPT !.starting = @ - 1], doomed) ELSE said

\* The ready promise settles: its start is answered and its slot given up.
Settle(h, b, ok, doomed) ==
  IF h.residents[b].settled THEN h
  ELSE LET said == Say([h EXCEPT !.residents[b].settled = TRUE,
                                 !.residents[b].starts = <<>>],
                       h.residents[b].starts, ok)
       IN IF h.residents[b].worker
          THEN Drain([said EXCEPT !.starting = @ - 1], doomed) ELSE said

\* stop() of a resident that is not stopping yet.
Stop(h, b, doomed) ==
  LET rejected == Settle([h EXCEPT !.residents[b].stopping = TRUE], b, FALSE, doomed)
  IN IF h.residents[b].worker THEN rejected
     ELSE RemoveResident([rejected EXCEPT !.startQueue = RemoveFirst(@, b)], b)

Full(h) == Cardinality({b \in Bots : h.residents[b] # None}) >= MaxWorkers

\* start().
HandleStart(h, c, doomed) ==
  LET b == botOf[c.by]
      r == h.residents[b]
  IN IF r # None
     THEN IF r.stopping \/ r.by # c.by THEN Say(h, <<c>>, FALSE)
          ELSE IF r.settled THEN Say(h, <<c>>, TRUE)
          ELSE [h EXCEPT !.residents[b].starts = Append(@, c)]
     ELSE IF Full(h) THEN Say(h, <<c>>, FALSE)
     ELSE Drain([h EXCEPT !.residents[b] = NewResident(c),
                          !.startQueue = Append(@, b)], doomed)

HandleStopAtOnce(h, c, doomed) ==
  LET b == botOf[c.by] IN
  IF h.residents[b] = None \/ h.residents[b].stopping THEN Say(h, <<c>>, TRUE)
  ELSE Say(Stop([h EXCEPT !.residents[b].requested = TRUE], b, doomed), <<c>>, TRUE)

\* The operation "stop": answered once the worker is gone.
HandleStop(h, c, doomed) ==
  LET b == botOf[c.by]
      asked == [h EXCEPT !.residents[b].requested = TRUE]
      waits == [asked EXCEPT !.residents[b].stops = Append(@, c)]
  IN IF h.residents[b] = None THEN Say(h, <<c>>, TRUE)
     ELSE IF ~h.residents[b].stopping THEN Stop(waits, b, doomed)
     ELSE IF h.residents[b].hung THEN Say(asked, <<c>>, FALSE)
     ELSE waits

-----------------------------------------------------------------------------
HostInit ==
  /\ residents = [b \in Bots |-> None]
  /\ startQueue = <<>>
  /\ starting = 0
  /\ toHost = <<>>
  /\ toDesktop = <<>>

HostReceive ==
  /\ toHost # <<>>
  /\ toHost' = Tail(toHost)
  /\ LET c == Head(toHost) IN
     \E doomed \in SUBSET (Range(startQueue) \cup {botOf[c.by]}) :
       BecomeHost(IF c.op = "start" THEN HandleStart(Host, c, doomed)
                                    ELSE HandleStop(Host, c, doomed))

HasWorker(b) == residents[b] # None /\ residents[b].worker

\* The worker reports that it listens; a stopping one is not heard.
WorkerReady(b) ==
  /\ HasWorker(b)
  /\ ~residents[b].stopping
  /\ ~residents[b].settled
  /\ \E doomed \in SUBSET Range(startQueue) : BecomeHost(Settle(Host, b, TRUE, doomed))
  /\ UNCHANGED toHost

\* The worker reports an error, or did not become ready in time.
WorkerFails(b) ==
  /\ HasWorker(b)
  /\ ~residents[b].stopping
  /\ \E doomed \in SUBSET Range(startQueue) : BecomeHost(Stop(Host, b, doomed))
  /\ UNCHANGED toHost

WorkerExitsUntold(b) ==
  /\ HasWorker(b)
  /\ LET told == IF residents[b].stopping THEN Host
                 ELSE [Host EXCEPT !.toDesktop = Append(@, BotExit(b))]
     IN \E doomed \in SUBSET Range(startQueue) :
          BecomeHost(RemoveResident(Settle(told, b, FALSE, doomed), b))
  /\ UNCHANGED toHost

\* The worker's thread ends.  The desktop is told unless it asked for it.
WorkerExits(b) ==
  /\ HasWorker(b)
  /\ LET told == IF residents[b].requested THEN Host
                 ELSE [Host EXCEPT !.toDesktop = Append(@, BotExit(b))]
     IN \E doomed \in SUBSET Range(startQueue) :
          BecomeHost(RemoveResident(Settle(told, b, FALSE, doomed), b))
  /\ UNCHANGED toHost

\* Neither the shutdown message nor terminate() ended the thread in time.
KillFails(b) ==
  /\ b \in SlowBots
  /\ HasWorker(b)
  /\ residents[b].stopping
  /\ ~residents[b].hung
  /\ BecomeHost(Say([Host EXCEPT !.residents[b].hung = TRUE,
                                 !.residents[b].stops = <<>>],
                    residents[b].stops, FALSE))
  /\ UNCHANGED toHost

WorkerStep(b) == WorkerReady(b) \/ WorkerFails(b) \/ WorkerExits(b) \/ KillFails(b)

-----------------------------------------------------------------------------
HostTypeOK ==
  /\ residents \in [Bots -> Resident \cup {None}]
  /\ startQueue \in Seq(Bots)
  /\ starting \in Nat
  /\ toHost \in Seq(Controls)
  /\ toDesktop \in Seq([kind : {"answer"}, of : Controls, ok : BOOLEAN]
                         \cup [kind : {"bot-exit"}, bot : Bots])

\* A start slot is taken exactly while a worker boots, the limit is kept, and
\* no bot waits for a slot while one is free: whatever makes a boot end (ready,
\* an error, its timer, an exit, a stop) must give the slot on.
SlotsFollowBoots ==
  /\ starting = Cardinality({b \in Bots : HasWorker(b) /\ ~residents[b].settled})
  /\ starting <= MaxStarts
  /\ startQueue # <<>> => starting = MaxStarts
=============================================================================
