----------------------- MODULE ConsumerServiceProofs -----------------------
(***************************************************************************)
(* Theorems about ConsumerService for any number of workers, any log, any  *)
(* queue sizes and any number of faults.  The argument: an offset is in    *)
(* one place of the process at a time (the loop, one queue, one worker, or *)
(* given up), because it is fetched once per life and routed by its key;   *)
(* so a Done is called once for each, and every step is a step of          *)
(* OffsetTracker or none.  What OffsetTrackerProofs shows of the tracker   *)
(* then holds of the process.                                              *)
(***************************************************************************)
EXTENDS ConsumerService, SequenceTheorems, FiniteSetTheorems, TLAPS

-----------------------------------------------------------------------------
(* The inductive invariant, in named parts.                                *)

\* Offsets below this one have left the fetch loop.
Submitted == IF loop = "submitting" THEN position - 1 ELSE position

\* Types, with what a step's own bound needs of the step before it.
Typed ==
  /\ TypeOK
  /\ loop # "returned" => failures < MaxFetchFailures
  /\ loop = "submitting" => position > 0
  /\ \A w \in Workers : /\ Handling(w) \/ Committing(w) => worker[w].msg \in Offsets
                        /\ worker[w].step = "waiting" => worker[w].attempt < MaxAttempts

\* A process that is down has nothing in memory.
DownIsEmpty ==
  run = "down" =>
    /\ loop = "returned" /\ ~ConsumeEnded
    /\ \A w \in Workers : queue[w] = <<>> /\ worker[w] = Stopped /\ late[w] = 0
    /\ inFlight = <<>> /\ done = {} /\ queued = 0 /\ left = {} /\ reached = committed

\* Shutdown begins when Run has returned, and each life that ends had a fault.
EndsHaveReasons ==
  /\ run \notin {"down", "running"} => loop = "returned"
  /\ lives <= faults
  /\ run # "down" /\ (ConsumeEnded \/ loop = "returned") => lives < faults

\* Where an offset can be: in the queue its key routes it to or with that
\* worker, in fetch order.
RoutedAt(w) ==
  /\ \A i \in 1 .. Len(queue[w]) : Route(queue[w][i]) = w /\ queue[w][i] < Submitted
  /\ \A i, j \in 1 .. Len(queue[w]) : i < j => queue[w][i] < queue[w][j]
  /\ Handling(w) => /\ Route(worker[w].msg) = w /\ worker[w].msg < Submitted
                    /\ \A i \in 1 .. Len(queue[w]) : worker[w].msg < queue[w][i]
Routed == \A w \in Workers : RoutedAt(w)

\* What was given up is nowhere else.
LeftApart ==
  \A o \in left : /\ o < Submitted
                  /\ \A w \in Workers : o \notin Queued(w) /\ (Handling(w) => worker[w].msg # o)

\* The tracker holds the last offsets fetched, and everything before them was
\* committed, is queued for commit or is on its way into the queue.
Contiguous ==
  /\ Len(inFlight) <= position
  /\ \A i \in 1 .. Len(inFlight) : inFlight[i] = position - Len(inFlight) + i - 1
FrontCommitted ==
  run # "down" =>
    LET front == position - Len(inFlight) IN
      /\ reached <= front /\ queued <= front
      /\ \A w \in Workers : Committing(w) => worker[w].msg + 1 <= front
      /\ \/ reached = front \/ queued = front
         \/ \E w \in Workers : Committing(w) /\ worker[w].msg + 1 = front

\* No two workers are left with the same commit: each popped other offsets.
CommitsApart ==
  \A v, w \in Workers :
    Committing(v) /\ Committing(w) /\ worker[v].msg = worker[w].msg => v = w

\* A Done is only called for what was disposed of.
Disposed == indexed \cup skipped \cup deadLettered
AckedAreDisposed ==
  /\ acked \subseteq Disposed
  /\ \A w \in Workers : worker[w].step = "acking" => worker[w].msg \in Disposed

\* A worker that received after quit will find it closed at its next check.
LateOnce ==
  \A w \in Workers :
    late[w] = 0 \/ (late[w] = 1 /\ Quit /\ worker[w].step # "selecting")

IndInv == /\ Typed /\ DownIsEmpty /\ EndsHaveReasons
          /\ Routed /\ LeftApart /\ Contiguous /\ FrontCommitted /\ CommitsApart
          /\ AckedAreDisposed /\ LateOnce

\* Worker w has offset o waiting or in hand.
Has(w, o) == o \in Queued(w) \/ (Handling(w) /\ worker[w].msg = o)

\* What a step of worker w can do to the messages of the process.
Passes(w) == /\ ~Handling(w) /\ ~Handling(w)'
             /\ UNCHANGED <<queue, left, trackerVars, late>>
Takes(w)  == /\ ~Handling(w) /\ Handling(w)' /\ queue[w] # <<>>
             /\ worker'[w].msg = Head(queue[w])
             /\ queue' = [queue EXCEPT ![w] = Tail(@)]
             /\ UNCHANGED <<left, trackerVars>>
Keeps(w)  == /\ Handling(w) /\ Handling(w)' /\ worker'[w].msg = worker[w].msg
             /\ UNCHANGED <<queue, left, trackerVars, late>>
GivesUp(w) == /\ Handling(w) /\ ~Handling(w)'
              /\ left' = left \cup {worker[w].msg}
              /\ UNCHANGED <<queue, trackerVars, late>>
Finishes(w) == /\ Handling(w) /\ ~Handling(w)' /\ Ack(w)
               /\ UNCHANGED <<queue, left, late>>
Sends(w)  == /\ ~Handling(w) /\ ~Handling(w)' /\ Commit(w)
             /\ UNCHANGED <<queue, left, late>>

-----------------------------------------------------------------------------
(* A message is routed to one of the workers (WorkerPool.route).           *)
LEMMA RouteIsAWorker ==
  \A o \in Offsets : Route(o) \in Workers
<1>1. \A n \in Nat : n % NumWorkers \in 0 .. NumWorkers - 1
  BY PoolAssumption
<1> QED BY <1>1, LogAssumption DEF Route, Offsets, Workers

(* Every worker has room for a message (NewWorkerPool).                    *)
LEMMA QueueCapIsPositive == QueueCap \in Nat \ {0}
<1>1. QueueSize \div NumWorkers \in Int
  BY PoolAssumption
<1> QED BY <1>1 DEF QueueCap

(* A worker's step touches no other worker, nor the fetch loop, the log or *)
(* main, and does one of six things to the messages (work and handle).     *)
LEMMA WorkerMoves ==
  ASSUME Typed, NEW w \in Workers, WorkerStep(w)
  PROVE  /\ UNCHANGED <<run, loop, failures, signalled, position, committed, lives>>
         /\ \A v \in Workers \ {w} : worker'[v] = worker[v]
         /\ Passes(w) \/ Takes(w) \/ Keeps(w) \/ GivesUp(w) \/ Finishes(w) \/ Sends(w)
         /\ Committing(w) <=> Sends(w)
         /\ Committing(w)' => Finishes(w)
<1> USE DEF Committing, OnlyWorker, loopVars, trackerVars, logVars, bounds, outcomes
<1>b. ASSUME NEW x, Becomes(w, x)
      PROVE  worker'[w] = x /\ \A v \in Workers \ {w} : worker'[v] = worker[v]
  BY <1>b DEF Becomes, Typed, TypeOK
<1>1. CASE CheckQuit(w) \/ TakeQuit(w)
  <2>1. PICK x \in {Stopped, At("selecting", NoMessage, 0)} : Becomes(w, x)
    BY <1>1 DEF CheckQuit, TakeQuit
  <2>2. Passes(w)
    BY <1>1, <1>b, <2>1 DEF CheckQuit, TakeQuit, Passes, Handling, HandlerSteps, Stopped, At
  <2>3. ~Committing(w) /\ ~Committing(w)'
    BY <1>1, <1>b, <2>1 DEF CheckQuit, TakeQuit, Stopped, At
  <2> QED BY <1>1, <1>b, <2>1, <2>2, <2>3 DEF CheckQuit, TakeQuit, Sends, Commit
<1>2. CASE Receive(w)
  <2>1. PICK x \in {At("acking", Head(queue[w]), 0), At("publishing", Head(queue[w]), 0),
                    At("indexing", Head(queue[w]), 1)} : Becomes(w, x)
    BY <1>2 DEF Receive
  <2>2. Takes(w)
    BY <1>2, <1>b, <2>1 DEF Receive, Takes, Handling, HandlerSteps, At
  <2>3. ~Committing(w) /\ ~Committing(w)'
    BY <1>2, <1>b, <2>1 DEF Receive, At
  <2> QED BY <1>2, <1>b, <2>1, <2>2, <2>3 DEF Receive, Sends, Commit
<1>3. CASE IndexSucceeds(w) \/ BackoffEnds(w) \/ PublishSucceeds(w)
  <2>1. PICK x \in {At("acking", worker[w].msg, 0),
                    At("indexing", worker[w].msg, worker[w].attempt + 1)} : Becomes(w, x)
    BY <1>3 DEF IndexSucceeds, BackoffEnds, PublishSucceeds
  <2>2. Keeps(w)
    BY <1>3, <1>b, <2>1
       DEF IndexSucceeds, BackoffEnds, PublishSucceeds, Keeps, Handling, HandlerSteps, At
  <2>3. ~Committing(w) /\ ~Committing(w)'
    BY <1>3, <1>b, <2>1 DEF IndexSucceeds, BackoffEnds, PublishSucceeds, At
  <2> QED BY <1>3, <1>b, <2>1, <2>2, <2>3
          DEF IndexSucceeds, BackoffEnds, PublishSucceeds, Sends, Commit
<1>4. CASE BackoffCancelled(w) \/ PublishFails(w) \/ (IndexFails(w) /\ Abandon(w))
  <2>1. Becomes(w, Idle) /\ left' = left \cup {worker[w].msg}
    BY <1>4 DEF BackoffCancelled, PublishFails, Abandon
  <2>2. GivesUp(w)
    BY <1>4, <1>b, <2>1 DEF BackoffCancelled, PublishFails, IndexFails, GivesUp, Handling,
                             HandlerSteps, Idle, At
  <2>3. ~Committing(w) /\ ~Committing(w)'
    BY <1>4, <1>b, <2>1 DEF BackoffCancelled, PublishFails, IndexFails, Idle, At
  <2> QED BY <1>4, <1>b, <2>1, <2>2, <2>3
          DEF BackoffCancelled, PublishFails, IndexFails, Sends, Commit
<1>5. CASE IndexFails(w) /\ ~Abandon(w)
  <2>1. PICK x \in {At("waiting", worker[w].msg, worker[w].attempt),
                    At("publishing", worker[w].msg, worker[w].attempt)} :
          Becomes(w, x) /\ UNCHANGED left
    BY <1>5 DEF IndexFails
  <2>2. Keeps(w)
    BY <1>5, <1>b, <2>1 DEF IndexFails, Keeps, Handling, HandlerSteps, At
  <2>3. ~Committing(w) /\ ~Committing(w)'
    BY <1>5, <1>b, <2>1 DEF IndexFails, At
  <2> QED BY <1>5, <1>b, <2>1, <2>2, <2>3 DEF IndexFails, Sends, Commit
<1>6. CASE Ack(w)
  <2>1. \E x : Becomes(w, x) /\ x.step \in {"checking", "committing"}
    BY <1>6 DEF Ack, Idle, At
  <2>2. Finishes(w)
    <3>1. Handling(w) /\ ~Handling(w)'
      BY <1>6, <1>b, <2>1 DEF Ack, Handling, HandlerSteps
    <3>2. UNCHANGED <<queue, left, late>>
      BY <1>6 DEF Ack
    <3> QED BY <1>6, <3>1, <3>2 DEF Finishes
  <2>3. ~Committing(w)
    BY <1>6 DEF Ack
  <2>4. \A v \in Workers \ {w} : worker'[v] = worker[v]
    BY <1>b, <2>1
  <2> QED BY <1>6, <2>2, <2>3, <2>4 DEF Ack, Sends, Commit
<1>7. CASE Commit(w)
  <2>1. Becomes(w, Idle) /\ Committing(w)
    BY <1>7 DEF Commit
  <2>2. ~Handling(w) /\ ~Handling(w)' /\ ~Committing(w)'
    BY <1>b, <2>1 DEF Handling, HandlerSteps, Idle, At
  <2>3. Sends(w)
    BY <1>7, <2>2 DEF Sends, Commit
  <2> QED BY <1>7, <1>b, <2>1, <2>2, <2>3 DEF Commit
<1> QED BY <1>1, <1>2, <1>3, <1>4, <1>5, <1>6, <1>7 DEF WorkerStep

-----------------------------------------------------------------------------
(* The proved tracker, instantiated as ConsumerService instantiates it.    *)
Proved == INSTANCE OffsetTrackerProofs WITH
  Consumers <- {"me"}, NoOwner <- "none", MaxGeneration <- MaxFaults,
  inFlight <- [c \in {"me"} |-> inFlight],
  done <- [c \in {"me"} |-> done],
  handling <- [c \in {"me"} |-> [o \in Offsets |-> IF o \in Held THEN 1 ELSE 0]],
  sending <- [c \in {"me"} |-> [n \in 1 .. LogLen |-> IF Sending(n) # {} THEN 1 ELSE 0]],
  queued <- [c \in {"me"} |-> queued],
  owner <- IF run = "down" THEN "none" ELSE "me",
  generation <- lives,
  finished <- acked,
  overlapped <- [c \in {"me"} |-> FALSE]

(* The constants of ConsumerService are ones OffsetTracker allows.         *)
LEMMA TrackerConstants == Proved!ConstantsAssumption
BY PoolAssumption, LogAssumption DEF Proved!ConstantsAssumption

(* Dropping the first k elements of a sequence shifts the others (the      *)
(* reslicing p.inFlight[1:] in markDone).                                  *)
LEMMA DroppedProperties ==
  ASSUME NEW S, NEW s \in Seq(S), NEW k \in 0 .. Len(s)
  PROVE  /\ Tracker!Dropped(s, k) \in Seq(S)
         /\ Len(Tracker!Dropped(s, k)) = Len(s) - k
         /\ \A i \in 1 .. Len(s) - k : Tracker!Dropped(s, k)[i] = s[k + i]
BY TrackerConstants, Proved!DroppedProperties DEF Tracker!Dropped, Proved!Dropped

-----------------------------------------------------------------------------
\* The state of a worker, as a record.
WorkerStates == [step : HandlerSteps \cup {"checking", "selecting", "committing", "stopped"},
                 msg : Offsets \cup {NoMessage}, attempt : 0 .. MaxAttempts]

\* A worker's state agrees with itself: it handles or commits a message of the
\* log, and waits only while an attempt is left.
SoundState(x) ==
  /\ x \in WorkerStates
  /\ x.step \in HandlerSteps \cup {"committing"} => x.msg \in Offsets
  /\ x.step = "waiting" => x.attempt < MaxAttempts

(* The pool's variables keep their types at every step of a worker, and    *)
(* attempts stay within the policy (work, handle, Process, Runner.Do).     *)
LEMMA WorkerKeepsTypes ==
  ASSUME Typed, NEW w \in Workers, WorkerStep(w)
  PROVE  /\ \A v \in Workers : SoundState(worker'[v])
         /\ worker' \in [Workers -> WorkerStates]
<1>1. /\ worker \in [Workers -> WorkerStates]
      /\ \A v \in Workers : SoundState(worker[v])
  BY DEF Typed, TypeOK, SoundState, WorkerStates, Handling, Committing
<1>2. \A x : Becomes(w, x) /\ SoundState(x) =>
        /\ \A v \in Workers : SoundState(worker'[v])
        /\ worker' \in [Workers -> WorkerStates]
  BY <1>1 DEF Becomes, SoundState
<1>3. queue[w] # <<>> => Head(queue[w]) \in Offsets
  <2>1. queue[w] \in Seq(Offsets)
    BY DEF Typed, TypeOK
  <2> QED BY <2>1, HeadTailProperties
<1>4. \E x : Becomes(w, x) /\ SoundState(x)
  <2> USE PoolAssumption DEF SoundState, WorkerStates, HandlerSteps, At, Idle, Stopped
  <2>1. CASE CheckQuit(w) \/ TakeQuit(w)
    BY <2>1 DEF CheckQuit, TakeQuit
  <2>2. CASE Receive(w)
    BY <2>2, <1>3 DEF Receive
  <2>3. CASE IndexSucceeds(w) \/ PublishSucceeds(w)
    BY <2>3, <1>1 DEF IndexSucceeds, PublishSucceeds
  <2>4. CASE IndexFails(w)
    BY <2>4, <1>1 DEF IndexFails, Abandon
  <2>5. CASE BackoffEnds(w)
    BY <2>5, <1>1 DEF BackoffEnds
  <2>6. CASE BackoffCancelled(w) \/ PublishFails(w) \/ Commit(w)
    BY <2>6 DEF BackoffCancelled, PublishFails, Commit, Abandon
  <2>7. CASE Ack(w)
    <3>1. PICK k \in 0 .. Len(inFlight) :
            Becomes(w, IF k = 0 THEN Idle ELSE At("committing", inFlight[k], 0))
      BY <2>7 DEF Ack
    <3>2. k # 0 => inFlight[k] \in Offsets
      BY ElementOfSeq DEF Typed, TypeOK
    <3> QED BY <3>1, <3>2
  <2> QED BY <2>1, <2>2, <2>3, <2>4, <2>5, <2>6, <2>7 DEF WorkerStep
<1> QED BY <1>2, <1>4

(* A Done pops some of the tracker's messages and leaves its worker with   *)
(* the last of them to commit (markDone).                                  *)
LEMMA AckPops ==
  ASSUME Typed, NEW w \in Workers, Ack(w)
  PROVE  \E k \in 0 .. Len(inFlight) :
           /\ inFlight' \in Seq(Offsets)
           /\ Len(inFlight') = Len(inFlight) - k
           /\ \A i \in 1 .. Len(inFlight) - k : inFlight'[i] = inFlight[k + i]
           /\ k > 0 => inFlight[k] \in Offsets
           /\ worker'[w] = IF k = 0 THEN Idle ELSE At("committing", inFlight[k], 0)
           /\ \A v \in Workers \ {w} : worker'[v] = worker[v]
           /\ UNCHANGED <<queued, reached>>
<1>1. PICK k \in 0 .. Len(inFlight) :
        /\ inFlight' = Tracker!Dropped(inFlight, k)
        /\ Becomes(w, IF k = 0 THEN Idle ELSE At("committing", inFlight[k], 0))
  BY DEF Ack
<1>2. inFlight \in Seq(Offsets)
  BY DEF Typed, TypeOK
<1>3. k > 0 => inFlight[k] \in Offsets
  BY <1>2, ElementOfSeq
<1>4. /\ worker'[w] = IF k = 0 THEN Idle ELSE At("committing", inFlight[k], 0)
      /\ \A v \in Workers \ {w} : worker'[v] = worker[v]
  BY <1>1 DEF Becomes, Typed, TypeOK
<1>5. UNCHANGED <<queued, reached>>
  BY DEF Ack
<1> QED BY <1>1, <1>2, <1>3, <1>4, <1>5, DroppedProperties

\* The two halves of Typed: the pool, and everything else.
PoolTyped ==
  /\ queue \in [Workers -> Seq(Offsets)] /\ \A w \in Workers : Len(queue[w]) <= QueueCap
  /\ worker \in [Workers -> WorkerStates] /\ late \in [Workers -> Nat]
  /\ \A v \in Workers : SoundState(worker[v])
LoopTyped ==
  /\ run \in {"down", "running", "draining", "cancelled", "closing"}
  /\ loop \in {"fetching", "submitting", "returned"}
  /\ failures \in 0 .. MaxFetchFailures
  /\ signalled \in BOOLEAN /\ fatal \in BOOLEAN
  /\ inFlight \in Seq(Offsets) /\ done \subseteq Offsets /\ queued \in 0 .. LogLen
  /\ reached \in 0 .. LogLen
  /\ position \in 0 .. LogLen /\ committed \in 0 .. LogLen
  /\ lives \in 0 .. MaxFaults /\ faults \in 0 .. MaxFaults
  /\ left \subseteq Offsets /\ acked \subseteq Offsets
  /\ indexed \subseteq Offsets /\ skipped \subseteq Offsets /\ deadLettered \subseteq Offsets
  /\ loop # "returned" => failures < MaxFetchFailures
  /\ loop = "submitting" => position > 0

(* The type invariant, split into the fetch loop's part and the pool's.     *)
LEMMA TypedParts == Typed <=> LoopTyped /\ PoolTyped
BY DEF Typed, TypeOK, LoopTyped, PoolTyped, SoundState, WorkerStates, Handling, Committing

(* Queues hold offsets of the log, up to their capacity, and workers sound *)
(* states, after every step (Submit, work, Gone).                          *)
LEMMA PoolKeepsTypes == Typed /\ [Next]_vars => PoolTyped'
<1> SUFFICES ASSUME Typed, [Next]_vars PROVE PoolTyped'
  OBVIOUS
<1>t. PoolTyped
  BY TypedParts
<1>q. <<>> \in Seq(Offsets) /\ Len(<<>>) = 0
  OBVIOUS
<1>s. SoundState(Stopped) /\ SoundState(Idle)
  BY PoolAssumption DEF SoundState, WorkerStates, HandlerSteps, At, Idle, Stopped
<1>1. CASE UNCHANGED poolVars
  BY <1>1, <1>t DEF PoolTyped, poolVars, SoundState
<1>2. CASE Start
  BY <1>2, <1>t, <1>s DEF Start, PoolTyped, SoundState
<1>3. CASE Gone
  BY <1>3, <1>q, <1>s, QueueCapIsPositive DEF Gone, PoolTyped, SoundState
<1>4. CASE Submit
  <2> DEFINE o == position - 1
             q == queue[Route(o)]
  <2>1. o \in Offsets
    BY <1>4, LogAssumption, TypedParts DEF Submit, LoopTyped, Offsets
  <2>2. Route(o) \in Workers /\ q \in Seq(Offsets)
    BY <2>1, <1>t, RouteIsAWorker DEF PoolTyped
  <2>3. Append(q, o) \in Seq(Offsets) /\ Len(Append(q, o)) = Len(q) + 1
    <3> HIDE DEF q, o
    <3> QED BY <2>1, <2>2, AppendProperties
  <2>4. Len(q) < QueueCap /\ Len(q) \in Nat /\ queue' = [queue EXCEPT ![Route(o)] = Append(q, o)]
    BY <1>4, <2>2 DEF Submit
  <2>5. Len(Append(q, o)) <= QueueCap
    BY <2>3, <2>4, QueueCapIsPositive
  <2>6. UNCHANGED <<worker, late>>
    BY <1>4 DEF Submit
  <2> HIDE DEF q, o
  <2>7. queue' \in [Workers -> Seq(Offsets)] /\ \A w \in Workers : Len(queue'[w]) <= QueueCap
    BY <2>2, <2>3, <2>4, <2>5, <1>t DEF PoolTyped
  <2> QED BY <2>6, <2>7, <1>t DEF PoolTyped, SoundState
<1>5. ASSUME NEW w \in Workers, WorkerStep(w) PROVE PoolTyped'
  <2>1. queue' \in [Workers -> Seq(Offsets)] /\ \A v \in Workers : Len(queue'[v]) <= QueueCap
    <3>1. CASE UNCHANGED queue
      BY <3>1, <1>t DEF PoolTyped
    <3>2. CASE Takes(w)
      <4>1. queue[w] \in Seq(Offsets) /\ queue[w] # <<>>
        BY <3>2, <1>t DEF Takes, PoolTyped
      <4>2. Tail(queue[w]) \in Seq(Offsets) /\ Len(Tail(queue[w])) = Len(queue[w]) - 1
        BY <4>1, HeadTailProperties
      <4>3. Len(queue[w]) \in Nat
        BY <4>1
      <4> QED BY <3>2, <4>2, <4>3, <1>t, QueueCapIsPositive DEF Takes, PoolTyped
    <3> QED BY <1>5, <3>1, <3>2, WorkerMoves DEF Passes, Keeps, GivesUp, Finishes, Sends
  <2>2. late' \in [Workers -> Nat]
    <3>1. CASE Receive(w)
      BY <3>1, <1>t DEF Receive, PoolTyped
    <3>2. CASE ~Receive(w)
      BY <1>5, <3>2, <1>t DEF PoolTyped, WorkerStep, OnlyWorker, CheckQuit, TakeQuit, IndexSucceeds,
           IndexFails, BackoffEnds, BackoffCancelled, PublishSucceeds, PublishFails, Ack, Commit
    <3> QED BY <3>1, <3>2
  <2> QED BY <1>5, <2>1, <2>2, WorkerKeepsTypes DEF PoolTyped, SoundState
<1>6. CASE UNCHANGED vars
  BY <1>6, <1>1 DEF vars
<1> QED BY <1>1, <1>2, <1>3, <1>4, <1>5, <1>6 DEF Next, MainStep, LoopStep, Signal, Crash,
           BeginShutdown, Deadline, Drained, Exit, Fetch, FetchEnds, SubmitEnds, FetchFails,
           Flush, poolVars

(* The rest keeps its types, and no bounded counter passes its bound (the  *)
(* fetch loop, the tracker and main).                                      *)
LEMMA LoopKeepsTypes == Typed /\ EndsHaveReasons /\ [Next]_vars => LoopTyped'
<1> SUFFICES ASSUME Typed, EndsHaveReasons, [Next]_vars PROVE LoopTyped'
  OBVIOUS
<1>t. LoopTyped /\ PoolTyped
  BY TypedParts
<1> USE PoolAssumption, LogAssumption DEF LoopTyped
<1>1. CASE Start
  BY <1>1, <1>t DEF Start, trackerVars, outcomes, bounds
<1>2. CASE Signal \/ FetchFails
  <2>1. faults' \in 0 .. MaxFaults
    BY <1>2, <1>t DEF Signal, FetchFails, Fault
  <2>2. CASE Signal
    BY <2>1, <2>2, <1>t DEF Signal, trackerVars, logVars, outcomes
  <2>3. CASE FetchFails
    <3>1. /\ failures < MaxFetchFailures /\ failures' = failures + 1
          /\ loop' \in {"fetching", "returned"}
          /\ loop' = "fetching" => failures + 1 < MaxFetchFailures
      BY <2>3, <1>t DEF FetchFails
    <3>2. UNCHANGED <<run, signalled, fatal, inFlight, done, queued, reached, acked, position, committed,
                      indexed, skipped, deadLettered, lives, left>>
      BY <2>3 DEF FetchFails, trackerVars, logVars, outcomes
    <3>3. failures' \in 0 .. MaxFetchFailures /\ (loop' # "returned" => failures' < MaxFetchFailures)
      BY <3>1, <1>t
    <3> QED BY <2>1, <3>1, <3>2, <3>3, <1>t
  <2> QED BY <1>2, <2>2, <2>3
<1>3. CASE Exit \/ Crash
  <2>1. Gone /\ lives < MaxFaults /\ faults' \in 0 .. MaxFaults
    BY <1>3, <1>t DEF Exit, Crash, Fault, EndsHaveReasons
  <2>2. <<>> \in Seq(Offsets) /\ lives + 1 \in 0 .. MaxFaults
    BY <2>1, <1>t
  <2>3. /\ run' = "down" /\ loop' = "returned" /\ failures' = 0 /\ signalled' = FALSE /\ fatal' = FALSE
        /\ inFlight' = <<>> /\ done' = {} /\ queued' = 0 /\ left' = {} /\ lives' = lives + 1
        /\ reached' = committed
        /\ UNCHANGED <<acked, position, committed, indexed, skipped, deadLettered>>
    BY <2>1 DEF Gone, logVars, outcomes
  <2>4. /\ failures' \in 0 .. MaxFetchFailures /\ queued' \in 0 .. LogLen
        /\ inFlight' \in Seq(Offsets) /\ lives' \in 0 .. MaxFaults
    BY <2>2, <2>3
  <2>5. signalled' \in BOOLEAN /\ fatal' \in BOOLEAN
    BY <2>3
  <2> QED BY <2>1, <2>3, <2>4, <2>5, <1>t
<1>4. CASE BeginShutdown \/ Deadline \/ Drained \/ FetchEnds
  BY <1>4, <1>t DEF BeginShutdown, Deadline, Drained, FetchEnds,
                    trackerVars, logVars, outcomes, bounds
<1>5. CASE Fetch
  <2>1. position \in Offsets
    BY <1>5, <1>t DEF Fetch, Offsets
  <2>2. Append(inFlight, position) \in Seq(Offsets)
    BY <1>t, <2>1, AppendProperties
  <2> QED BY <1>5, <1>t, <2>2 DEF Fetch, outcomes, bounds
<1>6. CASE Submit \/ SubmitEnds
  <2>1. position - 1 \in Offsets
    BY <1>6, <1>t DEF Submit, SubmitEnds, Offsets
  <2>2. CASE Submit
    <3>1. /\ loop' = "fetching" /\ failures < MaxFetchFailures
          /\ UNCHANGED <<run, failures, signalled, fatal, trackerVars, logVars, outcomes, bounds, left>>
      BY <2>2, <1>t DEF Submit
    <3> QED BY <3>1, <1>t DEF trackerVars, logVars, outcomes, bounds
  <2>3. CASE SubmitEnds
    BY <2>1, <2>3, <1>t DEF SubmitEnds, trackerVars, logVars, outcomes, bounds
  <2> QED BY <1>6, <2>2, <2>3
<1>7. CASE Flush
  BY <1>7, <1>t DEF Flush, loopVars, outcomes, bounds
<1>8. ASSUME NEW w \in Workers, WorkerStep(w) PROVE LoopTyped'
  <2> USE <1>8, <1>t
  <2> DEFINE o == worker[w].msg
  <2>1. /\ UNCHANGED <<run, loop, failures, signalled, position, committed, lives>>
        /\ Handling(w) => o \in Offsets
    BY WorkerMoves DEF Typed
  <2>2. fatal' \in BOOLEAN /\ faults' \in 0 .. MaxFaults
    <3>1. CASE PublishFails(w)
      <4>1. CASE Cancelled
        BY <3>1, <4>1 DEF PublishFails
      <4>2. CASE ~Cancelled
        BY <3>1, <4>2 DEF PublishFails, Fault
      <4> QED BY <4>1, <4>2
    <3>2. CASE ~PublishFails(w)
      BY <3>2 DEF WorkerStep, OnlyWorker, CheckQuit, TakeQuit, Receive, IndexSucceeds, IndexFails,
                  BackoffEnds, BackoffCancelled, PublishSucceeds, Ack, Commit, loopVars, bounds
    <3> QED BY <3>1, <3>2
  <2>3. /\ left' \subseteq Offsets
        /\ inFlight' \in Seq(Offsets)
        /\ done' \subseteq Offsets /\ acked' \subseteq Offsets
        /\ queued' \in 0 .. LogLen /\ reached' \in 0 .. LogLen
    <3>1. CASE UNCHANGED trackerVars
      BY <3>1, <2>1, WorkerMoves DEF Typed, TypeOK, trackerVars, Passes, Takes, Keeps, GivesUp,
         Finishes, Sends
    <3>2. CASE Finishes(w)
      <4>1. o \in Offsets /\ Ack(w) /\ UNCHANGED left
        BY <3>2, <2>1 DEF Finishes
      <4>2. done' \subseteq Offsets /\ acked' \subseteq Offsets
        BY <4>1 DEF Ack
      <4>3. inFlight' \in Seq(Offsets) /\ UNCHANGED <<queued, reached>>
        BY <4>1, AckPops
      <4> QED BY <4>1, <4>2, <4>3
    <3>3. CASE Sends(w)
      <4>1. Commit(w) /\ UNCHANGED left
        BY <3>3 DEF Sends
      <4>2. o \in Offsets
        BY <4>1 DEF Commit, Typed
      <4>3. queued' \in 0 .. LogLen
        BY <4>1, <4>2 DEF Commit, Offsets
      <4> QED BY <4>1, <4>3 DEF Commit
    <3> QED BY <3>1, <3>2, <3>3, WorkerMoves DEF Passes, Takes, Keeps, GivesUp
  <2>4. indexed' \subseteq Offsets /\ skipped' \subseteq Offsets /\ deadLettered' \subseteq Offsets
    <3>1. queue[w] # <<>> => Head(queue[w]) \in Offsets
      BY HeadTailProperties DEF PoolTyped
    <3>2. worker[w].step \in HandlerSteps => o \in Offsets
      BY <2>1 DEF Handling
    <3> QED BY <3>1, <3>2
            DEF WorkerStep, OnlyWorker, CheckQuit, TakeQuit, Receive, IndexSucceeds, IndexFails,
                BackoffEnds, BackoffCancelled, PublishSucceeds, PublishFails, Ack, Commit, outcomes,
                HandlerSteps
  <2> QED BY <2>1, <2>2, <2>3, <2>4
<1>9. CASE UNCHANGED vars
  BY <1>9, <1>t DEF vars, loopVars, trackerVars, logVars, outcomes, bounds
<1> QED BY <1>1, <1>2, <1>3, <1>4, <1>5, <1>6, <1>7, <1>8, <1>9 DEF Next, MainStep, LoopStep

-----------------------------------------------------------------------------
(* A process with a worker that takes a step is up (work).                 *)
LEMMA WorkersAreUp ==
  ASSUME DownIsEmpty, NEW w \in Workers, WorkerStep(w)
  PROVE  run # "down"
<1> SUFFICES ASSUME run = "down" PROVE FALSE
  OBVIOUS
<1>1. worker[w].step = "stopped"
  BY DEF DownIsEmpty, Stopped, At
<1> QED BY <1>1 DEF WorkerStep, CheckQuit, TakeQuit, Receive, IndexSucceeds, IndexFails,
           BackoffEnds, BackoffCancelled, PublishSucceeds, PublishFails, Ack, Commit, Committing

(* Only the end of a process makes it down, and it leaves nothing behind   *)
(* (Gone); a process that is down does nothing but start.                  *)
LEMMA DownPreserved == Typed /\ DownIsEmpty /\ [Next]_vars => DownIsEmpty'
<1> SUFFICES ASSUME Typed, DownIsEmpty, [Next]_vars, run' = "down"
             PROVE  DownIsEmpty'
  BY DEF DownIsEmpty
<1>1. CASE Gone
  BY <1>1 DEF Gone, DownIsEmpty, ConsumeEnded, logVars
<1>2. ASSUME NEW w \in Workers, WorkerStep(w) PROVE FALSE
  BY <1>2, WorkersAreUp, WorkerMoves
<1>3. CASE UNCHANGED vars
  BY <1>3 DEF vars, loopVars, poolVars, trackerVars, logVars, DownIsEmpty, ConsumeEnded
<1> QED BY <1>1, <1>2, <1>3 DEF Next, MainStep, LoopStep, Start, Signal, Crash, BeginShutdown,
           Deadline, Drained, Exit, Fetch, FetchEnds, Submit, SubmitEnds, FetchFails, Flush,
           loopVars

(* A process ends after a fault of its own only: a signal, a failed worker,*)
(* Kafka or a crash (main, Consumer.Run).                                  *)
LEMMA ReasonsPreserved ==
  Typed /\ DownIsEmpty /\ EndsHaveReasons /\ [Next]_vars => EndsHaveReasons'
<1> SUFFICES ASSUME Typed, DownIsEmpty, EndsHaveReasons, [Next]_vars PROVE EndsHaveReasons'
  OBVIOUS
<1>t. lives \in Nat /\ faults \in Nat
  BY PoolAssumption DEF Typed, TypeOK
<1> USE <1>t DEF EndsHaveReasons, ConsumeEnded
<1>1. CASE Start
  BY <1>1 DEF Start, DownIsEmpty, bounds
<1>2. CASE Signal \/ FetchFails
  BY <1>2 DEF Signal, FetchFails, Fault
<1>3. CASE Exit \/ Crash
  BY <1>3 DEF Exit, Crash, Gone, Fault
<1>4. CASE BeginShutdown \/ Deadline \/ Drained \/ FetchEnds \/ SubmitEnds
  BY <1>4 DEF BeginShutdown, Deadline, Drained, FetchEnds, SubmitEnds, bounds
<1>5. CASE Fetch \/ Submit \/ Flush
  BY <1>5 DEF Fetch, Submit, Flush, loopVars, bounds
<1>6. ASSUME NEW w \in Workers, WorkerStep(w) PROVE EndsHaveReasons'
  <2>1. CASE PublishFails(w)
    <3>1. CASE Cancelled
      <4>1. loop = "returned" /\ lives < faults
        BY <3>1 DEF Cancelled
      <4>2. UNCHANGED <<run, loop, lives, faults>>
        BY <2>1, <3>1 DEF PublishFails
      <4> QED BY <4>1, <4>2
    <3>2. CASE ~Cancelled
      BY <2>1, <3>2 DEF PublishFails, Fault
    <3> QED BY <3>1, <3>2
  <2>2. CASE ~PublishFails(w)
    BY <1>6, <2>2 DEF WorkerStep, OnlyWorker, CheckQuit, TakeQuit, Receive, IndexSucceeds,
       IndexFails, BackoffEnds, BackoffCancelled, PublishSucceeds, Ack, Commit, loopVars, bounds
  <2> QED BY <2>1, <2>2
<1>7. CASE UNCHANGED vars
  BY <1>7 DEF vars, loopVars, bounds
<1> QED BY <1>1, <1>2, <1>3, <1>4, <1>5, <1>6, <1>7 DEF Next, MainStep, LoopStep

-----------------------------------------------------------------------------
(* Offsets leave the fetch loop in order: what is below Submitted has been *)
(* submitted or dropped in this life, and Submitted falls only with a new  *)
(* life (Consumer.Run).                                                    *)
LEMMA SubmittedGrows ==
  ASSUME Typed, [Next]_vars
  PROVE  Start \/ Gone \/ (Submitted \in Nat /\ Submitted' \in Nat /\ Submitted <= Submitted')
<1>1. position \in Nat /\ (loop = "submitting" => position - 1 \in Nat)
  BY LogAssumption DEF Typed, TypeOK
<1>2. ASSUME NEW w \in Workers, WorkerStep(w) PROVE UNCHANGED <<loop, position>>
  BY <1>2, WorkerMoves
<1>3. CASE UNCHANGED <<loop, position>>
  BY <1>1, <1>3 DEF Submitted
<1>4. CASE LoopStep \/ FetchFails
  BY <1>1, <1>4 DEF LoopStep, Fetch, FetchEnds, Submit, SubmitEnds, FetchFails, logVars, Submitted
<1> QED BY <1>2, <1>3, <1>4 DEF Next, MainStep, Signal, Crash, BeginShutdown, Deadline, Drained,
           Exit, Flush, vars, loopVars, logVars

(* A worker's own message is ahead of its queue, and both hold only what   *)
(* routing gave it, in log order, at every step (Submit, work).            *)
LEMMA RoutedPreserved ==
  Typed /\ DownIsEmpty /\ Routed /\ [Next]_vars => Routed'
<1> SUFFICES ASSUME Typed, DownIsEmpty, Routed, [Next]_vars, NEW v \in Workers
             PROVE  RoutedAt(v)'
  BY DEF Routed
<1>0. RoutedAt(v)
  BY DEF Routed
<1>q. /\ queue[v] \in Seq(Offsets) /\ Len(queue[v]) \in Nat
      /\ \A i \in 1 .. Len(queue[v]) : queue[v][i] \in Nat
      /\ Handling(v) => worker[v].msg \in Nat
  <2>1. queue[v] \in Seq(Offsets)
    BY DEF Typed, TypeOK
  <2>2. \A i \in 1 .. Len(queue[v]) : queue[v][i] \in Offsets
    BY <2>1, ElementOfSeq
  <2> QED BY <2>1, <2>2, LogAssumption DEF Offsets, Typed
<1>1. CASE Start
  <2>1. queue'[v] = <<>> /\ worker'[v] = Idle
    BY <1>1 DEF Start, DownIsEmpty
  <2> QED BY <2>1 DEF RoutedAt, Handling, HandlerSteps, Idle, At
<1>2. CASE Gone
  <2>1. queue'[v] = <<>> /\ worker'[v] = Stopped
    BY <1>2 DEF Gone
  <2> QED BY <2>1 DEF RoutedAt, Handling, HandlerSteps, Stopped, At
<1> SUFFICES ASSUME Submitted \in Nat, Submitted' \in Nat, Submitted <= Submitted'
             PROVE  RoutedAt(v)'
  BY <1>1, <1>2, SubmittedGrows
<1>3. ASSUME queue'[v] = queue[v],
             Handling(v)' => Handling(v) /\ worker'[v].msg = worker[v].msg
      PROVE  RoutedAt(v)'
  BY <1>0, <1>3, <1>q DEF RoutedAt
<1>4. CASE Submit
  <2> DEFINE o == position - 1
  <2>1. /\ o \in Offsets /\ o \in Nat
        /\ Submitted = o /\ Submitted' = o + 1
        /\ UNCHANGED worker
    BY <1>4, LogAssumption DEF Submit, Typed, TypeOK, Offsets, Submitted, logVars
  <2>2. queue' = [queue EXCEPT ![Route(o)] = Append(queue[Route(o)], o)]
    BY <1>4 DEF Submit
  <2> HIDE DEF o
  <2>3. CASE v # Route(o)
    BY <1>3, <2>1, <2>2, <2>3 DEF Handling, Typed, TypeOK
  <2>4. CASE v = Route(o)
    <3> DEFINE q == queue[v]
               r == queue'[v]
    <3>1. r = Append(q, o)
      BY <2>2, <2>4 DEF Typed, TypeOK
    <3>2. /\ Len(r) = Len(q) + 1
          /\ \A i \in 1 .. Len(q) : r[i] = q[i]
          /\ r[Len(q) + 1] = o
      <4>1. q \in Seq(Offsets)
        BY <1>q
      <4> HIDE DEF q, r
      <4> QED BY <2>1, <3>1, <4>1, AppendProperties
    <3>3. \A i \in 1 .. Len(r) : i \in 1 .. Len(q) \/ i = Len(q) + 1
      BY <1>q, <3>2
    <3>4. /\ \A i \in 1 .. Len(q) : Route(q[i]) = v /\ q[i] < o
          /\ \A i, j \in 1 .. Len(q) : i < j => q[i] < q[j]
          /\ Handling(v) => /\ Route(worker[v].msg) = v /\ worker[v].msg < o
                            /\ \A i \in 1 .. Len(q) : worker[v].msg < q[i]
      BY <1>0, <2>1 DEF RoutedAt
    <3>5. Len(q) \in Nat /\ (\A i \in 1 .. Len(q) : q[i] \in Nat) /\ (Handling(v) => worker[v].msg \in Nat)
      BY <1>q
    <3>6. Handling(v)' = Handling(v) /\ worker'[v] = worker[v]
      BY <2>1 DEF Handling
    <3> HIDE DEF q
    <3>7. /\ \A i \in 1 .. Len(r) : Route(r[i]) = v /\ r[i] < o + 1
          /\ \A i, j \in 1 .. Len(r) : i < j => r[i] < r[j]
          /\ Handling(v)' => /\ Route(worker'[v].msg) = v /\ worker'[v].msg < o + 1
                             /\ \A i \in 1 .. Len(r) : worker'[v].msg < r[i]
      <4> HIDE DEF r
      <4>1. \A i \in 1 .. Len(r) : Route(r[i]) = v /\ r[i] < o + 1
        BY <2>1, <2>4, <3>2, <3>3, <3>4, <3>5
      <4>2. ASSUME NEW i \in 1 .. Len(r), NEW j \in 1 .. Len(r), i < j PROVE r[i] < r[j]
        <5>1. i \in 1 .. Len(q)
          BY <3>2, <3>5, <4>2
        <5> QED BY <5>1, <4>2, <3>2, <3>3, <3>4
      <4>3. Handling(v)' => /\ Route(worker'[v].msg) = v /\ worker'[v].msg < o + 1
                            /\ \A i \in 1 .. Len(r) : worker'[v].msg < r[i]
        BY <2>1, <3>2, <3>3, <3>4, <3>5, <3>6
      <4> QED BY <4>1, <4>2, <4>3
    <3> QED BY <2>1, <3>7 DEF RoutedAt
  <2> QED BY <2>3, <2>4
<1>5. ASSUME NEW w \in Workers, WorkerStep(w) PROVE RoutedAt(v)'
  <2>1. CASE v # w
    <3>1. worker'[v] = worker[v]
      BY <1>5, <2>1, WorkerMoves
    <3>2. queue'[v] = queue[v]
      BY <1>5, <2>1, WorkerMoves DEF Passes, Takes, Keeps, GivesUp, Finishes, Sends, Typed, TypeOK
    <3> QED BY <1>3, <3>1, <3>2 DEF Handling
  <2>2. CASE v = w /\ Takes(w)
    <3> DEFINE q == queue[v]
               r == queue'[v]
    <3>1. q # <<>> /\ r = Tail(q) /\ worker'[v].msg = Head(q)
      BY <2>2 DEF Takes, Typed, TypeOK
    <3>2. /\ Len(r) = Len(q) - 1
          /\ \A i \in 1 .. Len(r) : r[i] = q[i + 1]
      <4>1. q \in Seq(Offsets)
        BY <1>q
      <4> HIDE DEF q, r
      <4> QED BY <3>1, <4>1, HeadTailProperties
    <3>3. Head(q) = q[1] /\ Len(q) \in Nat /\ Len(q) > 0 /\ 1 \in 1 .. Len(q)
      <4>1. q \in Seq(Offsets)
        BY <1>q
      <4> HIDE DEF q
      <4> QED BY <3>1, <4>1
    <3>4. \A i \in 1 .. Len(r) : i + 1 \in 1 .. Len(q) /\ i + 1 > 1
      BY <3>2, <3>3
    <3>5. /\ \A i \in 1 .. Len(q) : Route(q[i]) = v /\ q[i] < Submitted /\ q[i] \in Nat
          /\ \A i, j \in 1 .. Len(q) : i < j => q[i] < q[j]
      BY <1>0, <1>q DEF RoutedAt
    <3> HIDE DEF q, r
    <3>6. ASSUME NEW i \in 1 .. Len(r) PROVE Route(r[i]) = v /\ r[i] < Submitted'
      <4>1. r[i] = q[i + 1] /\ i + 1 \in 1 .. Len(q)
        BY <3>2, <3>4
      <4>2. Route(q[i + 1]) = v /\ q[i + 1] < Submitted /\ q[i + 1] \in Nat
        BY <4>1, <3>5
      <4> QED BY <4>1, <4>2
    <3>7. ASSUME NEW i \in 1 .. Len(r), NEW j \in 1 .. Len(r), i < j PROVE r[i] < r[j]
      <4>1. i + 1 < j + 1
        BY <3>7, <3>2, <3>3
      <4> QED BY <4>1, <3>2, <3>4, <3>5
    <3>8. /\ Route(worker'[v].msg) = v /\ worker'[v].msg < Submitted'
          /\ \A i \in 1 .. Len(r) : worker'[v].msg < r[i]
      BY <3>1, <3>2, <3>3, <3>4, <3>5
    <3> QED BY <3>6, <3>7, <3>8 DEF RoutedAt, r
  <2>3. CASE v = w /\ ~Takes(w)
    BY <1>5, <2>3, <1>3, WorkerMoves DEF Passes, Keeps, GivesUp, Finishes, Sends
  <2> QED BY <2>1, <2>2, <2>3
<1>6. CASE UNCHANGED <<queue, worker>>
  BY <1>3, <1>6 DEF Handling
<1> QED BY <1>1, <1>2, <1>4, <1>5, <1>6
        DEF Next, MainStep, LoopStep, Signal, Crash, BeginShutdown, Deadline, Drained, Exit,
            Fetch, FetchEnds, SubmitEnds, FetchFails, Flush, vars, poolVars

(* What one worker has, no other worker has: the queues and the workers'   *)
(* messages are disjoint, because the key decides the worker (route).      *)
LEMMA OnePlace ==
  ASSUME Typed, Routed, NEW v \in Workers, NEW w \in Workers, NEW o,
         Has(v, o), Has(w, o)
  PROVE  /\ v = w
         /\ o < Submitted
         /\ ~(o \in Queued(w) /\ Handling(w) /\ worker[w].msg = o)
<1>1. ASSUME NEW u \in Workers, Has(u, o)
      PROVE  Route(o) = u /\ o < Submitted
  <2>1. DOMAIN queue[u] = 1 .. Len(queue[u])
    BY DEF Typed, TypeOK
  <2> QED BY <1>1, <2>1 DEF Has, Queued, Routed, RoutedAt
<1>2. ASSUME o \in Queued(w), Handling(w) /\ worker[w].msg = o PROVE FALSE
  <2>1. DOMAIN queue[w] = 1 .. Len(queue[w])
    BY DEF Typed, TypeOK
  <2>2. PICK i \in 1 .. Len(queue[w]) : queue[w][i] = o
    BY <1>2, <2>1 DEF Queued
  <2>3. o < o /\ o \in Nat
    BY <1>2, <2>2, LogAssumption DEF Routed, RoutedAt, Typed, Offsets
  <2> QED BY <2>3
<1> QED BY <1>1, <1>2

(* What a process gave up stays out of its queues and its workers: it was  *)
(* delivered once in this life (Submit, handle).                           *)
LEMMA LeftApartPreserved ==
  Typed /\ DownIsEmpty /\ Routed /\ LeftApart /\ [Next]_vars => LeftApart'
<1> SUFFICES ASSUME Typed, DownIsEmpty, Routed, LeftApart, [Next]_vars
             PROVE  LeftApart'
  OBVIOUS
<1>1. CASE Start \/ Gone
  BY <1>1 DEF Start, Gone, DownIsEmpty, LeftApart
<1> SUFFICES ASSUME Submitted \in Nat, Submitted' \in Nat, Submitted <= Submitted'
             PROVE  LeftApart'
  BY <1>1, SubmittedGrows
<1> SUFFICES ASSUME NEW o \in left', NEW v \in Workers
             PROVE  o < Submitted' /\ o \notin Queued(v)' /\ (Handling(v)' => worker'[v].msg # o)
  <2>1. 0 \in Workers
    BY PoolAssumption DEF Workers
  <2> QED BY <2>1 DEF LeftApart, Handling, Queued
<1>o. o \in left => /\ o < Submitted' /\ o \in Nat
                    /\ o \notin Queued(v) /\ (Handling(v) => worker[v].msg # o)
  <2>1. o \in left => o \in Nat
    BY LogAssumption, TypedParts DEF LoopTyped, Offsets
  <2> QED BY <2>1 DEF LeftApart
<1>d. DOMAIN queue[v] = 1 .. Len(queue[v]) /\ queue[v] \in Seq(Offsets)
  BY DEF Typed, TypeOK
<1>2. CASE Submit
  <2> DEFINE p == position - 1
             q == queue[v]
  <2>1. /\ p \in Offsets /\ Submitted = p /\ UNCHANGED <<worker, left>>
        /\ queue' = [queue EXCEPT ![Route(p)] = Append(queue[Route(p)], p)]
    BY <1>2, LogAssumption DEF Submit, Typed, TypeOK, Offsets, Submitted, logVars
  <2> HIDE DEF p
  <2>2. o < p /\ o \in Nat
    BY <1>o, <2>1 DEF LeftApart
  <2>3. queue'[v] = q \/ queue'[v] = Append(q, p)
    BY <2>1 DEF Typed, TypeOK
  <2>4. Queued(v)' \subseteq Queued(v) \cup {p}
    <3>1. CASE queue'[v] = q
      BY <3>1 DEF Queued
    <3>2. CASE queue'[v] = Append(q, p)
      <4>1. q \in Seq(Offsets) /\ Len(q) \in Nat /\ DOMAIN q = 1 .. Len(q)
        BY <1>d
      <4> HIDE DEF q
      <4>2. /\ Append(q, p) \in Seq(Offsets) /\ Len(Append(q, p)) = Len(q) + 1
            /\ \A i \in 1 .. Len(q) : Append(q, p)[i] = q[i]
            /\ Append(q, p)[Len(q) + 1] = p
        BY <2>1, <4>1, AppendProperties
      <4>3. DOMAIN Append(q, p) = 1 .. Len(q) + 1
        BY <4>2
      <4>4. \A i \in 1 .. Len(q) + 1 : i \in 1 .. Len(q) \/ i = Len(q) + 1
        BY <4>1
      <4>5. \A i \in DOMAIN Append(q, p) :
              Append(q, p)[i] \in {q[j] : j \in DOMAIN q} \cup {p}
        BY <4>1, <4>2, <4>3, <4>4
      <4> QED BY <3>2, <4>5 DEF Queued, q
    <3> QED BY <2>3, <3>1, <3>2
  <2> QED BY <1>o, <2>1, <2>2, <2>4 DEF Handling
<1>3. CASE SubmitEnds
  <2> DEFINE p == position - 1
  <2>1. /\ p \in Nat /\ Submitted = p /\ Submitted' = p + 1
        /\ UNCHANGED <<worker, queue>> /\ left' = left \cup {p}
    BY <1>3, LogAssumption DEF SubmitEnds, Typed, TypeOK, Submitted, logVars, poolVars
  <2>2. p \notin Queued(v) /\ (Handling(v) => worker[v].msg # p)
    <3>1. \A x \in Queued(v) : x < p
      BY <1>d, <2>1 DEF Queued, Routed, RoutedAt
    <3>2. Handling(v) => worker[v].msg < p
      BY <2>1 DEF Routed, RoutedAt
    <3> QED BY <2>1, <3>1, <3>2
  <2> HIDE DEF p
  <2> QED BY <1>o, <2>1, <2>2 DEF Queued, Handling
<1>4. ASSUME NEW w \in Workers, WorkerStep(w)
      PROVE  o < Submitted' /\ o \notin Queued(v)' /\ (Handling(v)' => worker'[v].msg # o)
  <2>1. o \in left \/ (GivesUp(w) /\ o = worker[w].msg)
    BY <1>4, WorkerMoves DEF Passes, Takes, Keeps, GivesUp, Finishes, Sends
  <2>2. UNCHANGED Submitted
    BY <1>4, WorkerMoves DEF Submitted
  <2>3. CASE o \in left
    <3>1. Queued(v)' \subseteq Queued(v)
      <4>1. CASE queue'[v] = queue[v]
        BY <4>1 DEF Queued
      <4>2. CASE Takes(w) /\ v = w
        <5>1. queue'[v] = Tail(queue[v]) /\ queue[v] # <<>>
          BY <4>2 DEF Takes, Typed, TypeOK
        <5> DEFINE q == queue[v]
        <5>2. q \in Seq(Offsets) /\ Len(q) \in Nat /\ DOMAIN q = 1 .. Len(q) /\ q # <<>>
          BY <1>d, <5>1
        <5> HIDE DEF q
        <5>3. /\ DOMAIN Tail(q) = 1 .. Len(q) - 1
              /\ \A i \in 1 .. Len(q) - 1 : Tail(q)[i] = q[i + 1] /\ i + 1 \in 1 .. Len(q)
          BY <5>2, HeadTailProperties
        <5> QED BY <5>1, <5>2, <5>3 DEF Queued, q
      <4> QED BY <1>4, <4>1, <4>2, WorkerMoves
              DEF Passes, Takes, Keeps, GivesUp, Finishes, Sends, Typed, TypeOK
    <3>2. Handling(v)' => worker'[v].msg \in Queued(v) \/ (Handling(v) /\ worker'[v].msg = worker[v].msg)
      <4>1. CASE v # w
        BY <1>4, <4>1, WorkerMoves DEF Handling
      <4>2. CASE v = w /\ Takes(w)
        <5>1. queue[v] # <<>> /\ worker'[v].msg = Head(queue[v])
          BY <4>2 DEF Takes
        <5> DEFINE q == queue[v]
        <5>2. q \in Seq(Offsets) /\ DOMAIN q = 1 .. Len(q) /\ q # <<>>
          BY <1>d, <5>1
        <5> HIDE DEF q
        <5>3. 1 \in DOMAIN q /\ Head(q) = q[1]
          BY <5>2
        <5> QED BY <5>1, <5>3 DEF Queued, q
      <4>3. CASE v = w /\ ~Takes(w)
        BY <1>4, <4>3, WorkerMoves DEF Passes, Keeps, GivesUp, Finishes, Sends
      <4> QED BY <4>1, <4>2, <4>3
    <3> QED BY <1>o, <2>3, <3>1, <3>2
  <2>4. CASE GivesUp(w) /\ o = worker[w].msg
    <3>1. UNCHANGED queue /\ Handling(w) /\ ~Handling(w)'
      BY <2>4 DEF GivesUp
    <3>2. o < Submitted /\ o \notin Queued(v) /\ (v # w => ~(Handling(v) /\ worker[v].msg = o))
      BY <2>4, <3>1, OnePlace DEF Has
    <3>3. v # w => worker'[v] = worker[v]
      BY <1>4, WorkerMoves
    <3> QED BY <2>2, <3>1, <3>2, <3>3 DEF Queued, Handling
  <2> QED BY <2>1, <2>3, <2>4
<1>5. CASE UNCHANGED <<queue, worker, left>>
  BY <1>5, <1>o DEF Queued, Handling
<1> QED BY <1>1, <1>2, <1>3, <1>4, <1>5
        DEF Next, MainStep, LoopStep, Signal, Crash, BeginShutdown, Deadline, Drained, Exit,
            Fetch, FetchEnds, FetchFails, Flush, vars, poolVars, LeftApart

(* The tracker holds the offsets from the commit to be made up to the next *)
(* fetch, in a row: Done removes from the front what its worker is left to *)
(* commit, and a restart begins where the commits ended (track, markDone,  *)
(* CommitMessages, Run).                                                   *)
LEMMA TrackerPreserved ==
  Typed /\ DownIsEmpty /\ Contiguous /\ FrontCommitted /\ [Next]_vars
    => Contiguous' /\ FrontCommitted'
<1> SUFFICES ASSUME Typed, DownIsEmpty, Contiguous, FrontCommitted, [Next]_vars
             PROVE  Contiguous' /\ FrontCommitted'
  OBVIOUS
<1> USE LogAssumption
<1>t. /\ inFlight \in Seq(Offsets) /\ Len(inFlight) \in Nat
      /\ position \in Nat /\ queued \in Nat /\ committed \in Nat /\ reached \in Nat
      /\ Len(<<>>) = 0
      /\ \A w \in Workers : Committing(w) => worker[w].msg \in Nat
  BY DEF Typed, TypeOK, Offsets
<1> USE DEF Contiguous
<1> DEFINE front == position - Len(inFlight)
<1>f. run # "down" =>
        /\ front \in Nat /\ reached <= front /\ queued <= front
        /\ \A w \in Workers : Committing(w) => worker[w].msg + 1 <= front
        /\ \/ reached = front \/ queued = front
           \/ \E w \in Workers : Committing(w) /\ worker[w].msg + 1 = front
  BY <1>t DEF FrontCommitted
<1>1. CASE Start
  <2>1. /\ inFlight' = <<>> /\ queued' = 0 /\ position' = committed /\ committed' = committed
        /\ reached' = committed
        /\ \A w \in Workers : ~Committing(w)'
    BY <1>1 DEF Start, DownIsEmpty, trackerVars, Committing, Idle, At
  <2> QED BY <2>1, <1>t DEF FrontCommitted
<1>2. CASE Gone
  BY <1>2, <1>t DEF Gone, logVars, FrontCommitted
<1>3. CASE Fetch
  <2> DEFINE s == inFlight
             r == inFlight'
  <2>1. /\ r = Append(s, position) /\ position \in Offsets
        /\ position' = position + 1 /\ run = run' /\ run # "down"
        /\ UNCHANGED <<queued, reached, worker>>
    BY <1>3, <1>t DEF Fetch, Offsets, poolVars
  <2>2. /\ Len(r) = Len(s) + 1
        /\ \A i \in 1 .. Len(s) : r[i] = s[i]
        /\ r[Len(s) + 1] = position
    BY <1>t, <2>1, AppendProperties
  <2>3. \A i \in 1 .. Len(r) : i \in 1 .. Len(s) \/ i = Len(s) + 1
    BY <1>t, <2>2
  <2>n. Len(s) \in Nat /\ Len(r) \in Nat /\ position \in Nat
    BY <1>t, <2>2 DEF Offsets
  <2>5. position' - Len(r) = front
    BY <2>n, <2>1, <2>2
  <2>4. ASSUME NEW i \in 1 .. Len(r) PROVE r[i] = position' - Len(r) + i - 1
    <3>1. CASE i \in 1 .. Len(s)
      <4>1. s[i] = front + i - 1
        BY <1>t, <3>1
      <4> QED BY <2>2, <2>5, <3>1, <4>1
    <3>2. CASE i = Len(s) + 1
      BY <2>n, <2>2, <2>5, <3>2
    <3> QED BY <2>3, <3>1, <3>2
  <2>6. FrontCommitted'
    BY <1>f, <2>1, <2>5 DEF FrontCommitted, Committing
  <2> QED BY <1>t, <2>1, <2>2, <2>4, <2>6
<1>4. CASE Flush
  <2>1. /\ run # "down" /\ queued' = 0
        /\ reached' = (IF queued > reached THEN queued ELSE reached)
        /\ UNCHANGED <<run, inFlight, position, worker>>
    BY <1>4 DEF Flush, loopVars, poolVars
  <2>2. FrontCommitted'
    BY <1>t, <1>f, <2>1 DEF FrontCommitted, Committing
  <2> QED BY <1>t, <2>1, <2>2
<1>5. ASSUME NEW w \in Workers, WorkerStep(w) PROVE Contiguous' /\ FrontCommitted'
  <2>1. UNCHANGED <<run, position>> /\ run # "down"
    BY <1>5, WorkerMoves, WorkersAreUp
  <2>2. CASE ~Finishes(w) /\ ~Sends(w)
    <3>1. UNCHANGED trackerVars
      BY <1>5, <2>2, WorkerMoves DEF Passes, Takes, Keeps, GivesUp
    <3>2. \A v \in Workers : /\ Committing(v)' <=> Committing(v)
                             /\ Committing(v) => worker'[v] = worker[v]
      BY <1>5, <2>2, WorkerMoves DEF Committing
    <3>3. \A v \in Workers : Committing(v)' => worker'[v].msg + 1 <= front
      BY <1>f, <2>1, <3>2
    <3>4. (\E v \in Workers : Committing(v) /\ worker[v].msg + 1 = front)
            => \E v \in Workers : Committing(v)' /\ worker'[v].msg + 1 = front
      BY <3>2
    <3> QED BY <1>f, <2>1, <3>1, <3>3, <3>4 DEF FrontCommitted, trackerVars
  <2>3. CASE Finishes(w)
    <3>1. PICK k \in 0 .. Len(inFlight) :
            /\ Len(inFlight') = Len(inFlight) - k
            /\ \A i \in 1 .. Len(inFlight) - k : inFlight'[i] = inFlight[k + i]
            /\ worker'[w] = IF k = 0 THEN Idle ELSE At("committing", inFlight[k], 0)
            /\ \A v \in Workers \ {w} : worker'[v] = worker[v]
            /\ UNCHANGED <<queued, reached>>
      BY <2>3, AckPops DEF Finishes
    <3>2. \A i \in 1 .. Len(inFlight) - k : k + i \in 1 .. Len(inFlight)
      BY <1>t
    <3>3. Contiguous'
      BY <1>t, <2>1, <3>1, <3>2
    <3>n. ~Committing(w)
      BY <2>3, <1>5, WorkerMoves DEF Finishes, Sends
    <3>c. \A v \in Workers \ {w} : Committing(v)' <=> Committing(v)
      BY <3>1 DEF Committing
    <3>4. CASE k = 0
      <4>1. ~Committing(w)' /\ position' - Len(inFlight') = front
        BY <1>t, <2>1, <3>1, <3>4 DEF Committing, Idle, At
      <4>2. \A v \in Workers : Committing(v)' => worker'[v].msg + 1 <= front
        BY <1>f, <2>1, <3>1, <3>c, <4>1
      <4>3. (\E v \in Workers : Committing(v) /\ worker[v].msg + 1 = front)
              => \E v \in Workers : Committing(v)' /\ worker'[v].msg + 1 = front
        BY <3>1, <3>n, <3>c
      <4> QED BY <1>f, <2>1, <3>1, <3>3, <4>1, <4>2, <4>3 DEF FrontCommitted
    <3>5. CASE k > 0
      <4>1. Committing(w)' /\ worker'[w].msg = inFlight[k]
        BY <3>1, <3>5 DEF Committing, At
      <4>2. inFlight[k] + 1 = position' - Len(inFlight') /\ front < position' - Len(inFlight')
        BY <1>t, <2>1, <3>1, <3>5
      <4>3. position' - Len(inFlight') \in Nat
        BY <1>t, <2>1, <3>1
      <4>4. \A v \in Workers : Committing(v)' => worker'[v].msg + 1 <= position' - Len(inFlight')
        <5> TAKE v \in Workers
        <5> HAVE Committing(v)'
        <5>1. CASE v = w
          BY <4>1, <4>2, <4>3, <5>1
        <5>2. CASE v # w
          <6>1. worker'[v].msg + 1 <= front /\ worker'[v].msg \in Nat
            BY <1>t, <1>f, <2>1, <3>1, <3>c, <5>2
          <6> QED BY <6>1, <1>f, <2>1, <4>2, <4>3
        <5> QED BY <5>1, <5>2
      <4>5. reached' <= position' - Len(inFlight') /\ queued' <= position' - Len(inFlight')
        <5>1. front \in Nat /\ reached <= front /\ queued <= front
          BY <1>f, <2>1
        <5>2. reached' = reached /\ queued' = queued
          BY <3>1
        <5>3. reached \in Nat /\ queued \in Nat
          BY <1>t
        <5> HIDE DEF front
        <5> QED BY <5>1, <5>2, <5>3, <4>2, <4>3
      <4> QED BY <2>1, <3>3, <4>1, <4>2, <4>4, <4>5 DEF FrontCommitted
    <3> QED BY <3>1, <3>3, <3>4, <3>5
  <2>4. CASE Sends(w)
    <3> DEFINE n == worker[w].msg + 1
    <3>1. /\ Committing(w) /\ n \in Nat /\ n <= front
          /\ queued' = (IF n > queued THEN n ELSE queued)
          /\ UNCHANGED <<inFlight, reached>>
      BY <2>4, <1>t, <1>f, <2>1 DEF Sends, Commit
    <3>2. ~Committing(w)' /\ \A v \in Workers \ {w} : worker'[v] = worker[v]
      BY <1>5, <2>4, WorkerMoves DEF Finishes, Sends
    <3> HIDE DEF n
    <3>3. \A v \in Workers : Committing(v)' => worker'[v].msg + 1 <= front
      BY <1>f, <2>1, <3>2 DEF Committing
    <3>4. ASSUME NEW v \in Workers, Committing(v), worker[v].msg + 1 = front
          PROVE  queued' = front \/ \E u \in Workers : Committing(u)' /\ worker'[u].msg + 1 = front
      <4>1. CASE v = w
        BY <1>t, <1>f, <2>1, <3>1, <3>4, <4>1 DEF n
      <4>2. CASE v # w
        BY <3>2, <3>4, <4>2 DEF Committing
      <4> QED BY <4>1, <4>2
    <3>5. (queued = front => queued' = front) /\ queued' <= front
      BY <1>t, <1>f, <2>1, <3>1
    <3>6. Contiguous' /\ position' - Len(inFlight') = front
      BY <2>1, <3>1
    <3> QED BY <1>f, <2>1, <3>1, <3>3, <3>4, <3>5, <3>6 DEF FrontCommitted
  <2> QED BY <2>2, <2>3, <2>4
<1>6. CASE UNCHANGED <<trackerVars, logVars, worker>> /\ (run' = "down" <=> run = "down")
  <2>1. \A v \in Workers : Committing(v)' <=> Committing(v)
    BY <1>6 DEF Committing
  <2> QED BY <1>6, <2>1 DEF trackerVars, logVars, FrontCommitted
<1> QED BY <1>1, <1>2, <1>3, <1>4, <1>5, <1>6
        DEF Next, MainStep, LoopStep, Signal, Crash, BeginShutdown, Deadline, Drained, Exit,
            Submit, FetchEnds, SubmitEnds, FetchFails, vars, loopVars, poolVars

(* A Done pops beyond every commit still on its way (markDone).            *)
LEMMA ApartPreserved ==
  Typed /\ DownIsEmpty /\ Contiguous /\ FrontCommitted /\ CommitsApart /\ [Next]_vars
    => CommitsApart'
<1> SUFFICES ASSUME Typed, DownIsEmpty, Contiguous, FrontCommitted, CommitsApart, [Next]_vars
             PROVE  CommitsApart'
  OBVIOUS
<1>1. CASE Start \/ Gone
  <2>1. \A v \in Workers : ~Committing(v)'
    BY <1>1 DEF Start, Gone, Committing, Idle, Stopped, At
  <2> QED BY <2>1 DEF CommitsApart
<1>2. ASSUME NEW w \in Workers, WorkerStep(w) PROVE CommitsApart'
  <2>1. \A v \in Workers \ {w} : worker'[v] = worker[v] /\ (Committing(v)' <=> Committing(v))
    BY <1>2, WorkerMoves DEF Committing
  <2>2. CASE ~Committing(w)'
    BY <2>1, <2>2 DEF CommitsApart
  <2>3. CASE Committing(w)'
    <3>1. Finishes(w) /\ run # "down"
      BY <1>2, <2>3, WorkerMoves, WorkersAreUp
    <3>2. PICK k \in 0 .. Len(inFlight) :
            worker'[w] = IF k = 0 THEN Idle ELSE At("committing", inFlight[k], 0)
      BY <3>1, AckPops DEF Finishes
    <3>3. k # 0 /\ worker'[w].msg = inFlight[k]
      BY <2>3, <3>2 DEF Committing, Idle, At
    <3>4. /\ inFlight \in Seq(Offsets) /\ Len(inFlight) \in Nat /\ position \in Nat
          /\ \A v \in Workers : Committing(v) => worker[v].msg \in Nat
      BY LogAssumption DEF Typed, TypeOK, Offsets
    <3>5. inFlight[k] = position - Len(inFlight) + k - 1
      BY <3>3 DEF Contiguous
    <3>6. \A v \in Workers : Committing(v) => worker[v].msg + 1 <= position - Len(inFlight)
      BY <3>1 DEF FrontCommitted
    <3>7. \A v \in Workers \ {w} : Committing(v)' => worker'[v].msg # inFlight[k]
      BY <2>1, <3>3, <3>4, <3>5, <3>6
    <3> QED BY <2>1, <3>3, <3>7 DEF CommitsApart
  <2> QED BY <2>2, <2>3
<1>3. CASE UNCHANGED worker
  BY <1>3 DEF CommitsApart, Committing
<1> QED BY <1>1, <1>2, <1>3
        DEF Next, MainStep, LoopStep, Signal, Crash, BeginShutdown, Deadline, Drained, Exit, Fetch,
            Flush, Submit, FetchEnds, SubmitEnds, FetchFails, vars, poolVars

(* A worker calls Done only after the message was indexed, skipped or      *)
(* stored as a dead letter (Process, handle).                              *)
LEMMA AckedPreserved ==
  Typed /\ AckedAreDisposed /\ [Next]_vars => AckedAreDisposed'
<1> SUFFICES ASSUME Typed, AckedAreDisposed, [Next]_vars PROVE AckedAreDisposed'
  OBVIOUS
<1> USE DEF AckedAreDisposed, Disposed
<1>1. ASSUME UNCHANGED <<acked, outcomes>>, \A v \in Workers : worker'[v].step # "acking"
      PROVE  AckedAreDisposed'
  BY <1>1 DEF outcomes
<1>2. CASE UNCHANGED <<acked, outcomes, worker>>
  BY <1>2 DEF outcomes
<1>3. CASE Start
  BY <1>1, <1>3 DEF Start, trackerVars, Idle, At
<1>4. CASE Gone
  BY <1>1, <1>4 DEF Gone, Stopped, At
<1>5. ASSUME NEW w \in Workers, WorkerStep(w) PROVE AckedAreDisposed'
  <2>1. Disposed \subseteq Disposed'
    BY <1>5 DEF WorkerStep, OnlyWorker, CheckQuit, TakeQuit, Receive, IndexSucceeds, IndexFails,
       BackoffEnds, BackoffCancelled, PublishSucceeds, PublishFails, Ack, Commit, outcomes
  <2>2. acked' \subseteq Disposed'
    BY <1>5, <2>1 DEF WorkerStep, OnlyWorker, CheckQuit, TakeQuit, Receive, IndexSucceeds,
       IndexFails, BackoffEnds, BackoffCancelled, PublishSucceeds, PublishFails, Ack, Commit, trackerVars
  <2>3. worker'[w].step = "acking" => worker'[w].msg \in Disposed'
    <3>b. \A x : Becomes(w, x) => worker'[w] = x
      BY DEF Becomes, Typed, TypeOK
    <3>1. CASE IndexSucceeds(w) \/ PublishSucceeds(w)
      BY <3>1, <3>b DEF IndexSucceeds, PublishSucceeds, At
    <3>2. CASE Receive(w)
      BY <3>2, <3>b DEF Receive, At
    <3>3. CASE Ack(w)
      <4>1. \E k : worker'[w] = IF k = 0 THEN Idle ELSE At("committing", inFlight[k], 0)
        BY <3>3, AckPops
      <4> QED BY <4>1 DEF Idle, At
    <3>4. CASE Commit(w)
      BY <3>4, <3>b DEF Commit, Idle, At
    <3>5. CASE ~(IndexSucceeds(w) \/ PublishSucceeds(w) \/ Receive(w) \/ Ack(w) \/ Commit(w))
      BY <1>5, <3>5, <3>b DEF WorkerStep, CheckQuit, TakeQuit, IndexFails, BackoffEnds,
         BackoffCancelled, PublishFails, Abandon, At, Idle, Stopped
    <3> QED BY <3>1, <3>2, <3>3, <3>4, <3>5
  <2>4. \A v \in Workers \ {w} : worker'[v] = worker[v]
    BY <1>5, WorkerMoves
  <2> QED BY <2>1, <2>2, <2>3, <2>4
<1> QED BY <1>2, <1>3, <1>4, <1>5
        DEF Next, MainStep, LoopStep, Signal, Crash, BeginShutdown, Deadline, Drained, Exit, Fetch,
            Flush, Submit, FetchEnds, SubmitEnds, FetchFails, vars, poolVars, trackerVars

(* After quit a worker's next check stops it, so a late message is its     *)
(* last (work).                                                            *)
LEMMA LatePreserved == Typed /\ DownIsEmpty /\ LateOnce /\ [Next]_vars => LateOnce'
<1> SUFFICES ASSUME Typed, DownIsEmpty, LateOnce, [Next]_vars PROVE LateOnce'
  OBVIOUS
<1> USE DEF LateOnce
<1>1. CASE UNCHANGED <<late, worker>> /\ (Quit => Quit')
  BY <1>1
<1>2. CASE Start
  BY <1>2 DEF Start, DownIsEmpty
<1>3. CASE Gone
  BY <1>3 DEF Gone
<1>4. ASSUME NEW w \in Workers, WorkerStep(w) PROVE LateOnce'
  <2>1. (Quit <=> Quit') /\ \A v \in Workers \ {w} : worker'[v] = worker[v]
    BY <1>4, WorkerMoves DEF Quit
  <2>b. \A x : Becomes(w, x) => worker'[w] = x
    BY DEF Becomes, Typed, TypeOK
  <2>2. CASE Receive(w)
    <3>1. worker[w].step = "selecting" /\ worker'[w].step # "selecting"
      BY <2>2, <2>b DEF Receive, At
    <3>2. IF Quit THEN late' = [late EXCEPT ![w] = late[w] + 1] ELSE late' = late
      BY <2>2 DEF Receive
    <3>3. late \in [Workers -> Nat] /\ late[w] = 0
      BY <3>1 DEF Typed, TypeOK
    <3> QED BY <2>1, <3>1, <3>2, <3>3
  <2>3. CASE CheckQuit(w)
    <3>1. worker'[w].step # "selecting" \/ ~Quit
      BY <2>3, <2>b DEF CheckQuit, Stopped, At
    <3> QED BY <2>1, <2>3, <3>1 DEF CheckQuit, OnlyWorker
  <2>4. CASE Ack(w)
    <3>1. \E k : worker'[w] = IF k = 0 THEN Idle ELSE At("committing", inFlight[k], 0)
      BY <2>4, AckPops
    <3>2. worker'[w].step # "selecting" /\ UNCHANGED late
      BY <2>4, <3>1 DEF Ack, Idle, At
    <3> QED BY <2>1, <3>2
  <2>5. CASE ~(Receive(w) \/ CheckQuit(w) \/ Ack(w))
    <3>1. worker'[w].step # "selecting" /\ UNCHANGED late
      BY <1>4, <2>5, <2>b DEF WorkerStep, OnlyWorker, TakeQuit, IndexSucceeds, IndexFails,
         BackoffEnds, BackoffCancelled, PublishSucceeds, PublishFails, Commit, Abandon, At, Idle, Stopped
    <3> QED BY <2>1, <3>1
  <2> QED BY <2>2, <2>3, <2>4, <2>5
<1> QED BY <1>1, <1>2, <1>3, <1>4
        DEF Next, MainStep, LoopStep, Signal, Crash, BeginShutdown, Deadline, Drained, Exit, Fetch,
            Flush, Submit, FetchEnds, SubmitEnds, FetchFails, vars, poolVars, loopVars, Quit

(* The inductive invariant holds in every reachable state.                 *)
LEMMA IndInvHolds == Spec => []IndInv
<1>1. Init => IndInv
  <2> SUFFICES ASSUME Init PROVE IndInv
    OBVIOUS
  <2> USE PoolAssumption, LogAssumption DEF Init
  <2>1. Typed
    <3>1. SoundState(Stopped)
      BY DEF SoundState, WorkerStates, HandlerSteps, At, Stopped
    <3>2. <<>> \in Seq(Offsets) /\ Len(<<>>) = 0
      OBVIOUS
    <3>3. PoolTyped
      BY <3>1, <3>2, QueueCapIsPositive DEF PoolTyped, SoundState
    <3>4. LoopTyped
      <4>1. signalled \in BOOLEAN /\ fatal \in BOOLEAN
        OBVIOUS
      <4> QED BY <3>2, <4>1 DEF LoopTyped
    <3> QED BY <3>3, <3>4, TypedParts
  <2>2. DownIsEmpty /\ EndsHaveReasons
    BY DEF DownIsEmpty, EndsHaveReasons, ConsumeEnded
  <2>3. Routed /\ LeftApart /\ AckedAreDisposed /\ LateOnce
    BY DEF Routed, RoutedAt, LeftApart, AckedAreDisposed, LateOnce, Stopped, At, Handling, HandlerSteps
  <2>4. Contiguous /\ FrontCommitted /\ CommitsApart
    BY DEF Contiguous, FrontCommitted, CommitsApart, Committing, Stopped, At
  <2> QED BY <2>1, <2>2, <2>3, <2>4 DEF IndInv
<1>2. Typed' <=> LoopTyped' /\ PoolTyped'
  BY TypedParts, PTL
<1>3. IndInv /\ [Next]_vars => IndInv'
  BY <1>2, PoolKeepsTypes, LoopKeepsTypes, DownPreserved, ReasonsPreserved, RoutedPreserved,
     LeftApartPreserved, TrackerPreserved, ApartPreserved, AckedPreserved, LatePreserved DEF IndInv
<1> QED BY <1>1, <1>3, PTL DEF Spec

-----------------------------------------------------------------------------
(* Every reachable state is well typed, and no queue passes its capacity.  *)
THEOREM TypeCorrect == Spec => []TypeOK
BY IndInvHolds, PTL DEF IndInv, Typed

(* Once quit is closed a worker starts at most one more message, for any   *)
(* number of workers (work, worker.go:148-166).                            *)
THEOREM LateStartsAreOne == Spec => []AtMostOneLateStart
<1>1. IndInv => AtMostOneLateStart
  BY DEF IndInv, LateOnce, AtMostOneLateStart
<1> QED BY <1>1, IndInvHolds, PTL

-----------------------------------------------------------------------------
(* What a process holds: the message Run is submitting, the ones given up  *)
(* and the ones its workers have.                                          *)
LEMMA HeldMembers ==
  ASSUME NEW o
  PROVE  o \in Held <=> o \in Pending \/ o \in left \/ \E w \in Workers : Has(w, o)
<1>1. o \in UNION {Queued(w) : w \in Workers} <=> \E w \in Workers : o \in Queued(w)
  OBVIOUS
<1>2. o \in {worker[w].msg : w \in {v \in Workers : Handling(v)}}
        <=> \E w \in Workers : Handling(w) /\ worker[w].msg = o
  OBVIOUS
<1> QED BY <1>1, <1>2 DEF Held, Has

(* Only Submit gives a worker a message and only Done and giving up take   *)
(* one away; a receive moves it from the queue to the worker (work).       *)
LEMMA WorkersKeep ==
  ASSUME IndInv, NEW w \in Workers, WorkerStep(w), NEW v \in Workers, NEW o
  PROVE  Has(v, o)' <=> /\ Has(v, o)
                        /\ ~(v = w /\ (GivesUp(w) \/ Finishes(w)) /\ worker[w].msg = o)
<1>t. Typed /\ Routed
  BY DEF IndInv
<1>1. CASE v # w
  <2>1. worker'[v] = worker[v] /\ queue'[v] = queue[v]
    BY <1>1, <1>t, WorkerMoves DEF Passes, Takes, Keeps, GivesUp, Finishes, Sends, Typed, TypeOK
  <2> QED BY <1>1, <2>1 DEF Has, Handling, Queued
<1>2. CASE v = w /\ (Passes(w) \/ Keeps(w) \/ Sends(w))
  <2>1. ~GivesUp(w) /\ ~Finishes(w)
    BY <1>2, <1>t, WorkerMoves DEF Passes, Keeps, GivesUp, Finishes, Sends
  <2> QED BY <1>2, <2>1 DEF Passes, Keeps, Sends, Has, Queued
<1>3. CASE v = w /\ (GivesUp(w) \/ Finishes(w))
  <2>1. Handling(w) /\ ~Handling(w)' /\ UNCHANGED queue
    BY <1>3 DEF GivesUp, Finishes
  <2>2. Has(w, o) /\ worker[w].msg = o => o \notin Queued(w)
    BY <1>t, <2>1, OnePlace
  <2> QED BY <1>3, <2>1, <2>2 DEF Has, Queued
<1>4. CASE v = w /\ Takes(w)
  <2> DEFINE q == queue[w]
  <2>1. /\ q # <<>> /\ queue'[w] = Tail(q) /\ worker'[w].msg = Head(q)
        /\ ~Handling(w) /\ Handling(w)'
    BY <1>4, <1>t DEF Takes, Typed, TypeOK
  <2>2. q \in Seq(Offsets)
    BY <1>t DEF Typed, TypeOK
  <2> HIDE DEF q
  <2>3. {q[i] : i \in DOMAIN q} = {Head(q)} \cup {Tail(q)[i] : i \in DOMAIN Tail(q)}
    <3>1. /\ Len(q) \in Nat /\ DOMAIN q = 1 .. Len(q) /\ 1 \in 1 .. Len(q) /\ Head(q) = q[1]
          /\ DOMAIN Tail(q) = 1 .. Len(q) - 1
      BY <2>1, <2>2, HeadTailProperties
    <3>2. \A i \in 1 .. Len(q) - 1 : Tail(q)[i] = q[i + 1] /\ i + 1 \in 1 .. Len(q)
      BY <2>1, <2>2, <3>1, HeadTailProperties
    <3>3. \A i \in 1 .. Len(q) : i = 1 \/ (i - 1 \in 1 .. Len(q) - 1 /\ (i - 1) + 1 = i)
      BY <3>1
    <3>4. ASSUME NEW i \in 1 .. Len(q), i # 1
          PROVE  q[i] \in {Tail(q)[j] : j \in DOMAIN Tail(q)}
      <4>1. i - 1 \in DOMAIN Tail(q) /\ Tail(q)[i - 1] = q[(i - 1) + 1] /\ (i - 1) + 1 = i
        BY <3>1, <3>2, <3>3, <3>4
      <4> QED BY <4>1
    <3>5. \A j \in DOMAIN Tail(q) : Tail(q)[j] \in {q[i] : i \in DOMAIN q}
      BY <3>1, <3>2
    <3> QED BY <3>1, <3>4, <3>5
  <2>4. ~GivesUp(w) /\ ~Finishes(w)
    BY <2>1 DEF GivesUp, Finishes
  <2>5. Has(w, o) <=> o \in {q[i] : i \in DOMAIN q}
    BY <2>1 DEF Has, Queued, q
  <2>6. Has(w, o)' <=> o = Head(q) \/ o \in {Tail(q)[i] : i \in DOMAIN Tail(q)}
    BY <2>1 DEF Has, Queued
  <2> QED BY <1>4, <2>3, <2>4, <2>5, <2>6
<1> QED BY <1>1, <1>2, <1>3, <1>4, <1>t, WorkerMoves


(* A step of a worker that is no Done leaves the process with the messages *)
(* it had; Done takes away just the worker's (handle).                     *)
LEMMA WorkerStepHeld ==
  ASSUME IndInv, NEW w \in Workers, WorkerStep(w)
  PROVE  /\ ~Finishes(w) => Held' = Held
         /\ ~Finishes(w) /\ ~Sends(w) => UNCHANGED trackerVars
         /\ Finishes(w) => /\ worker[w].msg \in Held
                           /\ Held' = Held \ {worker[w].msg}
<1>t. Typed /\ Routed /\ LeftApart
  BY DEF IndInv
<1>p. Pending' = Pending
  BY <1>t, WorkerMoves DEF Pending
<1>m. ASSUME NEW o
      PROVE  /\ o \in Held <=> o \in Pending \/ o \in left \/ \E v \in Workers : Has(v, o)
             /\ o \in Held' <=> o \in Pending \/ o \in left' \/ \E v \in Workers : Has(v, o)'
  <2>1. o \in Held' <=> o \in Pending' \/ o \in left' \/ \E v \in Workers : Has(v, o)'
    <3>1. o \in UNION {Queued(v)' : v \in Workers} <=> \E v \in Workers : o \in Queued(v)'
      OBVIOUS
    <3>2. o \in {worker'[v].msg : v \in {u \in Workers : Handling(u)'}}
            <=> \E v \in Workers : Handling(v)' /\ worker'[v].msg = o
      OBVIOUS
    <3> QED BY <3>1, <3>2 DEF Held, Has
  <2> QED BY <1>p, <2>1, HeldMembers
<1>1. CASE ~GivesUp(w) /\ ~Finishes(w)
  <2>1. UNCHANGED left /\ (~Sends(w) => UNCHANGED trackerVars)
    BY <1>1, <1>t, WorkerMoves DEF Passes, Takes, Keeps, Sends
  <2>2. ASSUME NEW o, NEW v \in Workers PROVE Has(v, o)' <=> Has(v, o)
    BY <1>1, WorkersKeep
  <2>3. ASSUME NEW o PROVE o \in Held' <=> o \in Held
    BY <1>m, <2>1, <2>2
  <2> QED BY <1>1, <2>1, <2>3
<1>2. CASE GivesUp(w)
  <2> DEFINE m == worker[w].msg
  <2>1. left' = left \cup {m} /\ UNCHANGED trackerVars /\ Has(w, m)
    BY <1>2 DEF GivesUp, Has
  <2>2. ~Finishes(w)
    BY <1>2, <1>t, <2>1 DEF GivesUp, Finishes, LeftApart
  <2>3. ASSUME NEW o, NEW v \in Workers PROVE Has(v, o)' <=> Has(v, o) /\ ~(v = w /\ m = o)
    BY <1>2, WorkersKeep
  <2> HIDE DEF m
  <2>4. ASSUME NEW o PROVE o \in Held' <=> o \in Held
    BY <1>m, <2>1, <2>3
  <2> QED BY <2>1, <2>2, <2>4
<1>3. CASE Finishes(w)
  <2> DEFINE m == worker[w].msg
  <2>1. Has(w, m) /\ left' = left /\ Handling(w)
    BY <1>3 DEF Finishes, Has
  <2>2. m \notin left
    BY <1>t, <2>1 DEF LeftApart
  <2>3. m \notin Pending
    <3>1. m < Submitted /\ m \in Nat
      BY <1>t, <2>1, LogAssumption DEF Routed, RoutedAt, Typed, Offsets
    <3> QED BY <3>1 DEF Pending, Submitted
  <2>4. \A v \in Workers : Has(v, m) => v = w
    BY <1>t, <2>1, OnePlace
  <2>5. ASSUME NEW o, NEW v \in Workers PROVE Has(v, o)' <=> Has(v, o) /\ ~(v = w /\ m = o)
    BY <1>3, WorkersKeep
  <2> HIDE DEF m
  <2>6. ASSUME NEW o PROVE o \in Held' <=> o \in Held /\ o # m
    BY <1>m, <2>1, <2>2, <2>3, <2>4, <2>5
  <2>7. m \in Held
    BY <1>m, <2>1
  <2> QED BY <1>3, <2>6, <2>7 DEF m
<1> QED BY <1>1, <1>2, <1>3

-----------------------------------------------------------------------------
(* The process's steps are the tracker's.                                  *)

\* A step the tracker and the broker do not notice.
Unnoticed == /\ Held' = Held /\ (run' = "down" <=> run = "down")
             /\ \A n \in 1 .. LogLen : Sending(n)' = Sending(n)
             /\ UNCHANGED <<trackerVars, logVars, lives>>

(* A step that changes nothing the tracker records is a stutter for it.    *)
LEMMA UnnoticedStutters == Unnoticed => UNCHANGED Tracker!vars
BY DEF Unnoticed, Tracker!vars, trackerVars, logVars

(* Workers that stay as they are have the same commits on their way.       *)
LEMMA SendingKept ==
  ASSUME \A w \in Workers : /\ Committing(w)' <=> Committing(w)
                            /\ Committing(w) => worker'[w] = worker[w],
         NEW n
  PROVE  Sending(n)' = Sending(n)
BY DEF Sending

(* Start assigns the partition to the process (Run's reader).              *)
LEMMA StartSimulates == IndInv /\ Start => Tracker!Assign("me")
<1> SUFFICES ASSUME IndInv, Start PROVE Tracker!Assign("me")
  OBVIOUS
<1>1. /\ run = "down" /\ run' # "down" /\ position' = committed
      /\ UNCHANGED <<trackerVars, committed, lives>>
  BY DEF Start, bounds
<1>n. \A n \in 1 .. LogLen : Sending(n)' = Sending(n)
  <2>1. \A w \in Workers : ~Committing(w) /\ ~Committing(w)'
    BY DEF IndInv, DownIsEmpty, Start, Committing, Stopped, Idle, At
  <2> QED BY <2>1, SendingKept
<1>2. Held' = Held
  <2>1. left = {} /\ left' = {} /\ Pending = {} /\ Pending' = {}
    BY DEF IndInv, DownIsEmpty, Start, Pending
  <2>2. \A w \in Workers : /\ Queued(w) = {} /\ Queued(w)' = {}
                           /\ ~Handling(w) /\ ~Handling(w)'
    BY DEF IndInv, DownIsEmpty, Start, Queued, Handling, HandlerSteps, Stopped, Idle, At
  <2> QED BY <2>1, <2>2 DEF Held
<1> QED BY <1>1, <1>2, <1>n DEF Tracker!Assign, Tracker!trackerVars, Tracker!commitVars, trackerVars

(* The end of a process is a crash of the tracker's process (Gone).        *)
LEMMA GoneSimulates == IndInv /\ Gone /\ run # "down" /\ lives < MaxFaults => Tracker!Crash("me")
<1> SUFFICES ASSUME IndInv, Gone, run # "down", lives < MaxFaults PROVE Tracker!Crash("me")
  OBVIOUS
<1>1. Held' = {}
  <2>1. left' = {} /\ Pending' = {}
    BY DEF Gone, Pending
  <2>2. \A w \in Workers : Queued(w)' = {} /\ ~Handling(w)'
    BY DEF Gone, Queued, Handling, HandlerSteps, Stopped, At
  <2> QED BY <2>1, <2>2 DEF Held
<1>2. [c \in {"me"} |-> [o \in Offsets |-> IF o \in Held' THEN 1 ELSE 0]]
        = [[c \in {"me"} |-> [o \in Offsets |-> IF o \in Held THEN 1 ELSE 0]]
             EXCEPT !["me"] = [o \in Offsets |-> 0]]
  BY <1>1
<1>3. \A n \in 1 .. LogLen : Sending(n)' = {}
  BY DEF Gone, Sending, Committing, Stopped, At
<1>4. [c \in {"me"} |-> [n \in 1 .. LogLen |-> IF Sending(n)' # {} THEN 1 ELSE 0]]
        = [[c \in {"me"} |-> [n \in 1 .. LogLen |-> IF Sending(n) # {} THEN 1 ELSE 0]]
             EXCEPT !["me"] = [n \in 1 .. LogLen |-> 0]]
  BY <1>3
<1> QED BY <1>2, <1>4 DEF Gone, Tracker!Crash, Tracker!Offsets, Tracker!Commits, Offsets,
                       trackerVars, logVars

\* The commits on their way, counted as the tracker does.
Sending1 == [n \in 1 .. LogLen |-> IF Sending(n) # {} THEN 1 ELSE 0]
Commits(f) == [c \in {"me"} |-> f]

\* The deliveries of a process, counted per offset as the tracker does.
Deliveries(H) == [c \in {"me"} |-> [o \in Offsets |-> IF o \in H THEN 1 ELSE 0]]

(* A fetch is the tracker's: the offset is neither held nor tracked before *)
(* (FetchMessage and track).                                               *)
LEMMA FetchSimulates == IndInv /\ Fetch => Tracker!Fetch("me")
<1> SUFFICES ASSUME IndInv, Fetch PROVE Tracker!Fetch("me")
  OBVIOUS
<1>t. Typed /\ Routed /\ LeftApart /\ Contiguous
  BY DEF IndInv
<1>1. Held' = Held \cup {position} /\ position \notin Held /\ position \in Offsets
  <2>1. position \in Offsets /\ Pending = {} /\ Pending' = {position} /\ Submitted = position
    BY <1>t, LogAssumption DEF Fetch, Typed, TypeOK, Offsets, Pending, Submitted
  <2>2. UNCHANGED <<left, queue, worker>>
    BY DEF Fetch, poolVars
  <2>3. Held' = Pending' \cup Held
    BY <2>1, <2>2 DEF Held, Queued, Handling
  <2>4. position \notin left /\ \A w \in Workers : ~Has(w, position)
    <3>1. position \notin left
      BY <1>t, <2>1, LogAssumption DEF LeftApart, Offsets
    <3>2. ASSUME NEW w \in Workers, Has(w, position) PROVE FALSE
      BY <1>t, <2>1, <3>2, OnePlace, LogAssumption DEF Offsets
    <3> QED BY <3>1, <3>2
  <2> QED BY <2>1, <2>3, <2>4, HeldMembers
<1>2. position \notin {inFlight[i] : i \in DOMAIN inFlight}
  <2>1. /\ DOMAIN inFlight = 1 .. Len(inFlight) /\ Len(inFlight) \in Nat /\ position \in Nat
    BY <1>t, LogAssumption DEF Typed, TypeOK
  <2> QED BY <1>t, <2>1 DEF Contiguous
<1>3. Deliveries(Held') = [Deliveries(Held) EXCEPT !["me"][position] = @ + 1]
  <2> DEFINE h == Deliveries(Held)["me"]
             g == Deliveries(Held')["me"]
  <2>1. /\ Deliveries(Held) = [c \in {"me"} |-> h] /\ Deliveries(Held') = [c \in {"me"} |-> g]
        /\ h = [o \in Offsets |-> h[o]] /\ g = [o \in Offsets |-> g[o]]
        /\ \A o \in Offsets : g[o] = IF o = position THEN h[o] + 1 ELSE h[o]
    BY <1>1 DEF Deliveries
  <2> HIDE DEF h, g
  <2>2. g = [h EXCEPT ![position] = h[position] + 1]
    BY <1>1, <2>1, Zenon
  <2> QED BY <2>1, <2>2, Zenon
<1>4. [c \in {"me"} |-> FALSE]
        = [[c \in {"me"} |-> FALSE] EXCEPT !["me"] = @ \/ position \in Tracker!Tracked("me")]
  <2>1. position \notin Tracker!Tracked("me")
    BY <1>2 DEF Tracker!Tracked
  <2> QED BY <2>1
<1>5. [c \in {"me"} |-> inFlight'] =
        [[c \in {"me"} |-> inFlight] EXCEPT !["me"] = Append(@, position)]
  BY DEF Fetch
<1>6. /\ (IF run = "down" THEN "none" ELSE "me") = "me"
      /\ position < LogLen /\ position' = position + 1
      /\ UNCHANGED <<run, done, queued, committed, lives, acked>>
  BY DEF Fetch, bounds
<1>7. \A n \in 1 .. LogLen : Sending(n)' = Sending(n)
  BY SendingKept DEF Fetch, poolVars, Committing
<1> QED BY <1>3, <1>4, <1>5, <1>6, <1>7 DEF Tracker!Fetch, Tracker!commitVars, Deliveries

(* Flush is the tracker's, of the highest offset queued (the commit loop). *)
LEMMA FlushSimulates == IndInv /\ Flush => Tracker!Flush("me")
<1> SUFFICES ASSUME IndInv, Flush PROVE Tracker!Flush("me")
  OBVIOUS
<1>1. Held' = Held
  BY DEF Flush, Held, Pending, Queued, Handling, loopVars, poolVars
<1>2. \A n \in 1 .. LogLen : Sending(n)' = Sending(n)
  BY SendingKept DEF Flush, poolVars, Committing
<1> QED BY <1>1, <1>2 DEF Flush, Tracker!Flush, Tracker!trackerVars, loopVars, bounds

(* Done is the tracker's, of a message the process holds (markDone).       *)
LEMMA AckSimulates ==
  ASSUME IndInv, NEW w \in Workers, Finishes(w), NEW m, m = worker[w].msg
  PROVE  Tracker!Finish("me", m)
<1>1. Ack(w) /\ m \in Offsets /\ m \in Held /\ Held' = Held \ {m}
  <2>1. WorkerStep(w) /\ Handling(w) /\ Ack(w)
    BY DEF Finishes, WorkerStep
  <2> QED BY <2>1, WorkerStepHeld DEF IndInv, Typed
<1>2. Deliveries(Held)["me"][m] > 0
  BY <1>1 DEF Deliveries
<1>d. Deliveries(Held') = [Deliveries(Held) EXCEPT !["me"][m] = @ - 1]
  <2> DEFINE h == Deliveries(Held)["me"]
             g == Deliveries(Held')["me"]
  <2>1. /\ Deliveries(Held) = [c \in {"me"} |-> h] /\ Deliveries(Held') = [c \in {"me"} |-> g]
        /\ h = [o \in Offsets |-> h[o]] /\ g = [o \in Offsets |-> g[o]]
        /\ \A o \in Offsets : g[o] = IF o = m THEN h[o] - 1 ELSE h[o]
    BY <1>1 DEF Deliveries
  <2> HIDE DEF h, g
  <2>2. g = [h EXCEPT ![m] = h[m] - 1]
    BY <1>1, <2>1, Zenon
  <2> QED BY <2>1, <2>2, Zenon
<1>3. PICK k \in 0 .. Len(inFlight) :
        /\ Tracker!PopsExactly(inFlight, done \cup {m}, k)
        /\ inFlight' = Tracker!Dropped(inFlight, k)
        /\ done' = (done \cup {m}) \ {inFlight[i] : i \in 1 .. k}
        /\ Becomes(w, IF k = 0 THEN Idle ELSE At("committing", inFlight[k], 0))
  BY <1>1 DEF Ack
<1>4. acked' = acked \cup {m} /\ UNCHANGED <<run, queued, position, committed, lives>>
  BY <1>1 DEF Ack, loopVars, logVars, bounds
<1>5. /\ [c \in {"me"} |-> inFlight'] =
           [[c \in {"me"} |-> inFlight] EXCEPT !["me"] = Tracker!Dropped(@, k)]
      /\ [c \in {"me"} |-> done'] =
           [[c \in {"me"} |-> done] EXCEPT !["me"] = (@ \cup {m}) \ {inFlight[i] : i \in 1 .. k}]
  BY <1>3
<1>s. IF k = 0 THEN Commits(Sending1') = Commits(Sending1)
               ELSE Commits(Sending1') = [Commits(Sending1) EXCEPT !["me"][inFlight[k] + 1] = @ + 1]
  <2>w. /\ worker'[w] = IF k = 0 THEN Idle ELSE At("committing", inFlight[k], 0)
        /\ \A v \in Workers \ {w} : worker'[v] = worker[v]
    BY <1>3 DEF Becomes, IndInv, Typed, TypeOK
  <2>n. ~Committing(w)
    BY <1>1 DEF Ack, Committing
  <2>o. \A v \in Workers \ {w} : Committing(v)' <=> Committing(v)
    BY <2>w DEF Committing
  <2>1. CASE k = 0
    <3>1. ~Committing(w)'
      BY <2>1, <2>w DEF Committing, Idle, At
    <3>2. \A v \in Workers : /\ Committing(v)' <=> Committing(v)
                             /\ Committing(v) => worker'[v] = worker[v]
      BY <2>w, <2>n, <2>o, <3>1
    <3>3. \A n \in 1 .. LogLen : Sending(n)' = Sending(n)
      BY <3>2, SendingKept
    <3>4. Sending1' = Sending1
      BY <3>3 DEF Sending1
    <3> QED BY <2>1, <3>4
  <2>2. CASE k # 0
    <3> DEFINE f == inFlight[k] + 1
    <3>1. Committing(w)' /\ worker'[w].msg + 1 = f
      BY <2>2, <2>w DEF Committing, At
    <3>2. /\ inFlight \in Seq(Offsets) /\ inFlight[k] \in Offsets /\ Len(inFlight) \in Nat
          /\ position \in Nat
          /\ \A v \in Workers : Committing(v) => worker[v].msg \in Nat
      BY <2>2, ElementOfSeq, LogAssumption DEF IndInv, Typed, TypeOK, Offsets
    <3>3. f \in 1 .. LogLen
      BY <3>2, LogAssumption DEF Offsets
    <3>4. \A v \in Workers : Committing(v) => worker[v].msg + 1 # f
      <4>1. inFlight[k] = position - Len(inFlight) + k - 1
        BY <2>2 DEF IndInv, Contiguous
      <4>2. run # "down"
        BY <1>1, WorkersAreUp DEF IndInv, WorkerStep
      <4>3. \A v \in Workers : Committing(v) => worker[v].msg + 1 <= position - Len(inFlight)
        BY <4>2 DEF IndInv, FrontCommitted
      <4> QED BY <2>2, <3>2, <4>1, <4>3
    <3> HIDE DEF f
    <3>5. ASSUME NEW n \in 1 .. LogLen
          PROVE  Sending1'[n] = IF n = f THEN Sending1[n] + 1 ELSE Sending1[n]
      <4>1. CASE n = f
        <5>1. Sending(n) = {} /\ w \in Sending(n)'
          BY <3>1, <3>4, <4>1 DEF Sending
        <5> QED BY <4>1, <5>1 DEF Sending1
      <4>2. CASE n # f
        <5>1. Sending(n)' = Sending(n)
          BY <2>w, <2>n, <2>o, <3>1, <4>2 DEF Sending
        <5> QED BY <4>2, <5>1 DEF Sending1
      <4> QED BY <4>1, <4>2
    <3>6. Sending1' = [Sending1 EXCEPT ![f] = Sending1[f] + 1]
      <4>1. /\ Sending1 = [n \in 1 .. LogLen |-> Sending1[n]]
            /\ Sending1' = [n \in 1 .. LogLen |-> Sending1'[n]]
        BY DEF Sending1
      <4> QED BY <3>3, <3>5, <4>1, Zenon
    <3> QED BY <2>2, <3>6 DEF Commits, f
  <2> QED BY <2>1, <2>2
<1> DEFINE In(x) == [c \in {"me"} |-> x]
<1>7. /\ In(inFlight)["me"] = inFlight /\ In(done)["me"] = done
      /\ In(done') = [In(done) EXCEPT !["me"] =
           (@ \cup {m}) \ {In(inFlight)["me"][i] : i \in 1 .. k}]
  BY <1>5
<1>9. \E j \in 0 .. Len(In(inFlight)["me"]) :
        /\ Tracker!PopsExactly(In(inFlight)["me"], In(done)["me"] \cup {m}, j)
        /\ In(inFlight') = [In(inFlight) EXCEPT !["me"] = Tracker!Dropped(@, j)]
        /\ In(done') = [In(done) EXCEPT !["me"] =
             (@ \cup {m}) \ {In(inFlight)["me"][i] : i \in 1 .. j}]
        /\ IF j = 0 THEN UNCHANGED Commits(Sending1)
           ELSE Commits(Sending1)' =
                  [Commits(Sending1) EXCEPT !["me"][In(inFlight)["me"][j] + 1] = @ + 1]
  <2> WITNESS k \in 0 .. Len(In(inFlight)["me"])
  <2>1. Commits(Sending1)' = Commits(Sending1')
    BY DEF Commits
  <2> QED BY <1>3, <1>5, <1>7, <1>s, <2>1
<1> QED BY <1>2, <1>d, <1>4, <1>9 DEF Tracker!Finish, Deliveries, Commits, Sending1

(* CommitMessages is the tracker's, of a commit only this worker has.      *)
LEMMA CommitSimulates ==
  ASSUME IndInv, NEW w \in Workers, Sends(w), NEW f, f = worker[w].msg + 1
  PROVE  f \in 1 .. LogLen /\ Tracker!Send("me", f)
<1>1. Commit(w) /\ Committing(w) /\ WorkerStep(w) /\ worker[w].msg \in Offsets
  BY DEF Sends, Commit, WorkerStep, IndInv, Typed
<1>2. f \in 1 .. LogLen
  BY <1>1, LogAssumption DEF Offsets
<1>3. /\ queued' = (IF f > queued THEN f ELSE queued)
      /\ UNCHANGED <<run, inFlight, done, acked, position, committed, lives>>
  BY <1>1 DEF Commit, loopVars, logVars, bounds
<1>4. Held' = Held
  <2>1. ~Finishes(w)
    BY DEF Sends, Finishes
  <2> QED BY <1>1, <2>1, WorkerStepHeld
<1>5. Sending(f) = {w} /\ Sending(f)' = {} /\ \A n \in 1 .. LogLen : n # f => Sending(n)' = Sending(n)
  <2>1. /\ ~Committing(w)' /\ \A v \in Workers \ {w} : worker'[v] = worker[v]
    BY <1>1, WorkerMoves DEF IndInv, Sends, Finishes
  <2>2. \A v \in Workers \ {w} : Committing(v)' <=> Committing(v)
    BY <2>1 DEF Committing
  <2>3. ASSUME NEW v \in Workers, Committing(v), worker[v].msg + 1 = f PROVE v = w
    <3>1. worker[v].msg \in Int /\ worker[w].msg \in Int
      BY <1>1, <2>3, LogAssumption DEF IndInv, Typed, Offsets
    <3>2. worker[v].msg = worker[w].msg
      BY <2>3, <3>1
    <3> QED BY <1>1, <2>3, <3>2 DEF IndInv, CommitsApart
  <2>4. Sending(f) = {w}
    BY <1>1, <2>3 DEF Sending
  <2>5. Sending(f)' = {}
    BY <2>1, <2>2, <2>3 DEF Sending
  <2>6. \A n \in 1 .. LogLen : n # f => Sending(n)' = Sending(n)
    BY <2>1, <2>2 DEF Sending
  <2> QED BY <2>4, <2>5, <2>6
<1>6. Sending1[f] = 1 /\ Sending1' = [Sending1 EXCEPT ![f] = Sending1[f] - 1]
  <2>1. /\ Sending1[f] = 1
        /\ \A n \in 1 .. LogLen : Sending1'[n] = IF n = f THEN Sending1[n] - 1 ELSE Sending1[n]
    BY <1>2, <1>5 DEF Sending1
  <2>2. /\ Sending1 = [n \in 1 .. LogLen |-> Sending1[n]]
        /\ Sending1' = [n \in 1 .. LogLen |-> Sending1'[n]]
    BY DEF Sending1
  <2> QED BY <1>2, <2>1, <2>2, Zenon
<1>7. /\ Commits(Sending1)["me"][f] > 0
      /\ Commits(Sending1)' = [Commits(Sending1) EXCEPT !["me"][f] = @ - 1]
  BY <1>6 DEF Commits
<1>8. [c \in {"me"} |-> queued'] =
        [[c \in {"me"} |-> queued] EXCEPT !["me"] = IF f > @ THEN f ELSE @]
  BY <1>3
<1> QED BY <1>2, <1>3, <1>4, <1>7, <1>8
        DEF Tracker!Send, Tracker!trackerVars, Tracker!brokerVars, Commits, Sending1

(* The process uses its tracker and the broker as OffsetTracker describes: *)
(* every step is one of the tracker's or none, for any pool and any log    *)
(* (Consumer.Run, the Done callback, the reader's commits, main).          *)
THEOREM TrackerImplemented == Spec => ImplementsTracker
<1>1. Init => Tracker!Init
  <2> SUFFICES ASSUME Init PROVE Tracker!Init
    OBVIOUS
  <2>1. left = {} /\ Pending = {}
    BY DEF Init, Pending
  <2>2. \A w \in Workers : Queued(w) = {} /\ ~Handling(w)
    BY DEF Init, Queued, Handling, HandlerSteps, Stopped, At
  <2>3. Held = {}
    BY <2>1, <2>2 DEF Held
  <2>4. \A n \in 1 .. LogLen : Sending(n) = {}
    BY DEF Init, Sending, Committing, Stopped, At
  <2> QED BY <2>3, <2>4 DEF Init, Tracker!Init, Tracker!Offsets, Tracker!Commits, Offsets
<1>2. IndInv /\ [Next]_vars => [Tracker!Next]_Tracker!vars
  <2> SUFFICES ASSUME IndInv, [Next]_vars PROVE Tracker!Next \/ Unnoticed
    BY UnnoticedStutters
  <2>s. UNCHANGED <<loop, position, left, queue, worker>> => Held' = Held
    BY DEF Held, Pending, Queued, Handling
  <2>n. UNCHANGED worker => \A n \in 1 .. LogLen : Sending(n)' = Sending(n)
    BY SendingKept DEF Committing
  <2>1. CASE Start
    BY <2>1, StartSimulates DEF Tracker!Next
  <2>2. CASE Exit \/ Crash
    <3>1. run # "down" /\ Gone
      BY <2>2 DEF Exit, Crash
    <3>2. lives < MaxFaults
      BY <2>2, PoolAssumption DEF IndInv, Typed, TypeOK, EndsHaveReasons, Exit, Crash, Fault
    <3> QED BY <3>1, <3>2, GoneSimulates DEF Tracker!Next
  <2>3. CASE Fetch
    BY <2>3, FetchSimulates DEF Tracker!Next
  <2>4. CASE Flush
    BY <2>4, FlushSimulates DEF Tracker!Next
  <2>5. CASE Signal \/ BeginShutdown \/ Deadline \/ Drained
    BY <2>5, <2>s, <2>n DEF Signal, BeginShutdown, Deadline, Drained, Unnoticed, poolVars, bounds,
                      logVars
  <2>6. CASE FetchFails \/ FetchEnds
    <3>1. Pending' = Pending /\ UNCHANGED <<left, queue, worker>>
      BY <2>6 DEF FetchFails, FetchEnds, Pending, poolVars
    <3>2. Held' = Held
      BY <3>1 DEF Held, Queued, Handling
    <3> QED BY <2>6, <2>n, <3>1, <3>2 DEF FetchFails, FetchEnds, Unnoticed, bounds
  <2>7. CASE Submit
    <3> DEFINE o == position - 1
    <3>1. /\ Pending = {o} /\ Pending' = {} /\ UNCHANGED <<left, worker>>
          /\ Route(o) \in Workers /\ o \in Offsets
          /\ queue' = [queue EXCEPT ![Route(o)] = Append(queue[Route(o)], o)]
      <4>1. o \in Offsets
        BY <2>7, LogAssumption DEF Submit, IndInv, Typed, TypeOK, Offsets
      <4>2. Route(o) \in Workers
        BY <4>1, RouteIsAWorker
      <4> QED BY <2>7, <4>1, <4>2 DEF Submit, Pending
    <3> HIDE DEF o
    <3>2. ASSUME NEW w \in Workers
          PROVE  Queued(w)' = IF w = Route(o) THEN Queued(w) \cup {o} ELSE Queued(w)
      <4>1. CASE w # Route(o)
        BY <3>1, <4>1 DEF Queued, IndInv, Typed, TypeOK
      <4>2. CASE w = Route(o)
        <5> DEFINE q == queue[w]
        <5>1. queue'[w] = Append(q, o) /\ q \in Seq(Offsets)
          BY <3>1, <4>2 DEF IndInv, Typed, TypeOK
        <5> HIDE DEF q
        <5>2. {Append(q, o)[i] : i \in DOMAIN Append(q, o)} = {q[i] : i \in DOMAIN q} \cup {o}
          <6>1. /\ Len(q) \in Nat /\ DOMAIN q = 1 .. Len(q)
                /\ DOMAIN Append(q, o) = 1 .. Len(q) + 1
                /\ \A i \in 1 .. Len(q) : Append(q, o)[i] = q[i]
                /\ Append(q, o)[Len(q) + 1] = o
            BY <3>1, <5>1, AppendProperties
          <6>2. \A i \in 1 .. Len(q) + 1 : i \in 1 .. Len(q) \/ i = Len(q) + 1
            BY <6>1
          <6>3. Len(q) + 1 \in 1 .. Len(q) + 1 /\ \A i \in 1 .. Len(q) : i \in 1 .. Len(q) + 1
            BY <6>1
          <6> QED BY <6>1, <6>2, <6>3
        <5> QED BY <4>2, <5>1, <5>2 DEF Queued, q
      <4> QED BY <4>1, <4>2
    <3>3. UNION {Queued(w)' : w \in Workers} = (UNION {Queued(w) : w \in Workers}) \cup {o}
      BY <3>1, <3>2
    <3>4. Held' = Held
      BY <3>1, <3>3 DEF Held, Handling
    <3> QED BY <2>7, <2>n, <3>1, <3>4 DEF Submit, Unnoticed, bounds
  <2>8. CASE SubmitEnds
    <3>1. /\ Pending' = {} /\ left' = left \cup Pending
          /\ UNCHANGED <<queue, worker>>
      BY <2>8 DEF SubmitEnds, Pending, poolVars
    <3>2. Held' = Held
      BY <3>1 DEF Held, Queued, Handling
    <3> QED BY <2>8, <2>n, <3>1, <3>2 DEF SubmitEnds, Unnoticed, bounds
  <2>9. ASSUME NEW w \in Workers, WorkerStep(w) PROVE Tracker!Next \/ Unnoticed
    <3>1. CASE Finishes(w)
      <4>1. PICK m : m = worker[w].msg
        OBVIOUS
      <4>2. m \in Tracker!Offsets
        BY <3>1, <4>1 DEF Finishes, IndInv, Typed, Tracker!Offsets, Offsets
      <4>3. Tracker!Finish("me", m)
        BY <3>1, <4>1, AckSimulates
      <4> QED BY <4>2, <4>3 DEF Tracker!Next
    <3>2. CASE Sends(w)
      <4>1. PICK f : f = worker[w].msg + 1
        OBVIOUS
      <4>2. f \in 1 .. LogLen /\ Tracker!Send("me", f)
        BY <3>2, <4>1, CommitSimulates
      <4> QED BY <4>2 DEF Tracker!Next, Tracker!Commits
    <3>3. CASE ~Finishes(w) /\ ~Sends(w)
      <4>1. Held' = Held /\ UNCHANGED trackerVars
        BY <2>9, <3>3, WorkerStepHeld
      <4>2. UNCHANGED <<run, position, committed, lives>>
        BY <2>9, WorkerMoves DEF IndInv
      <4>3. \A v \in Workers : /\ Committing(v)' <=> Committing(v)
                               /\ Committing(v) => worker'[v] = worker[v]
        BY <2>9, <3>3, WorkerMoves DEF IndInv, Committing
      <4>4. \A n \in 1 .. LogLen : Sending(n)' = Sending(n)
        BY <4>3, SendingKept
      <4> QED BY <4>1, <4>2, <4>4 DEF Unnoticed, logVars
    <3> QED BY <3>1, <3>2, <3>3
  <2>10. CASE UNCHANGED vars
    BY <2>10, <2>s, <2>n DEF vars, Unnoticed, loopVars, poolVars, bounds, logVars
  <2> QED BY <2>1, <2>2, <2>3, <2>4, <2>5, <2>6, <2>7, <2>8, <2>9, <2>10
          DEF Next, MainStep, LoopStep
<1> QED BY <1>1, <1>2, IndInvHolds, PTL DEF Spec, ImplementsTracker, Tracker!Spec

(* What OffsetTrackerProofs shows of the tracker holds of the process's.   *)
LEMMA TrackerNeverAhead == Tracker!Spec => []Proved!NeverAhead
<1>1. Tracker!Init => Proved!Init
  BY DEF Tracker!Init, Proved!Init, Tracker!Offsets, Proved!Offsets, Tracker!Commits, Proved!Commits
<1>2. Tracker!Next => Proved!Next
  BY Zenon DEF Tracker!Next, Proved!Next, Tracker!Offsets, Proved!Offsets,
     Tracker!Fetch, Proved!Fetch, Tracker!Finish, Proved!Finish, Tracker!Flush, Proved!Flush,
     Tracker!Revoke, Proved!Revoke, Tracker!Assign, Proved!Assign, Tracker!Crash, Proved!Crash,
     Tracker!trackerVars, Proved!trackerVars, Tracker!Tracked, Proved!Tracked,
     Tracker!PopsExactly, Proved!PopsExactly, Tracker!Poppable, Proved!Poppable,
     Tracker!Dropped, Proved!Dropped, Tracker!Send, Proved!Send, Tracker!Commits, Proved!Commits,
     Tracker!brokerVars, Proved!brokerVars, Tracker!commitVars, Proved!commitVars
<1>3. UNCHANGED Tracker!vars => UNCHANGED Proved!vars
  BY DEF Tracker!vars, Proved!vars
<1>4. Proved!Spec => []Proved!NeverAhead
  BY TrackerConstants, Proved!CommitNeverAhead
<1> QED BY <1>1, <1>2, <1>3, <1>4, PTL DEF Tracker!Spec, Proved!Spec

(* No message is lost: through retries, failed dead-letter publishes,      *)
(* shutdowns, crashes and restarts, every message below the committed      *)
(* offset was indexed, skipped or stored as a dead letter                  *)
(* (pipeline.go:87-100).                                                   *)
THEOREM CommittedWasDisposed == Spec => []CommittedIsDisposed
<1>1. IndInv /\ Proved!NeverAhead => CommittedIsDisposed
  <2> SUFFICES ASSUME IndInv, Proved!NeverAhead, NEW o \in 0 .. committed - 1
               PROVE  o \in Disposed
    BY DEF CommittedIsDisposed, Disposed
  <2>1. o \in Offsets /\ o < committed
    BY LogAssumption DEF IndInv, Typed, TypeOK, Offsets
  <2>2. o \in acked
    BY <2>1 DEF Proved!NeverAhead, Proved!Offsets, Offsets
  <2> QED BY <2>2 DEF IndInv, AckedAreDisposed
<1> QED BY <1>1, IndInvHolds, TrackerImplemented, TrackerNeverAhead, PTL DEF ImplementsTracker

(* Messages with one key are handled one at a time and in log order, for   *)
(* any number of workers and any hash (worker.go:185-192).                 *)
THEOREM KeysInOrder == Spec => []KeyOrder
<1>1. IndInv => KeyOrder
  <2> SUFFICES ASSUME IndInv, NEW w \in Workers, Handling(w), NEW p,
                      KeyOf(worker[w].msg) # NoKey, KeyOf(p) = KeyOf(worker[w].msg),
                      p \in Pending \/ \E v \in Workers : p \in Queued(v)
                                    \/ (v # w /\ Handling(v) /\ worker[v].msg = p)
               PROVE  p > worker[w].msg
    <3>1. \A p : p \in UNION {Queued(v) : v \in Workers} => \E v \in Workers : p \in Queued(v)
      OBVIOUS
    <3> QED BY <3>1 DEF KeyOrder
  <2> DEFINE m == worker[w].msg
  <2>1. /\ Typed /\ Routed /\ m \in Nat /\ m < Submitted /\ Route(m) = w
        /\ \A i \in 1 .. Len(queue[w]) : m < queue[w][i]
    BY LogAssumption DEF IndInv, Typed, Offsets, Routed, RoutedAt
  <2>2. Route(p) = Route(m)
    BY DEF Route
  <2>3. CASE p \in Pending
    BY <2>1, <2>3 DEF Pending, Submitted
  <2>4. ASSUME NEW v \in Workers, p \in Queued(v) PROVE p > m
    <3>1. DOMAIN queue[v] = 1 .. Len(queue[v])
      BY <2>1 DEF Typed, TypeOK
    <3>2. PICK i \in 1 .. Len(queue[v]) : queue[v][i] = p
      BY <2>4, <3>1 DEF Queued
    <3>3. v = w
      BY <2>1, <2>2, <3>2 DEF Routed, RoutedAt
    <3> QED BY <2>1, <3>2, <3>3
  <2>5. ASSUME NEW v \in Workers, v # w, Handling(v), worker[v].msg = p PROVE FALSE
    BY <2>1, <2>2, <2>5 DEF Routed, RoutedAt
  <2> QED BY <2>3, <2>4, <2>5
<1> QED BY <1>1, IndInvHolds, PTL

(* What a process holds in memory is bounded by its queues, its workers    *)
(* and one more message, whatever the log (consumer.go:125-128).           *)
THEOREM MemoryIsBounded == Spec => []Backpressure
<1>1. IndInv => Backpressure
  <2> SUFFICES ASSUME IndInv PROVE Cardinality(Held \ left) <= NumWorkers * (QueueCap + 1) + 1
    BY DEF Backpressure
  <2> DEFINE Places == Workers \X (0 .. QueueCap)
             At0(w, i) == IF i = 0 THEN worker[w].msg
                          ELSE IF i <= Len(queue[w]) THEN queue[w][i] ELSE NoMessage
             f == [x \in Places |-> At0(x[1], x[2])]
             T == {f[x] : x \in Places}
  <2>1. IsFiniteSet(Places) /\ Cardinality(Places) = NumWorkers * (QueueCap + 1)
    <3>1. IsFiniteSet(Workers) /\ Cardinality(Workers) = NumWorkers
      BY PoolAssumption, FS_Interval DEF Workers
    <3>2. IsFiniteSet(0 .. QueueCap) /\ Cardinality(0 .. QueueCap) = QueueCap + 1
      BY QueueCapIsPositive, FS_Interval
    <3> QED BY <3>1, <3>2, FS_Product
  <2>2. IsFiniteSet(T) /\ Cardinality(T) <= Cardinality(Places)
    <3>1. f \in Surjection(Places, T)
      BY DEF Surjection
    <3> HIDE DEF f, T, Places
    <3> QED BY <2>1, <3>1, FS_Surjection
  <2>3. ASSUME NEW o, NEW w \in Workers, Has(w, o) PROVE o \in T
    <3>1. \E i \in 0 .. QueueCap : At0(w, i) = o
      <4>1. CASE Handling(w) /\ worker[w].msg = o
        BY <4>1, QueueCapIsPositive
      <4>2. CASE o \in Queued(w)
        <5>1. queue[w] \in Seq(Offsets) /\ Len(queue[w]) <= QueueCap
          BY DEF IndInv, Typed, TypeOK
        <5>2. PICK i \in 1 .. Len(queue[w]) : queue[w][i] = o
          BY <4>2, <5>1 DEF Queued
        <5> QED BY <5>1, <5>2, QueueCapIsPositive
      <4> QED BY <2>3, <4>1, <4>2 DEF Has
    <3>2. PICK i \in 0 .. QueueCap : At0(w, i) = o
      BY <3>1
    <3>3. <<w, i>> \in Places /\ f[<<w, i>>] = o
      BY <3>2
    <3> HIDE DEF f, Places
    <3> QED BY <3>3
  <2>4. Held \ left \subseteq T \cup {position - 1}
    BY <2>3, HeldMembers DEF Pending
  <2>5. /\ IsFiniteSet(T \cup {position - 1})
        /\ Cardinality(T \cup {position - 1}) <= Cardinality(T) + 1
    <3> HIDE DEF T
    <3> QED BY <2>2, FS_AddElement, FS_CardinalityType
  <2>6. Cardinality(Held \ left) <= Cardinality(T \cup {position - 1})
    <3> HIDE DEF T
    <3> QED BY <2>4, <2>5, FS_Subset
  <2>7. /\ Cardinality(Held \ left) \in Nat /\ Cardinality(T) \in Nat
        /\ Cardinality(Places) \in Nat
    <3> HIDE DEF T, Places
    <3>1. IsFiniteSet(Held \ left)
      BY <2>4, <2>5, FS_Subset
    <3> QED BY <2>1, <2>2, <3>1, FS_CardinalityType
  <2>8. Cardinality(T \cup {position - 1}) \in Nat
    <3> HIDE DEF T
    <3> QED BY <2>5, FS_CardinalityType
  <2> HIDE DEF T, Places
  <2> QED BY <2>1, <2>2, <2>5, <2>6, <2>7, <2>8, PoolAssumption, QueueCapIsPositive
<1> QED BY <1>1, IndInvHolds, PTL

(* The first message that is not done, counted from the end of the tracker.*)
LEMMA FrontIsCounted ==
  ASSUME IndInv
  PROVE  Front = position - Len(inFlight)
<1>1. inFlight \in Seq(Offsets) /\ Len(inFlight) \in Nat /\ position \in Nat
  BY LogAssumption DEF IndInv, Typed, TypeOK
<1>2. CASE inFlight = <<>>
  BY <1>1, <1>2 DEF Front
<1>3. CASE inFlight # <<>>
  <2>1. Head(inFlight) = inFlight[1] /\ 1 \in 1 .. Len(inFlight)
    BY <1>1, <1>3
  <2>2. inFlight[1] = position - Len(inFlight) + 1 - 1
    BY <2>1 DEF IndInv, Contiguous
  <2> QED BY <1>1, <1>3, <2>1, <2>2 DEF Front
<1> QED BY <1>2, <1>3

(* Before an orderly exit every worker has stopped, so no commit is on its *)
(* way any more (Shutdown waits for the pool).                             *)
LEMMA ClosingIsStill == Spec => [](run = "closing" => \A w \in Workers : worker[w] = Stopped)
<1> DEFINE Still == run = "closing" => \A w \in Workers : worker[w] = Stopped
<1>1. Init => Still
  BY DEF Init
<1>2. IndInv /\ Still /\ [Next]_vars => Still'
  <2> SUFFICES ASSUME IndInv, Still, [Next]_vars, run' = "closing"
               PROVE  \A w \in Workers : worker'[w] = Stopped
    OBVIOUS
  <2>1. CASE Drained
    BY <2>1 DEF Drained, poolVars
  <2>2. ASSUME NEW w \in Workers, WorkerStep(w) PROVE FALSE
    <3>1. run = "closing"
      BY <2>2, WorkerMoves DEF IndInv
    <3>2. worker[w].step = "stopped"
      BY <3>1 DEF Stopped, At
    <3> QED BY <2>2, <3>2 DEF WorkerStep, CheckQuit, TakeQuit, Receive, IndexSucceeds, IndexFails,
               BackoffEnds, BackoffCancelled, PublishSucceeds, PublishFails, Ack, Commit, Committing
  <2>3. CASE UNCHANGED <<run, worker>>
    BY <2>3
  <2> QED BY <2>1, <2>2, <2>3
          DEF Next, MainStep, LoopStep, Start, Signal, Crash, Gone, BeginShutdown, Deadline, Exit,
              Fetch, Flush, Submit, FetchEnds, SubmitEnds, FetchFails, vars, poolVars, loopVars
<1> HIDE DEF Still
<1>3. Spec => []Still
  BY <1>1, <1>2, IndInvHolds, PTL DEF Spec
<1> QED BY <1>3, PTL DEF Still

(* An orderly exit has committed everything finished: the broker was told  *)
(* of the first message that is not done, for any number of workers (Close,*)
(* consumer.go:171, and main's deferred closes).                           *)
THEOREM ExitIsComplete == Spec => ExitCommitsAllFinished
<1> DEFINE Still == run = "closing" => \A w \in Workers : worker[w] = Stopped
<1>1. IndInv /\ Still /\ [Next]_vars => [Exit => reached = Front]_vars
  <2> SUFFICES ASSUME IndInv, Still, Exit PROVE reached = Front
    OBVIOUS
  <2>1. queued = 0 /\ run # "down" /\ \A w \in Workers : ~Committing(w)
    BY DEF Exit, Committing, Stopped, At
  <2>2. reached \in Nat /\ position - Len(inFlight) \in Nat
    BY LogAssumption DEF IndInv, Typed, TypeOK, Contiguous
  <2>3. reached = position - Len(inFlight)
    BY <2>1, <2>2 DEF IndInv, FrontCommitted
  <2> QED BY <2>3, FrontIsCounted
<1>2. Spec => []Still
  BY ClosingIsStill
<1> HIDE DEF Still
<1> QED BY <1>1, <1>2, IndInvHolds, PTL DEF Spec, ExitCommitsAllFinished

\* With one worker a commit on its way or queued is beyond all before it.
CommitsRise ==
  /\ committed = reached
  /\ queued > 0 => queued > reached
  /\ \A w \in Workers : Committing(w) =>
       worker[w].msg + 1 > reached /\ worker[w].msg + 1 > queued

(* A pool of one worker never commits below what it committed before, so   *)
(* an orderly exit leaves nothing finished uncommitted, and a restart      *)
(* repeats only from the first message that is not done (Done, Close).     *)
THEOREM OneWorkerExitIsExact ==
  ASSUME NumWorkers = 1
  PROVE  Spec => [][Exit => committed = Front]_vars
<1>1. Init => CommitsRise
  BY DEF Init, CommitsRise, Committing, Stopped, At
<1>2. IndInv /\ CommitsRise /\ [Next]_vars => CommitsRise'
  <2> SUFFICES ASSUME IndInv, CommitsRise, [Next]_vars PROVE CommitsRise'
    OBVIOUS
  <2>t. /\ Typed /\ queued \in Nat /\ reached \in Nat /\ committed \in Nat
        /\ \A w \in Workers : Committing(w) => worker[w].msg \in Nat
    BY LogAssumption DEF IndInv, Typed, TypeOK, Offsets
  <2>1. CASE Gone
    BY <2>1, <2>t DEF Gone, logVars, CommitsRise, Committing, Stopped, At
  <2>2. CASE Start
    BY <2>2, <2>t DEF Start, trackerVars, CommitsRise, Committing, Idle, At
  <2>3. CASE Flush
    BY <2>3, <2>t DEF Flush, poolVars, CommitsRise, Committing
  <2>4. ASSUME NEW w \in Workers, WorkerStep(w) PROVE CommitsRise'
    <3>1. Workers = {w}
      BY DEF Workers
    <3>2. UNCHANGED committed /\ run # "down"
      BY <2>4, <2>t, WorkerMoves, WorkersAreUp DEF IndInv
    <3>3. CASE Finishes(w)
      <4>1. PICK k \in 0 .. Len(inFlight) :
              /\ worker'[w] = IF k = 0 THEN Idle ELSE At("committing", inFlight[k], 0)
              /\ UNCHANGED <<queued, reached>>
        BY <3>3, <2>t, AckPops DEF Finishes
      <4>2. k # 0 => inFlight[k] = position - Len(inFlight) + k - 1
        BY DEF IndInv, Contiguous
      <4>3. /\ reached <= position - Len(inFlight) /\ queued <= position - Len(inFlight)
            /\ position \in Nat /\ Len(inFlight) \in Nat
        BY <3>2, LogAssumption DEF IndInv, FrontCommitted, Typed, TypeOK
      <4>4. Committing(w)' => k # 0 /\ worker'[w].msg = inFlight[k]
        BY <4>1 DEF Committing, Idle, At
      <4> QED BY <2>t, <3>1, <3>2, <4>1, <4>2, <4>3, <4>4 DEF CommitsRise
    <3>4. CASE Sends(w)
      <4>1. /\ Committing(w) /\ ~Committing(w)' /\ UNCHANGED reached
            /\ queued' = (IF worker[w].msg + 1 > queued THEN worker[w].msg + 1 ELSE queued)
        BY <2>4, <2>t, <3>4, WorkerMoves DEF Sends, Finishes, Commit
      <4> QED BY <2>t, <3>1, <3>2, <4>1 DEF CommitsRise
    <3>5. CASE ~Finishes(w) /\ ~Sends(w)
      <4>1. UNCHANGED <<queued, reached>> /\ ~Committing(w)'
        BY <2>4, <2>t, <3>5, WorkerMoves DEF Passes, Takes, Keeps, GivesUp, trackerVars
      <4> QED BY <3>1, <3>2, <4>1 DEF CommitsRise
    <3> QED BY <3>3, <3>4, <3>5
  <2>5. CASE UNCHANGED <<queued, reached, committed, worker>>
    BY <2>5 DEF CommitsRise, Committing
  <2> QED BY <2>1, <2>2, <2>3, <2>4, <2>5
          DEF Next, MainStep, LoopStep, Signal, Crash, BeginShutdown, Deadline, Drained, Exit,
              Fetch, Submit, FetchEnds, SubmitEnds, FetchFails, vars, poolVars, trackerVars, logVars
<1>3. CommitsRise /\ [Exit => reached = Front]_vars => [Exit => committed = Front]_vars
  BY DEF CommitsRise
<1>4. Spec => []CommitsRise
  BY <1>1, <1>2, IndInvHolds, PTL DEF Spec
<1>5. Spec => [][Exit => reached = Front]_vars
  BY ExitIsComplete DEF ExitCommitsAllFinished
<1> QED BY <1>3, <1>4, <1>5, PTL
=============================================================================
