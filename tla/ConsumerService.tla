-------------------------- MODULE ConsumerService --------------------------
(***************************************************************************)
(* One process of cmd/consumer, from start to exit and start again: the    *)
(* fetch loop (internal/kafka/consumer.go), the worker pool                *)
(* (internal/indexing/worker.go), the pipeline that retries and            *)
(* dead-letters (pipeline.go, internal/retry) and main's shutdown.         *)
(*                                                                         *)
(* Covered: routing by key, bounded queues and blocking Submit, decoding   *)
(* outcomes, attempts and backoff, dead-letter publishes that fail, the    *)
(* three ways consumption stops (signal, worker failure, Kafka failing),   *)
(* the shutdown deadline, queued commits, and a commit held up between the *)
(* tracker and the reader, crashes, restarts, redelivery.                  *)
(* Not covered: what one attempt does to the stores (CDCSync), rebalances  *)
(* while the process lives (OffsetTracker), metrics and logging.           *)
(***************************************************************************)
EXTENDS Integers, Sequences, FiniteSets

CONSTANTS
  NumWorkers,               \* size of the pool; a worker is a number below it
  QueueSize,                \* messages the pool may buffer, split between workers
  MaxAttempts,              \* retry.Policy.MaxAttempts
  MaxFetchFailures,         \* maxFetchFailures of consumer.go
  NoKey,                    \* key of a message without one
  Key,                      \* [offset -> key], the message keys of the log
  Hash,                     \* [key -> Nat], FNV of a key
  Payload,                  \* [offset -> "event", "tombstone" or "malformed"]
  MaxFaults                 \* bound on signals, crashes and failed external calls

ASSUME PoolAssumption == /\ NumWorkers \in Nat \ {0}
                         /\ QueueSize \in Nat \ {0}
                         /\ MaxAttempts \in Nat \ {0}
                         /\ MaxFetchFailures \in Nat \ {0}
                         /\ MaxFaults \in Nat

LogLen  == Len(Key)
Offsets == 0 .. LogLen - 1
Workers == 0 .. NumWorkers - 1
KeyOf(o) == Key[o + 1]

\* The log is a sequence, and FNV gives a number.
ASSUME LogAssumption ==
  /\ LogLen \in Nat
  /\ \A o \in Offsets : KeyOf(o) # NoKey => Hash[KeyOf(o)] \in Nat

\* NewWorkerPool: every worker gets an equal share and at least one place.
QueueCap == IF QueueSize \div NumWorkers > 1 THEN QueueSize \div NumWorkers ELSE 1

VARIABLES
  run,                      \* main: "down", "running", "draining", "cancelled", "closing"
  loop,                     \* Consumer.Run: "fetching", "submitting", "returned"
  failures,                 \* consecutive FetchMessage failures
  signalled,                \* the signal context is cancelled
  fatal,                    \* onFatal was called: consumption must stop
  queue,                    \* [worker -> offsets waiting in its channel]
  worker,                   \* [worker -> its step, message and attempt]
  inFlight, done, queued,   \* offset tracker and the commit queued in the reader
  reached,                  \* history: highest offset committed at its start or by it since
  position, committed,      \* reader's next offset; the group's committed offset
  lives,                    \* processes that ended
  faults,                   \* faults so far
  left,                     \* history: messages this process gave up (no Done)
  acked,                    \* history: offsets whose Done was ever called
  indexed, skipped, deadLettered,   \* history: where a message ended up
  late                      \* history: [worker -> messages started after quit closed]

loopVars    == <<run, loop, failures, signalled, fatal>>
poolVars    == <<queue, worker, late>>
trackerVars == <<inFlight, done, queued, reached, acked>>
logVars     == <<position, committed>>
outcomes    == <<indexed, skipped, deadLettered>>
bounds      == <<lives, faults>>
vars == <<loopVars, poolVars, trackerVars, logVars, outcomes, bounds, left>>

NoMessage == -1
At(step, o, n) == [step |-> step, msg |-> o, attempt |-> n]
Idle == At("checking", NoMessage, 0)
Stopped == At("stopped", NoMessage, 0)

\* Steps at which a worker is inside Process or about to call Done.
HandlerSteps == {"indexing", "waiting", "publishing", "acking"}
Handling(w) == worker[w].step \in HandlerSteps

Quit == run \in {"draining", "cancelled", "closing"}      \* channel quit is closed
Cancelled == run = "cancelled"                            \* the handlers' context ended
ConsumeEnded == signalled \/ fatal                        \* consumeCtx is cancelled

\* The message Run has fetched and not yet submitted is the last one tracked.
Pending == IF loop = "submitting" THEN {position - 1} ELSE {}
Queued(w) == {queue[w][i] : i \in DOMAIN queue[w]}

\* Deliveries of this process whose Done was not called.
Held == Pending \cup left \cup (UNION {Queued(w) : w \in Workers})
          \cup {worker[w].msg : w \in {v \in Workers : Handling(v)}}

\* Worker w has popped the offset in its msg and not yet queued its commit.
Committing(w) == worker[w].step = "committing"
Sending(n) == {w \in Workers : Committing(w) /\ worker[w].msg + 1 = n}

(* The tracker of this process and the broker, as OffsetTracker has them.  *)
Tracker == INSTANCE OffsetTracker WITH
  Consumers <- {"me"}, NoOwner <- "none", MaxGeneration <- MaxFaults,
  inFlight <- [c \in {"me"} |-> inFlight],
  done <- [c \in {"me"} |-> done],
  handling <- [c \in {"me"} |-> [o \in Offsets |-> IF o \in Held THEN 1 ELSE 0]],
  sending <- [c \in {"me"} |-> [n \in 1 .. LogLen |-> IF Sending(n) # {} THEN 1 ELSE 0]],
  queued <- [c \in {"me"} |-> queued],
  owner <- IF run = "down" THEN "none" ELSE "me",
  generation <- lives,
  finished <- acked,
  overlapped <- [c \in {"me"} |-> FALSE]

Init == /\ run = "down" /\ loop = "returned" /\ failures = 0
        /\ signalled = FALSE /\ fatal = FALSE
        /\ queue = [w \in Workers |-> <<>>]
        /\ worker = [w \in Workers |-> Stopped]
        /\ late = [w \in Workers |-> 0]
        /\ inFlight = <<>> /\ done = {} /\ queued = 0 /\ reached = 0 /\ acked = {}
        /\ position = 0 /\ committed = 0
        /\ lives = 0 /\ faults = 0
        /\ left = {} /\ indexed = {} /\ skipped = {} /\ deadLettered = {}

Fault == faults < MaxFaults /\ faults' = faults + 1

-----------------------------------------------------------------------------
(* main: start, signals, shutdown.                                         *)

(* A process starts: workers first, then the fetch loop, which reads from  *)
(* the group's committed offset.                                           *)
Start ==
  /\ run = "down"
  /\ run' = "running" /\ loop' = "fetching" /\ failures' = 0
  /\ worker' = [w \in Workers |-> Idle]
  /\ position' = committed
  /\ UNCHANGED <<signalled, fatal, queue, late, trackerVars, committed,
                 outcomes, bounds, left>>

(* SIGTERM or SIGINT before Run returned: the signal context ends.         *)
Signal ==
  /\ run = "running" /\ ~signalled
  /\ Fault
  /\ signalled' = TRUE
  /\ UNCHANGED <<run, loop, failures, fatal, poolVars, trackerVars, logVars,
                 outcomes, lives, left>>

(* Run has returned, for whichever reason: Shutdown closes quit.           *)
BeginShutdown ==
  /\ run = "running" /\ loop = "returned"
  /\ run' = "draining"
  /\ UNCHANGED <<loop, failures, signalled, fatal, poolVars, trackerVars,
                 logVars, outcomes, bounds, left>>

(* The shutdown deadline passes: the handlers' context is cancelled, and   *)
(* Shutdown goes on waiting for them.                                      *)
Deadline ==
  /\ run = "draining"
  /\ run' = "cancelled"
  /\ UNCHANGED <<loop, failures, signalled, fatal, poolVars, trackerVars,
                 logVars, outcomes, bounds, left>>

(* Every worker has returned: main's deferred closes begin.                *)
Drained ==
  /\ run \in {"draining", "cancelled"}
  /\ \A w \in Workers : worker[w] = Stopped
  /\ run' = "closing"
  /\ UNCHANGED <<loop, failures, signalled, fatal, poolVars, trackerVars,
                 logVars, outcomes, bounds, left>>

\* The process is gone, with everything it only had in memory.
Gone ==
  /\ run' = "down" /\ loop' = "returned" /\ failures' = 0
  /\ signalled' = FALSE /\ fatal' = FALSE
  /\ queue' = [w \in Workers |-> <<>>]
  /\ worker' = [w \in Workers |-> Stopped]
  /\ late' = [w \in Workers |-> 0]
  /\ inFlight' = <<>> /\ done' = {} /\ queued' = 0 /\ left' = {}
  /\ reached' = committed
  /\ lives' = lives + 1
  /\ UNCHANGED <<acked, logVars, outcomes>>

\* Mutant of Exit: the process does not wait for the final commit.
ExitUnflushed == run = "closing" /\ Gone /\ UNCHANGED faults

(* consumer.Close returned (its queued commit was sent by Flush) and the   *)
(* process exits.                                                          *)
Exit ==
  /\ run = "closing" /\ queued = 0
  /\ Gone
  /\ UNCHANGED faults

(* The process is killed, by a crash or by a second signal.                *)
Crash ==
  /\ run # "down"
  /\ Fault
  /\ Gone

-----------------------------------------------------------------------------
(* Consumer.Run and the reader.                                            *)

(* FetchMessage delivers the next message and track records it.  The       *)
(* reader may still deliver one after consumeCtx ended.                    *)
Fetch ==
  /\ run = "running" /\ loop = "fetching"
  /\ position < LogLen
  /\ inFlight' = Append(inFlight, position)
  /\ position' = position + 1
  /\ failures' = 0
  /\ loop' = "submitting"
  /\ UNCHANGED <<run, signalled, fatal, poolVars, done, queued, reached, acked,
                 committed, outcomes, bounds, left>>

(* FetchMessage fails while consumption goes on: retried after a delay, up *)
(* to the limit of consecutive failures.                                   *)
FetchFails ==
  /\ run = "running" /\ loop = "fetching" /\ ~ConsumeEnded
  /\ Fault
  /\ failures' = failures + 1
  /\ loop' = IF failures + 1 >= MaxFetchFailures THEN "returned" ELSE loop
  /\ UNCHANGED <<run, signalled, fatal, poolVars, trackerVars, logVars,
                 outcomes, lives, left>>

(* consumeCtx ends during FetchMessage or during the delay: Run returns.   *)
FetchEnds ==
  /\ run = "running" /\ loop = "fetching" /\ ConsumeEnded
  /\ loop' = "returned"
  /\ UNCHANGED <<run, failures, signalled, fatal, poolVars, trackerVars,
                 logVars, outcomes, bounds, left>>

\* Mutant of Route: round robin, whatever the key.
RouteRoundRobin(o) == o % NumWorkers

\* WorkerPool.route: by key, or by offset when there is none.
Route(o) == (IF KeyOf(o) = NoKey THEN o ELSE Hash[KeyOf(o)]) % NumWorkers

\* Mutant of Submit: a queue without a limit.
SubmitUnbounded ==
  /\ run = "running" /\ loop = "submitting"
  /\ LET o == position - 1 IN queue' = [queue EXCEPT ![Route(o)] = Append(@, o)]
  /\ loop' = "fetching"
  /\ UNCHANGED <<run, failures, signalled, fatal, worker, late, trackerVars,
                 logVars, outcomes, bounds, left>>

(* WorkerPool.Submit finds room in the message's queue.  Its quit case is  *)
(* never taken here: main closes quit after Run returned.                  *)
Submit ==
  /\ run = "running" /\ loop = "submitting"
  /\ LET o == position - 1 IN
       /\ Len(queue[Route(o)]) < QueueCap
       /\ queue' = [queue EXCEPT ![Route(o)] = Append(@, o)]
  /\ loop' = "fetching"
  /\ UNCHANGED <<run, failures, signalled, fatal, worker, late, trackerVars,
                 logVars, outcomes, bounds, left>>

\* Mutant of SubmitEnds: Submit does not look at its context.
SubmitNeverEnds == FALSE /\ UNCHANGED vars

(* consumeCtx ends while Submit blocks: the message is tracked and dropped.*)
SubmitEnds ==
  /\ run = "running" /\ loop = "submitting" /\ ConsumeEnded
  /\ loop' = "returned"
  /\ left' = left \cup {position - 1}
  /\ UNCHANGED <<run, failures, signalled, fatal, poolVars, trackerVars,
                 logVars, outcomes, bounds>>

(* The reader commits what is queued, every commitInterval and on Close.   *)
Flush ==
  /\ run # "down" /\ queued > 0
  /\ committed' = queued /\ queued' = 0
  /\ reached' = IF queued > reached THEN queued ELSE reached
  /\ UNCHANGED <<loopVars, poolVars, inFlight, done, acked, position,
                 outcomes, bounds, left>>

-----------------------------------------------------------------------------
(* WorkerPool.work and handle, Pipeline.Process, Runner.Do.                *)

Becomes(w, state) == worker' = [worker EXCEPT ![w] = state]

\* A step of worker w alone that leaves the pool, the tracker and the log be.
OnlyWorker(w) ==
  UNCHANGED <<loopVars, queue, late, trackerVars, logVars, bounds>>

\* Mutant of CheckQuit: no check of its own before the select.
CheckQuitSkipped(w) ==
  /\ worker[w].step = "checking"
  /\ Becomes(w, At("selecting", NoMessage, 0))
  /\ OnlyWorker(w) /\ UNCHANGED <<outcomes, left>>

(* Top of the worker's loop: quit is checked on its own first.             *)
CheckQuit(w) ==
  /\ worker[w].step = "checking"
  /\ Becomes(w, IF Quit THEN Stopped ELSE At("selecting", NoMessage, 0))
  /\ OnlyWorker(w) /\ UNCHANGED <<outcomes, left>>

(* The select takes quit.                                                  *)
TakeQuit(w) ==
  /\ worker[w].step = "selecting" /\ Quit
  /\ Becomes(w, Stopped)
  /\ OnlyWorker(w) /\ UNCHANGED <<outcomes, left>>

(* The select takes a message, which it may even when quit was closed since*)
(* the check above, and Process decodes it.                                *)
Receive(w) ==
  /\ worker[w].step = "selecting" /\ queue[w] # <<>>
  /\ LET o == Head(queue[w]) IN
       /\ \/ /\ Payload[o + 1] = "tombstone"
             /\ Becomes(w, At("acking", o, 0))
             /\ skipped' = skipped \cup {o}
          \/ /\ Payload[o + 1] = "malformed"
             /\ Becomes(w, At("publishing", o, 0))
             /\ UNCHANGED skipped
          \/ /\ Payload[o + 1] = "event"
             /\ Becomes(w, At("indexing", o, 1))
             /\ UNCHANGED skipped
  /\ queue' = [queue EXCEPT ![w] = Tail(@)]
  /\ late' = IF Quit THEN [late EXCEPT ![w] = @ + 1] ELSE late
  /\ UNCHANGED <<loopVars, trackerVars, logVars, indexed, deadLettered, bounds, left>>

(* One attempt succeeds.                                                   *)
IndexSucceeds(w) ==
  /\ worker[w].step = "indexing"
  /\ indexed' = indexed \cup {worker[w].msg}
  /\ Becomes(w, At("acking", worker[w].msg, 0))
  /\ OnlyWorker(w) /\ UNCHANGED <<skipped, deadLettered, left>>

\* handle returns without Done: the offset stays uncommitted.
Abandon(w) == Becomes(w, Idle) /\ left' = left \cup {worker[w].msg}

(* One attempt fails.  Under a cancelled context the run is over; otherwise*)
(* it is retried while the failure and the attempts allow, else the        *)
(* message goes to the dead-letter topic.                                  *)
IndexFails(w) ==
  /\ worker[w].step = "indexing"
  /\ LET o == worker[w].msg
         n == worker[w].attempt
     IN \/ Cancelled /\ Abandon(w)
        \/ /\ ~Cancelled /\ n < MaxAttempts     \* retryable or unknown
           /\ Becomes(w, At("waiting", o, n)) /\ UNCHANGED left
        \/ /\ ~Cancelled                        \* not retryable, or attempts exhausted
           /\ Becomes(w, At("publishing", o, n)) /\ UNCHANGED left
  /\ OnlyWorker(w) /\ UNCHANGED outcomes

(* The backoff timer fires: the next attempt.                              *)
BackoffEnds(w) ==
  /\ worker[w].step = "waiting"
  /\ Becomes(w, At("indexing", worker[w].msg, worker[w].attempt + 1))
  /\ OnlyWorker(w) /\ UNCHANGED <<outcomes, left>>

(* The context ends during the backoff.                                    *)
BackoffCancelled(w) ==
  /\ worker[w].step = "waiting" /\ Cancelled
  /\ Abandon(w)
  /\ OnlyWorker(w) /\ UNCHANGED outcomes

(* The dead-letter topic has the message.                                  *)
PublishSucceeds(w) ==
  /\ worker[w].step = "publishing"
  /\ deadLettered' = deadLettered \cup {worker[w].msg}
  /\ Becomes(w, At("acking", worker[w].msg, 0))
  /\ OnlyWorker(w) /\ UNCHANGED <<indexed, skipped, left>>

\* Mutant of PublishFails: the error is logged and the message acknowledged.
PublishFailsAcked(w) ==
  /\ worker[w].step = "publishing"
  /\ Fault
  /\ Becomes(w, At("acking", worker[w].msg, 0))
  /\ UNCHANGED <<loopVars, queue, late, trackerVars, logVars, outcomes, lives, left>>

\* Mutant of PublishFails: consumption goes on behind the message given up.
PublishFailsGoesOn(w) ==
  /\ worker[w].step = "publishing"
  /\ IF Cancelled THEN UNCHANGED faults ELSE Fault
  /\ Abandon(w)
  /\ UNCHANGED <<loopVars, queue, late, trackerVars, logVars, outcomes, lives>>

(* Publish returns an error; the message may or may not have been stored.  *)
(* Unless the context ended, the worker reports it and consumption stops,  *)
(* while the worker itself goes on with its queue.                         *)
PublishFails(w) ==
  /\ worker[w].step = "publishing"
  /\ IF Cancelled THEN UNCHANGED <<fatal, faults>>
                  ELSE fatal' = TRUE /\ Fault
  /\ deadLettered' \in {deadLettered, deadLettered \cup {worker[w].msg}}
  /\ Abandon(w)
  /\ UNCHANGED <<run, loop, failures, signalled, queue, late, trackerVars,
                 logVars, indexed, skipped, lives>>

\* Mutant of Ack: commit the message itself, without a tracker.
AckCommitsItself(w) ==
  /\ worker[w].step = "acking"
  /\ LET o == worker[w].msg IN
       /\ acked' = acked \cup {o}
       /\ Becomes(w, At("committing", o, 0))
  /\ UNCHANGED <<loopVars, queue, late, inFlight, done, queued, reached, logVars,
                 outcomes, bounds, left>>

(* Message.Done, up to the unlock of the tracker's mutex: markDone.  The   *)
(* worker is left with the last popped offset, if any, to commit.          *)
Ack(w) ==
  /\ worker[w].step = "acking"
  /\ LET o == worker[w].msg IN
       /\ acked' = acked \cup {o}
       /\ \E k \in 0 .. Len(inFlight) :
            /\ Tracker!PopsExactly(inFlight, done \cup {o}, k)
            /\ inFlight' = Tracker!Dropped(inFlight, k)
            /\ done' = (done \cup {o}) \ {inFlight[i] : i \in 1 .. k}
            /\ Becomes(w, IF k = 0 THEN Idle ELSE At("committing", inFlight[k], 0))
  /\ UNCHANGED <<loopVars, queue, late, queued, reached, logVars, outcomes, bounds, left>>

(* The rest of Done: CommitMessages queues the commit, possibly after a    *)
(* later one of another worker was queued and flushed.                     *)
Commit(w) ==
  /\ Committing(w)
  /\ LET n == worker[w].msg + 1 IN queued' = IF n > queued THEN n ELSE queued
  /\ Becomes(w, Idle)
  /\ UNCHANGED <<loopVars, queue, late, inFlight, done, reached, acked, logVars,
                 outcomes, bounds, left>>

-----------------------------------------------------------------------------
MainStep == BeginShutdown \/ Deadline \/ Drained \/ Exit
LoopStep == Fetch \/ FetchEnds \/ Submit \/ SubmitEnds
WorkerStep(w) ==
  \/ CheckQuit(w) \/ TakeQuit(w) \/ Receive(w)
  \/ IndexSucceeds(w) \/ IndexFails(w) \/ BackoffEnds(w) \/ BackoffCancelled(w)
  \/ PublishSucceeds(w) \/ PublishFails(w) \/ Ack(w) \/ Commit(w)

Next == \/ Start \/ Signal \/ Crash \/ MainStep
        \/ LoopStep \/ FetchFails \/ Flush
        \/ \E w \in Workers : WorkerStep(w)

Spec == Init /\ [][Next]_vars

\* What one worker does without waiting for a store: the embedder has a timeout
\* and the dead-letter writer a bounded number of timed tries, but the clients of
\* the stores have none, so a call in progress ends for certain only when its
\* context does.
Prompt(w) ==
  \/ CheckQuit(w) \/ TakeQuit(w) \/ Receive(w) \/ BackoffEnds(w) \/ BackoffCancelled(w)
  \/ PublishSucceeds(w) \/ PublishFails(w) \/ Ack(w) \/ Commit(w)
AttemptReturns(w) == IndexSucceeds(w) \/ IndexFails(w)

\* The supervisor restarts a process that ended, the reader delivers and
\* commits, timers fire, and every goroutine that can go on does.
Fairness == /\ WF_vars(Start) /\ WF_vars(MainStep) /\ WF_vars(LoopStep)
            /\ WF_vars(Flush)
            /\ \A w \in Workers : /\ WF_vars(Prompt(w))
                                  /\ WF_vars(Cancelled /\ AttemptReturns(w))

\* The code alone.
CodeSpec == Spec /\ Fairness

\* Both stores answer every call, with success or failure.
StoresAnswer == \A w \in Workers : WF_vars(AttemptReturns(w))

-----------------------------------------------------------------------------
(* Every variable has its type, and a queue never exceeds its capacity.    *)
TypeOK ==
  /\ run \in {"down", "running", "draining", "cancelled", "closing"}
  /\ loop \in {"fetching", "submitting", "returned"}
  /\ failures \in 0 .. MaxFetchFailures
  /\ signalled \in BOOLEAN /\ fatal \in BOOLEAN
  /\ queue \in [Workers -> Seq(Offsets)] /\ \A w \in Workers : Len(queue[w]) <= QueueCap
  /\ worker \in [Workers -> [step : HandlerSteps \cup {"checking", "selecting", "committing", "stopped"},
                              msg : Offsets \cup {NoMessage}, attempt : 0 .. MaxAttempts]]
  /\ late \in [Workers -> Nat]
  /\ inFlight \in Seq(Offsets) /\ done \subseteq Offsets /\ queued \in 0 .. LogLen
  /\ reached \in 0 .. LogLen
  /\ position \in 0 .. LogLen /\ committed \in 0 .. LogLen
  /\ lives \in 0 .. MaxFaults /\ faults \in 0 .. MaxFaults
  /\ UNION {left, acked, indexed, skipped, deadLettered} \subseteq Offsets

(* The commit rules of pipeline.go:87-100: through retries, failed         *)
(* dead-letter publishes, shutdowns, crashes and restarts, every message   *)
(* below the committed offset was indexed, skipped or stored as a dead     *)
(* letter.                                                                 *)
CommittedIsDisposed ==
  0 .. committed - 1 \subseteq indexed \cup skipped \cup deadLettered

(* Messages with one key are handled one at a time and in log order while  *)
(* a process lives, although the pool is concurrent: when one is being     *)
(* handled, no earlier one of its key waits or is handled (the key routing *)
(* in worker.go:185-192 and the comment on WorkerPool).                    *)
KeyOrder ==
  \A w \in Workers : Handling(w) /\ KeyOf(worker[w].msg) # NoKey =>
    \A p \in Pending \cup (UNION {Queued(v) : v \in Workers})
               \cup {worker[v].msg : v \in {u \in Workers \ {w} : Handling(u)}} :
      KeyOf(p) = KeyOf(worker[w].msg) => p > worker[w].msg

(* Backpressure: what a process holds in memory is bounded by its queues,  *)
(* its workers and the one message Run is submitting (consumer.go:125-128).*)
Backpressure == Cardinality(Held \ left) <= NumWorkers * (QueueCap + 1) + 1

(* Once quit is closed a worker starts at most the one message its select  *)
(* had a chance to pick already (work, worker.go:148-166).                 *)
AtMostOneLateStart == \A w \in Workers : late[w] <= 1

\* The first message that is not done, as the tracker has it.
Front == IF inFlight = <<>> THEN position ELSE Head(inFlight)

(* An orderly exit has committed everything finished: the broker was told  *)
(* of the first message that is not done (Close comment,                   *)
(* consumer.go:171-172; deferred closes in main).  The group's offset need *)
(* not have stayed there: a commit that a worker queued late, below one    *)
(* already flushed, takes it back, and a restart repeats from there.       *)
ExitCommitsAllFinished == [][Exit => reached = Front]_vars

(* The process uses its tracker and the broker as OffsetTracker describes. *)
ImplementsTracker == Tracker!Spec

(* Every message is indexed, skipped or dead-lettered in the end and the   *)
(* committed offset reaches the end of the log, through any bounded number *)
(* of faults and as long as the stores answer (consumer.go:44-51).  It may *)
(* fall back from there once more, by a commit that was queued late.       *)
EverythingCommitted == StoresAnswer => <>(committed = LogLen)

(* Consumption that must stop does stop: after a signal or a worker        *)
(* failure the process ends, whatever its workers are doing and even when  *)
(* a store never answers (Submit, work, Shutdown and its deadline).        *)
StopsWhenAsked == (run # "down" /\ ConsumeEnded) ~> run = "down"
=============================================================================
