# Verification of the near-real-time hybrid search engine

TLA+ models of the indexing pipeline and the search API, the TLC runs that check
them on small instances, and TLAPS proofs of what matters most. Paths are those of
the repository, `internal/...` and `cmd/...`; every definition's source lines are in
`PROJECT.json` under `map`.

## The system

```text
PostgreSQL --WAL--> Debezium --> Kafka --> cmd/consumer --+--> OpenSearch
                                   |         |            +--> embedding --> Qdrant
                                   |         +--> dead-letter topic
HTTP client --> cmd/api --+--> OpenSearch ------------+
                          +--> embedding --> Qdrant --+--> RRF --> answer
```

### Inventory

| Component | State it keeps | Operations | What is hard | What makes it correct |
|---|---|---|---|---|
| Kafka consumer, `internal/kafka/consumer.go` | per partition: offsets in flight, finished offsets; the reader's queued commit | `Run`, `track`, `Done`, `Close` | messages finish out of order; commits are queued after the tracker's unlock and sent later still, by a process that may have lost the partition; rebalances are invisible to it | a commit never passes an unfinished message; it is held back only by real work |
| Worker pool, `internal/indexing/worker.go` | a bounded queue per worker, the `quit` channel, the handlers' context | `Submit`, `Shutdown`, `work`, `handle` | shutdown while `Submit` blocks, handlers retry, or stores hang | order per key, bounded memory, an orderly stop |
| Pipeline and retries, `pipeline.go`, `cdc_pipeline.go`, `internal/retry` | attempt, backoff, last error | `Process`, `Do`, `ClassifyError`, `deadLetter` | a timeout looks like a shutdown; two joined failures; a dead letter that cannot be published | only what was indexed, skipped or dead-lettered is committed; outages are retried, hopeless errors are not |
| CDC service, `internal/indexing/cdc/service.go`, with `opensearch/index.go` and `qdrant/point.go` | the document, its version and its point (in the stores) | `Process`: upsert, delete | two stores without a transaction; redelivery; an older event after a newer; two processes with one row | both indexes end with the row's newest state |
| Parser and mapping, `cdc/parser.go`, `document.go`, `event.go` | none | `Parse`, `Document` | keys that collide; deletes that only have the old row; what may be skipped | one row, one document; every message is applied or dead-lettered, only tombstones disappear |
| Start-up, `internal/startup`, `EnsureIndex`, `EnsureCollection`, `cmd/consumer` | index and collection (in the stores) | `Retry` | instances race to create; calls hang; vector sizes differ | a running consumer fits its collection |
| Hybrid search, `internal/search/hybrid`, `internal/api/handler.go` | one request: context, two goroutines, first error | `Search`, `record`, `writeSearchError` | one side's failure cancels the other, the client leaves, the timeout passes | never a partial answer; the right stage blamed, the right status |
| Rank fusion, `internal/search/rrf` | none | `Fuse` | rounding and map order against ties | the order is the mathematical one, but for scores that rounding cannot tell apart; same ranks go by id |
| API process, `cmd/api`, `middleware.go`, `routes.go`, `metrics/http.go` | server, requests in flight, request counts | `run`, `Shutdown`, recovery, `Middleware` | shutdown and panics against requests in progress | requests end before their clients are closed; what is measured is what was answered |
| Readiness, `internal/api/health.go`, `sampleReadiness` | a gauge | `Ready`, `Check`, the sampler | probe and sampler write in any order | the gauge is not wrong for ever |
| Embedding providers | none | `Embed` | which errors are worth a retry | see EventRetry |
| Dead-letter topic, `internal/kafka/deadletter.go`, `internal/dlq` | the topic | `Publish` | a publish that failed may have stored the record | see ConsumerService |
| Legacy event indexer, `internal/indexing/indexer.go` | none | `Index` | it indexes the row as it reads it, which may be newer than the event, gone, or read by two processes in either order | both indexes end with the row's newest state |
| Configuration, `internal/config` | none | `Load` | relations between settings (vector sizes, limits, timeouts); three places that may refuse, and `main` after them | what `Load` and `main` accept, the process can run with: `EventuallyRuns`, `FullPage` |
| Metrics, `internal/metrics` | counters and gauges | `Record...`, observers | a retry or a stage is recorded at another moment, or under another name, than the thing it counts | what is counted is what happened |
| Load generator, `cmd/loadgen`, `internal/loadtest` | one run: arrivals, pending documents, counts, lag | `Index`, `Publish`, `Snapshot`, `Cleanup`, `Wait` | it observes a moving system by several reads, which may fail for one partition only, under a deadline that may end most of them | an unfailing report is true, lag 0 means that what was read is drained, a run with a deadline ends |
| PostgreSQL access, `internal/postgres`, migrations | rows and the version sequence | `GetDocument`, the trigger | - | every change has a higher version |

Interactions: `Run` calls the pool's `Submit` with each message and its `Done`
callback; a worker calls `Process`, which calls the service, which calls the stores;
a handler that can neither index nor dead-letter calls `onFatal`, which cancels
consumption; `main` closes `quit` when `Run` has returned, cancels the handlers at the
deadline, and closes the reader last. Two processes meet in the broker (assignment,
committed offset) and in the stores.

## Modules

| Module | Models | State and actions against the code |
|---|---|---|
| `CommitLog` | what an at-least-once consumer promises (abstract) | `finished` and `committed`; a commit covers finished messages only |
| `OffsetTracker` | tracker, queued commits and group, all processes, one partition | `inFlight`, `done` are `partitionOffsets`; `queued` the reader's commit; `Fetch` = `FetchMessage` + `track`, `Finish` = `Done` up to the end of `markDone`, `Send` = its `CommitMessages` (`sending` counts the commits in between), `Flush` the commit loop, `Assign`/`Revoke`/`Crash` the group. `handling` counts deliveries whose `Done` is still to come |
| `OffsetTrackerProofs`, and `...Proofs` of `ConsumerService`, `CDCSync`, `EventRetry`, `ApiServer` (with `HybridSearch`), `ChangeEvent`, `SearchPage` (with `RankFusion`); `CommandProofs` of `Startup` and `LoadTest` | theorems about them | see Proofs |
| `ConsumerService` | one process: fetch loop, pool, pipeline, main's shutdown, restart | `run` is where main is, `loop` where `Run` is, `worker[w]` where a worker is in `work`/`Process`, or in `Done` between `markDone` (`Ack`) and `CommitMessages` (`Commit`); `reached` is the highest commit the broker ever got; one action per step between which others can run. Contains the tracker through `INSTANCE OffsetTracker` |
| `CDCSync` | one row in both stores: every store call of `Service.Process`, or of the legacy `Indexer.Index`, a step | `indexer` says who applies the events: `cdc.Service`, the same for rows without a version, or `Indexer`, whose `LoadRow` reads the row (`row` changes so far); `document`, `remembered`, `point` are the stores; `IndexDocument`/`ClassifyConflict`/`Embed`/`Upsert` the upsert, `DeleteDocument`/`DeletePoint` the delete, each with its failing twin (before or after the effect) |
| `EventRetry` | one message in `Pipeline.Process`: decoding, errors, classification, backoff, shutdown, and what is measured of them | an error is a sequence of failures, `ClassifyError` and `MarkedPermanent` find in it what `errors.As` and `errors.Is` do; "refused" is an embedder that refuses the connection; `waits` is what `RecordRetry` saw, `reason` the label of the dead letter |
| `Configuration` | `config.Load` as a function of the environment | `Problems` names the settings it refuses, `Values` what it returns, `Name` the names `main` looks at; the three stages of errors in the code's order |
| `ChangeEvent` | two messages through `Parse`, tombstone rule and field mapping | keys are sequences of characters, since separators and trimming matter; everything else of a row is one value |
| `Startup` | consumers starting: `Load`, `Retry`, `EnsureIndex`, `EnsureCollection`, dependency order | `environment` is what an instance was given, `size` and `dimension` what it loaded of it; `step` is the call an instance is in, `call` the state of its attempt's context, or "stuck" in a read of the topic, which has none; `Refused` is what `embedding.New` and `main` turn away |
| `HybridSearch` | one search: handler, both goroutines, `Wait`, `record` | `ctxErr` is the search's context, `groupErr` the errgroup's first error; `stats` is what `record` hands to the metrics, `Measured` what `RecordSearch` counts of it |
| `ApiServer` | the API process around that search or a readiness probe: middleware, panics, measurement, sampler, shutdown | `server` is where `run` is, `place` where the request is, `check` what each round of pings has found; extends `HybridSearch`, whose steps are `Searches(...)` |
| `RankFusion` | `Fuse` over floating-point scores against an exact reference | `Visit` per list entry, `Rounded` to the nearest even, then a sort of an unordered set |
| `SearchPage` | a page of results: the limits from `Configuration`, those `hybrid.New` accepts, a request's limit, the candidates of both stores, `RankFusion` | `environment` is loaded by `StartService`, `asked` and `matches` are the request and what the stores have for it |
| `LoadTest` | the load generator against a running stack | `Script` lists the calls of each mode in order, `tool.pc` is where the invocation is; `watch` is `Watcher.Wait` with its round of `checkAll`; `ReadEnds` and `ReadOffsets` may miss partitions, `ReadHangs` is `ReadPartitions`, which no deadline reaches; `topic`, `committed`, `keyword`, `searchable`, `points` are what it can observe |

`MC*` modules only give TLC its constants. OffsetTracker is composed with
ConsumerService by refinement: `ConsumerService` implements `Tracker!Spec`, and
`OffsetTracker` implements `CommitLog!Spec`, so what is proved of the tracker holds of
the process (`CommittedWasDisposed` does that). ConsumerService abstracts an attempt to success or failure; CDCSync opens
the attempt and abstracts the queue to "the next event of the row", which `KeyOrder`
and `NeverAhead` (both proved) justify;
EventRetry opens the decision whether a failure is retried. Startup and SearchPage both
begin with `Configuration`'s `Load` and check what its comparisons between settings are
for. SearchPage extends RankFusion with the lists its searches build; LoadTest's stack is
CDCSync seen from outside.

## Runs

All runs finish within two minutes with two workers. `CHECK_DEADLOCK FALSE` is set
everywhere, because every model really stops: logs, histories and messages are finite,
faults and rebalances are bounded, and a served request or a decided event has no
further step.

| Run | Question | Bounds and why they are enough |
|---|---|---|
| `offset_tracker` | Is a commit ever ahead of, or needlessly behind, the work? Is everything finished and committed in the end? Is this the abstract log? | 2 processes, 2 messages, 3 membership changes: a commit popped, queued and sent in three generations; two workers of a process whose commits overtake each other; an owner that comes back |
| `offset_tracker_overlap` | Is the head of the tracker always in flight? (**violated**) | 1 process, 2 messages, 1 rebalance |
| `consumer_service` | Do the commit rules survive retries, failed dead letters, shutdowns, crashes? Does a key keep its order? Is the tracker used as modelled? Is everything committed if the stores answer? | 2 workers, 2 messages of one key and one of another, 2 attempts, 2 faults: a retry and a failed publish behind a finished message, a commit delayed behind a later one |
| `consumer_service_full` | Does a stuck process still stop, is memory bounded, does work start late? | 1 worker with a queue of 2 against 5 messages: queue, worker and `Submit` all full |
| `cdc_sync` | Do both indexes converge, and what can be said meanwhile, also without versions and for the legacy indexer? | 2 processes, histories upsert/no text/upsert/delete and upsert/upsert/upsert; for rows without a version upsert/delete and upsert/upsert/upsert; for the legacy indexer upsert/delete/upsert and upsert/upsert with the row changing at any moment; any 2 faults at any call, 1 rebalance: an event is redelivered after a later one, with a failure in each delivery |
| `cdc_sync_reinsert` | The same for a row deleted and inserted again (**violated**) | 1 process, 1 crash |
| `event_retry` | Is every error retried, dead-lettered or left as it should be, and measured as it was? | every kind of message, every error an attempt can return, 4 attempts, backoff 2, 4, 7 (capped) |
| `change_event` | Do keys collide, can what was indexed be deleted, what becomes of each message? | every pair of two-column keys out of nine values that differ in a separator, a space or a last digit; every shape and operation |
| `startup` | Can instances that race, hang and disagree start wrongly or never? | 2 consumers, 5 environments in every combination (two sizes, two sizes that contradict each other, one that does not parse, the fake provider in production), 2 faults |
| `api_server` | Is the answer whole, the blame right, every request ended and measured, also through panics and a shutdown? Does the readiness gauge settle? | every kind of request at the limits' boundaries, every event at every step; stores go or come back 3 times, enough for a probe and two rounds of the sampler to disagree |
| `search_page` | Does rounding or map order change the ranking? Is a page ever short while the stores have more? | Fuse alone: all pairs of lists up to two entries with empty and repeated ids, all triples of rankings of two documents, and three lists in which twice rank 1 and three times rank 4 tie exactly (k = 5) and come apart in 7 bits; searches: six environments around every comparison of the limits, requests from -1 past every maximum, every ranking of three documents in either store |
| `load_test` | Is the load generator's report true, and does it always end? | 5 plans that run every mode, two of them after another invocation, one without a deadline; batches of one, 2 partitions, 1 failure (of a call, of any partitions of a call, or a hang) or dead letter, the deadline at any step, one row changed by somebody else |

Every property of a passing run has a mutant: a plausible bug in one definition under
which TLC finds the property violated. The mutated forms stand before the definition
they replace. `TrackedOnceUnlessOverlapped`, `EachByItself` and the type invariants of
`OffsetTracker`, `ConsumerService`, `CDCSync` and `HybridSearch` are proved and need no run.

### Fairness

A step of the code that waits for nothing is weakly fair: goroutines run, timers fire, the
reader delivers and commits, a supervisor restarts what exited. A call to OpenSearch or
Qdrant is not: their clients set no timeout, so a call ends for certain only when its
context does. A worker between `markDone` and `CommitMessages` goes on some time
(`Commit`, `Send`), at no particular one. Hence two strengths in ConsumerService:
`StopsWhenAsked` holds for the code alone (`CodeSpec`), `EverythingCommitted` under the
explicit premise `StoresAnswer`. The embedder (`EMBEDDING_TIMEOUT`) and the dead-letter
writer (bounded, timed tries) do return. `OffsetTracker`'s liveness takes the handlers'
return as given for the same reason. In `CDCSync` the attempt of a worker goes on, and
attempts are bounded because faults are; the writer of the row goes on too (`Change`), but
a fault is never fair, nor is `Forget`. In `Startup` a call that does not hang is
answered, one that hangs is ended by the attempt's timeout, except a read of the topic,
which nothing ends; a deadline before an instance that could start has done so counts as a
fault. In `ApiServer` no store ever has to answer a search: its timeout alone ends it. A
ping is answered by a store that is up, and refused or timed out otherwise; the sampler
ticks; a signal, an outage, a panic and a failing listener are never fair. In `LoadTest`
only the tool itself is fair: a call with a context returns once that has ended, a
deadline passes if there is one (`-timeout` 0 sets none), `ReadPartitions` may never
return, and a `select` that keeps finding both the tick and the ended context ready picks
the context some time (`SF`, Go's random choice); nothing is assumed of the stack, so
`EveryRunEnds` holds with the consumer and the stores down.

## What the runs show

* **Nothing is lost.** Below the committed offset everything was indexed, skipped or
  dead-lettered (`NeverAhead`, `CommittedIsDisposed`), through late and lost commits,
  rebalances and crashes; a message that could be stored nowhere holds commits back.
* **Commits keep up** unless a rebalance overlapped with tracked messages
  (`HeadInFlightUnlessOverlapped`, `EventuallyCommitted`, `EverythingCommitted`), and before an
  orderly exit the broker was told of everything finished (`ExitCommitsAllFinished`). It need
  not have stayed there (disagreement 20): with several workers the committed offset may fall
  back, never past unfinished work; with one it cannot (`OneWorkerExitIsExact`).
* **The indexes converge** on the newest state of a row that is not inserted again after
  a delete, one process at a time (`Converged`, `EventuallyConverged`); even when two
  processes share the row the keyword index ends right and the vector index is never
  ahead of it (`KeywordConverged`, `VectorNeverAhead`). Rows without a version converge
  too as long as one process applies them, and so does the legacy indexer, which even
  survives the reinsertion that loses a row for `cdc.Service`, because it indexes what it
  reads.
* **The process stops when asked**, within bounded memory (`StopsWhenAsked`,
  `Backpressure`).
* **A search answer is whole** and errors name the stage that really failed
  (`NoPartialAnswer`, `BlamedStageFailedItself`, `StatusFollowsContext`).
* **Requests end and clients outlive them**: every request is answered or ends with the
  process, which closes its clients only after it told requests to stop
  (`EveryRequestAnswered`, `ClientsOutliveRequests`); the in-flight gauge is exact
  (`MeasuredAsAnswered`) and the readiness gauge does not stay wrong (`GaugeSettles`).
* **Rounding does not misplace a result** that is clearly better, and same ranks go by id
  (`FusedByDefinition`).
* **Retries are measured as made**, but for one a shutdown cut (`RetriesMeasuredAsMade`).
* **Outages are waited for**: an event is not given up before its last attempt when stores or
  provider were down, slow or overloaded, both stores of a delete included, except when the
  provider refused the connection (`OutagesUseEveryAttempt`, disagreement 8).
* **Every message is accounted for**: skipped if a tombstone, applied as what it says if it can
  be understood, dead-lettered otherwise (`MessagesAreAccountedFor`).
* **What `Load` and `main` accept works**: such a consumer starts in the end, unless its
  read of the topic hangs (`EventuallyRuns`), and a page is as long as asked whenever the
  stores have so many documents (`FullPage`).
* **A benchmark's numbers can be believed**: a run without an error found everything it
  wrote, a lag of zero means that every partition that was read is drained, and a run with a
  deadline ends unless it hangs in `ReadPartitions` (`ReportIsHonest`,
  `ZeroLagMeansCaughtUp`, `EveryRunEnds`).

### Disagreements between code and documentation

Each of the first two has a run that finds it (`findings` in `PROJECT.json`); the
others were met while modelling, are read from the code, and are what the premises and
exceptions of the properties named leave out.

1. After a rebalance that gives the partition back, an offset tracked twice stays at the
   tracker's head when finished once, and commits stop (`offset_tracker_overlap`;
   consumer.go:48-50).
2. Insert, delete, insert again, then a redelivery from before the delete: the repeated
   delete removes the new document, the repeated insert is refused by the remembered
   version, found missing and taken for stale; the row is in neither index
   (`cdc_sync_reinsert`; index.go:188-189, service.go:74-77).
3. A delete that OpenSearch refuses for good while Qdrant is only unavailable is
   dead-lettered after one attempt: `errors.As` in `ClassifyError` stops at the first error
   of the join (pipeline.go:285 against cdc_pipeline.go:67-68).
4. A worker that checked `quit` before it closed may still take one message
   (worker.go:151-152); `AtMostOneLateStart` is what holds.
5. After a rebalance the former owner may write an older vector last (README.md:199-208);
   `Converged` excludes `shared`.
6. A conflict whose stored version cannot be read counts as a duplicate, so an older
   vector may replace a newer one (README.md:246); so may one after OpenSearch forgot a
   deleted document's version. `StaleNeverReachesVectors` excludes `blind`.
7. `record` reads the context again: when it ended after `Search` looked, a failed search
   is reported without a stage (hybrid/service.go:81-82).
8. A refused connection to the embedding provider wraps a `net.Error` that calls itself
   not temporary (gemini.go:152-159), so an event is dead-lettered after one attempt while the
   provider is down, although transport failures "stay retryable" (indexer.go:141-142) and
   README.md:244 of the repository counts "embedder down" as retried. It is the one outage
   `OutagesUseEveryAttempt` excepts.
9. Key values that differ only in surrounding space join into one ID (parser.go:129);
   `OneDocumentPerRow` compares trimmed values.
10. The metrics middleware sits inside the panic recovery (`NewRouter`, routes.go), so a
    request whose handler panics is never counted and its 500 never recorded, although
    `Middleware` (metrics/http.go:31-33) says it records "responses written by the panic
    recovery middleware". `MeasuredAsAnswered` excludes panics from the count.
11. A request cancelled because the shutdown's deadline passed is answered 499, the status
    "for a request the client abandoned" (response.go:24-26): the handler cannot tell the two.
12. A probe whose client leaves sets the readiness gauge to 0 although every store answers
    (health.go:66-84), until the next sample.
13. When the listener itself fails, the deferred closes run before the deferred `cancel`
    (main.go:46-47, 82-103); `ClientsOutliveRequests` speaks of the path through `Shutdown`.
14. `RecordSearch` compares the stage with "keyword" and "vector" (metrics/search.go:49-51),
    but the service names its stages "keyword_search" and "vector_search"
    (hybrid/service.go:295): a failed search of either store is counted as a successful
    dependency call. A retriever that was cancelled counts as one that succeeded, too.
    `BlamedStageFailedItself` only says that no dependency is blamed wrongly.
15. A retry is counted before its wait, so a wait that a shutdown cuts leaves one retry
    counted that was never made (retry.go:187-191, pipeline.go:74-75), and messages a
    shutdown left are in none of the outcomes that indexing.go:17-21 adds up.
    `RetriesMeasuredAsMade` excludes what was left.
16. `Load` "reports every problem it finds rather than only the first" (config.go:199) only
    within one of its three stages: what does not parse hides the endpoint of Qdrant, and
    both hide what `validate` refuses. `Problems` follows the code.
17. With more workers than `INDEXING_QUEUE_SIZE` every worker still gets a queue of one
    (worker.go:82), so more is buffered than the setting says (config.go:144).
18. `DATABASE_MAX_CONNS` is validated as an int and converted to an int32
    (postgres.go:78-79).
19. Load generator: a run whose deadline passes during the watch fails at the counts and
    returns an empty result (run.go:152-158), against "a run that did not finish is a
    result too" (indexes.go:181-183); a check that fails throws away what its
    round found (indexes.go:204); `CommittedOffset` -1, a partition without a commit, counts
    as one message more than there are, so an untouched partition never shows lag 0
    (kafka.go:183-188); documents of the publish mode have no rows, so cleanup leaves them
    in the indexes (benchmarks/README.md:33); a run id used twice is found at once;
    `_` and `%` in a run id match other runs' URLs, and an empty one every run's
    (postgres.go:86-96). `ReportIsHonest` asks for a fresh id and an undisturbed stack.
20. `Done` calls `CommitMessages` after `markDone` has unlocked the tracker (consumer.go:186,
    193). A worker may be held up in between while another one's later commit is queued and
    flushed; its own, lower commit then takes the broker's offset back, also just before an
    orderly exit. `EventCommitted` "means every message up to that offset is finished"
    (consumer.go:78-80) remains true, but "their last completed offsets are included"
    (171-172) does not say that they last: a restart repeats finished messages.
    `ExitCommitsAllFinished` and `EverythingCommitted` speak of what the broker was told.
21. `Load` leaves the provider and its key to "when it is created" (config.go:203-205), which
    is after index and collection were created (main.go:103-110): a consumer with an unknown
    provider, no key, or the fake one in production creates both, exits, and is restarted for
    ever. `EventuallyRuns` excludes `Refused` environments.
22. `attemptTimeout` "bounds one attempt, so a connection that hangs is abandoned and retried"
    (startup.go:20-22), but `ReadPartitions` in `checkTopic` has neither context nor deadline
    (consumer.go:211): a broker that accepts the connection and says no more holds the start
    for ever, past its own deadline too. `EventuallyRuns` excludes "stuck".
23. `ConsumerLag` ignores the error of each partition in the answers to `ListOffsets` and
    `OffsetFetch` (loadtest/kafka.go:231-243). A partition that failed has an end of 0 or -1, or
    is left out, and counts as not behind, so "the honest measure of whether the pipeline
    keeps up" (193) may be zero with messages unread. `ZeroLagMeansCaughtUp` speaks of the
    partitions that were read.
24. A benchmark "must never be able to run away" (loadgen/main.go:79-80), but `ReadPartitions`
    (loadtest/kafka.go:206, 262) is outside its context, and `-timeout` 0 sets no deadline.
    `EveryRunEnds` asks for a deadline and excludes `stuck`.
25. Not a contradiction, but a limit of what Fuse promises: with k = 60 the ranks (6, 39) and
    (12, 28) have the same exact score, 5/198, and sums that differ in the last bit, so such
    documents are ordered by that bit and not by id. rrf.go:136-138 promises the id for the
    same ranks only; `FusedByDefinition` says that and no more.

## Proofs

Eight modules prove the properties for every value of the constants. The assumptions on
constants are those named in the modules and evaluated by TLC. Three theorems ask for
more, named below: `IndexesConverge`, `WorkersFitTheStores`, `OneWorkerExitIsExact`. Every
safety property a passing run checks is stated by a theorem, except the part of
`FusedByDefinition` that compares scores.

| Module | Theorem | States |
|---|---|---|
| `OffsetTrackerProofs` | `TypeCorrect`, `CommitNeverAhead`, `CommitAlwaysBacked` | `Spec => []TypeOK`, `[]NeverAhead`, `[]CommitBacked` |
| | `Refinement` | `Spec => ImplementsCommitLog` |
| | `TrackedOnceHolds`, `CommitsUpToFirstInFlight` | `Spec => []TrackedOnceUnlessOverlapped`, `[]HeadInFlightUnlessOverlapped` |
| `ConsumerServiceProofs` | `TypeCorrect`, `LateStartsAreOne` | `Spec => []TypeOK`, `[]AtMostOneLateStart` |
| | `TrackerImplemented` | `Spec => ImplementsTracker` |
| | `CommittedWasDisposed`, `KeysInOrder`, `MemoryIsBounded` | `Spec => []CommittedIsDisposed`, `[]KeyOrder`, `[]Backpressure` |
| | `ExitIsComplete` | `Spec => ExitCommitsAllFinished` |
| | `OneWorkerExitIsExact` | `Spec => [][Exit => committed = Front]_vars`, if `NumWorkers = 1` (not in a run) |
| `CDCSyncProofs` | `TypeCorrect`, `VectorFollows`, `KeywordConverges` | `Spec => []TypeOK`, `[]VectorNeverAhead`, `[]KeywordConverged` |
| | `StaleStopsAtVectors` | `Spec => StaleNeverReachesVectors` |
| | `IndexesConverge` | `Spec => []Converged`, if `StaysDeleted` |
| `EventRetryProofs` | `OnlyShutdownLeaves`, `TemporarySpendsAll`, `RetriesMeasured` | `Spec => []LeftOnlyByShutdown`, `[]OutagesUseEveryAttempt`, `[]RetriesMeasuredAsMade` |
| | `HopelessEndsTries` | `Spec => HopelessIsNotRetried` |
| `ApiServerProofs` | `TypeCorrect` | `ServerSpec => []TypeOK` (the search's) |
| | `AnswersAreComplete`, `BlameIsDeserved`, `StatusIsHonest` | `ServerSpec => []NoPartialAnswer`, `[]BlamedStageFailedItself`, `[]StatusFollowsContext` |
| | `ClientsCloseLast`, `MeasurementIsTrue` | `ServerSpec => []ClientsOutliveRequests`, `[]MeasuredAsAnswered` |
| `CommandProofs` | `WorkersFitTheStores` | `Spec => []RunningFits`, if `AwaitsStores` |
| | `RacesAreHarmless` | `Spec => []LosingTheRaceIsNoFailure` |
| | `LoadInvariance` | `LoadSpec => []LoadInv` (not in a run) |
| | `ReportsAreHonest`, `ZeroLagIsHonest` | `LoadSpec => []ReportIsHonest`, `[]ZeroLagMeansCaughtUp` |
| `ChangeEventProofs` | `ParsingForgets` | `Spec => []EachByItself` (not in a run) |
| | `NothingElseDisappears`, `DeletesAreAccepted`, `RowsKeepTheirDocument` | `Spec => []MessagesAreAccountedFor`, `[]DeletesFollowUpserts`, `[]OneDocumentPerRow` |
| `SearchPageProofs` | `PagesAreFull` | `PageSpec => []FullPage` |
| | `RanksAreFirstPositions`, `AnswersByDefinition`, `TiesFallToIds` | `PageSpec => []RanksByDefinition`, `[]KeptByDefinition`, `[]TiesById` (not in a run) |

### Commits: OffsetTracker

`NeverAhead` is not inductive: it says nothing of commits still queued, of finished
marks, or of where a reader will start. `IndInv` adds `CommitBacked`: done marks are
finished messages (`DoneFinished`); a commit a worker is about to send, or that is queued,
covers finished messages only (`SendingBacked`, `QueueBacked`); whatever stands in a tracker, everything below it is finished or stands
before it (`TrackedBacked`); whatever the owner's reader has passed is finished or tracked
(`PositionBacked`). A pop takes a finished prefix, so what is below the popped offset is
finished (`PoppedIsBacked`) and the queue stays backed; a rebalance restarts the reader at
a committed offset, below which everything is finished. All its parts are invariants of
the run `offset_tracker`. The second chain, `TrackedOnce`, is inductive on its own once an
overlap is excluded, and yields that the head of a tracker is with a worker. The
refinement follows from `IndInv`: only `Flush` moves the committed offset, and
`QueueBacked` is the abstract commit's guard.

### The process: ConsumerService

The invariant says where an offset can be: below `Submitted` it is in the queue its key
routes it to, with that worker, given up (`left`), or done, and queues and hands are in
fetch order (`Routed`, `LeftApart`). The tracker holds the last offsets fetched, and all
before them was committed once, is queued, or is with a worker about to queue it
(`Contiguous`, `FrontCommitted`); a `Done` is
called for what was disposed of only (`AckedAreDisposed`). `KeysInOrder` and `MemoryIsBounded`
follow. `ExitIsComplete` adds that before an orderly exit every worker has stopped
(`ClosingIsStill`), so no commit is on its way: the broker has been told of the first message
that is not done. That its offset is still there then needs that commits never overtake each
other (`CommitsRise`), which is inductive for one worker (`OneWorkerExitIsExact`) and false
for two. `TrackerImplemented` then maps each step to a step of
`OffsetTracker`, and `CommittedWasDisposed` is what `OffsetTrackerProofs` proves, read
through that mapping (`Proved == INSTANCE OffsetTrackerProofs WITH ...`): its `finished`
is this module's `acked`. Assumed: `LogAssumption` (a log is a sequence, a hash a number)
and `PoolAssumption` (what `config` and `NewWorkerPool` refuse otherwise).

### The stores: CDCSync

Three inductive arguments over the same types and positions (`TypeOK`, `Positions`).
`DocumentLeads`: while a row has no delete, OpenSearch has what it remembers, so a version
on its way to Qdrant is already there; from it `VectorFollows`. `RememberedBounds`: alone
with a row, what OpenSearch remembers bounds the point and every version about to be
written (`StaleStopsAtVectors`). `LastApplies`: the last event cannot be taken for a stale
one while its document is missing, so whoever applies it leaves both stores with it
(`KeywordConverges`, `IndexesConverge`). `StaysDeleted` asks that a history of
`cdc.Service` has no upsert after a delete: without it the statement is false, as the run
`cdc_sync_reinsert` shows; histories of the legacy indexer are not restricted. All
histories of the run `cdc_sync` satisfy it. `SyncAssumption` is what the trigger and the
configuration of the model give: versions grow along a history.

### Retries: EventRetry

The invariant counts tries and waits by step (`Tries`), says why a message left the loop
(`Reasons`: shutdown, every attempt spent, or an error that is not worth a retry) and that
each recorded wait is the policy's for its number (`Delays`). That the waits never shrink
needs `Multiplier` to the power n to grow; `Growth` is a recursive function, and since a
proof cannot use it before it is known to satisfy its own equation, `GrowthUnfolds`
establishes that first: the partial functions that satisfy the equation up to n exist for
all n and agree, each by the least number for which it would fail (`Least`).
`TemporaryIsRetried` is the heart of `OutagesUseEveryAttempt`: an error that is an outage in all
its parts, and has no refused connection among them, is classified as retryable, joined or not.
`PolicyAssumption` is what `Policy.Validate` requires.

### The API: ApiServer and HybridSearch

`SearchInv` belongs to the search alone: nothing is returned, reported or sent too early
and no goroutine outlives `Wait` (`Progressing`); while the context lives the group's
first error is of a stage that failed by itself (`Errors`), and what `Search` returned and
`record` reported repeats it (`Reports`). `ServerInv` adds the process around it: checks
run inside their handler only, nothing is sent after a request was counted, and behind the
cancellation every running request was told to stop. `StatusFollowsContext` is inductive
with `Contexts`. `TypeCorrect` needs both, since `record` copies what `Search` returned.

### Start-up: Startup

The first part of `CommandProofs`; the load generator is the second, and neither uses the
other. What is in the stores stays: an index is never taken away and the first collection keeps
its size. So `Provided` - every dependency an instance has passed is as it needs it - is
inductive for any number of instances, with `Loaded` (one vector size, since `Load`
compared the two) and `Asking` (a call is about the dependency the instance waits for).
`Smooth` gives the second theorem: until something failed, only a collection of another
size stops an instance. `AwaitsStores` says that index and collection are in the list, as
they are in `cmd/consumer/main.go`; without them an instance runs with no store at all.

### The load generator: LoadTest

Neither property is inductive: a report is made of counts, arrivals and watched documents
that were read at different moments of a moving stack. `LoadInv` says what each reading is
worth when it is used. `NewRuns`: nobody has written a document of a run that is still to
come; so in a run with a fresh id (`Fresh`) a document has one event, that of its row's
only version (`NewDocuments`), and an event applied late or twice cannot take away what
the watcher saw (`Watched`). What the tool has written and measures follows from where it
is in its script (`Arrivals`, `Written`). On a stack at rest only the run's documents are on
the way, so everything else is still what the first counts counted (`AtRest`, `Counts`),
and the difference is at most the run's own; a refresh makes it exact for OpenSearch
(`Reported`). `ErrorsEnd` says that no call follows a failed one, which is why a report has
all its readings. For the lag, the ends are read before the offsets (`LagOK`) and offsets
only grow, and a sum of lags that are never negative is zero only if each is
(`LagIsHonest`; the sum is a recursive function, see EventRetry). It covers the partitions
whose offset was answered, and of those the ones whose end was said as it was. `LoadTestAssumption` and
`PlansAssumption`: the counts are positive, an invocation has one run id - a cleanup may
have all - and `MaxDocuments` has room for what it writes.

### Messages: ChangeEvent

A message becomes what the function `Verdict` says of it alone (`ParsingForgets`); the
other three theorems are facts about that function. `RowsKeepTheirDocument` is the hard
one: keys of any number of columns must join to different IDs. With more than one column no
value may hold the separator (`Usable`), so the last value is what follows an ID's last
separator (`Parted`, `LastSeparator`), and the values can be read back one column after
the other (`JoinInjective`, by the least number of columns at which it would fail).
`TrimmedOf` and `KeyStrings` say what becomes of a value's text. `MessagesAssumption` types
the messages; JSON writes numbers without spaces. For `NothingElseDisappears`, what a message
must be like to be understood is stated over its own text (`Understandable`), not over what
the parser computes: `TrimmedKeepsInk` and `UsableText` show that trimming and joining leave
a key usable exactly when every column has a character other than space and, among several,
no separator.

### Pages: SearchPage and RankFusion

`PageInv` holds for any lists, environments, requests and scores. While the scan runs, a
document is in `seen` when the entries of this list before `index` have it (`SeenHere`), its
`ranks` are its first positions in the lists passed (`RankedSoFar`) and its payload is the
first one they had (`KeptSoFar`). The reference definitions recur over the lists, and a
proof cannot use a recursive function before it is known to satisfy its own equation:
`Recursion` gives one its values, by the least number for which the partial functions
below would fail (`Least`), and `RanksUnfold` applies it. From it `RanksAreFirstPositions`: what the scan kept is what the definition says.

A sort is only known to be an order of the candidates, each at one place, without an
inverted pair (`SortedAnswer`). Such an order is onto (`OrdersAreComplete`, cardinality),
so it loses no candidate whatever the scores are: `AnswersByDefinition`. Documents with the
same ranks have the same sum, because `Ascending` of a sequence depends only on how often
each rank occurs (`SameRanksSameScore`); so they are answered by id: `TiesFallToIds`. A page
shorter than asked has every candidate, and a list that had been cut at
`SEARCH_CANDIDATE_LIMIT` would alone have enough of them to fill it (`NoListIsCut`); that
is what `hybrid.New`'s comparison of the limits (`LimitsAgree`) is for: `PagesAreFull`.

How scores are ordered is checked by the run alone. It cannot be exact: equal sums of different
ranks may come apart (disagreement 25), which happens in the run too, and unequal ones that are
nearer than rounding's error could change places. For k = 60, two lists and float64, none of
the latter do for all ranks up to 200. So `FusedByDefinition` compares sums that differ by
more than `Precision` bits can lose, and leaves ties to `TiesFallToIds`.

`PageAssumption`: settings are whole numbers, a store has finitely many documents.
`FusionAssumption`: k and limits are positive, the ids are numbers, lists are sequences.

### Model-checked only

* Liveness, and everything that rests on fairness, is out of the prover's reach:
  `EventuallyCommitted`, `StopsWhenAsked`, `EverythingCommitted`, `EventuallyConverged`,
  `EveryRequestAnswered`, `GaugeSettles`, `EventuallyRuns`, `EveryRunEnds`.
* Of `FusedByDefinition`, that nothing comes behind a clearly worse document (`ClearlyBetter`):
  a bound on the error of rounded sums, for which the provers have no theory.

## Not modelled, and why

* JSON, timestamps, LSNs, labels, logging, histograms: no control flow depends on them.
* Names, credentials and addresses of the configuration, which `Load` takes as they come, but
  for the environment, the provider and its key, which `main` and `embedding.New` look at.
* The consumer's metrics listener and readiness sampler: they are those of the API, which
  `ApiServer` models, without requests to serve.
* The content of dead letters, of texts and of vectors.
* PostgreSQL, Debezium, Kafka, OpenSearch, Qdrant: external. The trigger gives every change
  a higher version (migrations/0002, on insert and update; a delete carries the last
  one seen plus one in our histories, which only orders the events); OpenSearch "keeps the
  highest version it has seen" (the migration's own words) until it forgets a deleted
  document; Qdrant keeps the last write. That real OpenSearch raises the version of a
  deleted document by one is not modelled.
* Several rows and partitions: no write names two rows, and trackers of different partitions
  share only a mutex.
* Go benchmarks, latencies, rates and the seeding of `cmd/loadgen`; the end-to-end tests.

## Plan

In order of importance; the first thirteen items are done.

1. `CommitLog`, `OffsetTracker` - commits; 2. `OffsetTrackerProofs`;
3. `ConsumerService` - the process; 4. `CDCSync` - both stores, both indexers;
5. `EventRetry`; 6. `HybridSearch`; 7. `RankFusion`; 8. `ChangeEvent`; 9. `Startup`;
10. `ApiServer` - the API process, its shutdown, readiness and measurement;
11. `Configuration`, under `Startup` and `SearchPage`; 12. `SearchPage` - limits of the
settings, the request and both retrievers; 13. `LoadTest` - the load generator.
14. The consumer's lifecycle beside its work: metrics listener and its own sampler.

All safety properties of the runs are proved but for the comparison of scores in
`FusedByDefinition`. What is left to prove is that rounded sums keep the order of clearly
different exact ones, which needs facts about powers of two and rounding.
