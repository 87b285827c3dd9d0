------------------------------ MODULE LoadTest ------------------------------
(***************************************************************************)
(* The load generator (cmd/loadgen, internal/loadtest) against a running   *)
(* stack: its modes as sequences of calls, the writer and its batches, the *)
(* publisher, the watcher that polls the keyword index for every document  *)
(* still missing, the counts before and after, and the lag of the consumer *)
(* group, with calls that fail and a deadline or signal at any step.       *)
(*                                                                         *)
(* The stack is reduced to what can be observed from outside: rows, a      *)
(* topic with a committed offset per partition, a keyword index whose      *)
(* writes are found by id at once and counted after a refresh, points, and *)
(* the size of the dead-letter topic. CDCSync is its detailed model.       *)
(* Not covered: texts, latencies and rates, seeded documents (no statement *)
(* here touches another URL), pacing (a wait that only ctx can cut).       *)
(***************************************************************************)
EXTENDS Integers, Sequences, FiniteSets, FiniteSetsExt, SequencesExt

CONSTANTS
  RunIDs,             \* run ids in use
  Plans,              \* invocations one after the other: sequences of [mode, scope, count, warm, op,
                      \* others: how many rows somebody else changes meanwhile, limited: -timeout]
  MaxDocuments,       \* a run has at most so many documents
  BatchSize, Repeats,
  Partitions,         \* of the topic: 0 .. Partitions - 1
  MaxFailures         \* bound on failing calls and dead-lettered events

ASSUME LoadTestAssumption ==
  /\ MaxDocuments \in Nat \ {0} /\ BatchSize \in Nat \ {0}
  /\ Repeats \in Nat \ {0} /\ Partitions \in Nat \ {0} /\ MaxFailures \in Nat
  /\ IsFiniteSet(RunIDs)

VARIABLES
  rows,               \* [document -> version of its row, 0 for none]
  version,            \* last version the trigger assigned
  topic,              \* [partition -> sequence of change events]
  committed,          \* [partition -> committed offset, -1 before the first commit]
  half,               \* [partition -> the event in work is in the keyword index]
  keyword,            \* [document -> version in the keyword index, 0 for none]
  searchable,         \* documents the last refresh made visible to _count
  points,             \* documents with a point
  dead,               \* size of the dead-letter topic
  tool,               \* the invocation: mode, run, pc, what it did so far
  watch,              \* the watcher's pending documents and its current round
  contextEnded,       \* the invocation's context: deadline passed or signal received
  deadline,           \* -timeout is not 0
  stuck,              \* it waits in a call that has neither context nor deadline
  plan,               \* invocations to come
  earlier,            \* history: the runs earlier invocations worked for, or others wrote
  failures

stack == <<rows, version, topic, committed, half, keyword, searchable, points, dead>>
limits == <<deadline, stuck>>
loadVars == <<stack, tool, watch, contextEnded, limits, plan, earlier, failures>>

Docs == RunIDs \X (0 .. MaxDocuments - 1)
PartitionOf(d) == d[2] % Partitions              \* the hash of the key
Part == 0 .. Partitions - 1

\* What each mode calls, in order. "rows" is absent from publish: it has no pool.
Snapshot == <<"documents", "points", "ends", "lag", "dlq">>
Script ==
  [index     |-> <<"connect", "warmup", "arrive", "documents", "points", "dlq",
                   "insert", "arrive", "refresh", "documents", "points", "dlq">>,
   publish   |-> Snapshot \o <<"publish">> \o Snapshot,
   duplicate |-> Snapshot \o <<"publish">> \o Snapshot,
   watch     |-> <<"connect", "rows">> \o Snapshot \o <<"tick">>,
   cleanup   |-> <<"connect", "delete">>]

\* scope: the runs it works for: one or, with -all, every one to clean up.
Invocations == [mode : DOMAIN Script, scope : SUBSET RunIDs, count : Nat \ {0}, warm : Nat,
                op : {"c", "u", "d", "r"}, others : Nat, limited : BOOLEAN]
ASSUME PlansAssumption ==
  \A todo \in Plans :
    /\ todo \in Seq(Invocations)
    /\ \A i \in 1 .. Len(todo) :
         /\ todo[i].warm + todo[i].count <= MaxDocuments
         /\ \/ \E r \in RunIDs : todo[i].scope = {r}
            \/ todo[i].mode = "cleanup" /\ todo[i].scope = RunIDs

NoReport == [produced |-> 0, indexed |-> 0, documents |-> 0, points |-> 0]
\* counts: documents, points, documents, points. ends and lag: the last reading,
\* an end as it was and as it was said.
\* Histories: quiet, the stack was at rest when it began and nobody else wrote;
\* refreshed, the refresh before the last counts succeeded; seen, the documents
\* a check found.
Idle == [mode |-> "none", scope |-> {}, count |-> 0, warm |-> 0, op |-> "c", others |-> 0,
         pc |-> 0, sent |-> 0, arrivals |-> {}, counts |-> <<>>, ends |-> <<>>, lag |-> -1,
         report |-> NoReport, err |-> "none", quiet |-> FALSE, refreshed |-> FALSE]
NoWatch == [pending |-> {}, unchecked |-> {}, found |-> {}, resting |-> FALSE, err |-> "none", seen |-> {}]

LoadInit ==
  /\ rows = [d \in Docs |-> 0] /\ version = 0
  /\ topic = [p \in Part |-> <<>>] /\ committed = [p \in Part |-> -1]
  /\ half = [p \in Part |-> FALSE]
  /\ keyword = [d \in Docs |-> 0] /\ searchable = {} /\ points = {} /\ dead = 0
  /\ tool = Idle /\ watch = NoWatch /\ contextEnded = FALSE /\ deadline = FALSE /\ stuck = FALSE
  /\ plan \in Plans /\ earlier = {} /\ failures = 0

-----------------------------------------------------------------------------
(* The stack. *)

Position(p) == IF committed[p] < 0 THEN 0 ELSE committed[p]
Outstanding(p) == Len(topic[p]) - Position(p)
InWork(p) == topic[p][Position(p) + 1]
Quiet == \A p \in Part : Outstanding(p) = 0

Dispose(p) == committed' = [committed EXCEPT ![p] = Position(p) + 1]

\* The keyword index first. An older version is stale: the event ends there.
KeywordWrite(p) ==
  /\ Outstanding(p) > 0 /\ ~half[p]
  /\ LET e == InWork(p) IN
     IF e.op # "d" /\ e.version < keyword[e.doc]
     THEN Dispose(p) /\ UNCHANGED <<keyword, half>>
     ELSE /\ keyword' = [keyword EXCEPT ![e.doc] = IF e.op = "d" THEN 0 ELSE e.version]
          /\ half' = [half EXCEPT ![p] = TRUE]
          /\ UNCHANGED committed
  /\ UNCHANGED <<rows, version, topic, searchable, points, dead, tool, watch, contextEnded, limits, plan, earlier, failures>>

VectorWrite(p) ==
  /\ half[p] /\ half' = [half EXCEPT ![p] = FALSE]
  /\ points' = IF InWork(p).op = "d" THEN points \ {InWork(p).doc} ELSE points \cup {InWork(p).doc}
  /\ Dispose(p)
  /\ UNCHANGED <<rows, version, topic, keyword, searchable, dead, tool, watch, contextEnded, limits, plan, earlier, failures>>

\* Retries run out in either store: the event is dead-lettered as far as it got.
DeadLetter(p) ==
  /\ Outstanding(p) > 0 /\ failures < MaxFailures /\ failures' = failures + 1
  /\ dead' = dead + 1 /\ half' = [half EXCEPT ![p] = FALSE]
  /\ Dispose(p)
  /\ UNCHANGED <<rows, version, topic, keyword, searchable, points, tool, watch, contextEnded, limits, plan, earlier>>

Indexed == {d \in Docs : keyword[d] > 0}

\* OpenSearch's own refresh, once per refresh interval.
PeriodicRefresh ==
  /\ searchable # Indexed /\ searchable' = Indexed
  /\ UNCHANGED <<rows, version, topic, committed, half, keyword, points, dead, tool, watch, contextEnded, limits, plan, earlier, failures>>

Stack == \/ \E p \in Part : KeywordWrite(p) \/ VectorWrite(p) \/ DeadLetter(p)
         \/ PeriodicRefresh

Publish(docs, op, v) ==
  topic' = [p \in Part |-> topic[p] \o SetToSeq(
              {[doc |-> d, op |-> op, version |-> v] : d \in {d \in docs : PartitionOf(d) = p}})]

\* A statement changes rows, the trigger gives them a version and Debezium
\* publishes what happened to them.
Change(docs, op) ==
  IF docs = {} THEN UNCHANGED <<rows, version, topic>>
  ELSE /\ version' = version + 1
       /\ rows' = [d \in Docs |-> IF d \notin docs THEN rows[d] ELSE IF op = "d" THEN 0 ELSE version + 1]
       /\ Publish(docs, op, version + 1)

-----------------------------------------------------------------------------
(* One invocation. *)

Running == tool.mode # "none"
Over == Running /\ tool.pc > Len(Script[tool.mode])
Step == IF Running /\ ~Over THEN Script[tool.mode][tool.pc] ELSE "none"
Advance == [tool EXCEPT !.pc = @ + 1, !.sent = 0]
Fail(error) == tool' = [tool EXCEPT !.pc = Len(Script[tool.mode]) + 1, !.err = error]

\* Flags and environment say what to do.
Start ==
  /\ ~Running /\ plan # <<>> /\ plan' = Tail(plan)
  /\ LET i == Head(plan) IN
     tool' = [Idle EXCEPT !.mode = i.mode, !.scope = i.scope, !.count = i.count, !.warm = i.warm,
                          !.op = i.op, !.others = i.others, !.pc = 1,
                          !.quiet = Quiet /\ searchable = Indexed]
  /\ deadline' = Head(plan).limited
  /\ UNCHANGED <<stack, watch, contextEnded, stuck, earlier, failures>>

\* Another writer changes a row that is none of this run's.
SomebodyWrites ==
  /\ Running /\ tool.others > 0 /\ tool' = [tool EXCEPT !.others = @ - 1, !.quiet = FALSE]
  /\ \E d \in Docs : /\ d[1] \notin tool.scope /\ Change({d}, "u")
                     /\ earlier' = earlier \cup {d[1]}
  /\ UNCHANGED <<committed, half, keyword, searchable, points, dead, watch, contextEnded, limits, plan, failures>>

\* The deadline of -timeout, or Ctrl+C.
ContextEnds == /\ Running /\ ~Over /\ ~contextEnded /\ contextEnded' = TRUE
               /\ UNCHANGED <<stack, tool, watch, limits, plan, earlier, failures>>

\* ReadPartitions, with which the ends and the dead letters are read, does not return.
ReadHangs == /\ Step \in {"ends", "dlq"} /\ ~stuck /\ stuck' = TRUE
             /\ failures < MaxFailures /\ failures' = failures + 1
             /\ UNCHANGED <<stack, tool, watch, contextEnded, deadline, plan, earlier>>

\* A call fails because its store does, or by itself once the context has ended.
Fails == IF contextEnded THEN Fail("context") /\ UNCHANGED failures
         ELSE failures < MaxFailures /\ failures' = failures + 1 /\ Fail("store")

Connect == /\ Step = "connect"
           /\ \/ ~contextEnded /\ tool' = Advance /\ UNCHANGED failures
              \/ Fails
           /\ UNCHANGED <<stack, watch, contextEnded, limits, plan, earlier>>

\* Mutant of Behind: a partition that is ahead makes up for one that is behind.
BehindUnclamped(offset, end) == end - offset

\* How many messages the group still has to process: ends read first, then offsets.
Behind(offset, end) == IF end <= offset THEN 0 ELSE end - offset

\* Summed over the partitions whose offset was answered.
TotalLag(offsets, ends) ==
  LET total[n \in 0 .. Partitions] ==
        IF n = 0 THEN 0
        ELSE total[n - 1] + IF n - 1 \notin DOMAIN offsets THEN 0
                            ELSE Behind(offsets[n - 1], ends[n - 1].said)
  IN total[Partitions]

\* A call fails for some partitions only, which nobody looks at.
Lost(partitions) == IF partitions = {} THEN UNCHANGED failures
                    ELSE failures < MaxFailures /\ failures' = failures + 1

\* ListOffsets: an end that could not be read is said to be -1, or 0 if left out.
ReadEnds ==
  \E lost \in SUBSET Part, n \in {-1, 0} :
    /\ Lost(lost)
    /\ tool' = [Advance EXCEPT !.lag = -1,
          !.ends = [p \in Part |-> [end  |-> Len(topic[p]),
                                   said |-> IF p \in lost THEN n ELSE Len(topic[p])]]]

\* OffsetFetch: an offset that could not be read is left out, or said to be -1.
ReadOffsets ==
  \E out, lost \in SUBSET Part :
    /\ Lost(out \cup lost)
    /\ LET offsets == [p \in Part \ out |-> IF p \in lost THEN -1 ELSE committed[p]] IN
       tool' = [Advance EXCEPT !.lag = TotalLag(offsets, tool.ends),
                               !.ends = [p \in Part \ out |-> tool.ends[p]]]

\* Runner.Index makes its result of the last reading; a snapshot is only printed.
Report == [produced  |-> Cardinality(tool.arrivals),
           indexed   |-> Cardinality(tool.arrivals) - Cardinality(watch.pending),
           documents |-> tool.counts[3] - tool.counts[1],
           points    |-> tool.counts[4] - tool.counts[2]]
Counted(n) == tool' = IF tool.mode = "index" THEN [Advance EXCEPT !.counts = Append(@, n)] ELSE Advance
Read ==
  /\ Step \in Range(Snapshot) \cup {"rows"} /\ ~stuck
  /\ \/ /\ ~contextEnded
        /\ \/ Step = "ends" /\ ReadEnds
           \/ Step = "lag" /\ ReadOffsets
           \/ /\ UNCHANGED failures
              /\ \/ Step = "documents" /\ Counted(Cardinality(searchable))
                 \/ Step = "points" /\ Counted(Cardinality(points))
                 \/ Step = "rows" /\ tool' = Advance
                 \/ /\ Step = "dlq"
                    /\ tool' = IF tool.mode = "index" /\ tool.pc = Len(Script.index)
                               THEN [Advance EXCEPT !.report = Report, !.err = watch.err] ELSE Advance
     \/ \* watch mode ends in order with its context
        IF contextEnded /\ tool.mode = "watch" THEN Fail("none") /\ UNCHANGED failures ELSE Fails
  /\ UNCHANGED <<stack, watch, contextEnded, limits, plan, earlier>>

\* watchMode prints a line per interval until its context ends.
Tick == /\ Step = "tick"
        /\ tool' = [tool EXCEPT !.pc = 2]
        /\ UNCHANGED <<stack, watch, contextEnded, limits, plan, earlier, failures>>
StopWatching == /\ Step = "tick" /\ contextEnded /\ Fail("none")
                /\ UNCHANGED <<stack, watch, contextEnded, limits, plan, earlier, failures>>

\* The first documents of the run warm up, the others are measured.
Generated == LET docs(from, n) == [i \in 1 .. n |-> <<CHOOSE r \in tool.scope : TRUE, from + i - 1>>] IN
             CASE Step = "warmup" -> docs(0, tool.warm)
               [] Step = "insert" -> docs(tool.warm, tool.count)
               [] OTHER -> docs(0, tool.count)
Batch == {Generated[i] : i \in tool.sent + 1 .. Min({tool.sent + BatchSize, Len(Generated)})}

\* One statement per batch. Without documents there is nothing to warm up or wait for.
Insert ==
  /\ Step \in {"warmup", "insert"}
  /\ \/ /\ ~contextEnded /\ UNCHANGED failures
        /\ LET all == (IF tool.sent = 0 THEN {} ELSE tool.arrivals) \cup Batch
               t == IF tool.sent + BatchSize < Len(Generated)
                    THEN [tool EXCEPT !.sent = @ + BatchSize] ELSE Advance IN
           /\ Change(Batch, "c")
           /\ tool' = [t EXCEPT !.arrivals = all]
           /\ watch' = [NoWatch EXCEPT !.pending = all, !.unchecked = all]
     \/ \* a statement that fails may have been executed
        Fails /\ UNCHANGED watch /\ (Change(Batch, "c") \/ UNCHANGED <<rows, version, topic>>)
  /\ UNCHANGED <<committed, half, keyword, searchable, points, dead, contextEnded, limits, plan, earlier>>

\* Publisher.Publish: the same events Repeats times, all with version 1.
Deliveries == IF tool.mode = "duplicate" /\ Repeats < 2 THEN 3 ELSE Repeats
PublishEvent ==
  /\ Step = "publish"
  /\ LET event == Publish({Generated[(tool.sent % tool.count) + 1]}, tool.op, 1) IN
     \/ /\ ~contextEnded /\ event /\ UNCHANGED failures
        /\ tool' = IF tool.sent + 1 < Deliveries * tool.count THEN [tool EXCEPT !.sent = @ + 1] ELSE Advance
     \/ Fails /\ (event \/ UNCHANGED topic)
  /\ UNCHANGED <<rows, version, committed, half, keyword, searchable, points, dead, watch, contextEnded, limits, plan, earlier>>

\* DeleteRun: rows are found by the prefix of their URL.
Delete ==
  /\ Step = "delete"
  /\ LET found == {d \in Docs : rows[d] > 0 /\ d[1] \in tool.scope} IN
     \/ ~contextEnded /\ Change(found, "d") /\ tool' = Advance /\ UNCHANGED failures
     \/ Fails /\ (Change(found, "d") \/ UNCHANGED <<rows, version, topic>>)
  /\ UNCHANGED <<committed, half, keyword, searchable, points, dead, watch, contextEnded, limits, plan, earlier>>

\* A failed refresh is only logged.
Refresh ==
  /\ Step = "refresh"
  /\ \/ /\ ~contextEnded /\ searchable' = Indexed
        /\ tool' = [Advance EXCEPT !.refreshed = TRUE] /\ UNCHANGED failures
     \/ /\ IF contextEnded THEN UNCHANGED failures ELSE failures < MaxFailures /\ failures' = failures + 1
        /\ tool' = Advance /\ UNCHANGED searchable
  /\ UNCHANGED <<rows, version, topic, committed, half, keyword, points, dead, watch, contextEnded, limits, plan, earlier>>

-----------------------------------------------------------------------------
(* The watcher: rounds of checks, one for every document still pending. *)

Watching == Step = "arrive"

\* DocumentExists. Once the context has ended the answer is lost, not an error.
Check(d) ==
  /\ Watching /\ d \in watch.unchecked
  /\ \/ /\ ~contextEnded /\ UNCHANGED failures
        /\ watch' = [watch EXCEPT !.unchecked = @ \ {d},
                                  !.found = IF keyword[d] > 0 THEN @ \cup {d} ELSE @,
                                  !.seen = IF keyword[d] > 0 THEN @ \cup {d} ELSE @]
     \/ /\ ~contextEnded /\ failures < MaxFailures /\ failures' = failures + 1
        /\ watch' = [watch EXCEPT !.unchecked = @ \ {d}, !.err = "store"]
     \/ /\ contextEnded /\ UNCHANGED failures
        /\ watch' = [watch EXCEPT !.unchecked = @ \ {d}]
  /\ UNCHANGED <<stack, tool, contextEnded, limits, plan, earlier>>

\* Wait returns: an error of the warm-up ends the run, any other one is kept.
Return(w) ==
  /\ watch' = w
  /\ IF w.err # "none" /\ tool.pc = 3 THEN Fail(w.err) ELSE tool' = Advance

\* Mutant of RoundEnds: Wait looks at the context before it records what it found.
RoundEndsUnrecorded ==
  /\ Watching /\ watch.unchecked = {} /\ ~watch.resting
  /\ LET lost == watch.err # "none" \/ contextEnded
         w == [watch EXCEPT !.pending = IF lost THEN @ ELSE @ \ watch.found, !.found = {}] IN
     IF w.err # "none" \/ w.pending = {} THEN Return(w)
     ELSE watch' = [w EXCEPT !.resting = TRUE] /\ UNCHANGED tool
  /\ UNCHANGED <<stack, contextEnded, limits, plan, earlier, failures>>

\* checkAll is done. What it found counts only if no check failed.
RoundEnds ==
  /\ Watching /\ watch.unchecked = {} /\ ~watch.resting
  /\ LET w == [watch EXCEPT !.pending = IF watch.err = "none" THEN @ \ watch.found ELSE @, !.found = {}] IN
     IF w.err # "none" \/ w.pending = {} THEN Return(w)
     ELSE watch' = [w EXCEPT !.resting = TRUE] /\ UNCHANGED tool
  /\ UNCHANGED <<stack, contextEnded, limits, plan, earlier, failures>>

\* Mutant of GiveUp: only the ticker is waited for.
GiveUpNever == FALSE /\ UNCHANGED loadVars

\* Between two rounds: the next tick or the end of the context, whichever select picks.
NextRound == /\ Watching /\ watch.resting
             /\ watch' = [watch EXCEPT !.resting = FALSE, !.unchecked = watch.pending]
             /\ UNCHANGED <<stack, tool, contextEnded, limits, plan, earlier, failures>>
GiveUp == /\ Watching /\ watch.resting /\ contextEnded
          /\ Return([watch EXCEPT !.resting = FALSE, !.err = "context"])
          /\ UNCHANGED <<stack, contextEnded, limits, plan, earlier, failures>>

\* The process exits.
Exit == /\ Over /\ tool' = Idle /\ watch' = NoWatch /\ contextEnded' = FALSE /\ deadline' = FALSE
        /\ earlier' = earlier \cup tool.scope
        /\ UNCHANGED <<stack, stuck, plan, failures>>

Tool == \/ Connect \/ Read \/ Insert \/ PublishEvent \/ Delete \/ Refresh
        \/ (\E d \in Docs : Check(d)) \/ RoundEnds \/ NextRound \/ Tick \/ Exit
LoadNext == Start \/ SomebodyWrites \/ ContextEnds \/ ReadHangs \/ Tool \/ GiveUp \/ StopWatching \/ Stack

LoadSpec == LoadInit /\ [][LoadNext]_loadVars

\* A call returns once its context has ended, if it has one; that ends only for
\* certain if there is a deadline; and a select with a tick and an ended context
\* does not pick the tick for ever. Nothing is assumed of the stack: the consumer
\* and the stores may be down.
FairLoadSpec == /\ LoadSpec /\ WF_loadVars(ContextEnds /\ deadline)
                /\ WF_loadVars(contextEnded /\ Tool) /\ WF_loadVars(Exit)
                /\ SF_loadVars(GiveUp) /\ SF_loadVars(StopWatching)

-----------------------------------------------------------------------------
(* What an operator reads from it. *)

Fresh == tool.scope \cap earlier = {}

\* IndexingResult (stats.go, indexMode): an index run of a new id that reports
\* no error found all it produced, in the version its rows have; the growth it
\* reports is exact if it began on a stack at rest, without warm-up documents,
\* and its refresh succeeded. And what any watch reports missing was never
\* seen, unless a failed check threw the other answers of its round away.
ReportIsHonest ==
  /\ Over /\ tool.mode = "index" /\ tool.err = "none" /\ Fresh =>
       /\ tool.report.produced = tool.count /\ tool.report.indexed = tool.count
       /\ \A d \in tool.arrivals : rows[d] > 0 /\ keyword[d] = rows[d]
       /\ tool.quiet /\ tool.refreshed /\ tool.warm = 0 =>
            tool.report.documents = tool.count /\ tool.report.points <= tool.count
  /\ watch.err # "store" => (watch.pending \ watch.found) \cap watch.seen = {}

\* ConsumerLag and TotalLag (kafka.go): a lag of zero is only reported if every
\* message there was when the ends were read has been committed, on every
\* partition of which both answers came and the end was said as it was. Of the
\* others it says nothing, since nobody looks at the error of a partition: it
\* proves a drained backlog only where all partitions were read.
ZeroLagMeansCaughtUp ==
  tool.lag = 0 => \A p \in DOMAIN tool.ends :
    tool.ends[p].said = tool.ends[p].end => Position(p) >= tool.ends[p].end

\* "A benchmark must never be able to run away" (cmd/loadgen/main.go): every
\* invocation with a deadline ends, whatever the stack does, but for one that
\* waits for Kafka's partitions, which the deadline does not reach.
EveryRunEnds == Running /\ deadline ~> ~Running \/ stuck

=============================================================================
