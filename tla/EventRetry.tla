----------------------------- MODULE EventRetry -----------------------------
(***************************************************************************)
(* One message in Pipeline.Process: decoding, Runner.Do                    *)
(* (internal/retry/retry.go) with the classification of its errors         *)
(* (classifyChange and classifyStore in cdc_pipeline.go, ClassifyError in  *)
(* pipeline.go), the backoff, the decision between a dead letter and an    *)
(* uncommitted offset, and what the metrics count of it all (RecordRetry,  *)
(* RecordMessage).                                                         *)
(*                                                                         *)
(* Covered: which errors the service and the clients return for an upsert  *)
(* and for a delete, also both failures of a delete joined; what           *)
(* errors.Is and errors.As find in them; cancellation at every step.       *)
(* Not covered: what an attempt wrote (CDCSync), the other messages        *)
(* (ConsumerService); delays are integers, Multiplier is one too.          *)
(***************************************************************************)
EXTENDS Integers, Sequences, FiniteSetsExt

CONSTANTS
  MaxAttempts, InitialBackoff, MaxBackoff, Multiplier   \* retry.Policy

\* Policy.Validate refuses every other policy at start.
ASSUME PolicyAssumption ==
  /\ MaxAttempts \in Nat \ {0} /\ InitialBackoff \in Nat \ {0}
  /\ MaxBackoff \in Nat /\ MaxBackoff >= InitialBackoff
  /\ Multiplier \in Nat \ {0}

VARIABLES
  op,                       \* what the message is: "upsert", "delete",
                            \*   "tombstone" or "unreadable"
  step,                     \* where Do and Process are
  attempt,                  \* tries so far, the current one included
  failures,                 \* the last error: what it joins, in order
  contextErr,               \* Do returned the context's error instead
  cancelled,                \* the handlers' context ended
  waits,                    \* the delays RecordRetry observed, in order
  reason                    \* reason of the dead letter RecordMessage counted

vars == <<op, step, attempt, failures, contextErr, cancelled, waits, reason>>

-----------------------------------------------------------------------------
(* Errors.  One comes from a store, from the embedder or from the event    *)
(* itself, and its cause says which types errors.As and which sentinels    *)
(* errors.Is find in it.                                                   *)
Failure(from, cause) == [from |-> from, cause |-> cause]

StoreCauses == {"no response", "overloaded", "rejected", "invalid input"}
KeywordFailures  == {Failure("opensearch", c) : c \in StoreCauses}
VectorFailures   == {Failure("qdrant", c) : c \in StoreCauses}
\* "deadline": the provider's own timeout; "no response" and "refused": its
\* connection timed out, or was refused, reset or closed.
EmbedderFailures == {Failure("embedder", c) : c \in
  {"deadline", "no response", "refused", "overloaded", "rejected", "invalid input", "bad answer"}}
EventFailures    == {Failure("event", "invalid input")}

\* An upsert stops at the first failure; a delete asks both stores and joins.
Errors(operation) ==
  IF operation = "delete"
  THEN {<<f>> : f \in KeywordFailures \cup VectorFailures}
         \cup (KeywordFailures \X VectorFailures)
  ELSE {<<f>> : f \in KeywordFailures \cup VectorFailures \cup EmbedderFailures
                        \cup EventFailures}

\* What Temporary() answers where an error has it.  A failed connection wraps
\* a net.Error, which has it too, and a refused one is not temporary.
SaysTemporary(f) == f.cause \in {"no response", "overloaded", "deadline"}
SaysFinal(f)     == f.cause \in {"rejected", "refused"}

\* The store or provider is down, slow or overloaded: nothing is wrong with the event.
Outage(f) == SaysTemporary(f) \/ f.cause = "refused"

\* classifyStore, and classifyChange's own case for a malformed event.
Permanent(f) == f.cause \in {"rejected", "invalid input"}

\* classifyChange marks an error that would fail again in all its parts.
MarkedPermanent(err) == \A i \in DOMAIN err : Permanent(err[i])

\* Mutant of ClassifyError: the mark is not looked at.
ClassifyByTemporary(err) ==
  IF \E i \in DOMAIN err : SaysTemporary(err[i]) THEN "retryable"
  ELSE IF \E i \in DOMAIN err : SaysFinal(err[i]) THEN "non_retryable" ELSE "unknown"

\* ClassifyError: the mark first, then the first Temporary() in the tree.
ClassifyError(err) ==
  LET speaking == {i \in DOMAIN err : SaysTemporary(err[i]) \/ SaysFinal(err[i])}
  IN IF MarkedPermanent(err) THEN "non_retryable"
     ELSE IF speaking = {} THEN "unknown"
     ELSE IF SaysTemporary(err[Min(speaking)]) THEN "retryable" ELSE "non_retryable"

\* IsCancellation finds a deadline in the error, whosever deadline it was.
IsCancellation(err) == \E i \in DOMAIN err : err[i].cause = "deadline"

\* math.Pow(Multiplier, n).
Growth[n \in Nat] == IF n = 0 THEN 1 ELSE Multiplier * Growth[n - 1]

\* Policy.Backoff.
Backoff(n) == Min({InitialBackoff * Growth[n - 1], MaxBackoff})

-----------------------------------------------------------------------------
Init == /\ op \in {"upsert", "delete", "tombstone", "unreadable"}
        /\ step = "decoding" /\ attempt = 0
        /\ failures = <<>> /\ contextErr = FALSE /\ cancelled = FALSE
        /\ waits = <<>> /\ reason = "none"

\* How Process ends: each is one outcome of the report, "left" the outcome
\* cancelled and "stopped" the outcome failed.
Finals == {"skipped", "indexed", "dead-lettered", "left", "stopped"}

(* The handlers' context ends.                                             *)
Cancel ==
  /\ step \notin Finals /\ ~cancelled
  /\ cancelled' = TRUE
  /\ UNCHANGED <<op, step, attempt, failures, contextErr, waits, reason>>

(* A tombstone is skipped, a message that cannot be parsed is dead-letter  *)
(* material without a try, anything else is tried.                         *)
Decode ==
  /\ step = "decoding"
  /\ step' = CASE op = "tombstone"            -> "skipped"
              [] op = "unreadable"           -> "publishing"
              [] op \in {"upsert", "delete"} -> "trying"
  /\ failures' = IF op = "unreadable" THEN <<Failure("event", "invalid input")>> ELSE <<>>
  /\ attempt' = IF op \in {"upsert", "delete"} THEN 1 ELSE 0
  /\ UNCHANGED <<op, contextErr, cancelled, waits, reason>>

(* One try succeeds.                                                       *)
Succeed ==
  /\ step = "trying"
  /\ step' = "indexed"
  /\ UNCHANGED <<op, attempt, failures, contextErr, cancelled, waits, reason>>

\* A retry is counted with its delay, before it is waited out.
RecordRetry(d) == waits' = Append(waits, d)

\* Mutants of Fail: one try too few; the retry is reported before the limit
\* is looked at.
FailBeforeLimit(err) ==
  /\ step = "trying"
  /\ failures' = err /\ contextErr' = cancelled
  /\ IF cancelled \/ ClassifyError(err) = "non_retryable" \/ attempt + 1 >= MaxAttempts
     THEN step' = "returned" /\ UNCHANGED waits
     ELSE step' = "waiting" /\ RecordRetry(Backoff(attempt))
  /\ UNCHANGED <<op, attempt, cancelled, reason>>
FailReportsFirst(err) ==
  /\ step = "trying"
  /\ failures' = err /\ contextErr' = cancelled
  /\ IF cancelled \/ ClassifyError(err) = "non_retryable"
     THEN step' = "returned" /\ UNCHANGED waits
     ELSE /\ step' = IF attempt >= MaxAttempts THEN "returned" ELSE "waiting"
          /\ RecordRetry(Backoff(attempt))
  /\ UNCHANGED <<op, attempt, cancelled, reason>>

(* One try fails: Do gives up under an ended context, on an error that is  *)
(* not worth retrying and after the last attempt; else it reports a retry  *)
(* and waits.                                                              *)
Fail(err) ==
  /\ step = "trying"
  /\ failures' = err
  /\ contextErr' = cancelled
  /\ IF cancelled \/ ClassifyError(err) = "non_retryable" \/ attempt >= MaxAttempts
     THEN step' = "returned" /\ UNCHANGED waits
     ELSE step' = "waiting" /\ RecordRetry(Backoff(attempt))
  /\ UNCHANGED <<op, attempt, cancelled, reason>>

(* The timer fires: the next try.                                          *)
BackoffEnds ==
  /\ step = "waiting"
  /\ step' = "trying" /\ attempt' = attempt + 1
  /\ UNCHANGED <<op, failures, contextErr, cancelled, waits, reason>>

(* The context ends during the wait.                                       *)
BackoffCancelled ==
  /\ step = "waiting" /\ cancelled
  /\ step' = "returned" /\ contextErr' = TRUE
  /\ UNCHANGED <<op, attempt, failures, cancelled, waits, reason>>

\* Mutant of Decide: a deadline is a cancellation, whosever it was.
DecideByErrorAlone ==
  /\ step = "returned"
  /\ step' = IF contextErr \/ IsCancellation(failures) THEN "left" ELSE "publishing"
  /\ UNCHANGED <<op, attempt, failures, contextErr, cancelled, waits, reason>>

(* Process looks at Do's error and at the context: a shutdown leaves the   *)
(* offset uncommitted, anything else goes to the dead-letter topic.        *)
Decide ==
  /\ step = "returned"
  /\ step' = IF (contextErr \/ IsCancellation(failures)) /\ cancelled
             THEN "left" ELSE "publishing"
  /\ UNCHANGED <<op, attempt, failures, contextErr, cancelled, waits, reason>>

\* deadLetterReason, by the kind of the last error.
DeadLetterReason == IF ClassifyError(failures) = "non_retryable"
                    THEN "non_retryable" ELSE "retry_exhausted"

(* The dead-letter topic takes the message, or the publish fails: under an *)
(* ended context the offset is left, otherwise consumption stops.          *)
Publish ==
  /\ step = "publishing"
  /\ \/ step' = "dead-lettered" /\ reason' = DeadLetterReason
     \/ step' = (IF cancelled THEN "left" ELSE "stopped") /\ UNCHANGED reason
  /\ UNCHANGED <<op, attempt, failures, contextErr, cancelled, waits>>

Next == \/ Cancel \/ Decode \/ Succeed \/ BackoffEnds \/ BackoffCancelled \/ Decide \/ Publish
        \/ \E err \in Errors(op) : Fail(err)

Spec == Init /\ [][Next]_vars

-----------------------------------------------------------------------------
(* What the metrics say of retries is what happened: a retry is counted    *)
(* for each try after the first and for no other, "retry_exhausted" means  *)
(* that every attempt was spent, and the observed delays never shrink and  *)
(* stay between the configured bounds (RecordRetry; RecordMessage, metrics/*)
(* indexing.go:42-46; Backoff, retry.go:87-91).  Only a message that a     *)
(* shutdown took out of its wait has one retry too many counted.           *)
RetriesMeasuredAsMade ==
  /\ step \in Finals \ {"left"} => Len(waits) = (IF attempt = 0 THEN 0 ELSE attempt - 1)
  /\ reason = "retry_exhausted" => attempt = MaxAttempts
  /\ \A i \in DOMAIN waits : /\ InitialBackoff <= waits[i] /\ waits[i] <= MaxBackoff
                             /\ i > 1 => waits[i - 1] <= waits[i]

(* Only a shutdown leaves an event neither indexed nor dead-lettered while *)
(* consumption goes on: the timeout of one embedding request looks like a  *)
(* cancellation and is not taken for one, which would hold back every      *)
(* later commit of the partition (Process, pipeline.go:202).               *)
LeftOnlyByShutdown == step = "left" => cancelled

(* An outage costs no event while it may still pass: one whose last try    *)
(* failed only because stores or the provider were down, slow or           *)
(* overloaded, both stores of a delete included, is not given up before    *)
(* every attempt is used (README on failures; classifyChange).  Only an    *)
(* embedder that refuses the connection is excepted: its error says that   *)
(* it is not temporary, and the event is dead-lettered at once, although   *)
(* README.md:244 and indexer.go:141-142 count it as retried.               *)
OutagesUseEveryAttempt ==
  step \in {"publishing", "dead-lettered"} /\ failures # <<>>
      /\ (\A i \in DOMAIN failures : Outage(failures[i]))
    => attempt = MaxAttempts \/ \E i \in DOMAIN failures : failures[i].cause = "refused"

(* What every part of an error declares hopeless is not tried again, also  *)
(* when both stores of a delete refuse (classifyChange).                   *)
HopelessIsNotRetried ==
  [][BackoffEnds => \E i \in DOMAIN failures : ~Permanent(failures[i])]_vars
=============================================================================
