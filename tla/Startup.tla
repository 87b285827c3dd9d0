------------------------------ MODULE Startup ------------------------------
(***************************************************************************)
(* Consumers starting at once against stores that may not be there yet:    *)
(* startup.Retry (internal/startup/startup.go), the order of dependencies  *)
(* in cmd/consumer, EnsureIndex (internal/search/opensearch/index.go) and  *)
(* EnsureCollection (internal/search/qdrant/collection.go).                *)
(*                                                                         *)
(* Covered: every call as a step of its own, answers, failures before and  *)
(* after the effect, calls that hang, the timeout of an attempt, the       *)
(* deadline of the start, backoff, instances with different environments,  *)
(* crashes and restarts.                                                   *)
(* Not covered: deletion of an index by an operator, mappings, distances   *)
(* (a collection that does not fit is one of another size), a stuck read   *)
(* of the topic that ends by itself after all, logging.                    *)
(***************************************************************************)
EXTENDS Configuration, Sequences

CONSTANTS
  Instances,
  Stages,                   \* dependencies in the order main awaits them
  Environments,             \* [name -> environment], those instances may be started in
  InitialDelay, MaxDelay,   \* backoff of startup.Retry
  MaxFaults                 \* bound on failed or hanging calls, crashes, early deadlines

\* The consumer's; cmd/api awaits its own with a single call each.
Dependencies == {"index", "collection", "embedding", "kafka"}

ASSUME StartupAssumption ==
  /\ Stages \in Seq(Dependencies) /\ Stages # <<>>
  /\ InitialDelay \in Nat \ {0} /\ MaxDelay \in Nat /\ InitialDelay <= MaxDelay
  /\ MaxFaults \in Nat

VARIABLES
  environment,              \* [instance -> name of its environment]
  size,                     \* [instance -> QDRANT_VECTOR_SIZE as loaded, 0 for none]
  dimension,                \* [instance -> EMBEDDING_DIMENSION, its provider's]
  stage,                    \* [instance -> dependency main waits for]
  step,                     \* [instance -> its step, see Steps]
  call,                     \* [instance -> its attempt: "live", "hung", "expired", or "stuck"
                            \*   in a call that knows of no context]
  delay,                    \* [instance -> next wait of Retry]
  ended,                    \* [instance -> the start's context has ended]
  index,                    \* the OpenSearch index exists
  collection,               \* vector size of the Qdrant collection, 0 for none
  faults

stores == <<index, collection>>
config == <<environment, size, dimension>>
vars == <<config, stage, step, call, delay, ended, stores, faults>>

Calls == {"exists", "create", "recheck", "info", "dial", "topic"}
Steps == Calls \cup {"loading", "attempt", "failed", "waiting", "running", "exited"}
Absent == 0

NotLoaded == 0

Init == /\ environment \in [Instances -> DOMAIN Environments]
        /\ size = [i \in Instances |-> NotLoaded]
        /\ dimension = [i \in Instances |-> NotLoaded]
        /\ stage = [i \in Instances |-> 1]
        /\ step = [i \in Instances |-> "loading"]
        /\ call = [i \in Instances |-> "live"]
        /\ delay = [i \in Instances |-> InitialDelay]
        /\ ended = [i \in Instances |-> FALSE]
        /\ index = FALSE /\ collection = Absent
        /\ faults = 0

Fault == faults < MaxFaults /\ faults' = faults + 1

Awaits(i) == Stages[stage[i]]
Starting(i) == step[i] \notin {"running", "exited"}
Present(i) == IF Awaits(i) = "index" THEN index ELSE collection # Absent

\* What a create request does when it arrives: nothing if there is one already.
Create(i) ==
  IF Awaits(i) = "index"
  THEN index' = TRUE /\ UNCHANGED collection
  ELSE collection' = (IF collection = Absent THEN size[i] ELSE collection) /\ UNCHANGED index

Goto(i, s) == step' = [step EXCEPT ![i] = s] /\ UNCHANGED <<stage, delay>>

\* The dependency is ready: main turns to the next one, or begins its work.
Ready(i) ==
  /\ stage' = [stage EXCEPT ![i] = IF @ = Len(Stages) THEN 1 ELSE @ + 1]
  /\ step' = [step EXCEPT ![i] = IF stage[i] = Len(Stages) THEN "running" ELSE "attempt"]
  /\ delay' = [delay EXCEPT ![i] = InitialDelay]

-----------------------------------------------------------------------------
(* main reads its environment, and exits if Load refuses it.               *)
LoadConfig(i) ==
  /\ step[i] = "loading"
  /\ LET loaded == Load(Environments[environment[i]])
     IN IF loaded.problems # {}
        THEN Goto(i, "exited") /\ UNCHANGED <<size, dimension>>
        ELSE /\ Goto(i, "attempt")
             /\ size' = [size EXCEPT ![i] = loaded.values["QDRANT_VECTOR_SIZE"]]
             /\ dimension' = [dimension EXCEPT ![i] = loaded.values["EMBEDDING_DIMENSION"]]
  /\ UNCHANGED <<environment, call, ended, stores, faults>>

-----------------------------------------------------------------------------
(* startup.Retry                                                           *)

(* An attempt begins, under a context of its own within the start's.       *)
Attempt(i) ==
  /\ step[i] = "attempt" /\ Awaits(i) # "embedding"
  /\ call' = [call EXCEPT ![i] = IF ended[i] THEN "expired" ELSE "live"]
  /\ Goto(i, IF Awaits(i) = "kafka" THEN "dial" ELSE "exists")
  /\ UNCHANGED <<config, ended, stores, faults>>

\* Mutant of AttemptExpires: an attempt has no timeout but the start's.
AttemptNeverExpires(i) ==
  /\ step[i] \in Calls /\ call[i] = "hung" /\ ended[i]
  /\ call' = [call EXCEPT ![i] = "expired"]
  /\ UNCHANGED <<config, stage, step, delay, ended, stores, faults>>

(* attemptTimeout passes while a call hangs that runs under the attempt's  *)
(* context: it and the rest of the attempt fail.                           *)
AttemptExpires(i) ==
  /\ step[i] \in Calls /\ call[i] = "hung"
  /\ call' = [call EXCEPT ![i] = "expired"]
  /\ UNCHANGED <<config, stage, step, delay, ended, stores, faults>>

(* After a failed attempt, or during the wait: the start's context has     *)
(* ended, Retry returns the error and main exits.                          *)
GivesUp(i) ==
  /\ step[i] \in {"failed", "waiting"} /\ ended[i]
  /\ Goto(i, "exited")
  /\ UNCHANGED <<config, call, ended, stores, faults>>

Waits(i) ==
  /\ step[i] = "failed" /\ ~ended[i]
  /\ Goto(i, "waiting")
  /\ UNCHANGED <<config, call, ended, stores, faults>>

(* The wait is over; the next one is twice as long, up to the cap.         *)
WaitEnds(i) ==
  /\ step[i] = "waiting"
  /\ step' = [step EXCEPT ![i] = "attempt"]
  /\ delay' = [delay EXCEPT ![i] = IF 2 * @ < MaxDelay THEN 2 * @ ELSE MaxDelay]
  /\ UNCHANGED <<config, stage, call, ended, stores, faults>>

-----------------------------------------------------------------------------
(* One attempt: a probe, EnsureIndex or EnsureCollection.                  *)

(* kafka.NewConsumer: checkTopic reaches a broker under the context.       *)
DialAnswers(i) ==
  /\ step[i] = "dial" /\ call[i] = "live"
  /\ Goto(i, "topic")
  /\ UNCHANGED <<config, call, ended, stores, faults>>

(* ReadPartitions finds the topic.  It has neither context nor deadline, so*)
(* its answer counts although the start's context may have ended.          *)
TopicAnswers(i) ==
  /\ step[i] = "topic" /\ call[i] = "live"
  /\ Ready(i)
  /\ UNCHANGED <<config, call, ended, stores, faults>>

\* Where an existing index or collection leads.
Found(i) == IF Awaits(i) = "index" THEN Ready(i) ELSE Goto(i, "info")

ExistsAnswers(i) ==
  /\ step[i] = "exists" /\ call[i] = "live"
  /\ IF Present(i) THEN Found(i) ELSE Goto(i, "create")
  /\ UNCHANGED <<config, call, ended, stores, faults>>

(* The create request makes it, or is refused since another instance has.  *)
CreateAnswers(i) ==
  /\ step[i] = "create" /\ call[i] = "live"
  /\ Create(i)
  /\ IF Present(i) THEN Goto(i, "recheck") ELSE Ready(i)
  /\ UNCHANGED <<config, call, ended, faults>>

\* Mutants of RecheckAnswers: another instance's collection is taken as it is;
\* a refused create is a failure.
RecheckTrusts(i) ==
  /\ step[i] = "recheck" /\ call[i] = "live"
  /\ IF Present(i) THEN Ready(i) ELSE Goto(i, "failed")
  /\ UNCHANGED <<config, call, ended, stores, faults>>
RecheckFails(i) ==
  /\ step[i] = "recheck" /\ call[i] = "live"
  /\ Goto(i, "failed")
  /\ UNCHANGED <<config, call, ended, stores, faults>>

(* The create failed: another instance may have been first.                *)
RecheckAnswers(i) ==
  /\ step[i] = "recheck" /\ call[i] = "live"
  /\ IF Present(i) THEN Found(i) ELSE Goto(i, "failed")
  /\ UNCHANGED <<config, call, ended, stores, faults>>

(* checkVectorParams compares the collection with the configuration.       *)
InfoAnswers(i) ==
  /\ step[i] = "info" /\ call[i] = "live"
  /\ IF collection = size[i] THEN Ready(i) ELSE Goto(i, "failed")
  /\ UNCHANGED <<config, call, ended, stores, faults>>

(* A call fails, at once or since its context ended.  A create may have    *)
(* taken effect; it is followed by the second look, under the same context.*)
CallFails(i) ==
  /\ step[i] \in Calls
  /\ \/ call[i] = "live" /\ Fault
     \/ call[i] = "expired" /\ UNCHANGED faults
  /\ \/ call[i] = "live" /\ step[i] = "create" /\ Create(i)
     \/ UNCHANGED stores
  /\ Goto(i, IF step[i] = "create" THEN "recheck" ELSE "failed")
  /\ UNCHANGED <<config, call, ended>>

(* A call hangs; a create may have arrived.  Nothing ends a hanging read of*)
(* the topic.                                                              *)
Hang(i) ==
  /\ step[i] \in Calls /\ call[i] = "live"
  /\ Fault
  /\ call' = [call EXCEPT ![i] = IF step[i] = "topic" THEN "stuck" ELSE "hung"]
  /\ (step[i] = "create" /\ Create(i)) \/ UNCHANGED stores
  /\ UNCHANGED <<config, stage, step, delay, ended>>

\* What embedding.New and main refuse, which Load let through: a provider that
\* is unknown or has no key, the fake one in production.
Refused(e) ==
  LET provider == Name(e, "EMBEDDING_PROVIDER")
  IN \/ provider \notin {"gemini", "fake"}
     \/ provider = "gemini" /\ Name(e, "EMBEDDING_API_KEY") = ""
     \/ provider = "fake" /\ Name(e, "APP_ENV") = "production"

(* embedding.New contacts nobody and is not retried; a provider that is    *)
(* refused ends the process, as would one whose vectors have another length*)
(* than the collection's, had Load let it.                                 *)
CheckEmbedder(i) ==
  /\ step[i] = "attempt" /\ Awaits(i) = "embedding"
  /\ IF Refused(Environments[environment[i]]) \/ dimension[i] # size[i]
     THEN Goto(i, "exited") ELSE Ready(i)
  /\ UNCHANGED <<config, call, ended, stores, faults>>

-----------------------------------------------------------------------------
(* The surroundings.                                                       *)

\* A collection of another size is there: no attempt of i can succeed.
Misfit(i) == collection \notin {Absent, size[i]} /\ size[i] # NotLoaded

(* StartupTimeout passes, or a signal comes: what is called now fails, but *)
(* for a read of the topic, and a create under way may arrive.  Before an  *)
(* instance that could start has done so, this counts as a fault.          *)
StartEnds(i) ==
  /\ Starting(i) /\ step[i] # "loading" /\ ~ended[i]
  /\ IF Misfit(i) THEN UNCHANGED faults ELSE Fault
  /\ ended' = [ended EXCEPT ![i] = TRUE]
  /\ call' = [call EXCEPT ![i] = IF step[i] = "topic" THEN @ ELSE "expired"]
  /\ (step[i] = "create" /\ Create(i)) \/ UNCHANGED stores
  /\ UNCHANGED <<config, stage, step, delay>>

(* The process is killed.                                                  *)
Crash(i) ==
  /\ step[i] # "exited"
  /\ Fault
  /\ step' = [step EXCEPT ![i] = "exited"]
  /\ UNCHANGED <<config, stage, call, delay, ended, stores>>

(* The supervisor starts an exited process again.                          *)
Restart(i) ==
  /\ step[i] = "exited"
  /\ size' = [size EXCEPT ![i] = NotLoaded]
  /\ dimension' = [dimension EXCEPT ![i] = NotLoaded]
  /\ stage' = [stage EXCEPT ![i] = 1]
  /\ step' = [step EXCEPT ![i] = "loading"]
  /\ call' = [call EXCEPT ![i] = "live"]
  /\ delay' = [delay EXCEPT ![i] = InitialDelay]
  /\ ended' = [ended EXCEPT ![i] = FALSE]
  /\ UNCHANGED <<environment, stores, faults>>

Progress(i) ==
  \/ LoadConfig(i) \/ Attempt(i) \/ AttemptExpires(i) \/ GivesUp(i) \/ Waits(i) \/ WaitEnds(i)
  \/ DialAnswers(i) \/ TopicAnswers(i) \/ ExistsAnswers(i) \/ CreateAnswers(i) \/ RecheckAnswers(i)
  \/ InfoAnswers(i) \/ CallFails(i) \/ CheckEmbedder(i) \/ Restart(i)

Next == \E i \in Instances : Progress(i) \/ Hang(i) \/ StartEnds(i) \/ Crash(i)

Spec == Init /\ [][Next]_vars

\* A call that does not hang is answered, timers fire, an exited process is
\* restarted.
FairSpec == Spec /\ \A i \in Instances : WF_vars(Progress(i))

-----------------------------------------------------------------------------
(* A consumer at work has an index to write to and a collection that takes *)
(* the vectors its provider makes, whoever created it, in whatever order   *)
(* instances of different configuration came (EnsureCollection,            *)
(* collection.go:16-21, and cmd/consumer/main.go:109-114).                 *)
RunningFits ==
  \A i \in Instances : step[i] = "running" =>
    index /\ collection = dimension[i]

(* Losing the race to create is no failure: while nothing went wrong, the  *)
(* only attempt ever repeated is one that found a collection of another    *)
(* size ("Another instance may have created ... between the two calls").   *)
LosingTheRaceIsNoFailure ==
  \A i \in Instances : step[i] = "waiting" /\ faults = 0 => Misfit(i)

(* An instance whose settings Load accepts, whose provider main accepts and*)
(* whose size the collection has, runs in the end, whatever failed, hung or*)
(* raced before: a hanging call costs an attempt, not the start            *)
(* (startup.go:20-22).  The exception is a read of the topic that hangs:   *)
(* it has no context (checkTopic, consumer.go:211), and the start waits    *)
(* with it.                                                                *)
EventuallyRuns ==
  \A i \in Instances :
    <>[](\/ step[i] = "running" \/ call[i] = "stuck"
         \/ size[i] = NotLoaded \/ Refused(Environments[environment[i]]) \/ Misfit(i))
=============================================================================
