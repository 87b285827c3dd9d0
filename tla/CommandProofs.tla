--------------------------- MODULE CommandProofs ---------------------------
(***************************************************************************)
(* Proofs about two commands and the stack they find: the consumers that   *)
(* start against it (Startup) and the load generator that measures it      *)
(* (LoadTest). The first part is about Startup, the second about LoadTest; *)
(* neither uses the other.                                                 *)
(*                                                                         *)
(* Startup, for every number of instances, every list of dependencies,     *)
(* every set of environments and any number of faults. What exists in the  *)
(* stores stays: an index is never taken away, and the first collection    *)
(* keeps its size. So what an instance found or made on its way holds when *)
(* it runs, whatever others do meanwhile. And until something failed, only *)
(* a collection of another size stops an instance.                         *)
(*                                                                         *)
(* LoadTest, for every sequence of invocations, number of documents, size  *)
(* of a batch, number of partitions and failures. The run of an invocation *)
(* is its own: nobody wrote a document of a new run, so each has one event *)
(* and can only be indexed in its row's version. That makes right what the *)
(* watcher saw a while ago, and makes the growth of the counts the run's.  *)
(***************************************************************************)
EXTENDS Startup, LoadTest, SequenceTheorems, FiniteSetTheorems, FunctionTheorems,
        WellFoundedInduction, TLAPS

(* First part: consumers that start.                                       *)

Typed == /\ DOMAIN size = Instances /\ DOMAIN dimension = Instances
         /\ stage \in [Instances -> 1 .. Len(Stages)]
         /\ step \in [Instances -> Steps]
         /\ call \in [Instances -> {"live", "hung", "expired", "stuck"}]
         /\ ended \in [Instances -> BOOLEAN]
         /\ faults \in Nat

(* Sizes are read once, and Load has compared them.                        *)
Loaded(i) ==
  /\ step[i] = "loading" => size[i] = NotLoaded /\ stage[i] = 1
  /\ step[i] \notin {"loading", "exited"} \/ stage[i] > 1 =>
       size[i] # NotLoaded /\ dimension[i] = size[i]

(* The dependencies behind an instance are as it needs them.               *)
Settled(i, n) == /\ Stages[n] = "index" => index
                 /\ Stages[n] = "collection" => collection = size[i]
Provided(i) ==
  \A n \in 1 .. Len(Stages) : step[i] = "running" \/ n < stage[i] => Settled(i, n)

(* Which dependency a call is about.                                       *)
Asking(i) ==
  /\ step[i] \in {"exists", "create", "recheck"} => Awaits(i) \in {"index", "collection"}
  /\ step[i] = "info" => Awaits(i) = "collection" /\ collection # Absent
  /\ step[i] \in {"dial", "topic"} => Awaits(i) = "kafka"

(* Nothing fails, hangs or ends without a fault or a misfit.               *)
Excused(i) == faults > 0 \/ Misfit(i)
Smooth(i) ==
  /\ step[i] \in {"failed", "waiting"} => Excused(i)
  /\ ended[i] \/ call[i] # "live" => Excused(i)
  /\ step[i] = "recheck" => Excused(i) \/ Present(i)

Consistent(i) == Loaded(i) /\ Provided(i) /\ Asking(i) /\ Smooth(i)
IndInv == Typed /\ \A i \in Instances : Consistent(i)

-----------------------------------------------------------------------------
(* What Load accepts has one vector size, and it is not 0.                 *)
LEMMA LoadCompares ==
  ASSUME NEW e, Load(e).problems = {}
  PROVE  /\ Load(e).values["QDRANT_VECTOR_SIZE"] # NotLoaded
         /\ Load(e).values["EMBEDDING_DIMENSION"] = Load(e).values["QDRANT_VECTOR_SIZE"]
<1> DEFINE v == Values(e)
<1>1. Load(e).problems = Problems(e) /\ Load(e).values = v
  BY DEF Load
<1>2. Problems(e) = {}
  BY <1>1
<1>3. OutOfRange(e, v) = {} /\ Contradictory(v) = {}
  BY <1>2, Zenon DEF Problems
<1> HIDE DEF v
<1>4. ~ (v["QDRANT_VECTOR_SIZE"] <= 0)
  <2> DEFINE Low == {k \in Positive \cup {"QDRANT_VECTOR_SIZE"} : v[k] <= 0}
             Conns == {k \in {"DATABASE_MIN_CONNS"} : v[k] < 0}
             Port == {k \in {"HTTP_PORT"} : v[k] \notin 1 .. 65535}
             Multiplier == {k \in {"KAFKA_RETRY_MULTIPLIER"} : v[k] < 1 \/ e[k] = NotFinite}
             Path == {k \in {"METRICS_PATH"} : v["METRICS_ENABLED"] = 1 /\ e[k] = Malformed}
             URLs == BadURLs(e, {"OPENSEARCH_URL"})
  <2>1. OutOfRange(e, v) = Low \cup Conns \cup Port \cup Multiplier \cup Path \cup URLs
    BY SMT DEF OutOfRange
  <2>2. v["QDRANT_VECTOR_SIZE"] <= 0 => "QDRANT_VECTOR_SIZE" \in Low
    OBVIOUS
  <2> HIDE DEF Low, Conns, Port, Multiplier, Path, URLs
  <2> QED
    BY <1>3, <2>1, <2>2
<1>5. v["QDRANT_VECTOR_SIZE"] = v["EMBEDDING_DIMENSION"]
  BY <1>3, Zenon DEF Contradictory
<1>6. v["QDRANT_VECTOR_SIZE"] # 0
  BY <1>4
<1> QED
  BY <1>1, <1>5, <1>6 DEF NotLoaded

(* Nothing is ready at first.                                              *)
LEMMA InitEstablishes == Init => IndInv
<1> SUFFICES ASSUME Init PROVE IndInv
  OBVIOUS
<1> USE StartupAssumption DEF Init
<1>0. Len(Stages) \in Nat \ {0}
  BY LenProperties, EmptySeq
<1>1. Typed
  BY <1>0 DEF Typed, Steps, Calls
<1>2. ASSUME NEW i \in Instances PROVE Consistent(i)
  <2>1. Loaded(i)
    BY DEF Loaded
  <2>2. Provided(i)
    BY <1>0 DEF Provided
  <2>3. Asking(i) /\ Smooth(i)
    BY DEF Asking, Smooth
  <2> QED
    BY <2>1, <2>2, <2>3 DEF Consistent
<1> QED
  BY <1>1, <1>2 DEF IndInv

(* The stores and the count of faults only grow.                           *)
Grows == /\ index => index'
         /\ collection # Absent => collection' = collection
         /\ faults \in Nat /\ faults' \in Nat /\ faults <= faults'

(* What an instance left behind stays as it needs it.                      *)
LEMMA SettledStays ==
  ASSUME NEW j, NEW n, Grows, Settled(j, n), size[j] # NotLoaded, size'[j] = size[j]
  PROVE  Settled(j, n)'
<1>1. Stages[n] = "index" => index'
  BY Zenon DEF Settled, Grows
<1>2. Stages[n] = "collection" => collection' = size'[j]
  BY DEF Settled, Grows, Absent, NotLoaded
<1> QED
  BY <1>1, <1>2, Zenon DEF Settled

(* An instance that takes no step stays sound: what it rests on stays.     *)
LEMMA OthersStay ==
  ASSUME Typed, NEW j \in Instances, Consistent(j), Grows,
         size'[j] = size[j], dimension'[j] = dimension[j], stage'[j] = stage[j],
         step'[j] = step[j], call'[j] = call[j], ended'[j] = ended[j]
  PROVE  Consistent(j)'
<1> USE DEF Absent, NotLoaded
<1>a. Loaded(j) /\ Provided(j) /\ Asking(j) /\ Smooth(j)
  BY DEF Consistent
<1>b. Excused(j) => Excused(j)'
  BY DEF Excused, Misfit, Grows
<1>1. Loaded(j)'
  BY <1>a DEF Loaded
<1>2. Provided(j)'
  <2> SUFFICES ASSUME NEW n \in 1 .. Len(Stages), step[j] = "running" \/ n < stage[j]
               PROVE  Settled(j, n)'
    BY DEF Provided
  <2>1. Settled(j, n)
    BY <1>a DEF Provided
  <2>2. size[j] # NotLoaded
    BY <1>a DEF Loaded, Typed
  <2> QED
    BY <2>1, <2>2, SettledStays
<1>3. Asking(j)'
  BY <1>a DEF Asking, Awaits, Grows
<1>4. Present(j) => Present(j)'
  BY DEF Present, Awaits, Grows
<1>5. Smooth(j)'
  BY <1>a, <1>b, <1>4 DEF Smooth
<1> QED
  BY <1>1, <1>2, <1>3, <1>5 DEF Consistent

(* So does one that goes on with its present dependency, or ends.          *)
LEMMA GoingOnKeeps ==
  ASSUME IndInv, Grows, NEW i \in Instances, NEW s \in Steps \ {"running", "loading"},
         s = "exited" \/ step[i] \notin {"loading", "exited"},
         step' = [step EXCEPT ![i] = s],
         UNCHANGED <<size, dimension, stage>>,
         NEW x \in {"live", "hung", "expired", "stuck"}, call' = [call EXCEPT ![i] = x],
         NEW y \in BOOLEAN, ended' = [ended EXCEPT ![i] = y],
         s \in {"exists", "create", "recheck"} => Awaits(i) \in {"index", "collection"},
         s = "info" => Awaits(i) = "collection" /\ collection # Absent,
         s \in {"dial", "topic"} => Awaits(i) = "kafka",
         s \in {"failed", "waiting"} \/ y \/ x # "live" => Excused(i)',
         s = "recheck" => Excused(i)' \/ Present(i)'
  PROVE  IndInv'
<1> USE DEF Absent, NotLoaded
<1>a. Typed /\ Consistent(i)
  BY DEF IndInv
<1>b. Loaded(i) /\ Provided(i) /\ Asking(i)
  BY <1>a DEF Consistent
<1>c. step'[i] = s /\ call'[i] = x /\ ended'[i] = y
  BY <1>a DEF Typed
<1>1. Typed'
  BY <1>a DEF Typed, Grows
<1>2. ASSUME NEW j \in Instances, j # i PROVE Consistent(j)'
  <2>1. /\ size'[j] = size[j] /\ dimension'[j] = dimension[j] /\ stage'[j] = stage[j]
        /\ step'[j] = step[j] /\ call'[j] = call[j] /\ ended'[j] = ended[j]
    BY <1>a, <1>2 DEF Typed
  <2>2. Consistent(j)
    BY DEF IndInv
  <2> QED
    BY <1>a, <2>1, <2>2, OthersStay
<1>3. Loaded(i)'
  BY <1>b, <1>c DEF Loaded
<1>4. Provided(i)'
  <2> SUFFICES ASSUME NEW n \in 1 .. Len(Stages), n < stage[i]
               PROVE  Settled(i, n)'
    BY <1>c DEF Provided
  <2>1. Settled(i, n)
    BY <1>b DEF Provided
  <2>2. size[i] # NotLoaded
    BY <1>a, <1>b DEF Loaded, Typed
  <2> QED
    BY <2>1, <2>2, SettledStays
<1>5. Asking(i)'
  BY <1>c DEF Asking, Awaits, Grows
<1>6. Smooth(i)'
  BY <1>c DEF Smooth
<1>7. Consistent(i)'
  BY <1>3, <1>4, <1>5, <1>6 DEF Consistent
<1> QED
  BY <1>1, <1>2, <1>7 DEF IndInv

(* And one that leaves its dependency behind as it needs it.               *)
LEMMA ReadyKeeps ==
  ASSUME IndInv, Grows, NEW i \in Instances, Ready(i),
         step[i] \notin {"loading", "exited"}, NEW p \in 1 .. Len(Stages), p = stage[i], Settled(i, p)',
         UNCHANGED <<size, dimension, call, ended>>
  PROVE  IndInv'
<1> USE DEF Absent, NotLoaded
<1>a. Typed /\ Consistent(i)
  BY DEF IndInv
<1>b. Loaded(i) /\ Provided(i) /\ Asking(i) /\ Smooth(i)
  BY <1>a DEF Consistent
<1>c. Len(Stages) \in Nat \ {0}
  BY StartupAssumption, LenProperties, EmptySeq
<1>d. /\ stage'[i] = IF stage[i] = Len(Stages) THEN 1 ELSE stage[i] + 1
      /\ step'[i] = IF stage[i] = Len(Stages) THEN "running" ELSE "attempt"
  BY <1>a DEF Typed, Ready
<1>1. Typed'
  BY <1>a, <1>c DEF Typed, Grows, Ready, Steps
<1>2. ASSUME NEW j \in Instances, j # i PROVE Consistent(j)'
  <2>1. stage'[j] = stage[j] /\ step'[j] = step[j]
    BY <1>a, <1>2 DEF Typed, Ready
  <2>2. Consistent(j)
    BY DEF IndInv
  <2> QED
    BY <1>a, <2>1, <2>2, OthersStay
<1>3. Loaded(i)'
  BY <1>b, <1>d DEF Loaded
<1>4. Provided(i)'
  <2> SUFFICES ASSUME NEW n \in 1 .. Len(Stages), step'[i] = "running" \/ n < stage'[i]
               PROVE  Settled(i, n)'
    BY DEF Provided
  <2>1. stage[i] \in 1 .. Len(Stages) /\ n <= stage[i]
    BY <1>a, <1>c, <1>d DEF Typed
  <2>2. CASE n = stage[i]
    BY <2>2
  <2>3. CASE n < stage[i]
    <3>1. Settled(i, n)
      BY <1>b, <2>3 DEF Provided
    <3>2. size[i] # NotLoaded
      BY <1>b, <2>1, <2>3 DEF Loaded
    <3> QED
      BY <3>1, <3>2, SettledStays
  <2> QED
    BY <1>c, <2>1, <2>2, <2>3
<1>5. Asking(i)'
  BY <1>d DEF Asking
<1>6. Excused(i) => Excused(i)'
  BY DEF Excused, Misfit, Grows
<1>7. Smooth(i)'
  BY <1>b, <1>d, <1>6 DEF Smooth
<1>8. Consistent(i)'
  BY <1>3, <1>4, <1>5, <1>7 DEF Consistent
<1> QED
  BY <1>1, <1>2, <1>8 DEF IndInv

(* Each step of an instance keeps every instance sound.                    *)
LEMMA ActionKeeps ==
  ASSUME IndInv, NEW i \in Instances, Progress(i) \/ Hang(i) \/ StartEnds(i) \/ Crash(i)
  PROVE  IndInv'
<1> USE DEF config, stores, Absent, NotLoaded
<1>a. Typed /\ Consistent(i)
  BY DEF IndInv
<1>b. Loaded(i) /\ Provided(i) /\ Asking(i) /\ Smooth(i)
  BY <1>a DEF Consistent
<1>c. stage[i] \in 1 .. Len(Stages) /\ faults \in Nat /\ step[i] \in Steps
  BY <1>a DEF Typed
<1>d. Awaits(i) \in Dependencies
  BY <1>c, StartupAssumption, ElementOfSeq DEF Awaits
<1>e. ASSUME Grows, size'[i] = size[i] PROVE Excused(i) => Excused(i)'
  BY <1>e DEF Grows, Excused, Misfit
<1>f. ASSUME UNCHANGED <<stores, faults>> PROVE Grows
  BY <1>c, <1>f DEF Grows
<1>g. ASSUME Create(i), faults' \in Nat, faults <= faults' PROVE Grows
  <2>1. index => index'
    BY <1>g, Zenon DEF Create
  <2>2. collection # Absent => collection' = collection
    BY <1>g DEF Create
  <2> QED
    BY <1>c, <1>g, <2>1, <2>2 DEF Grows
<1>h. /\ step = [step EXCEPT ![i] = step[i]] /\ call = [call EXCEPT ![i] = call[i]]
      /\ ended = [ended EXCEPT ![i] = ended[i]]
      /\ call[i] \in {"live", "hung", "expired", "stuck"} /\ ended[i] \in BOOLEAN
  BY <1>a DEF Typed
<1>k. ASSUME Grows, NEW s \in Steps \ {"running", "loading"},
             s = "exited" \/ step[i] \notin {"loading", "exited"},
             step' = [step EXCEPT ![i] = s],
             UNCHANGED <<size, dimension, stage, call, ended>>,
             s \in {"exists", "create", "recheck"} => Awaits(i) \in {"index", "collection"},
             s = "info" => Awaits(i) = "collection" /\ collection # Absent,
             s \in {"dial", "topic"} => Awaits(i) = "kafka",
             s \in {"failed", "waiting"} => Excused(i)',
             s = "recheck" => Excused(i)' \/ Present(i)'
      PROVE  IndInv'
  <2>1. ended[i] \/ call[i] # "live" => Excused(i)'
    BY <1>b, <1>e, <1>k DEF Smooth
  <2>2. PICK x \in {"live", "hung", "expired", "stuck"} : x = call[i]
    BY <1>h
  <2>3. PICK y \in BOOLEAN : y = ended[i]
    BY <1>h, Zenon
  <2>4. call' = [call EXCEPT ![i] = x]
    BY <1>h, <1>k, <2>2
  <2>5. ended' = [ended EXCEPT ![i] = y]
    BY <1>h, <1>k, <2>3, Zenon
  <2>6. y \/ x # "live" => Excused(i)'
    BY <2>1, <2>2, <2>3, Zenon
  <2> QED
    BY <1>k, <2>4, <2>5, <2>6, GoingOnKeeps
<1>l. ASSUME Grows, Ready(i), step[i] \notin {"loading", "exited"},
             Awaits(i) = "index" => index', Awaits(i) = "collection" => collection' = size'[i],
             UNCHANGED <<size, dimension, call, ended>>
      PROVE  IndInv'
  <2>1. PICK p \in 1 .. Len(Stages) : p = stage[i]
    BY <1>c
  <2>2. Settled(i, p)'
    BY <1>l, <2>1, Zenon DEF Settled, Awaits
  <2> QED
    BY <1>l, <2>1, <2>2, ReadyKeeps
<1>1. CASE LoadConfig(i)
  <2> DEFINE loaded == Load(Environments[environment[i]])
  <2>a. step[i] = "loading" /\ Grows
    BY <1>1, <1>f DEF LoadConfig
  <2>1. CASE loaded.problems # {}
    <3>1. step' = [step EXCEPT ![i] = "exited"] /\ UNCHANGED <<size, dimension, stage, call, ended>>
      BY <1>1, <2>1 DEF LoadConfig, Goto
    <3> QED
      BY <1>k, <2>a, <3>1 DEF Steps
  <2>2. CASE loaded.problems = {}
    <3> DEFINE n == loaded.values["QDRANT_VECTOR_SIZE"]
               d == loaded.values["EMBEDDING_DIMENSION"]
    <3>1. n # NotLoaded /\ d = n
      BY <2>2, LoadCompares
    <3>2. /\ step' = [step EXCEPT ![i] = "attempt"]
          /\ size' = [size EXCEPT ![i] = n] /\ dimension' = [dimension EXCEPT ![i] = d]
          /\ UNCHANGED <<stage, call, ended>>
      BY <1>1, <2>2 DEF LoadConfig, Goto
    <3> HIDE DEF n, d
    <3>3. /\ step'[i] = "attempt" /\ size'[i] = n /\ dimension'[i] = d
          /\ stage[i] = 1 /\ stage'[i] = 1
      BY <1>a, <1>b, <2>a, <3>2 DEF Typed, Loaded
    <3>4. Typed'
      BY <1>a, <2>a, <3>2 DEF Typed, Grows, Steps, Calls
    <3>5. Loaded(i)' /\ Provided(i)' /\ Asking(i)'
      BY <3>1, <3>3 DEF Loaded, Provided, Asking
    <3>6. ended[i] \/ call[i] # "live" => Excused(i)'
      <4>1. size[i] = NotLoaded
        BY <1>b, <2>a DEF Loaded
      <4>2. Excused(i) => faults > 0
        BY <4>1 DEF Excused, Misfit
      <4>3. faults' > 0 => Excused(i)'
        BY DEF Excused
      <4>4. ended[i] \/ call[i] # "live" => faults' > 0
        BY <1>b, <2>a, <4>2 DEF Smooth, Grows
      <4> QED
        BY <4>3, <4>4
    <3>7. Smooth(i)'
      BY <3>2, <3>3, <3>6 DEF Smooth
    <3>8. Consistent(i)'
      BY <3>5, <3>7 DEF Consistent
    <3>9. ASSUME NEW j \in Instances, j # i PROVE Consistent(j)'
      <4>1. /\ size'[j] = size[j] /\ dimension'[j] = dimension[j] /\ stage'[j] = stage[j]
            /\ step'[j] = step[j] /\ call'[j] = call[j] /\ ended'[j] = ended[j]
        BY <1>a, <3>2, <3>9 DEF Typed
      <4>2. Consistent(j)
        BY DEF IndInv
      <4> QED
        BY <1>a, <2>a, <4>1, <4>2, OthersStay
    <3> QED
      BY <3>4, <3>8, <3>9 DEF IndInv
  <2> QED
    BY <2>1, <2>2
<1>2. CASE Attempt(i)
  <2>1. /\ step[i] = "attempt" /\ Awaits(i) # "embedding" /\ Grows
        /\ UNCHANGED <<size, dimension, stage>>
    BY <1>2, <1>f DEF Attempt, Goto
  <2>2. PICK s \in {"dial", "exists"} : /\ s = IF Awaits(i) = "kafka" THEN "dial" ELSE "exists"
                                        /\ step' = [step EXCEPT ![i] = s]
    BY <1>2 DEF Attempt, Goto
  <2>3. PICK x \in {"expired", "live"} : /\ x = IF ended[i] THEN "expired" ELSE "live"
                                         /\ call' = [call EXCEPT ![i] = x]
    BY <1>2, Zenon DEF Attempt
  <2>4. PICK y \in BOOLEAN : y = ended[i] /\ ended' = [ended EXCEPT ![i] = y]
    <3>1. UNCHANGED ended
      BY <1>2 DEF Attempt
    <3> QED
      BY <1>h, <3>1, Zenon
  <2>5. y \/ x # "live" => Excused(i)'
    <3>1. y \/ x # "live" => ended[i]
      BY <2>3, <2>4, Zenon
    <3>2. ended[i] => Excused(i)
      BY <1>b, Zenon DEF Smooth
    <3> QED
      BY <1>e, <2>1, <3>1, <3>2, Zenon
  <2>6. s = "exists" => Awaits(i) \in {"index", "collection"}
    BY <1>d, <2>1, <2>2 DEF Dependencies
  <2> QED
    BY <2>1, <2>2, <2>3, <2>4, <2>5, <2>6, GoingOnKeeps DEF Steps, Calls
<1>3. CASE AttemptExpires(i)
  <2>1. /\ step[i] \in Calls /\ call[i] = "hung" /\ Grows
        /\ call' = [call EXCEPT ![i] = "expired"]
        /\ UNCHANGED <<size, dimension, stage, step, ended>>
    BY <1>3, <1>f DEF AttemptExpires
  <2>2. Excused(i)'
    BY <1>b, <1>e, <2>1 DEF Smooth
  <2>3. PICK s \in Calls : s = step[i]
    BY <2>1
  <2>4. step' = [step EXCEPT ![i] = s]
    BY <1>h, <2>1, <2>3
  <2>5. PICK y \in BOOLEAN : ended' = [ended EXCEPT ![i] = y]
    BY <1>h, <2>1, Zenon
  <2> QED
    BY <1>b, <2>1, <2>2, <2>3, <2>4, <2>5, GoingOnKeeps DEF Asking, Steps, Calls
<1>4. CASE GivesUp(i)
  <2>1. /\ step[i] \in {"failed", "waiting"} /\ Grows
        /\ step' = [step EXCEPT ![i] = "exited"]
        /\ UNCHANGED <<size, dimension, stage, call, ended>>
    BY <1>4, <1>f DEF GivesUp, Goto
  <2> QED
    BY <1>k, <2>1 DEF Steps
<1>5. CASE Waits(i)
  <2>1. /\ step[i] = "failed" /\ Grows
        /\ step' = [step EXCEPT ![i] = "waiting"]
        /\ UNCHANGED <<size, dimension, stage, call, ended>>
    BY <1>5, <1>f DEF Waits, Goto
  <2>2. Excused(i)'
    BY <1>b, <1>e, <2>1 DEF Smooth
  <2> QED
    BY <1>k, <2>1, <2>2 DEF Steps
<1>6. CASE WaitEnds(i)
  <2>1. /\ step[i] = "waiting" /\ Grows
        /\ step' = [step EXCEPT ![i] = "attempt"]
        /\ UNCHANGED <<size, dimension, stage, call, ended>>
    BY <1>6, <1>f DEF WaitEnds
  <2> QED
    BY <1>k, <2>1 DEF Steps
<1>18. CASE DialAnswers(i)
  <2>1. /\ step[i] = "dial" /\ Grows
        /\ step' = [step EXCEPT ![i] = "topic"]
        /\ UNCHANGED <<size, dimension, stage, call, ended>>
    BY <1>18, <1>f DEF DialAnswers, Goto
  <2>2. Awaits(i) = "kafka"
    BY <1>b, <2>1 DEF Asking
  <2> QED
    BY <1>k, <2>1, <2>2 DEF Steps, Calls
<1>7. CASE TopicAnswers(i)
  <2>1. /\ step[i] = "topic" /\ Ready(i) /\ Grows
        /\ UNCHANGED <<size, dimension, call, ended>>
    BY <1>7, <1>f DEF TopicAnswers
  <2>2. Awaits(i) = "kafka"
    BY <1>b, <2>1 DEF Asking
  <2> QED
    BY <1>l, <2>1, <2>2
<1>p. ASSUME step[i] \in {"exists", "recheck"}, Present(i), Found(i),
             UNCHANGED <<size, dimension, call, ended, stores, faults>>
      PROVE  IndInv'
  <2>1. Grows
    BY <1>f, <1>p
  <2>2. Awaits(i) \in {"index", "collection"}
    BY <1>b, <1>p DEF Asking
  <2>3. CASE Awaits(i) = "index"
    <3>1. Ready(i)
      BY <1>p, <2>3 DEF Found
    <3>2. index'
      BY <1>p, <2>3, Zenon DEF Present
    <3> QED
      BY <1>l, <1>p, <2>1, <2>3, <3>1, <3>2
  <2>4. CASE Awaits(i) = "collection"
    <3>1. /\ step' = [step EXCEPT ![i] = "info"] /\ UNCHANGED stage
          /\ collection # Absent
      BY <1>p, <2>4 DEF Found, Goto, Present
    <3> QED
      BY <1>k, <1>p, <2>1, <2>4, <3>1 DEF Steps, Calls
  <2> QED
    BY <2>2, <2>3, <2>4
<1>8. CASE ExistsAnswers(i)
  <2>1. /\ step[i] = "exists"
        /\ IF Present(i) THEN Found(i) ELSE Goto(i, "create")
        /\ UNCHANGED <<size, dimension, call, ended, stores, faults>>
    BY <1>8 DEF ExistsAnswers
  <2>2. CASE Present(i)
    BY <1>p, <2>1, <2>2
  <2>3. CASE ~Present(i)
    <3>1. step' = [step EXCEPT ![i] = "create"] /\ UNCHANGED stage
      BY <2>1, <2>3 DEF Goto
    <3>2. Awaits(i) \in {"index", "collection"}
      BY <1>b, <2>1 DEF Asking
    <3> QED
      BY <1>f, <1>k, <2>1, <3>1, <3>2 DEF Steps, Calls
  <2> QED
    BY <2>2, <2>3
<1>9. CASE CreateAnswers(i)
  <2>1. /\ step[i] = "create" /\ Create(i)
        /\ IF Present(i) THEN Goto(i, "recheck") ELSE Ready(i)
        /\ UNCHANGED <<size, dimension, call, ended, faults>>
    BY <1>9 DEF CreateAnswers
  <2>2. Grows /\ Awaits(i) \in {"index", "collection"}
    BY <1>b, <1>c, <1>g, <2>1 DEF Asking
  <2>3. CASE Present(i)
    <3>1. step' = [step EXCEPT ![i] = "recheck"] /\ UNCHANGED stage
      BY <2>1, <2>3 DEF Goto
    <3>2. Present(i)'
      BY <2>2, <2>3, <3>1 DEF Present, Grows, Awaits
    <3> QED
      BY <1>k, <2>1, <2>2, <3>1, <3>2 DEF Steps, Calls
  <2>4. CASE ~Present(i)
    <3>1. Awaits(i) = "index" => index'
      BY <2>1, Zenon DEF Create
    <3>2. Awaits(i) = "collection" => collection' = size'[i]
      BY <2>1, <2>4 DEF Create, Present
    <3> QED
      BY <1>l, <2>1, <2>2, <2>4, <3>1, <3>2
  <2> QED
    BY <2>3, <2>4
<1>10. CASE RecheckAnswers(i)
  <2>1. /\ step[i] = "recheck"
        /\ IF Present(i) THEN Found(i) ELSE Goto(i, "failed")
        /\ UNCHANGED <<size, dimension, call, ended, stores, faults>>
    BY <1>10 DEF RecheckAnswers
  <2>2. CASE Present(i)
    BY <1>p, <2>1, <2>2
  <2>3. CASE ~Present(i)
    <3>1. step' = [step EXCEPT ![i] = "failed"] /\ UNCHANGED stage
      BY <2>1, <2>3 DEF Goto
    <3>2. Excused(i)'
      BY <1>b, <1>e, <1>f, <2>1, <2>3 DEF Smooth
    <3> QED
      BY <1>f, <1>k, <2>1, <3>1, <3>2 DEF Steps
  <2> QED
    BY <2>2, <2>3
<1>11. CASE InfoAnswers(i)
  <2>1. /\ step[i] = "info"
        /\ IF collection = size[i] THEN Ready(i) ELSE Goto(i, "failed")
        /\ UNCHANGED <<size, dimension, call, ended, stores, faults>>
    BY <1>11 DEF InfoAnswers
  <2>2. Grows /\ Awaits(i) = "collection" /\ collection # Absent
    BY <1>b, <1>f, <2>1 DEF Asking
  <2>3. CASE collection = size[i]
    BY <1>l, <2>1, <2>2, <2>3
  <2>4. CASE collection # size[i]
    <3>1. step' = [step EXCEPT ![i] = "failed"] /\ UNCHANGED stage
      BY <2>1, <2>4 DEF Goto
    <3>2. size[i] # NotLoaded
      BY <1>b, <2>1 DEF Loaded
    <3>3. Excused(i)
      BY <2>2, <2>4, <3>2 DEF Excused, Misfit
    <3> QED
      BY <1>e, <1>k, <2>1, <2>2, <3>1, <3>3 DEF Steps
  <2> QED
    BY <2>3, <2>4
<1>q. ASSUME faults' = faults + 1 PROVE Excused(i)' /\ faults' \in Nat /\ faults <= faults'
  BY <1>c, <1>q DEF Excused
<1>12. CASE CallFails(i)
  <2>1. /\ step[i] \in Calls
        /\ (call[i] = "live" /\ Fault) \/ (call[i] = "expired" /\ UNCHANGED faults)
        /\ Create(i) \/ UNCHANGED stores
        /\ UNCHANGED <<size, dimension, stage, call, ended>>
    BY <1>12 DEF CallFails, Goto
  <2>2. PICK s \in {"recheck", "failed"} : /\ s = IF step[i] = "create" THEN "recheck" ELSE "failed"
                                           /\ step' = [step EXCEPT ![i] = s]
    BY <1>12 DEF CallFails, Goto
  <2>3. faults' \in Nat /\ faults <= faults'
    BY <1>c, <2>1 DEF Fault
  <2>4. Grows
    BY <1>c, <1>g, <2>1, <2>3 DEF Grows
  <2>5. Excused(i)'
    <3>1. CASE call[i] = "live" /\ Fault
      BY <1>q, <3>1 DEF Fault
    <3>2. CASE call[i] = "expired"
      BY <1>b, <1>e, <2>1, <2>4, <3>2 DEF Smooth
    <3> QED
      BY <2>1, <3>1, <3>2
  <2>6. s = "recheck" => Awaits(i) \in {"index", "collection"}
    BY <1>b, <2>2 DEF Asking
  <2> QED
    BY <1>k, <2>1, <2>2, <2>4, <2>5, <2>6 DEF Steps, Calls
<1>13. CASE CheckEmbedder(i)
  <2>1. /\ step[i] = "attempt" /\ Awaits(i) = "embedding" /\ Grows
        /\ Ready(i) \/ Goto(i, "exited")
        /\ UNCHANGED <<size, dimension, call, ended>>
    BY <1>13, <1>f DEF CheckEmbedder
  <2>2. CASE Ready(i)
    BY <1>l, <2>1, <2>2
  <2>3. CASE Goto(i, "exited")
    <3>1. step' = [step EXCEPT ![i] = "exited"] /\ UNCHANGED stage
      BY <2>3 DEF Goto
    <3> QED
      BY <1>k, <2>1, <3>1 DEF Steps
  <2> QED
    BY <2>1, <2>2, <2>3
<1>14. CASE Restart(i)
  <2>1. /\ Grows
        /\ size' = [size EXCEPT ![i] = NotLoaded] /\ dimension' = [dimension EXCEPT ![i] = NotLoaded]
        /\ stage' = [stage EXCEPT ![i] = 1] /\ step' = [step EXCEPT ![i] = "loading"]
        /\ call' = [call EXCEPT ![i] = "live"]
    BY <1>14, <1>f DEF Restart
  <2>a. ended' = [ended EXCEPT ![i] = FALSE]
    BY <1>14 DEF Restart
  <2>2. Typed'
    <3>1. ended' \in [Instances -> BOOLEAN]
      BY <1>a, <2>a, Zenon DEF Typed
    <3>2. /\ DOMAIN size' = Instances /\ DOMAIN dimension' = Instances
          /\ stage' \in [Instances -> 1 .. Len(Stages)] /\ step' \in [Instances -> Steps]
          /\ call' \in [Instances -> {"live", "hung", "expired", "stuck"}] /\ faults' \in Nat
      BY <1>a, <1>c, <2>1 DEF Typed, Grows, Steps
    <3> QED
      BY <3>1, <3>2 DEF Typed
  <2>3. /\ step'[i] = "loading" /\ size'[i] = NotLoaded /\ stage'[i] = 1 /\ call'[i] = "live"
    BY <1>a, <2>1 DEF Typed
  <2>4. ~ended'[i]
    BY <1>a, <2>a, Zenon DEF Typed
  <2>5. Loaded(i)' /\ Provided(i)' /\ Asking(i)'
    BY <2>3 DEF Loaded, Provided, Asking
  <2>6. Smooth(i)'
    BY <2>3, <2>4 DEF Smooth
  <2>7. Consistent(i)'
    BY <2>5, <2>6 DEF Consistent
  <2>8. ASSUME NEW j \in Instances, j # i PROVE Consistent(j)'
    <3>1. ended'[j] = ended[j]
      BY <1>a, <2>a, <2>8, Zenon DEF Typed
    <3>2. /\ size'[j] = size[j] /\ dimension'[j] = dimension[j] /\ stage'[j] = stage[j]
          /\ step'[j] = step[j] /\ call'[j] = call[j]
      BY <1>a, <2>1, <2>8 DEF Typed
    <3>3. Consistent(j)
      BY DEF IndInv
    <3> QED
      BY <1>a, <2>1, <3>1, <3>2, <3>3, OthersStay
  <2> QED
    BY <2>2, <2>7, <2>8 DEF IndInv
<1>15. CASE Hang(i)
  <2>1. /\ step[i] \in Calls /\ Fault
        /\ UNCHANGED <<size, dimension, stage, step, ended>>
    BY <1>15 DEF Hang
  <2>x. PICK x \in {"hung", "stuck"} : call' = [call EXCEPT ![i] = x]
    BY <1>15 DEF Hang
  <2>2. Excused(i)' /\ faults' \in Nat /\ faults <= faults'
    BY <1>15, <1>q DEF Hang, Fault
  <2>3. Grows
    BY <1>15, <1>c, <1>g, <2>2 DEF Grows, Hang
  <2>4. PICK s \in Calls : s = step[i]
    BY <1>15 DEF Hang
  <2>5. step' = [step EXCEPT ![i] = s]
    BY <1>h, <2>1, <2>4
  <2>6. PICK y \in BOOLEAN : ended' = [ended EXCEPT ![i] = y]
    BY <1>h, <2>1, Zenon
  <2> QED
    BY <1>b, <2>1, <2>x, <2>2, <2>3, <2>4, <2>5, <2>6, GoingOnKeeps DEF Asking, Steps, Calls
<1>16. CASE StartEnds(i)
  <2>1. /\ Starting(i) /\ step[i] # "loading"
        /\ IF Misfit(i) THEN UNCHANGED faults ELSE Fault
        /\ ended' = [ended EXCEPT ![i] = TRUE]
        /\ UNCHANGED <<size, dimension, stage, step>>
    BY <1>16 DEF StartEnds
  <2>x. PICK x \in {"live", "hung", "expired", "stuck"} : call' = [call EXCEPT ![i] = x]
    <3>1. CASE step[i] = "topic"
      <4>1. call' = [call EXCEPT ![i] = call[i]]
        BY <1>16, <3>1 DEF StartEnds
      <4> QED
        BY <1>h, <4>1
    <3>2. CASE step[i] # "topic"
      <4>1. call' = [call EXCEPT ![i] = "expired"]
        BY <1>16, <3>2 DEF StartEnds
      <4> QED
        BY <4>1
    <3> QED
      BY <3>1, <3>2
  <2>2. faults' \in Nat /\ faults <= faults'
    BY <1>c, <1>q, <2>1 DEF Fault
  <2>3. Grows
    BY <1>16, <1>c, <1>g, <2>2 DEF Grows, StartEnds
  <2>4. Excused(i)'
    <3>1. CASE Misfit(i)
      BY <1>e, <2>1, <2>3, <3>1 DEF Excused
    <3>2. CASE ~Misfit(i)
      BY <1>q, <2>1, <3>2 DEF Fault
    <3> QED
      BY <3>1, <3>2
  <2>5. PICK s \in Steps \ {"running", "loading", "exited"} : s = step[i]
    BY <1>c, <2>1 DEF Starting
  <2>6. step' = [step EXCEPT ![i] = s]
    BY <1>h, <2>1, <2>5
  <2>7. PICK y \in BOOLEAN : ended' = [ended EXCEPT ![i] = y]
    BY <2>1, Zenon
  <2> QED
    BY <1>b, <2>1, <2>x, <2>3, <2>4, <2>5, <2>6, <2>7, GoingOnKeeps DEF Asking
<1>17. CASE Crash(i)
  <2>1. /\ Grows /\ step' = [step EXCEPT ![i] = "exited"]
        /\ UNCHANGED <<size, dimension, stage, call, ended>>
    BY <1>17, <1>c DEF Crash, Fault, Grows
  <2> QED
    BY <1>k, <2>1 DEF Steps
<1> QED
  BY <1>1, <1>2, <1>3, <1>4, <1>5, <1>6, <1>7, <1>8, <1>9, <1>10, <1>11, <1>12, <1>13,
     <1>14, <1>15, <1>16, <1>17, <1>18 DEF Progress

(* Every behaviour keeps every instance sound.                             *)
LEMMA IndInvHolds == Spec => []IndInv
<1>1. ASSUME IndInv, [Next]_vars PROVE IndInv'
  <2>1. CASE Next
    BY <1>1, <2>1, ActionKeeps DEF Next
  <2>2. CASE UNCHANGED vars
    <3>1. Grows
      BY <1>1, <2>2 DEF Grows, vars, stores, IndInv, Typed
    <3>2. UNCHANGED <<size, dimension, stage, step, call, ended, faults>>
      BY <2>2 DEF vars, config
    <3>3. ASSUME NEW j \in Instances PROVE Consistent(j)'
      BY <1>1, <3>1, <3>2, OthersStay DEF IndInv
    <3> QED
      BY <1>1, <3>2, <3>3 DEF IndInv, Typed
  <2> QED
    BY <1>1, <2>1, <2>2
<1> QED
  BY <1>1, InitEstablishes, PTL DEF Spec

-----------------------------------------------------------------------------
(* What it is for.                                                         *)

\* The list awaits the stores, as cmd/consumer's does.
AwaitsStores == {"index", "collection"} \subseteq {Stages[n] : n \in 1 .. Len(Stages)}

(* A consumer at work has an index, and a collection of the size its       *)
(* provider makes, whoever created them and whoever starts, crashes or     *)
(* restarts meanwhile with another configuration (EnsureCollection,        *)
(* collection.go, and cmd/consumer/main.go).                               *)
THEOREM WorkersFitTheStores == ASSUME AwaitsStores PROVE Spec => []RunningFits
<1>1. ASSUME IndInv, NEW i \in Instances, step[i] = "running"
      PROVE  index /\ collection = dimension[i]
  <2>1. Loaded(i) /\ Provided(i)
    BY <1>1 DEF IndInv, Consistent
  <2>2. PICK n \in 1 .. Len(Stages) : Stages[n] = "index"
    BY DEF AwaitsStores
  <2>3. PICK m \in 1 .. Len(Stages) : Stages[m] = "collection"
    BY DEF AwaitsStores
  <2>4. Settled(i, n) /\ Settled(i, m)
    BY <1>1, <2>1 DEF Provided
  <2>5. index
    BY <2>2, <2>4, Zenon DEF Settled
  <2>6. collection = size[i]
    BY <2>3, <2>4, Zenon DEF Settled
  <2>7. dimension[i] = size[i]
    BY <1>1, <2>1 DEF Loaded
  <2> QED
    BY <2>5, <2>6, <2>7
<1>2. IndInv => RunningFits
  BY <1>1 DEF RunningFits
<1> QED
  BY <1>2, IndInvHolds, PTL

(* Losing the race to create is no failure: without a fault an attempt is  *)
(* repeated only against a collection of another size (EnsureIndex and     *)
(* EnsureCollection, the check after a refused create).                    *)
THEOREM RacesAreHarmless == Spec => []LosingTheRaceIsNoFailure
<1>1. ASSUME IndInv, NEW i \in Instances, step[i] = "waiting", faults = 0
      PROVE  Misfit(i)
  <2>1. Excused(i)
    BY <1>1 DEF IndInv, Consistent, Smooth
  <2> QED
    BY <1>1, <2>1 DEF Excused
<1>2. IndInv => LosingTheRaceIsNoFailure
  BY <1>1 DEF LosingTheRaceIsNoFailure
<1> QED
  BY <1>2, IndInvHolds, PTL

-----------------------------------------------------------------------------
(* Second part: the load generator.                                        *)

(* A nonempty set of naturals has a least element: what stands for         *)
(* induction below, as a smallest counterexample.                          *)
LEMMA Least == ASSUME NEW T, T \subseteq Nat, T # {} PROVE \E x \in T : \A y \in T : x <= y
<1> DEFINE R == OpToRel(<, Nat)
<1>1. PICK x \in T : \A y \in T : ~ (<<y, x>> \in R)
  BY NatLessThanWellFounded, WFMin
<1>2. ASSUME NEW y \in T PROVE x <= y
  <2>1. x \in Nat /\ y \in Nat
    OBVIOUS
  <2>2. ~ (<<y, x>> \in R)
    BY <1>1
  <2>3. y < x => <<y, x>> \in R
    BY <2>1 DEF OpToRel
  <2> HIDE DEF R
  <2> QED
    BY <2>1, <2>2, <2>3
<1> QED
  BY <1>2

(* An end of a partition, as it was and as it was said.                    *)
Reading == [end : Nat, said : Int]

(* f has the totals of the first terms of w, up to n of them.              *)
Totals(f, w, n) == f = [i \in 0 .. n |-> IF i = 0 THEN 0 ELSE f[i - 1] + w[i - 1]]

(* What Totals says of each of them.                                       *)
LEMMA TotalsUnfold ==
  ASSUME NEW n \in Nat, NEW w, NEW f, Totals(f, w, n)
  PROVE  f[0] = 0 /\ \A i \in 1 .. n : f[i] = f[i - 1] + w[i - 1]
<1>1. ASSUME NEW i \in 0 .. n PROVE f[i] = IF i = 0 THEN 0 ELSE f[i - 1] + w[i - 1]
  BY DEF Totals
<1>2. 0 \in 0 .. n /\ \A i \in 1 .. n : i \in 0 .. n /\ i # 0
  OBVIOUS
<1> QED
  BY <1>1, <1>2

(* There are such functions.                                               *)
LEMMA TotalsExist == ASSUME NEW w PROVE \A n \in Nat : \E f : Totals(f, w, n)
<1> DEFINE Bad == {n \in Nat : ~ \E f : Totals(f, w, n)}
<1> SUFFICES ASSUME Bad # {} PROVE FALSE
  OBVIOUS
<1>1. PICK n \in Bad : \A m \in Bad : n <= m
  BY Least
<1>2. n \in Nat
  OBVIOUS
<1>3. CASE n = 0
  <2> DEFINE h == [i \in 0 .. 0 |-> 0]
  <2>1. h = [i \in 0 .. 0 |-> IF i = 0 THEN 0 ELSE h[i - 1] + w[i - 1]]
    OBVIOUS
  <2>2. Totals(h, w, n)
    BY <1>3, <2>1 DEF Totals
  <2> QED
    BY <2>2
<1>4. CASE n # 0
  <2>1. n - 1 \in Nat /\ ~(n <= n - 1)
    BY <1>2, <1>4
  <2>2. PICK g : Totals(g, w, n - 1)
    BY <1>1, <2>1
  <2>3. g[0] = 0 /\ \A i \in 1 .. n - 1 : g[i] = g[i - 1] + w[i - 1]
    BY <2>1, <2>2, TotalsUnfold
  <2>4. PICK last : last = g[n - 1] + w[n - 1]
    OBVIOUS
  <2> DEFINE h == [i \in 0 .. n |-> IF i = n THEN last ELSE g[i]]
  <2>5. ASSUME NEW i \in 0 .. n PROVE h[i] = IF i = 0 THEN 0 ELSE h[i - 1] + w[i - 1]
    <3>1. CASE i = n
      <4>1. i - 1 \in 0 .. n /\ i - 1 # n /\ i # 0
        BY <1>2, <1>4, <3>1
      <4>2. h[i - 1] = g[i - 1] /\ h[i] = last
        BY <3>1, <4>1
      <4> HIDE DEF h
      <4> QED
        BY <2>4, <3>1, <4>1, <4>2
    <3>2. CASE i # n
      <4>1. h[i] = g[i]
        BY <3>2
      <4>2. i # 0 => i \in 1 .. n - 1 /\ h[i - 1] = g[i - 1]
        BY <1>2, <3>2
      <4> HIDE DEF h
      <4> QED
        BY <2>3, <4>1, <4>2
    <3> QED
      BY <3>1, <3>2
  <2>6. h = [i \in 0 .. n |-> h[i]]
    OBVIOUS
  <2>7. Totals(h, w, n)
    <3> HIDE DEF h
    <3> QED
      BY <2>5, <2>6 DEF Totals
  <2> QED
    BY <2>7
<1> QED
  BY <1>3, <1>4

(* Nor does a total of naturals leave them.                                *)
LEMMA TotalsAreNatural ==
  ASSUME NEW n \in Nat, NEW w, NEW f, Totals(f, w, n), \A i \in 0 .. n - 1 : w[i] \in Nat
  PROVE  \A i \in 0 .. n : f[i] \in Nat
<1>1. f[0] = 0 /\ \A i \in 1 .. n : f[i] = f[i - 1] + w[i - 1]
  BY TotalsUnfold
<1> DEFINE Bad == {i \in 0 .. n : f[i] \notin Nat}
<1> SUFFICES ASSUME Bad # {} PROVE FALSE
  OBVIOUS
<1>2. PICK i \in Bad : \A j \in Bad : i <= j
  <2>1. Bad \subseteq Nat
    OBVIOUS
  <2> HIDE DEF Bad
  <2> QED BY <2>1, Least
<1>3. i \in 0 .. n /\ i # 0
  BY <1>1
<1>4. i - 1 \in 0 .. n /\ ~(i <= i - 1) /\ i \in 1 .. n /\ i - 1 \in 0 .. n - 1
  BY <1>3
<1>5. f[i - 1] \in Nat
  BY <1>2, <1>4
<1> QED BY <1>1, <1>4, <1>5

(* Without a negative term, the total is zero only if every term is.       *)
LEMMA TotalsOfNothing ==
  ASSUME NEW n \in Nat, NEW w, NEW f, Totals(f, w, n),
         \A i \in 0 .. n - 1 : w[i] \in Nat, f[n] = 0
  PROVE  \A i \in 0 .. n - 1 : w[i] = 0
<1>1. f[0] = 0 /\ \A i \in 1 .. n : f[i] = f[i - 1] + w[i - 1]
  BY TotalsUnfold
<1>2. \A i \in 0 .. n : f[i] \in Nat
  BY TotalsAreNatural
\* a total after which nothing comes is the last
<1>3. \A i \in 0 .. n : f[n - i] = 0
  <2> DEFINE Bad == {i \in 0 .. n : f[n - i] # 0}
  <2> SUFFICES ASSUME Bad # {} PROVE FALSE
    OBVIOUS
  <2>1. PICK i \in Bad : \A j \in Bad : i <= j
    <3>1. Bad \subseteq Nat
      OBVIOUS
    <3> HIDE DEF Bad
    <3> QED BY <3>1, Least
  <2>2. i \in 0 .. n /\ i # 0
    <3>1. n - 0 = n
      OBVIOUS
    <3> QED BY <3>1
  <2>3. i - 1 \in 0 .. n /\ ~(i <= i - 1) /\ n - (i - 1) \in 1 .. n /\ n - i \in 0 .. n - 1
        /\ n - (i - 1) - 1 = n - i
    BY <2>2
  <2>4. f[n - (i - 1)] = 0
    BY <2>1, <2>3
  <2>5. f[n - (i - 1)] = f[n - i] + w[n - i]
    BY <1>1, <2>3
  <2>6. f[n - i] \in Nat /\ w[n - i] \in Nat /\ f[n - i] # 0
    BY <1>2, <2>3
  <2> QED BY <2>4, <2>5, <2>6
<1> SUFFICES ASSUME NEW i \in 0 .. n - 1 PROVE w[i] = 0
  OBVIOUS
<1>4. i + 1 \in 1 .. n /\ n - i \in 0 .. n /\ n - (i + 1) \in 0 .. n /\ (i + 1) - 1 = i
      /\ n - (n - i) = i /\ n - (n - (i + 1)) = i + 1
  OBVIOUS
<1>5. f[i] = 0 /\ f[i + 1] = 0
  BY <1>3, <1>4
<1>6. f[i + 1] = f[i] + w[i]
  BY <1>1, <1>4
<1> QED BY <1>5, <1>6

(* The lag is a natural, and if it is zero no partition whose offset came  *)
(* is behind the end it was said to have (TotalLag, kafka.go).             *)
LEMMA LagIsHonest ==
  ASSUME NEW S \in SUBSET Part, NEW offsets \in [S -> Int], NEW ends \in [Part -> Reading]
  PROVE  /\ TotalLag(offsets, ends) \in Nat
         /\ TotalLag(offsets, ends) = 0 => \A p \in S : ends[p].said <= offsets[p]
<1> DEFINE w == [i \in Part |-> IF i \notin S THEN 0 ELSE Behind(offsets[i], ends[i].said)]
           sum == CHOOSE f : f = [n \in 0 .. Partitions |->
                    IF n = 0 THEN 0
                    ELSE f[n - 1] + IF n - 1 \notin DOMAIN offsets THEN 0
                                    ELSE Behind(offsets[n - 1], ends[n - 1].said)]
<1>1. Partitions \in Nat
  BY LoadTestAssumption
<1>2. \A f : Totals(f, w, Partitions) <=> f = [n \in 0 .. Partitions |->
                    IF n = 0 THEN 0
                    ELSE f[n - 1] + IF n - 1 \notin DOMAIN offsets THEN 0
                                    ELSE Behind(offsets[n - 1], ends[n - 1].said)]
  <2>1. \A n \in 0 .. Partitions :
          n # 0 => w[n - 1] = IF n - 1 \notin DOMAIN offsets THEN 0
                              ELSE Behind(offsets[n - 1], ends[n - 1].said)
    BY <1>1 DEF Part
  <2> HIDE DEF w
  <2> SUFFICES ASSUME NEW f
               PROVE  [n \in 0 .. Partitions |-> IF n = 0 THEN 0 ELSE f[n - 1] + w[n - 1]]
                    = [n \in 0 .. Partitions |->
                         IF n = 0 THEN 0
                         ELSE f[n - 1] + IF n - 1 \notin DOMAIN offsets THEN 0
                                         ELSE Behind(offsets[n - 1], ends[n - 1].said)]
    BY DEF Totals
  <2> QED BY <2>1
<1>3. \E f : Totals(f, w, Partitions)
  BY <1>1, TotalsExist
<1>4. Totals(sum, w, Partitions)
  BY <1>2, <1>3
<1>5. TotalLag(offsets, ends) = sum[Partitions]
  BY DEF TotalLag
<1>6. \A p \in Part : w[p] \in Nat /\ (p \in S /\ w[p] = 0 => ends[p].said <= offsets[p])
  <2> SUFFICES ASSUME NEW p \in Part
               PROVE  w[p] \in Nat /\ (p \in S /\ w[p] = 0 => ends[p].said <= offsets[p])
    OBVIOUS
  <2>1. CASE p \in S
    <3>1. offsets[p] \in Int /\ ends[p].said \in Int /\ w[p] = Behind(offsets[p], ends[p].said)
      BY <2>1 DEF Reading
    <3> HIDE DEF w
    <3> QED BY <3>1 DEF Behind
  <2>2. CASE p \notin S
    BY <2>2
  <2> QED BY <2>1, <2>2
<1> HIDE DEF w, sum
<1>7. \A i \in 0 .. Partitions - 1 : w[i] \in Nat
  BY <1>6 DEF Part
<1>8. sum[Partitions] \in Nat
  <2>1. Partitions \in 0 .. Partitions
    BY <1>1
  <2> QED BY <1>1, <1>4, <1>7, <2>1, TotalsAreNatural
<1>9. sum[Partitions] = 0 => \A p \in Part : w[p] = 0
  BY <1>1, <1>4, <1>7, TotalsOfNothing DEF Part
<1> QED BY <1>5, <1>6, <1>8, <1>9

-----------------------------------------------------------------------------
(* What the values are.                                                    *)
Operations == {"c", "u", "d", "r"}
Events == [doc : Docs, op : Operations, version : Nat]
Errors == {"none", "context", "store"}
Reports == [produced : Int, indexed : Int, documents : Int, points : Int]
Readings == {<<>>} \cup UNION {[S -> Reading] : S \in SUBSET Part}
Tools == [mode : DOMAIN Script \cup {"none"}, scope : SUBSET RunIDs, count : Nat, warm : Nat,
          op : Operations, others : Nat, pc : Nat, sent : Nat, arrivals : SUBSET Docs,
          counts : Seq(Int), ends : Readings, lag : Int, report : Reports, err : Errors,
          quiet : BOOLEAN, refreshed : BOOLEAN]
Watchers == [pending : SUBSET Docs, unchecked : SUBSET Docs, found : SUBSET Docs,
             resting : BOOLEAN, err : Errors, seen : SUBSET Docs]

(* An invocation works for one run, and a run has room for its documents.  *)
Sound(i) == /\ i.mode \in DOMAIN Script /\ i.count \in Nat \ {0} /\ i.warm \in Nat
            /\ i.warm + i.count <= MaxDocuments
            /\ i.mode # "cleanup" => \E r \in RunIDs : i.scope = {r}

StackOK ==
  /\ rows \in [Docs -> Nat] /\ version \in Nat
  /\ topic \in [Part -> Seq(Events)]
  /\ committed \in [Part -> Int]
  /\ half \in [Part -> BOOLEAN]
  /\ keyword \in [Docs -> Nat]
  /\ searchable \in SUBSET Docs /\ points \in SUBSET Docs
  /\ \A p \in Part : /\ Position(p) \in 0 .. Len(topic[p])
                     /\ half[p] => Position(p) < Len(topic[p])

ToolOK ==
  /\ tool \in Tools /\ watch \in Watchers
  /\ plan \in Seq(Invocations) /\ \A i \in 1 .. Len(plan) : Sound(plan[i])
  /\ earlier \in SUBSET RunIDs
  /\ Running => Sound(tool) /\ tool.pc # 0
  /\ ~Running => tool = Idle

(* An error ends the invocation: no call is made after it.                 *)
ErrorsEnd == Step # "none" => tool.err = "none"

(* The ends are read before the offsets.                                   *)
LagOK == /\ Step = "lag" => tool.ends \in [Part -> Reading]
         /\ tool.lag # -1 => \A p \in DOMAIN tool.ends : p \in Part /\ tool.ends[p].end \in Nat
         /\ ZeroLagMeansCaughtUp

(* Nobody has written a document of a new run.                             *)
Untouched(d) == /\ rows[d] = 0 /\ keyword[d] = 0 /\ d \notin searchable /\ d \notin points
                /\ \A p \in Part : \A i \in 1 .. Len(topic[p]) : topic[p][i].doc # d
NewRuns == \A d \in Docs : d[1] \notin earlier \cup tool.scope => Untouched(d)

(* How many documents of its run an invocation of index has written.       *)
Written == IF tool.pc <= 1 THEN 0
           ELSE IF tool.pc = 2 THEN tool.sent
           ELSE IF tool.pc <= 6 THEN tool.warm
           ELSE IF tool.pc = 7 THEN tool.warm + tool.sent ELSE tool.warm + tool.count

(* It goes on, and its run is new.                                         *)
Indexing == tool.mode = "index" /\ tool.err = "none"

(* A document it has written has one event, of its row's only version.     *)
Created(d) == /\ rows[d] > 0 /\ keyword[d] \in {0, rows[d]}
              /\ \A p \in Part : \A i \in 1 .. Len(topic[p]) :
                   topic[p][i].doc = d => topic[p][i].op = "c" /\ topic[p][i].version = rows[d]
NewDocuments ==
  Indexing /\ Fresh => \A d \in Docs : d[1] \in tool.scope =>
                         IF d[2] < Written THEN Created(d) ELSE Untouched(d)

(* It knows which documents it measures, and the watcher what it has seen. *)
Measured(n) == {d \in Docs : d[1] \in tool.scope /\ tool.warm <= d[2] /\ d[2] < n}
Arrivals ==
  Indexing =>
    /\ tool.pc = 2 => tool.sent = 0 \/ tool.sent < tool.warm
    /\ tool.pc = 7 => tool.sent < tool.count
    /\ (tool.pc = 7 /\ tool.sent > 0) \/ tool.pc >= 8 => tool.arrivals = Measured(Written)
    /\ tool.pc <= 13
Watched ==
  /\ Watching => watch.err \in {"none", "store"}
  /\ watch.resting => watch.unchecked = {} /\ watch.err = "none"
  /\ watch.err # "store" => (watch.pending \ watch.found) \cap watch.seen = {}
  /\ Indexing /\ tool.pc >= 8 =>
       watch.pending \cup watch.unchecked \cup watch.found \subseteq tool.arrivals
  /\ Indexing /\ tool.pc >= 8 /\ Fresh =>
       \A d \in Docs : d \in (tool.arrivals \ watch.pending) \cup watch.found => keyword[d] > 0
  /\ Indexing /\ tool.pc >= 9 /\ watch.err = "none" => watch.pending = {}

(* On a stack at rest only the run's own documents are on the way.         *)
Own == {d \in Docs : d[1] \in tool.scope}
Counting == Indexing /\ Fresh /\ tool.quiet /\ tool.warm = 0
AtRest ==
  Counting =>
    /\ \A p \in Part : \A i \in 1 .. Len(topic[p]) : Position(p) < i => topic[p][i].doc \in Own
    /\ searchable \ Own = Indexed \ Own
CountsBy(pc) == IF pc <= 4 THEN 0 ELSE IF pc = 5 THEN 1 ELSE IF pc <= 10 THEN 2
               ELSE IF pc = 11 THEN 3 ELSE 4
Counts ==
  /\ Indexing =>
       /\ Len(tool.counts) = CountsBy(tool.pc)
       /\ tool.pc <= 9 => ~tool.refreshed
  /\ Counting =>
       /\ tool.pc >= 5 => tool.counts[1] = Cardinality(Indexed \ Own)
       /\ tool.pc >= 6 => tool.counts[2] = Cardinality(points \ Own)
       /\ tool.refreshed /\ watch.err = "none" =>
            /\ tool.arrivals \subseteq searchable
            /\ tool.pc >= 11 => tool.counts[3] = Cardinality(Indexed \ Own) + tool.count
       /\ tool.pc >= 12 => tool.counts[4] <= Cardinality(points \ Own) + tool.count

(* What the report says when it is made.                                   *)
Reported ==
  Indexing /\ tool.pc = 13 =>
    /\ watch.err = "none"
    /\ tool.report.produced = tool.count /\ tool.report.indexed = tool.count
    /\ Counting /\ tool.refreshed =>
         tool.report.documents = tool.count /\ tool.report.points <= tool.count

LoadInv == /\ StackOK /\ ToolOK /\ ErrorsEnd /\ LagOK /\ NewRuns /\ NewDocuments
           /\ Arrivals /\ Watched /\ AtRest /\ Counts /\ Reported

-----------------------------------------------------------------------------
(* The calls of each mode, one by one.                                     *)
Sent == Snapshot \o <<"publish">> \o Snapshot
WatchScript == <<"connect", "rows">> \o Snapshot \o <<"tick">>

CallNames == {"documents", "points", "ends", "lag", "dlq", "publish", "connect", "rows", "tick"}

(* One sequence after the other, place by place.                           *)
LEMMA Joined ==
  ASSUME NEW s \in Seq(CallNames), NEW t \in Seq(CallNames), NEW j, j = s \o t
  PROVE  /\ j \in Seq(CallNames) /\ Len(j) = Len(s) + Len(t)
         /\ \A i \in 1 .. Len(s) : j[i] = s[i]
         /\ \A i \in 1 .. Len(t) : j[Len(s) + i] = t[i]
<1>1. /\ j \in Seq(CallNames) /\ Len(j) = Len(s) + Len(t)
      /\ \A i \in 1 .. Len(s) + Len(t) : j[i] = IF i <= Len(s) THEN s[i] ELSE t[i - Len(s)]
  BY ConcatProperties
<1>2. ASSUME NEW i \in 1 .. Len(t) PROVE j[Len(s) + i] = t[i]
  <2> DEFINE m == Len(s)
             n == Len(t)
  <2>1. m \in Nat /\ n \in Nat
    OBVIOUS
  <2>2. m + i \in 1 .. m + n /\ ~(m + i <= m) /\ m + i - m = i
    BY <2>1
  <2> QED BY <1>1, <2>2
<1> QED BY <1>1, <1>2

(* The calls of publish and of watch, place by place (main.go).            *)
LEMMA Concatenations ==
  /\ Len(Sent) = 11
  /\ Sent[1] = "documents" /\ Sent[2] = "points" /\ Sent[3] = "ends" /\ Sent[4] = "lag"
  /\ Sent[5] = "dlq" /\ Sent[6] = "publish" /\ Sent[7] = "documents" /\ Sent[8] = "points"
  /\ Sent[9] = "ends" /\ Sent[10] = "lag" /\ Sent[11] = "dlq"
  /\ Len(WatchScript) = 8
  /\ WatchScript[1] = "connect" /\ WatchScript[2] = "rows" /\ WatchScript[3] = "documents"
  /\ WatchScript[4] = "points" /\ WatchScript[5] = "ends" /\ WatchScript[6] = "lag"
  /\ WatchScript[7] = "dlq" /\ WatchScript[8] = "tick"
<1> DEFINE a == <<"documents", "points", "ends", "lag", "dlq">>
           b == <<"publish">>
           c == <<"connect", "rows">>
           d == <<"tick">>
<1>1. Snapshot = a /\ Sent = (a \o b) \o a /\ WatchScript = (c \o a) \o d
  BY DEF Sent, WatchScript, Snapshot
<1>2. /\ a \in Seq(CallNames) /\ Len(a) = 5 /\ a[1] = "documents" /\ a[2] = "points"
      /\ a[3] = "ends" /\ a[4] = "lag" /\ a[5] = "dlq"
  BY DEF CallNames
<1>3. /\ b \in Seq(CallNames) /\ Len(b) = 1 /\ b[1] = "publish"
      /\ c \in Seq(CallNames) /\ Len(c) = 2 /\ c[1] = "connect" /\ c[2] = "rows"
      /\ d \in Seq(CallNames) /\ Len(d) = 1 /\ d[1] = "tick"
  BY DEF CallNames
<1> HIDE DEF a, b, c, d
<1>0. a \in Seq(CallNames) /\ b \in Seq(CallNames) /\ c \in Seq(CallNames) /\ d \in Seq(CallNames)
  BY <1>2, <1>3
<1>l. Len(a) = 5 /\ Len(b) = 1 /\ Len(c) = 2 /\ Len(d) = 1
  BY <1>2, <1>3
<1>4. PICK ab : ab = a \o b
  OBVIOUS
<1>5. PICK aba : aba = ab \o a
  OBVIOUS
<1>6. PICK ca : ca = c \o a
  OBVIOUS
<1>7. PICK cad : cad = ca \o d
  OBVIOUS
<1>8. /\ ab \in Seq(CallNames) /\ Len(ab) = 5 + 1 /\ \A i \in 1 .. 5 : ab[i] = a[i]
      /\ \A i \in 1 .. 1 : ab[5 + i] = b[i]
  <2>1. /\ ab \in Seq(CallNames) /\ Len(ab) = Len(a) + Len(b) /\ \A i \in 1 .. Len(a) : ab[i] = a[i]
        /\ \A i \in 1 .. Len(b) : ab[Len(a) + i] = b[i]
    BY <1>0, <1>4, Joined
  <2> QED BY <1>l, <2>1
<1>9. /\ Len(aba) = 6 + 5 /\ \A i \in 1 .. 6 : aba[i] = ab[i]
      /\ \A i \in 1 .. 5 : aba[6 + i] = a[i]
  <2>1. ab \in Seq(CallNames) /\ Len(ab) = 6
    BY <1>8
  <2>2. /\ Len(aba) = Len(ab) + Len(a) /\ \A i \in 1 .. Len(ab) : aba[i] = ab[i]
        /\ \A i \in 1 .. Len(a) : aba[Len(ab) + i] = a[i]
    <3>1. ab \in Seq(CallNames)
      BY <2>1
    <3> QED BY <1>0, <1>5, <3>1, Joined
  <2> QED BY <1>l, <2>1, <2>2
<1>10. /\ ca \in Seq(CallNames) /\ Len(ca) = 2 + 5 /\ \A i \in 1 .. 2 : ca[i] = c[i]
       /\ \A i \in 1 .. 5 : ca[2 + i] = a[i]
  <2>1. /\ ca \in Seq(CallNames) /\ Len(ca) = Len(c) + Len(a) /\ \A i \in 1 .. Len(c) : ca[i] = c[i]
        /\ \A i \in 1 .. Len(a) : ca[Len(c) + i] = a[i]
    BY <1>0, <1>6, Joined
  <2> QED BY <1>l, <2>1
<1>11. /\ Len(cad) = 7 + 1 /\ \A i \in 1 .. 7 : cad[i] = ca[i]
       /\ \A i \in 1 .. 1 : cad[7 + i] = d[i]
  <2>1. ca \in Seq(CallNames) /\ Len(ca) = 7
    BY <1>10
  <2>2. /\ Len(cad) = Len(ca) + Len(d) /\ \A i \in 1 .. Len(ca) : cad[i] = ca[i]
        /\ \A i \in 1 .. Len(d) : cad[Len(ca) + i] = d[i]
    <3>1. ca \in Seq(CallNames)
      BY <2>1
    <3> QED BY <1>0, <1>7, <3>1, Joined
  <2> QED BY <1>l, <2>1, <2>2
<1>12. /\ Len(Sent) = 11
       /\ Sent[1] = a[1] /\ Sent[2] = a[2] /\ Sent[3] = a[3] /\ Sent[4] = a[4] /\ Sent[5] = a[5]
       /\ Sent[6] = b[1]
       /\ Sent[7] = a[1] /\ Sent[8] = a[2] /\ Sent[9] = a[3] /\ Sent[10] = a[4] /\ Sent[11] = a[5]
  <2>1. Sent = aba
    BY <1>1, <1>4, <1>5
  <2>2. aba[6 + 1] = a[1] /\ aba[6 + 2] = a[2] /\ aba[6 + 3] = a[3] /\ aba[6 + 4] = a[4]
        /\ aba[6 + 5] = a[5]
    BY <1>9
  <2>3. ab[5 + 1] = b[1]
    BY <1>8
  <2> QED BY <1>8, <1>9, <2>1, <2>2, <2>3
<1>13. /\ Len(WatchScript) = 8
       /\ WatchScript[1] = c[1] /\ WatchScript[2] = c[2] /\ WatchScript[3] = a[1]
       /\ WatchScript[4] = a[2] /\ WatchScript[5] = a[3] /\ WatchScript[6] = a[4]
       /\ WatchScript[7] = a[5] /\ WatchScript[8] = d[1]
  <2>1. WatchScript = cad
    BY <1>1, <1>6, <1>7
  <2>2. ca[2 + 1] = a[1] /\ ca[2 + 2] = a[2] /\ ca[2 + 3] = a[3] /\ ca[2 + 4] = a[4]
        /\ ca[2 + 5] = a[5]
    BY <1>10
  <2>3. cad[7 + 1] = d[1]
    BY <1>11
  <2> QED BY <1>10, <1>11, <2>1, <2>2, <2>3
<1> QED BY <1>2, <1>3, <1>12, <1>13

(* What the modes call, as sequences.                                      *)
LEMMA Scripts ==
  /\ DOMAIN Script = {"index", "publish", "duplicate", "watch", "cleanup"}
  /\ Script["index"] = <<"connect", "warmup", "arrive", "documents", "points", "dlq",
                         "insert", "arrive", "refresh", "documents", "points", "dlq">>
  /\ Script["publish"] = Sent /\ Script["duplicate"] = Sent
  /\ Script["watch"] = WatchScript
  /\ Script["cleanup"] = <<"connect", "delete">>
BY DEF Script, Sent, WatchScript

(* The call that a place in a script stands for.                           *)
StepAt(mode, pc) ==
  IF mode # "none" /\ ~(pc > Len(Script[mode])) THEN Script[mode][pc] ELSE "none"

(* Step is that, before and after an action.                               *)
LEMMA StepIs == Step = StepAt(tool.mode, tool.pc) /\ Step' = StepAt(tool'.mode, tool'.pc)
BY DEF Step, StepAt, Running, Over

(* Where an invocation of index is.                                        *)
LEMMA IndexSteps ==
  ASSUME NEW pc \in Nat \ {0}
  PROVE  /\ Len(Script["index"]) = 12
         /\ StepAt("index", pc) = "connect" <=> pc = 1
         /\ StepAt("index", pc) = "warmup" <=> pc = 2
         /\ StepAt("index", pc) = "arrive" <=> pc \in {3, 8}
         /\ StepAt("index", pc) = "documents" <=> pc \in {4, 10}
         /\ StepAt("index", pc) = "points" <=> pc \in {5, 11}
         /\ StepAt("index", pc) = "dlq" <=> pc \in {6, 12}
         /\ StepAt("index", pc) = "insert" <=> pc = 7
         /\ StepAt("index", pc) = "refresh" <=> pc = 9
         /\ StepAt("index", pc) \notin {"ends", "lag", "rows", "tick", "publish", "delete"}
         /\ StepAt("index", pc) = "none" <=> pc > 12
<1> DEFINE s == <<"connect", "warmup", "arrive", "documents", "points", "dlq",
                  "insert", "arrive", "refresh", "documents", "points", "dlq">>
           Here == StepAt("index", pc)
<1>1. Script["index"] = s
  BY Scripts
<1>2. Len(Script["index"]) = 12
  BY <1>1
<1>4. Here = IF pc > 12 THEN "none" ELSE s[pc]
  BY <1>1, <1>2 DEF StepAt
<1>5. /\ s[1] = "connect" /\ s[2] = "warmup" /\ s[3] = "arrive" /\ s[4] = "documents"
      /\ s[5] = "points" /\ s[6] = "dlq" /\ s[7] = "insert" /\ s[8] = "arrive"
      /\ s[9] = "refresh" /\ s[10] = "documents" /\ s[11] = "points" /\ s[12] = "dlq"
  OBVIOUS
<1> HIDE DEF s, Here
<1>6. pc \in {1, 2, 3, 4, 5, 6, 7, 8, 9, 10, 11, 12} \/ pc > 12
  OBVIOUS
<1>7. Here = "none" <=> pc > 12
  BY <1>4, <1>5, <1>6
<1>8. Here \notin {"ends", "lag", "rows", "tick", "publish", "delete"}
  BY <1>4, <1>5, <1>6
<1>9. /\ Here = "connect" <=> pc = 1
      /\ Here = "warmup" <=> pc = 2
      /\ Here = "arrive" <=> pc \in {3, 8}
      /\ Here = "documents" <=> pc \in {4, 10}
  BY <1>4, <1>5, <1>6
<1>10. /\ Here = "points" <=> pc \in {5, 11}
       /\ Here = "dlq" <=> pc \in {6, 12}
       /\ Here = "insert" <=> pc = 7
       /\ Here = "refresh" <=> pc = 9
  BY <1>4, <1>5, <1>6
<1> QED BY <1>2, <1>7, <1>8, <1>9, <1>10 DEF Here

(* Only index writes and waits, and every mode reads the ends right before *)
(* the offsets.                                                            *)
LEMMA OtherSteps ==
  ASSUME NEW mode \in DOMAIN Script \ {"index"}, NEW pc \in Nat \ {0}
  PROVE  /\ StepAt(mode, pc) \notin {"warmup", "insert", "arrive", "refresh"}
         /\ StepAt(mode, pc) = "tick" => mode = "watch"
         /\ StepAt(mode, pc) = "lag" => pc > 2 /\ Script[mode][pc - 1] = "ends"
         /\ Len(Script[mode]) \in Nat
<1> DEFINE Here == StepAt(mode, pc)
<1>1. mode \in {"publish", "duplicate", "watch", "cleanup"}
  BY Scripts
<1>2. mode # "none"
  BY <1>1
<1>3. CASE mode \in {"publish", "duplicate"}
  <2>1. Script[mode] = Sent
    BY <1>3, Scripts
  <2>2. Here = IF pc > 11 THEN "none" ELSE Sent[pc]
    BY <1>2, <2>1, Concatenations DEF StepAt
  <2>3. pc \in {1, 2, 3, 4, 5, 6, 7, 8, 9, 10, 11} \/ pc > 11
    OBVIOUS
  <2>4. /\ Here \notin {"warmup", "insert", "arrive", "refresh", "tick"}
        /\ Here = "lag" => pc = 4 \/ pc = 10
    BY <2>2, <2>3, Concatenations
  <2>5. Sent[4 - 1] = "ends" /\ Sent[10 - 1] = "ends" /\ Len(Script[mode]) = 11
    BY <2>1, Concatenations
  <2> QED BY <2>1, <2>4, <2>5
<1>4. CASE mode = "watch"
  <2>1. Script[mode] = WatchScript
    BY <1>4, Scripts
  <2>2. Here = IF pc > 8 THEN "none" ELSE WatchScript[pc]
    BY <1>2, <2>1, Concatenations DEF StepAt
  <2>3. pc \in {1, 2, 3, 4, 5, 6, 7, 8} \/ pc > 8
    OBVIOUS
  <2>4. /\ Here \notin {"warmup", "insert", "arrive", "refresh"}
        /\ Here = "lag" => pc = 6
    BY <2>2, <2>3, Concatenations
  <2>5. WatchScript[6 - 1] = "ends" /\ Len(Script[mode]) = 8
    BY <2>1, Concatenations
  <2> QED BY <1>4, <2>1, <2>4, <2>5
<1>5. CASE mode = "cleanup"
  <2>1. Script[mode] = <<"connect", "delete">>
    BY <1>5, Scripts
  <2>2. Here \in {"none", "connect", "delete"}
    <3>1. pc \in {1, 2} \/ pc > 2
      OBVIOUS
    <3>2. Here = IF pc > 2 THEN "none" ELSE <<"connect", "delete">>[pc]
      BY <1>2, <2>1 DEF StepAt
    <3>3. <<"connect", "delete">>[1] = "connect" /\ <<"connect", "delete">>[2] = "delete"
      OBVIOUS
    <3> QED BY <3>1, <3>2, <3>3
  <2>3. Len(Script[mode]) = 2
    BY <2>1
  <2> QED BY <2>2, <2>3
<1> QED BY <1>1, <1>3, <1>4, <1>5

-----------------------------------------------------------------------------
(* There are finitely many documents.                                      *)
LEMMA DocsAreFinite == IsFiniteSet(Docs) /\ \A S \in SUBSET Docs : IsFiniteSet(S)
<1>1. IsFiniteSet(0 .. MaxDocuments - 1)
  BY LoadTestAssumption, FS_Interval
<1>2. IsFiniteSet(Docs)
  BY <1>1, LoadTestAssumption, FS_Product DEF Docs
<1> QED BY <1>2, FS_Subset

(* A finite set in some order.                                             *)
LEMMA SetsHaveOrders ==
  ASSUME NEW S, IsFiniteSet(S)
  PROVE  SetToSeq(S) \in Seq(S)
<1> DEFINE n == Cardinality(S)
<1>1. n \in Nat /\ ExistsBijection(1 .. n, S)
  BY FS_CardinalityType
<1>2. PICK f : f \in Bijection(1 .. n, S)
  BY <1>1 DEF ExistsBijection
<1>3. f \in [1 .. n -> S] /\ IsInjective(f)
  BY <1>2 DEF Bijection, Injection
<1>4. SetToSeq(S) \in [1 .. n -> S]
  BY <1>3 DEF SetToSeq
<1> QED BY <1>1, <1>4

\* Events of op on docs in version v, and nothing else, came behind what each
\* partition had.
Appended(docs, op, v) ==
  /\ topic' \in [Part -> Seq(Events)]
  /\ \A p \in Part :
       /\ Len(topic[p]) \in Nat /\ Len(topic'[p]) \in Nat
       /\ Len(topic[p]) <= Len(topic'[p])
       /\ \A i \in 1 .. Len(topic[p]) : topic'[p][i] = topic[p][i]
       /\ \A i \in 1 .. Len(topic'[p]) : Len(topic[p]) < i =>
            topic'[p][i].doc \in docs /\ topic'[p][i].op = op /\ topic'[p][i].version = v

(* What is published goes to the end of its partition.                     *)
LEMMA Published ==
  ASSUME StackOK, NEW docs \in SUBSET Docs, NEW op \in Operations, NEW v \in Nat,
         Publish(docs, op, v)
  PROVE  Appended(docs, op, v)
<1> DEFINE event(d) == [doc |-> d, op |-> op, version |-> v]
           ofPart(p) == {d \in docs : PartitionOf(d) = p}
           new(p) == {event(d) : d \in ofPart(p)}
<1>1. ASSUME NEW p \in Part
      PROVE  new(p) \in SUBSET Events /\ SetToSeq(new(p)) \in Seq(new(p))
  <2>1. IsFiniteSet(ofPart(p))
    BY DocsAreFinite
  <2>2. IsFiniteSet(new(p))
    <3> DEFINE f == [d \in ofPart(p) |-> event(d)]
    <3>1. f \in [ofPart(p) -> new(p)] /\ \A e \in new(p) : \E d \in ofPart(p) : f[d] = e
      OBVIOUS
    <3> HIDE DEF f, new, ofPart
    <3>2. f \in Surjection(ofPart(p), new(p))
      BY <3>1, Fun_IsSurj
    <3> QED BY <2>1, <3>2, FS_Surjection
  <2>3. \A e \in new(p) : e \in Events
    BY DEF Events
  <2> QED BY <2>2, <2>3, SetsHaveOrders
<1>2. topic' = [p \in Part |-> topic[p] \o SetToSeq(new(p))]
  BY DEF Publish
<1>3. ASSUME NEW p \in Part
      PROVE  /\ topic'[p] \in Seq(Events)
             /\ Len(topic[p]) \in Nat /\ Len(topic'[p]) \in Nat
             /\ Len(topic[p]) <= Len(topic'[p])
             /\ \A i \in 1 .. Len(topic[p]) : topic'[p][i] = topic[p][i]
             /\ \A i \in 1 .. Len(topic'[p]) : Len(topic[p]) < i => topic'[p][i] \in new(p)
  <2> DEFINE s == topic[p]
             t == SetToSeq(new(p))
             j == topic'[p]
  <2>1. s \in Seq(Events) /\ t \in Seq(new(p)) /\ t \in Seq(Events) /\ j = s \o t
    <3>1. t \in Seq(new(p)) /\ new(p) \in SUBSET Events
      BY <1>1
    <3>2. j = s \o t
      BY <1>2
    <3>3. s \in Seq(Events)
      BY DEF StackOK
    <3> HIDE DEF t, new, s, j
    <3>4. Len(t) \in Nat /\ t \in [1 .. Len(t) -> new(p)]
      BY <3>1
    <3>5. t \in [1 .. Len(t) -> Events]
      BY <3>1, <3>4
    <3>6. t \in Seq(Events)
      BY <3>4, <3>5
    <3> QED BY <3>1, <3>2, <3>3, <3>6
  <2> HIDE DEF s, t, j
  <2>2. /\ j \in Seq(Events) /\ Len(j) = Len(s) + Len(t)
        /\ \A i \in 1 .. Len(s) + Len(t) : j[i] = IF i <= Len(s) THEN s[i] ELSE t[i - Len(s)]
    BY <2>1, ConcatProperties
  <2>3. Len(s) \in Nat /\ Len(t) \in Nat /\ \A i \in 1 .. Len(t) : t[i] \in new(p)
    BY <2>1
  <2>4. \A i \in 1 .. Len(s) : j[i] = s[i]
    BY <2>2, <2>3
  <2>5. ASSUME NEW i \in 1 .. Len(j), Len(s) < i PROVE j[i] \in new(p)
    <3>1. j[i] = t[i - Len(s)] /\ i - Len(s) \in 1 .. Len(t)
      BY <2>2, <2>3, <2>5
    <3> QED BY <2>3, <3>1
  <2>6. Len(s) <= Len(j) /\ Len(j) \in Nat
    BY <2>2, <2>3
  <2> QED BY <2>2, <2>3, <2>4, <2>5, <2>6 DEF s, j
<1>4. \A p \in Part : \A e \in new(p) : e.doc \in docs /\ e.op = op /\ e.version = v
  OBVIOUS
<1> HIDE DEF new
<1>5. topic' \in [Part -> Seq(Events)]
  <2>1. DOMAIN topic' = Part /\ topic' = [p \in Part |-> topic'[p]]
    BY <1>2
  <2> QED BY <1>3, <2>1
<1> QED BY <1>3, <1>4, <1>5 DEF Appended

(* A statement gives the rows it changes a version of their own.           *)
LEMMA Changed ==
  ASSUME StackOK, NEW docs \in SUBSET Docs, NEW op \in Operations, Change(docs, op)
  PROVE  /\ rows' \in [Docs -> Nat] /\ version' \in Nat
         /\ \A d \in Docs : rows'[d] = IF d \notin docs THEN rows[d]
                                       ELSE IF op = "d" THEN 0 ELSE version + 1
         /\ topic' \in [Part -> Seq(Events)]
         /\ \A p \in Part :
              /\ Len(topic[p]) \in Nat /\ Len(topic'[p]) \in Nat
              /\ Len(topic[p]) <= Len(topic'[p])
              /\ \A i \in 1 .. Len(topic[p]) : topic'[p][i] = topic[p][i]
              /\ \A i \in 1 .. Len(topic'[p]) : Len(topic[p]) < i =>
                   /\ topic'[p][i].doc \in docs /\ topic'[p][i].op = op
                   /\ topic'[p][i].version = version + 1
<1>1. version \in Nat /\ rows \in [Docs -> Nat] /\ topic \in [Part -> Seq(Events)]
  BY DEF StackOK
<1>2. CASE docs = {}
  <2>1. rows' = rows /\ version' = version /\ topic' = topic
    BY <1>2 DEF Change
  <2>2. \A p \in Part : Len(topic[p]) \in Nat
    BY <1>1
  <2>3. \A p \in Part : \A i \in 1 .. Len(topic[p]) : ~(Len(topic[p]) < i)
    BY <2>2
  <2>4. \A p \in Part : Len(topic[p]) <= Len(topic[p])
    BY <2>2
  <2>5. \A d \in Docs : rows'[d] = IF d \notin docs THEN rows[d]
                                       ELSE IF op = "d" THEN 0 ELSE version + 1
    BY <1>2, <2>1
  <2>6. /\ rows' \in [Docs -> Nat] /\ version' \in Nat /\ topic' \in [Part -> Seq(Events)]
    BY <1>1, <2>1
  <2>7. \A p \in Part :
              /\ Len(topic[p]) \in Nat /\ Len(topic'[p]) \in Nat
              /\ Len(topic[p]) <= Len(topic'[p])
              /\ \A i \in 1 .. Len(topic[p]) : topic'[p][i] = topic[p][i]
              /\ \A i \in 1 .. Len(topic'[p]) : ~(Len(topic[p]) < i)
    <3> HIDE <2>5, <2>6
    <3> QED BY <2>1, <2>2, <2>3, <2>4
  <2> QED BY <2>5, <2>6, <2>7
<1>3. CASE docs # {}
  <2>1. /\ version' = version + 1
        /\ rows' = [d \in Docs |-> IF d \notin docs THEN rows[d] ELSE IF op = "d" THEN 0 ELSE version + 1]
        /\ Publish(docs, op, version + 1)
    BY <1>3 DEF Change
  <2>2. version + 1 \in Nat
    BY <1>1
  <2>3. rows' \in [Docs -> Nat]
    BY <1>1, <2>1, <2>2
  <2>4. \A d \in Docs : rows'[d] = IF d \notin docs THEN rows[d]
                                       ELSE IF op = "d" THEN 0 ELSE version + 1
    BY <2>1
  <2>5. PICK v \in Nat : v = version + 1
    BY <2>2
  <2>6. Publish(docs, op, v)
    BY <2>1, <2>5
  <2>7. Appended(docs, op, v)
    BY <2>6, Published
  <2>8. Appended(docs, op, version + 1)
    BY <2>5, <2>7
  <2> QED BY <2>1, <2>2, <2>3, <2>4, <2>8 DEF Appended
<1> QED BY <1>2, <1>3

(* One event is committed, no other offset moves.                          *)
LEMMA Disposed ==
  ASSUME StackOK, NEW p \in Part, Position(p) < Len(topic[p]), Dispose(p), UNCHANGED topic
  PROVE  /\ committed' \in [Part -> Int]
         /\ \A q \in Part : /\ Position(q)' = IF q = p THEN Position(q) + 1 ELSE Position(q)
                            /\ Position(q)' \in 0 .. Len(topic'[q])
<1>1. committed \in [Part -> Int] /\ \A q \in Part : Position(q) \in 0 .. Len(topic[q])
  BY DEF StackOK
<1>2. committed' = [committed EXCEPT ![p] = Position(p) + 1]
  BY DEF Dispose
<1>3. \A q \in Part : committed'[q] = IF q = p THEN Position(p) + 1 ELSE committed[q]
  BY <1>1, <1>2
<1>4. \A q \in Part : Position(q)' = IF q = p THEN Position(q) + 1 ELSE Position(q)
  BY <1>1, <1>3 DEF Position
<1>5. \A q \in Part : Len(topic[q]) \in Nat
  BY DEF StackOK
<1> QED BY <1>1, <1>2, <1>4, <1>5

(* Event i of partition p is not yet committed.                            *)
OnTheWay(p, i) == p \in Part /\ i \in 1 .. Len(topic[p]) /\ Position(p) < i

(* What the stack does by itself: it commits, it writes the keyword index  *)
(* and points as events on the way say, and it refreshes.                  *)
StackMoves ==
  /\ UNCHANGED <<rows, version, topic, tool, watch, contextEnded, plan, earlier>>
  /\ \A p \in Part : Position(p) <= Position(p)'
  /\ \A d \in Docs : \/ keyword'[d] = keyword[d]
                     \/ \E p \in Part : \E i \in 1 .. Len(topic[p]) :
                          /\ OnTheWay(p, i) /\ topic[p][i].doc = d
                          /\ keyword'[d] = IF topic[p][i].op = "d" THEN 0 ELSE topic[p][i].version
  /\ \A d \in Docs : \/ d \in points' <=> d \in points
                     \/ \E p \in Part : \E i \in 1 .. Len(topic[p]) :
                          OnTheWay(p, i) /\ topic[p][i].doc = d
  /\ searchable' = searchable \/ (searchable' = Indexed /\ keyword' = keyword)

(* The event a partition works on is on the way.                           *)
LEMMA HeadIsOnTheWay ==
  ASSUME StackOK, NEW p \in Part, Position(p) < Len(topic[p])
  PROVE  /\ Position(p) + 1 \in 1 .. Len(topic[p]) /\ OnTheWay(p, Position(p) + 1)
         /\ InWork(p) = topic[p][Position(p) + 1] /\ InWork(p) \in Events
<1>1. Position(p) \in 0 .. Len(topic[p]) /\ topic[p] \in Seq(Events)
  BY DEF StackOK
<1>2. Position(p) + 1 \in 1 .. Len(topic[p])
  BY <1>1
<1> QED BY <1>1, <1>2 DEF OnTheWay, InWork

(* The keyword index changes as the event in work says, or the event is    *)
(* stale and is committed.                                                 *)
LEMMA KeywordWriteMoves ==
  ASSUME StackOK, NEW p \in Part, KeywordWrite(p)
  PROVE  StackOK' /\ StackMoves
<1> DEFINE e == InWork(p)
<1>1. Len(topic[p]) \in Nat /\ Position(p) \in 0 .. Len(topic[p])
  BY DEF StackOK
<1>2. Position(p) < Len(topic[p])
  BY <1>1 DEF KeywordWrite, Outstanding
<1>3. UNCHANGED <<rows, version, topic, searchable, points, dead, tool, watch, contextEnded, plan, earlier, failures>>
  BY DEF KeywordWrite
<1>4. /\ e = topic[p][Position(p) + 1] /\ e \in Events
      /\ Position(p) + 1 \in 1 .. Len(topic[p]) /\ OnTheWay(p, Position(p) + 1)
  BY <1>2, HeadIsOnTheWay
<1> HIDE DEF e
<1>5. CASE Dispose(p) /\ UNCHANGED <<keyword, half>>
  <2>1. /\ committed' \in [Part -> Int]
        /\ \A q \in Part : /\ Position(q)' = IF q = p THEN Position(q) + 1 ELSE Position(q)
                           /\ Position(q)' \in 0 .. Len(topic'[q])
    BY <1>2, <1>3, <1>5, Disposed
  <2>2. \A q \in Part : Position(q) <= Position(q)'
    BY <2>1 DEF StackOK
  <2>3. ~half[p]
    BY DEF KeywordWrite
  <2>4. \A q \in Part : half'[q] => Position(q)' < Len(topic'[q])
    BY <1>3, <1>5, <2>1, <2>3 DEF StackOK
  <2> QED BY <1>3, <1>5, <2>1, <2>2, <2>4 DEF StackOK, StackMoves
<1>6. CASE /\ keyword' = [keyword EXCEPT ![e.doc] = IF e.op = "d" THEN 0 ELSE e.version]
           /\ half' = [half EXCEPT ![p] = TRUE]
           /\ UNCHANGED committed
  <2>1. e.doc \in Docs /\ e.version \in Nat
    BY <1>4 DEF Events
  <2>2. keyword \in [Docs -> Nat] /\ half \in [Part -> BOOLEAN]
    BY DEF StackOK
  <2>3. keyword' \in [Docs -> Nat]
    BY <1>6, <2>1, <2>2
  <2>4. \A d \in Docs : keyword'[d] = IF d = e.doc THEN IF e.op = "d" THEN 0 ELSE e.version
                                      ELSE keyword[d]
    BY <1>6, <2>1, <2>2
  <2>5. half' \in [Part -> BOOLEAN] /\ \A q \in Part : q # p => half'[q] = half[q]
    BY <1>6, <2>2
  <2>6. \A q \in Part : Position(q)' = Position(q)
    BY <1>6 DEF Position
  <2>7. \A q \in Part : half'[q] => Position(q)' < Len(topic'[q])
    <3> SUFFICES ASSUME NEW q \in Part, half'[q] PROVE Position(q) < Len(topic[q])
      BY <1>3, <2>6
    <3>1. CASE q = p
      BY <1>2, <3>1
    <3>2. CASE q # p
      BY <2>5, <3>2 DEF StackOK
    <3> QED BY <3>1, <3>2
  <2>8. \A q \in Part : Position(q)' \in 0 .. Len(topic'[q]) /\ Position(q) <= Position(q)'
    BY <1>3, <2>6 DEF StackOK
  <2>9. StackOK'
    BY <1>3, <1>6, <2>3, <2>5, <2>7, <2>8 DEF StackOK
  <2>10. \A d \in Docs : keyword'[d] = keyword[d]
           \/ \E q \in Part : \E i \in 1 .. Len(topic[q]) :
                /\ OnTheWay(q, i) /\ topic[q][i].doc = d
                /\ keyword'[d] = IF topic[q][i].op = "d" THEN 0 ELSE topic[q][i].version
    BY <1>4, <2>4
  <2> QED BY <1>3, <2>8, <2>9, <2>10 DEF StackMoves
<1> QED BY <1>5, <1>6 DEF KeywordWrite, e

(* Then the points do, and the event is committed.                         *)
LEMMA VectorWriteMoves ==
  ASSUME StackOK, NEW p \in Part, VectorWrite(p)
  PROVE  StackOK' /\ StackMoves
<1> DEFINE e == InWork(p)
<1>1. Position(p) < Len(topic[p])
  BY DEF StackOK, VectorWrite
<1>2. UNCHANGED <<rows, version, topic, keyword, searchable, dead, tool, watch, contextEnded, plan, earlier, failures>>
  BY DEF VectorWrite
<1>3. /\ e = topic[p][Position(p) + 1] /\ e \in Events
      /\ Position(p) + 1 \in 1 .. Len(topic[p]) /\ OnTheWay(p, Position(p) + 1)
  BY <1>1, HeadIsOnTheWay
<1>4. points' = IF e.op = "d" THEN points \ {e.doc} ELSE points \cup {e.doc}
  BY DEF VectorWrite
<1> HIDE DEF e
<1>5. e.doc \in Docs /\ points \in SUBSET Docs
  BY <1>3 DEF Events, StackOK
<1>6. /\ committed' \in [Part -> Int]
      /\ \A q \in Part : /\ Position(q)' = IF q = p THEN Position(q) + 1 ELSE Position(q)
                         /\ Position(q)' \in 0 .. Len(topic'[q])
  BY <1>1, <1>2, Disposed DEF VectorWrite
<1>7. half' = [half EXCEPT ![p] = FALSE] /\ half \in [Part -> BOOLEAN]
  BY DEF VectorWrite, StackOK
<1>8. \A q \in Part : half'[q] => q # p /\ half[q]
  BY <1>7
<1>9. \A q \in Part : half'[q] => Position(q)' < Len(topic'[q])
  BY <1>2, <1>6, <1>8 DEF StackOK
<1>10. \A q \in Part : Position(q) <= Position(q)'
  BY <1>6 DEF StackOK
<1>11. points' \in SUBSET Docs /\ \A d \in Docs : d # e.doc => (d \in points' <=> d \in points)
  BY <1>4, <1>5
<1>12. half' \in [Part -> BOOLEAN]
  BY <1>7
<1>13. StackOK'
  BY <1>2, <1>6, <1>9, <1>11, <1>12 DEF StackOK
<1>14. \A d \in Docs : (d \in points' <=> d \in points)
         \/ \E q \in Part : \E i \in 1 .. Len(topic[q]) : OnTheWay(q, i) /\ topic[q][i].doc = d
  BY <1>3, <1>11
<1> QED BY <1>2, <1>10, <1>13, <1>14 DEF StackMoves

(* A dead-lettered event is committed as far as it got.                    *)
LEMMA DeadLetterMoves ==
  ASSUME StackOK, NEW p \in Part, DeadLetter(p)
  PROVE  StackOK' /\ StackMoves
<1>1. Position(p) < Len(topic[p])
  BY DEF StackOK, DeadLetter, Outstanding
<1>2. UNCHANGED <<rows, version, topic, keyword, searchable, points, tool, watch, contextEnded, plan, earlier>>
  BY DEF DeadLetter
<1>3. /\ committed' \in [Part -> Int]
      /\ \A q \in Part : /\ Position(q)' = IF q = p THEN Position(q) + 1 ELSE Position(q)
                         /\ Position(q)' \in 0 .. Len(topic'[q])
  BY <1>1, <1>2, Disposed DEF DeadLetter
<1>4. half' = [half EXCEPT ![p] = FALSE] /\ half \in [Part -> BOOLEAN]
  BY DEF DeadLetter, StackOK
<1>5. half' \in [Part -> BOOLEAN] /\ \A q \in Part : half'[q] => q # p /\ half[q]
  BY <1>4
<1>6. \A q \in Part : half'[q] => Position(q)' < Len(topic'[q])
  BY <1>2, <1>3, <1>5 DEF StackOK
<1>7. \A q \in Part : Position(q) <= Position(q)'
  BY <1>3 DEF StackOK
<1>8. StackOK'
  BY <1>2, <1>3, <1>5, <1>6 DEF StackOK
<1> QED BY <1>2, <1>7, <1>8 DEF StackMoves

(* So each of them is one of these moves, and so is a refresh.             *)
LEMMA StackSteps == StackOK /\ Stack => StackOK' /\ StackMoves
<1> SUFFICES ASSUME StackOK, Stack PROVE StackOK' /\ StackMoves
  OBVIOUS
<1>1. CASE PeriodicRefresh
  <2>1. Indexed \in SUBSET Docs
    BY DEF Indexed
  <2>2. UNCHANGED <<rows, version, topic, committed, half, keyword, points, tool, watch, contextEnded, plan, earlier>>
        /\ searchable' = Indexed
    BY <1>1 DEF PeriodicRefresh
  <2>3. \A p \in Part : Position(p)' = Position(p)
    BY <2>2 DEF Position
  <2>4. StackOK'
    BY <2>1, <2>2, <2>3 DEF StackOK
  <2>5. \A p \in Part : Position(p) <= Position(p)'
    BY <2>3 DEF StackOK
  <2> QED BY <2>2, <2>4, <2>5 DEF StackMoves
<1> QED BY <1>1, KeywordWriteMoves, VectorWriteMoves, DeadLetterMoves DEF Stack

-----------------------------------------------------------------------------
(* Nothing of what is said of the stack changes with the tool.             *)
LEMMA StackKept ==
  ASSUME UNCHANGED stack
  PROVE  /\ StackOK' <=> StackOK
         /\ \A p \in Part : Position(p)' = Position(p)
         /\ \A d \in Docs : (Untouched(d)' <=> Untouched(d)) /\ (Created(d)' <=> Created(d))
         /\ Indexed' = Indexed
<1>1. /\ rows' = rows /\ version' = version /\ topic' = topic /\ committed' = committed
      /\ half' = half /\ keyword' = keyword /\ searchable' = searchable /\ points' = points
      /\ dead' = dead
  BY DEF stack
<1> QED BY <1>1 DEF StackOK, Position, Untouched, Created, Indexed

(* What an invocation was told to do and works with stays the same.        *)
Kept(t) == /\ t.mode = tool.mode /\ t.scope = tool.scope /\ t.count = tool.count
           /\ t.warm = tool.warm /\ t.op = tool.op

(* It goes on to the next call.                                            *)
LEMMA Advanced ==
  ASSUME tool \in Tools, NEW t, t = Advance
  PROVE  /\ t \in Tools /\ Kept(t) /\ t.pc = tool.pc + 1 /\ t.sent = 0
         /\ t.arrivals = tool.arrivals
         /\ t.others = tool.others /\ t.counts = tool.counts /\ t.ends = tool.ends
         /\ t.lag = tool.lag /\ t.report = tool.report /\ t.err = tool.err
         /\ t.quiet = tool.quiet /\ t.refreshed = tool.refreshed
<1>1. tool.pc \in Nat
  BY DEF Tools
<1>2. PICK next \in Nat : next = tool.pc + 1
  BY <1>1
<1>3. PICK none \in Nat : none = 0
  OBVIOUS
<1>4. t = [tool EXCEPT !.pc = next, !.sent = none]
  BY <1>2, <1>3 DEF Advance
<1>5. t \in Tools
  BY <1>4 DEF Tools
<1> QED BY <1>2, <1>3, <1>4, <1>5 DEF Kept, Tools

(* It ends there.                                                          *)
LEMMA Failed ==
  ASSUME tool \in Tools, Running, NEW error \in Errors, Fail(error)
  PROVE  /\ tool' \in Tools /\ Kept(tool') /\ tool'.sent = tool.sent
         /\ tool'.arrivals = tool.arrivals
         /\ tool'.pc \in Nat \ {0} /\ tool'.pc > Len(Script[tool.mode])
         /\ tool'.others = tool.others /\ tool'.counts = tool.counts /\ tool'.ends = tool.ends
         /\ tool'.lag = tool.lag /\ tool'.report = tool.report /\ tool'.err = error
         /\ tool'.quiet = tool.quiet /\ tool'.refreshed = tool.refreshed
<1>1. tool.mode \in DOMAIN Script
  BY DEF Tools, Running
<1>2. Len(Script[tool.mode]) \in Nat
  <2>1. Len(<<"connect", "warmup", "arrive", "documents", "points", "dlq",
              "insert", "arrive", "refresh", "documents", "points", "dlq">>) = 12
    OBVIOUS
  <2>2. Len(<<"connect", "delete">>) = 2
    OBVIOUS
  <2>3. tool.mode \in {"index", "publish", "duplicate", "watch", "cleanup"}
    BY <1>1, Scripts
  <2>4. CASE tool.mode = "index"
    BY <2>1, <2>4, Scripts
  <2>5. CASE tool.mode \in {"publish", "duplicate", "watch"}
    BY <2>5, Scripts, Concatenations
  <2>6. CASE tool.mode = "cleanup"
    BY <2>2, <2>6, Scripts
  <2> QED BY <2>3, <2>4, <2>5, <2>6
<1>3. PICK end : end = Len(Script[tool.mode]) + 1
  OBVIOUS
<1>4. end \in Nat \ {0} /\ end > Len(Script[tool.mode])
  BY <1>2, <1>3
<1>5. tool' = [tool EXCEPT !.pc = end, !.err = error]
  BY <1>3 DEF Fail
<1>6. tool' \in Tools
  BY <1>4, <1>5 DEF Tools
<1> QED BY <1>4, <1>5, <1>6 DEF Kept, Tools

(* Neither the stack nor the runs written for change, or they grow: what   *)
(* is said of new runs stays.                                              *)
LEMMA NewRunsKept ==
  ASSUME NewRuns, UNCHANGED stack, earlier \cup tool.scope \subseteq earlier' \cup tool'.scope
  PROVE  NewRuns'
BY StackKept DEF NewRuns

(* What is said of an invocation of index says nothing of any other one.   *)
LEMMA NotIndexing ==
  ASSUME ~Indexing', watch'.err # "store" => (watch'.pending \ watch'.found) \cap watch'.seen = {},
         watch'.resting => watch'.unchecked = {} /\ watch'.err = "none",
         ~Watching' \/ watch'.err \in {"none", "store"}
  PROVE  NewDocuments' /\ Arrivals' /\ Watched' /\ AtRest' /\ Counts' /\ Reported'
<1>1. NewDocuments' /\ Arrivals' /\ Watched'
  BY DEF NewDocuments, Arrivals, Watched
<1>2. AtRest' /\ Counts' /\ Reported'
  BY DEF AtRest, Counts, Counting, Reported
<1> QED BY <1>1, <1>2

(* The last reading and what had been committed then.                      *)
LEMMA LagKept ==
  ASSUME LagOK, tool'.lag = tool.lag, tool'.ends = tool.ends, StackOK,
         Step' = "lag" => Step = "lag",
         \A p \in Part : Position(p)' \in Int /\ Position(p) <= Position(p)'
  PROVE  LagOK'
<1>1. Step' = "lag" => tool'.ends \in [Part -> Reading]
  BY DEF LagOK
<1>2. tool'.lag # -1 => \A p \in DOMAIN tool'.ends : p \in Part /\ tool'.ends[p].end \in Nat
  BY DEF LagOK
<1>3. ASSUME tool'.lag = 0, NEW p \in DOMAIN tool'.ends, tool'.ends[p].said = tool'.ends[p].end
      PROVE  Position(p)' >= tool'.ends[p].end
  <2>1. p \in Part /\ tool.ends[p].end \in Nat
    BY <1>2, <1>3
  <2>2. Position(p) >= tool.ends[p].end
    BY <1>3 DEF LagOK, ZeroLagMeansCaughtUp
  <2>3. Position(p) \in Int
    BY <2>1 DEF StackOK
  <2> QED BY <2>1, <2>2, <2>3
<1> QED BY <1>1, <1>2, <1>3 DEF LagOK, ZeroLagMeansCaughtUp

(* Nothing of what is said of the tool changes with the stack.             *)
LEMMA ToolKept ==
  ASSUME UNCHANGED <<tool, watch, plan, earlier>>
  PROVE  /\ ToolOK' <=> ToolOK
         /\ Step' = Step /\ (Watching' <=> Watching) /\ (Indexing' <=> Indexing)
         /\ (Fresh' <=> Fresh) /\ (Counting' <=> Counting)
         /\ Written' = Written /\ Own' = Own
         /\ Arrivals' <=> Arrivals
         /\ Reported' <=> Reported
<1>1. ToolOK' <=> ToolOK
  BY DEF ToolOK, Running
<1>2. /\ Step' = Step /\ (Watching' <=> Watching) /\ (Indexing' <=> Indexing)
      /\ (Fresh' <=> Fresh) /\ Own' = Own
  BY DEF Step, Watching, Indexing, Fresh, Own, Over, Running
<1>3. Written' = Written
  BY DEF Written
<1>4. Counting' <=> Counting
  BY <1>2 DEF Counting
<1>5. \A n : Measured(n)' = Measured(n)
  BY DEF Measured
<1>6. Arrivals' <=> Arrivals
  BY <1>2, <1>3, <1>5 DEF Arrivals
<1>7. Reported' <=> Reported
  BY <1>2, <1>4 DEF Reported
<1> QED BY <1>1, <1>2, <1>3, <1>4, <1>6, <1>7

(* No event of an untouched document is on the way.                        *)
LEMMA UntouchedKept ==
  ASSUME StackOK, StackMoves, NEW d \in Docs, Untouched(d)
  PROVE  Untouched(d)'
<1>1. \A p \in Part : \A i \in 1 .. Len(topic[p]) : topic[p][i].doc # d
  BY DEF Untouched
<1>2. keyword'[d] = keyword[d] /\ (d \in points' <=> d \in points)
  BY <1>1 DEF StackMoves
<1>3. d \notin searchable'
  BY DEF StackMoves, Untouched, Indexed
<1> QED BY <1>2, <1>3 DEF StackMoves, Untouched

(* The event of a new document can only bring its row's version.           *)
LEMMA CreatedKept ==
  ASSUME StackOK, StackMoves, NEW d \in Docs, Created(d)
  PROVE  Created(d)' /\ (keyword[d] > 0 => keyword'[d] > 0)
<1>1. rows[d] > 0 /\ keyword[d] \in {0, rows[d]}
  BY DEF Created
<1>2. keyword'[d] = keyword[d] \/ keyword'[d] = rows[d]
  <2> SUFFICES ASSUME NEW p \in Part, NEW i \in 1 .. Len(topic[p]), topic[p][i].doc = d,
                      keyword'[d] = IF topic[p][i].op = "d" THEN 0 ELSE topic[p][i].version
               PROVE  keyword'[d] = rows[d]
    BY DEF StackMoves
  <2>1. topic[p][i].op = "c" /\ topic[p][i].version = rows[d]
    BY DEF Created
  <2> QED BY <2>1
<1>3. rows' = rows /\ topic' = topic
  BY DEF StackMoves
<1> QED BY <1>1, <1>2, <1>3 DEF Created

(* The watcher is right about a document of a new run because nothing      *)
(* takes it out of the index again.                                        *)
LEMMA SeenIsIndexed ==
  ASSUME LoadInv, Indexing, Fresh, tool.pc >= 8,
         NEW d \in (tool.arrivals \ watch.pending) \cup watch.found
  PROVE  d \in Docs /\ Created(d) /\ keyword[d] > 0
<1>1. d \in tool.arrivals /\ keyword[d] > 0
  BY DEF LoadInv, Watched, ToolOK, Tools
<1>2. tool.arrivals = Measured(Written)
  BY DEF LoadInv, Arrivals
<1>3. d \in Docs /\ d[1] \in tool.scope /\ d[2] < Written
  BY <1>1, <1>2 DEF Measured
<1> QED BY <1>1, <1>3 DEF LoadInv, NewDocuments

(* What the stack does by itself leaves all of it as it is.                *)
LEMMA StackKeepsInv == LoadInv /\ Stack => LoadInv'
<1> SUFFICES ASSUME LoadInv, Stack PROVE LoadInv'
  OBVIOUS
<1>1. StackOK' /\ StackMoves /\ StackOK
  BY StackSteps DEF LoadInv
<1>2. /\ ToolOK' /\ Step' = Step /\ (Watching' <=> Watching) /\ (Indexing' <=> Indexing)
      /\ (Fresh' <=> Fresh) /\ (Counting' <=> Counting)
      /\ Written' = Written /\ Own' = Own /\ Arrivals' /\ Reported'
  BY <1>1, ToolKept DEF LoadInv, StackMoves
<1>3. /\ rows' = rows /\ topic' = topic /\ tool' = tool /\ watch' = watch /\ earlier' = earlier
      /\ \A p \in Part : Position(p) <= Position(p)'
  BY <1>1 DEF StackMoves
<1>0. ErrorsEnd'
  BY <1>2, <1>3 DEF LoadInv, ErrorsEnd
<1>4. LagOK'
  <2>1. \A p \in Part : Position(p)' \in Int
    BY <1>1 DEF StackOK
  <2> QED BY <1>1, <1>2, <1>3, <2>1, LagKept DEF LoadInv
<1>5. NewRuns'
  BY <1>1, <1>3, UntouchedKept DEF LoadInv, NewRuns
<1>6. NewDocuments'
  BY <1>1, <1>2, <1>3, UntouchedKept, CreatedKept DEF LoadInv, NewDocuments
<1>7. ASSUME Indexing, Fresh, tool.pc >= 8,
             NEW d \in (tool.arrivals \ watch.pending) \cup watch.found
      PROVE  keyword'[d] > 0
  BY <1>1, <1>7, SeenIsIndexed, CreatedKept
<1>8. Watched'
  <2>1. /\ Watching' => watch'.err \in {"none", "store"}
        /\ watch'.resting => watch'.unchecked = {} /\ watch'.err = "none"
        /\ watch'.err # "store" => (watch'.pending \ watch'.found) \cap watch'.seen = {}
        /\ Indexing' /\ tool'.pc >= 8 =>
             watch'.pending \cup watch'.unchecked \cup watch'.found \subseteq tool'.arrivals
        /\ Indexing' /\ tool'.pc >= 9 /\ watch'.err = "none" => watch'.pending = {}
    BY <1>2, <1>3 DEF LoadInv, Watched
  <2>2. Indexing' /\ tool'.pc >= 8 /\ Fresh' =>
          \A d \in Docs : d \in (tool'.arrivals \ watch'.pending) \cup watch'.found => keyword'[d] > 0
    BY <1>2, <1>3, <1>7
  <2> QED BY <2>1, <2>2 DEF Watched
<1>9. Counting => /\ Indexed' \ Own' = Indexed \ Own
                  /\ points' \ Own' = points \ Own
  <2> SUFFICES ASSUME Counting PROVE Indexed' \ Own' = Indexed \ Own /\ points' \ Own' = points \ Own
    OBVIOUS
  <2>1. \A p \in Part : \A i \in 1 .. Len(topic[p]) : OnTheWay(p, i) => topic[p][i].doc \in Own
    BY DEF LoadInv, AtRest, OnTheWay
  <2>2. \A d \in Docs : d \notin Own => keyword'[d] = keyword[d] /\ (d \in points' <=> d \in points)
    BY <1>1, <2>1 DEF StackMoves
  <2>3. points \in SUBSET Docs /\ points' \in SUBSET Docs
    BY <1>1 DEF StackOK
  <2> QED BY <1>2, <2>2, <2>3 DEF Indexed
<1>10. AtRest'
  <2> SUFFICES ASSUME Counting'
               PROVE  /\ \A p \in Part : \A i \in 1 .. Len(topic'[p]) :
                           Position(p)' < i => topic'[p][i].doc \in Own'
                      /\ searchable' \ Own' = Indexed' \ Own'
    BY DEF AtRest
  <2>1. ASSUME NEW p \in Part, NEW i \in 1 .. Len(topic'[p]), Position(p)' < i
        PROVE  topic'[p][i].doc \in Own'
    <3>1. Position(p) \in Int /\ Position(p)' \in Int /\ i \in Int
      BY <1>1 DEF StackOK
    <3>2. Position(p) < i
      BY <1>3, <2>1, <3>1
    <3> QED BY <1>2, <1>3, <2>1, <3>2 DEF LoadInv, AtRest
  <2>2. searchable \ Own = Indexed \ Own
    BY <1>2 DEF LoadInv, AtRest
  <2>3. searchable' = searchable \/ (searchable' = Indexed /\ keyword' = keyword)
    BY <1>1 DEF StackMoves
  <2> QED BY <1>2, <1>9, <2>1, <2>2, <2>3 DEF Indexed
<1>11. Counts'
  <2>1. /\ Indexing =>
             /\ Len(tool'.counts) = CountsBy(tool'.pc)
             /\ tool'.pc <= 9 => ~tool'.refreshed
        /\ Counting =>
             /\ tool'.pc >= 5 => tool'.counts[1] = Cardinality(Indexed \ Own)
             /\ tool'.pc >= 6 => tool'.counts[2] = Cardinality(points \ Own)
             /\ tool'.refreshed /\ watch'.err = "none" =>
                  (tool'.pc >= 11 => tool'.counts[3] = Cardinality(Indexed \ Own) + tool'.count)
             /\ tool'.pc >= 12 => tool'.counts[4] <= Cardinality(points \ Own) + tool'.count
    BY <1>3 DEF LoadInv, Counts
  <2>2. ASSUME Counting, tool.refreshed, watch.err = "none" PROVE tool.arrivals \subseteq searchable'
    <3>1. tool.arrivals \subseteq searchable /\ Indexing /\ Fresh
      BY <2>2 DEF LoadInv, Counts, Counting
    <3>2. tool.pc \in Nat /\ ~(tool.pc <= 9)
      BY <2>2, <3>1 DEF LoadInv, Counts, ToolOK, Tools
    <3>3. tool.pc >= 8 /\ tool.pc >= 9
      BY <3>2
    <3>4. watch.pending = {}
      BY <2>2, <3>1, <3>3 DEF LoadInv, Watched
    <3>5. tool.arrivals \subseteq Indexed
      BY <3>1, <3>3, <3>4, SeenIsIndexed DEF Indexed
    <3> QED BY <1>1, <3>1, <3>5 DEF StackMoves
  <2> QED BY <1>2, <1>3, <1>9, <2>1, <2>2 DEF Counts
<1> QED BY <1>0, <1>1, <1>2, <1>4, <1>5, <1>6, <1>8, <1>10, <1>11 DEF LoadInv

(* What is known of an invocation while it runs.                           *)
LEMMA RunningTypes ==
  ASSUME ToolOK, Running
  PROVE  /\ tool.mode \in DOMAIN Script /\ tool.pc \in Nat \ {0} /\ Sound(tool)
         /\ tool.sent \in Nat /\ tool.arrivals \in SUBSET Docs /\ tool.lag \in Int
         /\ tool.scope \in SUBSET RunIDs /\ tool.op \in Operations /\ tool.count \in Nat \ {0}
         /\ tool.warm \in Nat /\ tool.counts \in Seq(Int) /\ tool.quiet \in BOOLEAN
         /\ watch.pending \in SUBSET Docs /\ watch.unchecked \in SUBSET Docs
         /\ watch.found \in SUBSET Docs /\ watch.seen \in SUBSET Docs
         /\ watch.err \in Errors /\ watch.resting \in BOOLEAN
<1>1. tool \in Tools /\ watch \in Watchers /\ Sound(tool) /\ tool.pc # 0
  BY DEF ToolOK
<1>2. tool.mode \in DOMAIN Script /\ tool.pc \in Nat \ {0}
  BY <1>1 DEF Tools, Running
<1>3. tool.count \in Nat \ {0}
  BY <1>1 DEF Sound
<1>4. /\ tool.sent \in Nat /\ tool.arrivals \in SUBSET Docs /\ tool.lag \in Int
      /\ tool.scope \in SUBSET RunIDs /\ tool.op \in Operations
      /\ tool.warm \in Nat /\ tool.counts \in Seq(Int) /\ tool.quiet \in BOOLEAN
  BY <1>1 DEF Tools
<1>5. /\ watch.pending \in SUBSET Docs /\ watch.unchecked \in SUBSET Docs
      /\ watch.found \in SUBSET Docs /\ watch.seen \in SUBSET Docs
      /\ watch.err \in Errors /\ watch.resting \in BOOLEAN
  BY <1>1 DEF Watchers
<1> QED BY <1>1, <1>2, <1>3, <1>4, <1>5

(* An invocation that runs goes on running as what it is.                  *)
LEMMA ToolTypes ==
  ASSUME ToolOK, Running, tool' \in Tools, Kept(tool'), tool'.pc # 0, watch' \in Watchers,
         plan' = plan, earlier' \in SUBSET RunIDs
  PROVE  ToolOK' /\ Running'
<1>1. Sound(tool)
  BY DEF ToolOK
<1>2. Sound(tool')
  BY <1>1 DEF Sound, Kept
<1>3. Running'
  BY DEF Running, Kept
<1>4. Sound(tool)'
  BY <1>2 DEF Sound
<1>5. (\A i \in 1 .. Len(plan) : Sound(plan[i]))'
  <2>1. \A i \in 1 .. Len(plan) : Sound(plan[i])
    BY DEF ToolOK
  <2> QED BY <2>1 DEF Sound
<1>6. plan' \in Seq(Invocations)
  BY DEF ToolOK
<1> QED BY <1>3, <1>4, <1>5, <1>6 DEF ToolOK

(* What an invocation does with its calls alone.                           *)
LEMMA ToolStep ==
  ASSUME LoadInv, Running, UNCHANGED <<stack, plan, earlier>>, tool' \in Tools, Kept(tool'),
         tool'.pc # 0, tool'.lag = tool.lag, tool'.ends = tool.ends, watch' \in Watchers,
         Step # "none", tool'.err = tool.err, Step' = "lag" => Step = "lag"
  PROVE  StackOK' /\ ToolOK' /\ ErrorsEnd' /\ LagOK' /\ NewRuns' /\ Running'
<1>1. StackOK' /\ \A p \in Part : Position(p)' = Position(p)
  BY StackKept DEF LoadInv
<1>2. earlier' \in SUBSET RunIDs
  BY DEF LoadInv, ToolOK
<1>3. ToolOK' /\ Running'
  BY <1>2, ToolTypes DEF LoadInv
<1>4. \A p \in Part : Position(p) \in Int
  BY DEF LoadInv, StackOK
<1>5. LagOK'
  BY <1>1, <1>4, LagKept DEF LoadInv
<1>6. NewRuns'
  BY NewRunsKept DEF LoadInv, Kept
<1>7. ErrorsEnd'
  BY DEF LoadInv, ErrorsEnd
<1> QED BY <1>1, <1>3, <1>5, <1>6, <1>7

(* An invocation that ends with an error, or not one of index, and what    *)
(* it may have written.                                                    *)
LEMMA FailureKeepsInv ==
  ASSUME LoadInv, Running, NEW error \in Errors, Fail(error), error # "none" \/ tool.mode # "index",
         UNCHANGED <<plan, earlier, committed>>, StackOK', NewRuns', watch' \in Watchers,
         watch'.err # "store" => (watch'.pending \ watch'.found) \cap watch'.seen = {},
         watch'.resting => watch'.unchecked = {} /\ watch'.err = "none"
  PROVE  LoadInv'
<1>1. /\ tool' \in Tools /\ Kept(tool') /\ tool'.pc \in Nat \ {0}
      /\ tool'.pc > Len(Script[tool.mode]) /\ tool'.lag = tool.lag /\ tool'.ends = tool.ends
      /\ tool'.err = error
  BY Failed DEF LoadInv, ToolOK
<1>2. ToolOK' /\ Running'
  BY <1>1, ToolTypes DEF LoadInv, ToolOK
<1>3. Over' /\ Step' = "none"
  BY <1>1, <1>2 DEF Over, Step, Kept
<1>4. ~Watching' /\ ~Indexing'
  BY <1>1, <1>3 DEF Watching, Indexing, Kept
<1>5. \A p \in Part : Position(p)' = Position(p) /\ Position(p) \in Int
  BY DEF Position, LoadInv, StackOK
<1>6. LagOK'
  BY <1>1, <1>3, <1>5, LagKept DEF LoadInv
<1>7. ErrorsEnd'
  BY <1>3 DEF ErrorsEnd
<1> QED BY <1>2, <1>4, <1>6, <1>7, NotIndexing DEF LoadInv

(* Whose calls these are.                                                  *)
LEMMA CallsAreOf ==
  ASSUME ToolOK
  PROVE  /\ Step # "none" => Running
         /\ Step \in {"warmup", "insert", "arrive", "refresh"} => tool.mode = "index"
         /\ Step = "tick" => tool.mode = "watch"
<1>1. Step # "none" => Running
  BY DEF Step
<1>2. ASSUME Running, tool.mode # "index"
      PROVE  /\ Step \notin {"warmup", "insert", "arrive", "refresh"}
             /\ Step = "tick" => tool.mode = "watch"
  <2>1. tool.mode \in DOMAIN Script \ {"index"} /\ tool.pc \in Nat \ {0}
    BY <1>2, RunningTypes
  <2> QED BY <2>1, OtherSteps, StepIs
<1>3. ASSUME tool.mode = "index", Running PROVE Step # "tick"
  BY <1>3, RunningTypes, IndexSteps, StepIs
<1> QED BY <1>1, <1>2, <1>3

(* The offsets are read right after the ends.                              *)
LEMMA EndsFirst ==
  ASSUME ToolOK, Running, Kept(tool'), tool'.pc = tool.pc + 1, Step' = "lag"
  PROVE  Step = "ends"
<1> DEFINE mode == tool.mode
           pc == tool.pc
           next == tool.pc + 1
<1>1. mode \in DOMAIN Script /\ pc \in Nat \ {0} /\ next \in Nat \ {0} /\ next - 1 = pc
  BY RunningTypes
<1>2. StepAt(mode, next) = "lag" /\ Step = StepAt(mode, pc)
  BY StepIs DEF Kept
<1> HIDE DEF next
<1>3. mode # "index"
  BY <1>1, <1>2, IndexSteps
<1>4. next > 2 /\ Script[mode][next - 1] = "ends" /\ Len(Script[mode]) \in Nat
  BY <1>1, <1>2, <1>3, OtherSteps
<1>5. mode # "none" /\ ~(next > Len(Script[mode]))
  BY <1>2 DEF StepAt
<1>6. ~(pc > Len(Script[mode]))
  BY <1>1, <1>4, <1>5 DEF next
<1> QED BY <1>1, <1>2, <1>4, <1>5, <1>6 DEF StepAt

(* An invocation of index at a call that writes nothing.                   *)
LEMMA IndexStep ==
  ASSUME LoadInv, UNCHANGED <<stack, plan, earlier>>, Kept(tool'), tool.err = "none",
         tool'.quiet = tool.quiet, Written' = Written
  PROVE  /\ NewDocuments' /\ AtRest' /\ Own' = Own /\ (Fresh' <=> Fresh)
         /\ Indexing' => Indexing
         /\ Counting' => Counting
         /\ Indexed' = Indexed /\ points' = points /\ searchable' = searchable
<1>1. /\ Own' = Own /\ (Fresh' <=> Fresh) /\ (Indexing' => Indexing)
  BY DEF Own, Fresh, Kept, Indexing
<1>2. Counting' => Counting
  BY <1>1 DEF Counting, Kept
<1>3. NewDocuments'
  BY <1>1, StackKept DEF LoadInv, NewDocuments, Kept
<1>4. /\ \A p \in Part : Position(p)' = Position(p)
      /\ Indexed' = Indexed /\ searchable' = searchable /\ topic' = topic /\ points' = points
  BY StackKept DEF stack
<1>5. AtRest'
  BY <1>1, <1>2, <1>4 DEF LoadInv, AtRest
<1> QED BY <1>1, <1>2, <1>3, <1>4, <1>5

(* A call that failed.                                                     *)
LEMMA FailsKeepsInv ==
  ASSUME LoadInv, Running, Fails, UNCHANGED <<watch, plan, earlier, committed>>, StackOK', NewRuns'
  PROVE  LoadInv'
<1>1. Fail("context") \/ Fail("store")
  BY DEF Fails
<1>2. /\ watch' \in Watchers
      /\ watch'.err # "store" => (watch'.pending \ watch'.found) \cap watch'.seen = {}
      /\ watch'.resting => watch'.unchecked = {} /\ watch'.err = "none"
  BY DEF LoadInv, ToolOK, Watched
<1> QED BY <1>1, <1>2, FailureKeepsInv DEF Errors

(* A call that succeeds and says nothing of its own.                       *)
LEMMA ConnectKeepsInv == LoadInv /\ Connect => LoadInv'
<1> SUFFICES ASSUME LoadInv, Connect PROVE LoadInv'
  OBVIOUS
<1>1. UNCHANGED <<stack, watch, plan, earlier>> /\ Step = "connect" /\ Running
  BY CallsAreOf DEF Connect, LoadInv
<1>2. CASE Fails
  <2>1. StackOK' /\ NewRuns' /\ committed' = committed
    <3>1. tool'.scope = tool.scope
      BY <1>1, <1>2, Failed DEF Fails, Errors, LoadInv, ToolOK, Kept
    <3> QED BY <1>1, <3>1, StackKept, NewRunsKept DEF LoadInv, stack
  <2> QED BY <1>1, <1>2, <2>1, FailsKeepsInv
<1>3. CASE tool' = Advance
  <2>1. /\ tool' \in Tools /\ Kept(tool') /\ tool'.pc = tool.pc + 1 /\ tool'.sent = 0
        /\ tool'.counts = tool.counts /\ tool'.ends = tool.ends
        /\ tool'.lag = tool.lag /\ tool'.report = tool.report /\ tool'.err = tool.err
        /\ tool'.quiet = tool.quiet /\ tool'.refreshed = tool.refreshed
    BY <1>3, Advanced DEF LoadInv, ToolOK
  <2>2. tool.pc \in Nat \ {0} /\ watch' \in Watchers
    BY <1>1, RunningTypes DEF LoadInv, ToolOK
  <2>3. StackOK' /\ ToolOK' /\ ErrorsEnd' /\ LagOK' /\ NewRuns' /\ Running'
    <3>1. Step' # "lag" /\ tool'.pc # 0
      BY <1>1, <2>1, <2>2, EndsFirst DEF LoadInv
    <3> QED BY <1>1, <2>1, <2>2, <3>1, ToolStep
  <2>4. CASE Indexing'
    <3>1. tool.mode = "index" /\ tool.err = "none" /\ tool.pc = 1
      BY <1>1, <2>1, <2>2, <2>4, IndexSteps, StepIs DEF Indexing, Kept
    <3>2. tool'.pc = 2 /\ Written' = Written
      BY <2>1, <3>1 DEF Written
    <3>3. NewDocuments' /\ AtRest'
      BY <1>1, <2>1, <3>1, <3>2, IndexStep
    <3>4. Arrivals' /\ Reported'
      BY <2>1, <3>2 DEF Arrivals, Reported
    <3>5. Step' # "arrive"
      BY <2>1, <3>1, <3>2, IndexSteps, StepIs DEF Kept
    <3>6. Watched'
      BY <1>1, <3>2, <3>5 DEF LoadInv, Watched, Watching
    <3>7. Counts'
      <4>1. tool'.counts = tool.counts /\ Len(tool.counts) = 0 /\ ~tool'.refreshed
        BY <2>1, <3>1 DEF LoadInv, Counts, Indexing, CountsBy
      <4> QED BY <3>2, <4>1 DEF Counts, CountsBy
    <3> QED BY <2>3, <3>3, <3>4, <3>6, <3>7 DEF LoadInv
  <2>5. CASE ~Indexing'
    <3>1. ~Watching'
      <4>1. CASE tool.mode = "index"
        <5>1. tool.pc = 1 /\ tool'.mode = "index" /\ tool'.pc = 2
          BY <1>1, <2>1, <2>2, <4>1, IndexSteps, StepIs DEF Kept
        <5> QED BY <5>1, IndexSteps, StepIs DEF Watching
      <4>2. CASE tool.mode # "index"
        <5>1. tool'.mode # "index" /\ tool'.mode \in DOMAIN Script
          BY <1>1, <2>1, <4>2, RunningTypes DEF Kept, LoadInv
        <5>2. tool'.pc \in Nat \ {0}
          BY <2>1, <2>2
        <5> QED BY <5>1, <5>2, OtherSteps, StepIs DEF Watching
      <4> QED BY <4>1, <4>2
    <3> QED BY <1>1, <2>3, <2>5, <3>1, NotIndexing DEF LoadInv, Watched
  <2> QED BY <2>4, <2>5
<1> QED BY <1>2, <1>3 DEF Connect

(* The deadline and the signal change only what calls do next.             *)
LEMMA NothingKeepsInv ==
  LoadInv /\ UNCHANGED <<stack, tool, watch, plan, earlier>> => LoadInv'
<1> SUFFICES ASSUME LoadInv, UNCHANGED <<stack, tool, watch, plan, earlier>> PROVE LoadInv'
  OBVIOUS
<1>1. /\ tool' = tool /\ watch' = watch /\ plan' = plan /\ earlier' = earlier
      /\ points' = points /\ searchable' = searchable /\ topic' = topic /\ keyword' = keyword
  BY DEF stack
<1>2. /\ ToolOK' /\ Step' = Step /\ (Watching' <=> Watching) /\ (Indexing' <=> Indexing)
      /\ (Fresh' <=> Fresh) /\ (Counting' <=> Counting)
      /\ Written' = Written /\ Own' = Own /\ Arrivals' /\ Reported'
  BY <1>1, ToolKept DEF LoadInv
<1>3. /\ StackOK' /\ Indexed' = Indexed /\ \A p \in Part : Position(p)' = Position(p)
      /\ \A d \in Docs : (Untouched(d)' <=> Untouched(d)) /\ (Created(d)' <=> Created(d))
  BY StackKept DEF LoadInv
<1>4. NewRuns' /\ NewDocuments'
  BY <1>1, <1>2, <1>3 DEF LoadInv, NewRuns, NewDocuments
<1>0. ErrorsEnd'
  BY <1>1, <1>2 DEF LoadInv, ErrorsEnd
<1>5. LagOK' /\ AtRest'
  BY <1>1, <1>2, <1>3 DEF LoadInv, LagOK, ZeroLagMeansCaughtUp, AtRest
<1>6. Watched' /\ Counts'
  BY <1>1, <1>2, <1>3 DEF LoadInv, Watched, Counts
<1> QED BY <1>0, <1>2, <1>3, <1>4, <1>5, <1>6 DEF LoadInv

(* Between two invocations nothing is remembered of the last one.          *)
LEMMA IdleIs ==
  /\ Idle \in Tools /\ Idle.mode = "none" /\ Idle.scope = {} /\ Idle.lag = -1 /\ Idle.pc = 0
  /\ Idle.sent = 0 /\ Idle.counts = <<>> /\ Idle.err = "none" /\ Idle.refreshed = FALSE
  /\ Idle.quiet = FALSE /\ Idle.ends = <<>>
<1>1. NoReport \in Reports
  BY DEF NoReport, Reports
<1>2. Idle \in Tools
  <2>1. 0 \in Nat /\ -1 \in Int /\ <<>> \in Seq(Int) /\ <<>> \in Readings
    BY DEF Readings
  <2>2. PICK zero \in Nat : zero = 0
    OBVIOUS
  <2>3. PICK none \in Int : none = -1
    OBVIOUS
  <2>4. PICK empty \in Seq(Int) : empty = <<>> /\ empty \in Readings
    BY <2>1
  <2>5. PICK report \in Reports : report = NoReport
    BY <1>1
  <2>6. "none" \in DOMAIN Script \cup {"none"} /\ "c" \in Operations /\ "none" \in Errors
    BY DEF Operations, Errors
  <2>7. Idle = [mode |-> "none", scope |-> {}, count |-> zero, warm |-> zero, op |-> "c", others |-> zero,
                pc |-> zero, sent |-> zero, arrivals |-> {}, counts |-> empty, ends |-> empty,
                lag |-> none, report |-> report, err |-> "none", quiet |-> FALSE, refreshed |-> FALSE]
    BY <2>2, <2>3, <2>4, <2>5 DEF Idle
  <2> QED BY <2>4, <2>6, <2>7 DEF Tools
<1> QED BY <1>2 DEF Idle

(* An invocation begins with nothing on its books.                         *)
LEMMA StartKeepsInv == LoadInv /\ Start => LoadInv'
<1> SUFFICES ASSUME LoadInv, Start PROVE LoadInv'
  OBVIOUS
<1> DEFINE i == Head(plan)
<1>1. /\ ~Running /\ plan # <<>> /\ plan' = Tail(plan)
      /\ UNCHANGED <<stack, watch, earlier>>
      /\ tool' = [Idle EXCEPT !.mode = i.mode, !.scope = i.scope, !.count = i.count, !.warm = i.warm,
                              !.op = i.op, !.others = i.others, !.pc = 1,
                              !.quiet = Quiet /\ searchable = Indexed]
  BY DEF Start
<1>2. tool = Idle /\ plan \in Seq(Invocations) /\ \A k \in 1 .. Len(plan) : Sound(plan[k])
  BY <1>1 DEF LoadInv, ToolOK
<1>3. /\ plan' \in Seq(Invocations) /\ i = plan[1] /\ 1 \in 1 .. Len(plan)
      /\ Len(plan') = Len(plan) - 1 /\ \A k \in 1 .. Len(plan') : plan'[k] = plan[k + 1]
  BY <1>1, <1>2
<1>4. i \in Invocations /\ Sound(i)
  BY <1>2, <1>3
<1>5. \A k \in 1 .. Len(plan') : Sound(plan'[k])
  <2>1. Len(plan) \in Nat
    BY <1>2
  <2>2. \A k \in 1 .. Len(plan') : k + 1 \in 1 .. Len(plan)
    BY <1>3, <2>1
  <2> QED BY <1>2, <1>3, <2>2
<1> HIDE DEF i
<1>6. /\ tool' \in Tools /\ tool'.mode = i.mode /\ tool'.scope = i.scope /\ tool'.count = i.count
      /\ tool'.warm = i.warm /\ tool'.pc = 1 /\ tool'.sent = 0 /\ tool'.counts = <<>>
      /\ tool'.lag = -1 /\ tool'.refreshed = FALSE /\ tool'.err = "none"
      /\ tool'.quiet = (Quiet /\ searchable = Indexed)
  <2>1. PICK one \in Nat : one = 1
    OBVIOUS
  <2>2. PICK quiet \in BOOLEAN : quiet = (Quiet /\ searchable = Indexed)
    OBVIOUS
  <2>3. tool' = [Idle EXCEPT !.mode = i.mode, !.scope = i.scope, !.count = i.count, !.warm = i.warm,
                              !.op = i.op, !.others = i.others, !.pc = one, !.quiet = quiet]
    BY <1>1, <2>1, <2>2
  <2>4. /\ i.mode \in DOMAIN Script \cup {"none"} /\ i.scope \in SUBSET RunIDs /\ i.count \in Nat
        /\ i.warm \in Nat /\ i.op \in Operations /\ i.others \in Nat
    BY <1>4 DEF Invocations, Operations
  <2>5. Idle \in Tools
    BY IdleIs
  <2>6. tool' \in Tools
    BY <2>3, <2>4, <2>5 DEF Tools
  <2>7. /\ tool'.mode = i.mode /\ tool'.scope = i.scope /\ tool'.count = i.count
        /\ tool'.warm = i.warm /\ tool'.pc = one /\ tool'.quiet = quiet
        /\ tool'.sent = Idle.sent /\ tool'.counts = Idle.counts
        /\ tool'.lag = Idle.lag /\ tool'.refreshed = Idle.refreshed /\ tool'.err = Idle.err
    BY <2>3, <2>5 DEF Tools
  <2> QED BY <2>1, <2>2, <2>6, <2>7, IdleIs
<1>7. ToolOK' /\ Running'
  <2>1. tool'.mode \in DOMAIN Script /\ tool'.mode # "none"
    BY <1>4, <1>6, Scripts DEF Sound
  <2>2. Sound(tool')
    BY <1>4, <1>6 DEF Sound
  <2>3. Running'
    BY <2>1 DEF Running
  <2>4. Sound(tool)' /\ (\A k \in 1 .. Len(plan) : Sound(plan[k]))'
    BY <1>5, <2>2 DEF Sound
  <2> QED BY <1>1, <1>3, <1>6, <2>3, <2>4 DEF LoadInv, ToolOK
<1>8. Step' # "lag" /\ ~Watching'
  <2>1. tool'.mode \in DOMAIN Script /\ 1 \in Nat \ {0} /\ Step' = StepAt(tool'.mode, 1)
    BY <1>4, <1>6, StepIs DEF Sound
  <2> QED BY <2>1, IndexSteps, OtherSteps DEF Watching
<1>9. /\ StackOK' /\ Indexed' = Indexed /\ \A p \in Part : Position(p)' = Position(p)
      /\ \A d \in Docs : (Untouched(d)' <=> Untouched(d)) /\ (Created(d)' <=> Created(d))
      /\ topic' = topic /\ searchable' = searchable
  BY <1>1, StackKept DEF LoadInv, stack
<1>10. NewRuns'
  BY <1>1, <1>2, IdleIs, NewRunsKept DEF LoadInv
<1>11. NewDocuments'
  <2> SUFFICES ASSUME Indexing', Fresh', NEW d \in Docs, d[1] \in tool'.scope
               PROVE  IF d[2] < Written' THEN Created(d)' ELSE Untouched(d)'
    BY DEF NewDocuments
  <2>1. d[1] \notin earlier \cup tool.scope
    BY <1>1, <1>2, IdleIs DEF Fresh
  <2>2. Written' = 0 /\ ~(d[2] < 0)
    <3>1. d[2] \in Nat
      BY DEF Docs
    <3> QED BY <1>6, <3>1 DEF Written
  <2> QED BY <1>9, <2>1, <2>2 DEF LoadInv, NewRuns
<1>12. LagOK'
  BY <1>6, <1>8 DEF LagOK, ZeroLagMeansCaughtUp
<1>13. Arrivals' /\ Reported' /\ ErrorsEnd'
  BY <1>6 DEF Arrivals, Reported, ErrorsEnd
<1>14. Watched'
  BY <1>1, <1>6, <1>8 DEF LoadInv, Watched
<1>15. Counts'
  <2>1. Len(tool'.counts) = 0
    BY <1>6
  <2> QED BY <1>6, <2>1 DEF Counts, CountsBy
<1>16. AtRest'
  <2> SUFFICES ASSUME Counting', Quiet, searchable = Indexed
               PROVE  /\ \A p \in Part : \A k \in 1 .. Len(topic'[p]) :
                           Position(p)' < k => topic'[p][k].doc \in Own'
                      /\ searchable' \ Own' = Indexed' \ Own'
    BY <1>6 DEF AtRest, Counting
  <2>1. \A p \in Part : Len(topic[p]) \in Nat /\ Position(p) \in Int /\ Len(topic[p]) - Position(p) = 0
    BY DEF LoadInv, StackOK, Quiet, Outstanding
  <2>2. \A p \in Part : \A k \in 1 .. Len(topic'[p]) : ~(Position(p)' < k)
    BY <1>9, <2>1
  <2> QED BY <1>9, <2>2
<1> QED BY <1>7, <1>9, <1>10, <1>11, <1>12, <1>13, <1>14, <1>15, <1>16 DEF LoadInv

(* An invocation that is not one of index.                                 *)
LEMMA OthersKeepInv ==
  ASSUME LoadInv, Running, tool.mode # "index", UNCHANGED <<watch, plan, earlier>>,
         Kept(tool'), tool' \in Tools, tool'.pc # 0, StackOK', NewRuns', LagOK', ErrorsEnd'
  PROVE  LoadInv'
<1>1. tool'.mode \in DOMAIN Script \ {"index"} /\ tool'.pc \in Nat \ {0}
  <2>1. tool.mode \in DOMAIN Script
    BY RunningTypes DEF LoadInv
  <2>2. tool'.pc \in Nat
    BY DEF Tools
  <2> QED BY <2>1, <2>2 DEF Kept
<1>2. ~Watching' /\ ~Indexing'
  BY <1>1, OtherSteps, StepIs DEF Watching, Indexing
<1>3. ToolOK'
  BY ToolTypes DEF LoadInv, ToolOK
<1> QED BY <1>2, <1>3, NotIndexing DEF LoadInv, Watched

(* The watch mode prints its next line.                                    *)
LEMMA TickKeepsInv == LoadInv /\ Tick => LoadInv'
<1> SUFFICES ASSUME LoadInv, Tick PROVE LoadInv'
  OBVIOUS
<1>1. Step = "tick" /\ UNCHANGED <<stack, watch, plan, earlier>> /\ tool' = [tool EXCEPT !.pc = 2]
  BY DEF Tick
<1>2. Running /\ tool.mode = "watch" /\ tool \in Tools
  BY <1>1, CallsAreOf DEF LoadInv, ToolOK
<1>3. /\ tool' \in Tools /\ Kept(tool') /\ tool'.pc = 2
      /\ tool'.lag = tool.lag /\ tool'.ends = tool.ends /\ tool'.err = tool.err
  <2>1. PICK two \in Nat : two = 2
    OBVIOUS
  <2>2. tool' = [tool EXCEPT !.pc = two]
    BY <1>1, <2>1
  <2>3. tool' \in Tools
    BY <1>2, <2>2 DEF Tools
  <2> QED BY <1>2, <2>1, <2>2, <2>3 DEF Tools, Kept
<1>4. Step' # "lag"
  <2>1. "watch" \in DOMAIN Script \ {"index"} /\ 2 \in Nat \ {0} /\ ~(2 > 2)
    BY Scripts
  <2>2. Step' = StepAt("watch", 2)
    BY <1>2, <1>3, StepIs DEF Kept
  <2> QED BY <2>1, <2>2, OtherSteps
<1>5. StackOK' /\ NewRuns' /\ LagOK' /\ ErrorsEnd'
  <2>1. watch' \in Watchers /\ tool'.pc # 0
    BY <1>1, <1>3 DEF LoadInv, ToolOK
  <2> QED BY <1>1, <1>2, <1>3, <1>4, <2>1, ToolStep
<1>6. tool.mode # "index" /\ tool'.pc # 0
  BY <1>2, <1>3
<1> QED BY <1>1, <1>2, <1>3, <1>5, <1>6, OthersKeepInv

(* It ends in order.                                                       *)
LEMMA StopWatchingKeepsInv == LoadInv /\ StopWatching => LoadInv'
<1> SUFFICES ASSUME LoadInv, StopWatching PROVE LoadInv'
  OBVIOUS
<1>1. Step = "tick" /\ UNCHANGED <<stack, watch, plan, earlier>> /\ Fail("none")
  BY DEF StopWatching
<1>2. Running /\ tool.mode # "index" /\ "none" \in Errors
  BY <1>1, CallsAreOf DEF LoadInv, Errors
<1>3. tool'.scope = tool.scope
  BY <1>1, <1>2, Failed DEF LoadInv, ToolOK, Kept
<1>4. StackOK' /\ NewRuns' /\ committed' = committed
  BY <1>1, <1>3, StackKept, NewRunsKept DEF LoadInv, stack
<1>5. /\ watch' \in Watchers
      /\ watch'.err # "store" => (watch'.pending \ watch'.found) \cap watch'.seen = {}
      /\ watch'.resting => watch'.unchecked = {} /\ watch'.err = "none"
  BY <1>1 DEF LoadInv, ToolOK, Watched
<1> QED BY <1>1, <1>2, <1>4, <1>5, FailureKeepsInv

(* The next invocation takes the runs of this one for written.             *)
LEMMA ExitKeepsInv == LoadInv /\ Exit => LoadInv'
<1> SUFFICES ASSUME LoadInv, Exit PROVE LoadInv'
  OBVIOUS
<1>1. /\ UNCHANGED <<stack, plan>> /\ tool' = Idle /\ watch' = NoWatch /\ Running
      /\ earlier' = earlier \cup tool.scope
  BY DEF Exit, Over
<1>2. ~Running' /\ Step' = "none" /\ ~Watching' /\ ~Indexing'
  BY <1>1, IdleIs DEF Running, Step, Watching, Indexing
<1>3. /\ StackOK' /\ \A p \in Part : Position(p)' = Position(p)
  BY <1>1, StackKept DEF LoadInv
<1>4. ToolOK'
  <2>1. NoWatch \in Watchers
    BY DEF NoWatch, Watchers, Errors
  <2>2. tool.scope \in SUBSET RunIDs /\ earlier \in SUBSET RunIDs
    BY DEF LoadInv, ToolOK, Tools
  <2>3. (\A k \in 1 .. Len(plan) : Sound(plan[k]))'
    BY <1>1 DEF LoadInv, ToolOK, Sound
  <2> QED BY <1>1, <1>2, <2>1, <2>2, <2>3, IdleIs DEF LoadInv, ToolOK
<1>5. LagOK' /\ ErrorsEnd'
  BY <1>1, <1>2, IdleIs DEF LagOK, ZeroLagMeansCaughtUp, ErrorsEnd
<1>6. NewRuns'
  BY <1>1, NewRunsKept DEF LoadInv
<1> QED BY <1>1, <1>2, <1>3, <1>4, <1>5, <1>6, NotIndexing DEF LoadInv, NoWatch

(* Only index waits for documents, twice.                                  *)
LEMMA WatchingIs ==
  ASSUME LoadInv, Watching
  PROVE  /\ Running /\ tool.mode = "index" /\ tool.pc \in {3, 8} /\ tool.pc \in Nat
         /\ Indexing => ~tool.refreshed
<1>1. Running /\ tool.mode = "index"
  BY CallsAreOf DEF LoadInv, Watching
<1>2. tool.pc \in Nat \ {0}
  BY <1>1, RunningTypes DEF LoadInv
<1>3. tool.pc \in {3, 8}
  BY <1>1, <1>2, IndexSteps, StepIs DEF Watching
<1>4. Indexing => ~tool.refreshed
  BY <1>3 DEF LoadInv, Counts
<1> QED BY <1>1, <1>2, <1>3, <1>4

(* What a check learns is between the watcher and the stack.               *)
LEMMA WatcherStep ==
  ASSUME LoadInv, Watching, UNCHANGED <<stack, tool, plan, earlier>>, watch' \in Watchers
  PROVE  /\ StackOK' /\ ToolOK' /\ ErrorsEnd' /\ LagOK' /\ NewRuns' /\ NewDocuments' /\ Arrivals' /\ AtRest'
         /\ Counts' /\ Reported'
         /\ (Indexing' <=> Indexing) /\ (Fresh' <=> Fresh) /\ Watching'
<1>1. /\ tool' = tool /\ earlier' = earlier /\ plan' = plan /\ topic' = topic
      /\ points' = points /\ searchable' = searchable
  BY DEF stack
<1>2. Running /\ tool.pc \in {3, 8} /\ (Indexing => ~tool.refreshed)
  BY WatchingIs
<1>3. Step' = Step /\ Watching'
  BY <1>1 DEF Step, Watching, Running, Over
<1>4. StackOK' /\ ToolOK' /\ ErrorsEnd' /\ LagOK' /\ NewRuns'
  <2>1. tool' \in Tools /\ Kept(tool') /\ tool'.pc # 0 /\ Step # "none"
    BY <1>1, <1>2 DEF LoadInv, ToolOK, Kept, Watching
  <2> QED BY <1>1, <1>2, <1>3, <2>1, ToolStep
<1>5. /\ (Indexing' <=> Indexing) /\ (Fresh' <=> Fresh) /\ (Counting' <=> Counting)
      /\ Written' = Written /\ Own' = Own
  BY <1>1 DEF Indexing, Fresh, Counting, Written, Own
<1>6. /\ Indexed' = Indexed /\ \A p \in Part : Position(p)' = Position(p)
      /\ \A d \in Docs : (Untouched(d)' <=> Untouched(d)) /\ (Created(d)' <=> Created(d))
  BY <1>1, StackKept
<1>7. NewDocuments' /\ AtRest'
  BY <1>1, <1>5, <1>6 DEF LoadInv, NewDocuments, AtRest
<1>8. Arrivals'
  <2>1. \A n : Measured(n)' = Measured(n)
    BY <1>1 DEF Measured
  <2> QED BY <1>1, <1>5, <2>1 DEF LoadInv, Arrivals
<1>9. Reported'
  BY <1>1, <1>2 DEF Reported
<1>10. Counts'
  <2>1. Counting => Indexing
    BY DEF Counting
  <2> QED BY <1>1, <1>2, <1>5, <1>6, <2>1 DEF LoadInv, Counts
<1> QED BY <1>3, <1>4, <1>5, <1>7, <1>8, <1>9, <1>10

(* One document is looked up.                                              *)
LEMMA CheckKeepsInv == ASSUME LoadInv, NEW d \in Docs, Check(d) PROVE LoadInv'
<1>1. /\ Watching /\ d \in watch.unchecked /\ UNCHANGED <<stack, tool, plan, earlier>>
      /\ tool' = tool /\ earlier' = earlier /\ keyword' = keyword
  BY DEF Check, stack
<1>2. /\ watch \in Watchers /\ Running /\ tool.pc \in {3, 8} /\ ~watch.resting
      /\ watch.err \in {"none", "store"}
  BY <1>1, WatchingIs DEF LoadInv, ToolOK, Watched
<1>3. /\ watch' \in Watchers /\ watch'.pending = watch.pending /\ watch'.resting = watch.resting
      /\ watch'.unchecked = watch.unchecked \ {d}
      /\ watch'.err \in {watch.err, "store"}
      /\ \/ watch'.found = watch.found /\ watch'.seen = watch.seen
         \/ /\ watch'.found = watch.found \cup {d} /\ watch'.seen = watch.seen \cup {d}
            /\ keyword[d] > 0 /\ watch'.err = watch.err
  <2>1. CASE watch' = [watch EXCEPT !.unchecked = @ \ {d},
                                  !.found = IF keyword[d] > 0 THEN @ \cup {d} ELSE @,
                                  !.seen = IF keyword[d] > 0 THEN @ \cup {d} ELSE @]
    <3>1. watch' \in Watchers
      BY <1>2, <2>1 DEF Watchers
    <3> QED BY <1>2, <2>1, <3>1 DEF Watchers
  <2>2. CASE watch' = [watch EXCEPT !.unchecked = @ \ {d}, !.err = "store"]
    <3>1. watch' \in Watchers
      BY <1>2, <2>2 DEF Watchers, Errors
    <3> QED BY <1>2, <2>2, <3>1 DEF Watchers
  <2>3. CASE watch' = [watch EXCEPT !.unchecked = @ \ {d}]
    <3>1. watch' \in Watchers
      BY <1>2, <2>3 DEF Watchers
    <3> QED BY <1>2, <2>3, <3>1 DEF Watchers
  <2> QED BY <2>1, <2>2, <2>3 DEF Check
<1>4. /\ StackOK' /\ ToolOK' /\ ErrorsEnd' /\ LagOK' /\ NewRuns' /\ NewDocuments' /\ Arrivals' /\ AtRest'
      /\ Counts' /\ Reported'
      /\ (Indexing' <=> Indexing) /\ (Fresh' <=> Fresh) /\ Watching'
  BY <1>1, <1>3, WatcherStep
<1>5. Watched'
  <2>1. /\ Watching' => watch'.err \in {"none", "store"}
        /\ watch'.resting => watch'.unchecked = {} /\ watch'.err = "none"
    BY <1>2, <1>3
  <2>2. watch'.err # "store" => (watch'.pending \ watch'.found) \cap watch'.seen = {}
    BY <1>2, <1>3 DEF LoadInv, Watched
  <2>3. Indexing' /\ tool'.pc >= 8 =>
          watch'.pending \cup watch'.unchecked \cup watch'.found \subseteq tool'.arrivals
    <3> SUFFICES ASSUME Indexing', tool'.pc >= 8
                 PROVE  watch'.pending \cup watch'.unchecked \cup watch'.found \subseteq tool'.arrivals
      OBVIOUS
    <3>1. watch.pending \cup watch.unchecked \cup watch.found \subseteq tool.arrivals
      BY <1>1, <1>4 DEF LoadInv, Watched
    <3> QED BY <1>1, <1>3, <3>1
  <2>4. Indexing' /\ tool'.pc >= 8 /\ Fresh' =>
          \A c \in Docs : c \in (tool'.arrivals \ watch'.pending) \cup watch'.found => keyword'[c] > 0
    <3> SUFFICES ASSUME Indexing', tool'.pc >= 8, Fresh', NEW c \in Docs,
                        c \in (tool'.arrivals \ watch'.pending) \cup watch'.found
                 PROVE  keyword'[c] > 0
      OBVIOUS
    <3>1. \A b \in Docs : b \in (tool.arrivals \ watch.pending) \cup watch.found => keyword[b] > 0
      BY <1>1, <1>4 DEF LoadInv, Watched
    <3> QED BY <1>1, <1>3, <3>1
  <2>5. ~(Indexing' /\ tool'.pc >= 9)
    BY <1>1, <1>2
  <2> QED BY <2>1, <2>2, <2>3, <2>4, <2>5 DEF Watched
<1> QED BY <1>4, <1>5 DEF LoadInv

(* Wait returns. Nothing that it reports found was not.                    *)
LEMMA ReturnKeepsInv ==
  ASSUME LoadInv, Watching, UNCHANGED <<stack, plan, earlier>>, NEW w \in Watchers, Return(w),
         w.pending \subseteq watch.pending, w.unchecked \subseteq watch.unchecked,
         w.found \subseteq watch.found, w.resting = FALSE,
         watch.pending \ w.pending \subseteq watch.found,
         w.err # "store" => (w.pending \ w.found) \cap w.seen = {},
         w.err = "none" => w.pending = {}
  PROVE  LoadInv'
<1>1. /\ Running /\ tool.mode = "index" /\ tool.pc \in {3, 8} /\ watch' = w
      /\ Indexing => ~tool.refreshed
  BY WatchingIs DEF Return
<1>2. CASE w.err # "none" /\ tool.pc = 3
  <2>1. Fail(w.err) /\ w.err \in Errors
    BY <1>2 DEF Return, Watchers
  <2>2. tool'.scope = tool.scope
    BY <1>1, <2>1, Failed DEF LoadInv, ToolOK, Kept
  <2>3. StackOK' /\ NewRuns' /\ committed' = committed
    BY <2>2, StackKept, NewRunsKept DEF LoadInv, stack
  <2> QED BY <1>1, <1>2, <2>1, <2>3, FailureKeepsInv
<1>3. CASE ~(w.err # "none" /\ tool.pc = 3)
  <2>0. tool' = Advance
    BY <1>3 DEF Return
  <2>1. /\ tool' \in Tools /\ Kept(tool') /\ tool'.pc = tool.pc + 1 /\ tool'.sent = 0
        /\ tool'.arrivals = tool.arrivals /\ tool'.counts = tool.counts /\ tool'.ends = tool.ends
        /\ tool'.lag = tool.lag /\ tool'.report = tool.report /\ tool'.err = tool.err
        /\ tool'.quiet = tool.quiet /\ tool'.refreshed = tool.refreshed
    BY <2>0, Advanced DEF LoadInv, ToolOK
  <2>2. (tool.pc = 3 /\ tool'.pc = 4) \/ (tool.pc = 8 /\ tool'.pc = 9)
    BY <1>1, <2>1
  <2>3. Step' \in {"documents", "refresh"} /\ tool'.mode = "index"
    <3>1. 4 \in Nat \ {0} /\ 9 \in Nat \ {0} /\ 4 \in {4, 10}
      OBVIOUS
    <3>2. StepAt("index", 4) = "documents" /\ StepAt("index", 9) = "refresh"
      BY <3>1, IndexSteps
    <3> QED BY <1>1, <2>1, <2>2, <3>2, StepIs DEF Kept
  <2>4. StackOK' /\ ToolOK' /\ ErrorsEnd' /\ LagOK' /\ NewRuns' /\ Running'
    <3>1. Step' # "lag" /\ Step # "none" /\ tool'.pc # 0 /\ watch' \in Watchers
      BY <1>1, <2>2, <2>3 DEF Watching
    <3> QED BY <1>1, <2>1, <3>1, ToolStep
  <2>5. ~Watching'
    BY <2>3 DEF Watching
  <2>6. CASE ~Indexing'
    <3> QED BY <1>1, <2>4, <2>5, <2>6, NotIndexing DEF LoadInv
  <2>7. CASE Indexing'
    <3>1. Indexing /\ tool.err = "none" /\ ~tool.refreshed
      BY <1>1, <2>1, <2>7 DEF Indexing, Kept
    <3>2. Written' = Written
      BY <2>1, <2>2 DEF Written, Kept
    <3>3. /\ NewDocuments' /\ AtRest' /\ Own' = Own /\ (Fresh' <=> Fresh) /\ (Counting' => Counting)
          /\ Indexed' = Indexed /\ points' = points /\ searchable' = searchable
      BY <2>1, <3>1, <3>2, IndexStep
    <3>4. Arrivals'
      <4>1. \A n : Measured(n)' = Measured(n)
        BY <2>1 DEF Measured, Kept
      <4> QED BY <2>1, <2>2, <3>1, <3>2, <4>1 DEF LoadInv, Arrivals
    <3>5. Reported'
      BY <2>2 DEF Reported
    <3>6. Counts'
      <4>1. CountsBy(tool'.pc) = CountsBy(tool.pc)
        BY <2>2 DEF CountsBy
      <4>2. tool'.pc >= 5 => tool.pc >= 5 /\ tool.pc >= 6
        BY <2>2
      <4>3. ~(tool'.pc >= 12)
        BY <2>2
      <4>4. /\ Len(tool.counts) = CountsBy(tool.pc)
            /\ Counting /\ tool.pc >= 5 => tool.counts[1] = Cardinality(Indexed \ Own)
            /\ Counting /\ tool.pc >= 6 => tool.counts[2] = Cardinality(points \ Own)
        BY <3>1 DEF LoadInv, Counts
      <4>5. /\ Counting' /\ tool'.pc >= 5 => tool'.counts[1] = Cardinality(Indexed' \ Own')
            /\ Counting' /\ tool'.pc >= 6 => tool'.counts[2] = Cardinality(points' \ Own')
        <5>1. tool'.pc >= 6 => tool.pc >= 6
          BY <2>2
        <5> QED BY <2>1, <3>3, <4>2, <4>4, <5>1
      <4>6. Len(tool'.counts) = CountsBy(tool'.pc) /\ ~tool'.refreshed
        BY <2>1, <3>1, <4>1, <4>4
      <4> QED BY <4>3, <4>5, <4>6 DEF Counts
    <3>7. Watched'
      <4>1. w.err # "store" => (w.pending \ w.found) \cap w.seen = {}
        OBVIOUS
      <4>2. CASE tool.pc = 3
        <5>1. ~(tool'.pc >= 8) /\ ~(tool'.pc >= 9)
          BY <2>2, <4>2
        <5> QED BY <1>1, <2>5, <4>1, <5>1 DEF Watched
      <4>3. CASE tool.pc = 8
        <5>1. tool.pc >= 8
          BY <4>3
        <5>2. watch.pending \cup watch.unchecked \cup watch.found \subseteq tool.arrivals
          BY <3>1, <5>1 DEF LoadInv, Watched
        <5>3. w.pending \cup w.unchecked \cup w.found \subseteq tool'.arrivals
          BY <2>1, <5>2
        <5>4. ASSUME Fresh', NEW c \in Docs, c \in (tool'.arrivals \ w.pending) \cup w.found
              PROVE  keyword'[c] > 0
          <6>1. c \in (tool.arrivals \ watch.pending) \cup watch.found
            BY <2>1, <5>4
          <6>2. keyword[c] > 0
            BY <3>1, <3>3, <5>1, <5>4, <6>1 DEF LoadInv, Watched
          <6> QED BY <6>2 DEF stack
        <5> QED BY <1>1, <2>5, <4>1, <5>3, <5>4 DEF Watched
      <4> QED BY <1>1, <4>2, <4>3
    <3> QED BY <2>4, <3>3, <3>4, <3>5, <3>6, <3>7 DEF LoadInv
  <2> QED BY <2>6, <2>7
<1> QED BY <1>2, <1>3

(* A round that leaves documents pending.                                  *)
LEMMA WatcherKeepsInv ==
  ASSUME LoadInv, Watching, UNCHANGED <<stack, tool, plan, earlier>>, watch' \in Watchers,
         watch'.pending \subseteq watch.pending, watch'.unchecked \subseteq watch.pending,
         watch'.found \subseteq watch.found, watch.pending \ watch'.pending \subseteq watch.found,
         watch'.err = "none", (watch'.pending \ watch'.found) \cap watch'.seen = {},
         watch'.resting => watch'.unchecked = {}
  PROVE  LoadInv'
<1>1. /\ StackOK' /\ ToolOK' /\ ErrorsEnd' /\ LagOK' /\ NewRuns' /\ NewDocuments' /\ Arrivals' /\ AtRest'
      /\ Counts' /\ Reported'
      /\ (Indexing' <=> Indexing) /\ (Fresh' <=> Fresh) /\ Watching'
  BY WatcherStep
<1>2. tool' = tool /\ keyword' = keyword /\ tool.pc \in {3, 8}
  BY WatchingIs DEF stack
<1>3. ASSUME Indexing', tool'.pc >= 8
      PROVE  watch'.pending \cup watch'.unchecked \cup watch'.found \subseteq tool'.arrivals
  <2>1. watch.pending \cup watch.unchecked \cup watch.found \subseteq tool.arrivals
    BY <1>1, <1>2, <1>3 DEF LoadInv, Watched
  <2> QED BY <1>2, <2>1
<1>4. ASSUME Indexing', tool'.pc >= 8, Fresh', NEW c \in Docs,
             c \in (tool'.arrivals \ watch'.pending) \cup watch'.found
      PROVE  keyword'[c] > 0
  <2>1. c \in (tool.arrivals \ watch.pending) \cup watch.found
    BY <1>2, <1>4
  <2> QED BY <1>1, <1>2, <1>4, <2>1 DEF LoadInv, Watched
<1>5. ~(Indexing' /\ tool'.pc >= 9)
  BY <1>2
<1>6. Watched'
  BY <1>3, <1>4, <1>5 DEF Watched
<1> QED BY <1>1, <1>6 DEF LoadInv

(* checkAll is done.                                                       *)
LEMMA RoundEndsKeepsInv == LoadInv /\ RoundEnds => LoadInv'
<1> SUFFICES ASSUME LoadInv, RoundEnds PROVE LoadInv'
  OBVIOUS
<1> DEFINE w == [watch EXCEPT !.pending = IF watch.err = "none" THEN @ \ watch.found ELSE @, !.found = {}]
<1>1. /\ Watching /\ watch.unchecked = {} /\ ~watch.resting /\ UNCHANGED <<stack, plan, earlier>>
      /\ IF w.err # "none" \/ w.pending = {} THEN Return(w)
         ELSE watch' = [w EXCEPT !.resting = TRUE] /\ UNCHANGED tool
  BY DEF RoundEnds
<1>2. watch \in Watchers /\ watch.resting \in BOOLEAN
  BY DEF LoadInv, ToolOK, Watchers
<1>3. w \in Watchers
  BY <1>2 DEF Watchers
<1>4. /\ w.pending = (IF watch.err = "none" THEN watch.pending \ watch.found ELSE watch.pending)
      /\ w.unchecked = {} /\ w.found = {} /\ w.resting = FALSE /\ w.err = watch.err
      /\ w.seen = watch.seen
  BY <1>1, <1>2 DEF Watchers
<1> HIDE DEF w
<1>5. watch.err \in {"none", "store"}
  BY <1>1 DEF LoadInv, Watched
<1>6. w.err # "store" => (w.pending \ w.found) \cap w.seen = {}
  BY <1>4, <1>5 DEF LoadInv, Watched
<1>7. /\ w.pending \subseteq watch.pending /\ w.unchecked \subseteq watch.unchecked
      /\ w.found \subseteq watch.found /\ watch.pending \ w.pending \subseteq watch.found
  BY <1>4
<1>8. CASE w.err # "none" \/ w.pending = {}
  <2>1. w.err = "none" => w.pending = {}
    BY <1>8
  <2> QED BY <1>1, <1>3, <1>4, <1>6, <1>7, <1>8, <2>1, ReturnKeepsInv
<1>9. CASE ~(w.err # "none" \/ w.pending = {})
  <2>1. watch' = [w EXCEPT !.resting = TRUE] /\ UNCHANGED tool
    BY <1>1, <1>9
  <2>2. /\ watch' \in Watchers /\ watch'.pending = w.pending /\ watch'.unchecked = {}
        /\ watch'.found = w.found /\ watch'.err = w.err /\ watch'.seen = w.seen
    <3>1. watch' \in Watchers
      BY <1>3, <2>1 DEF Watchers
    <3> QED BY <1>3, <1>4, <2>1, <3>1 DEF Watchers
  <2>3. watch'.err = "none" /\ (watch'.pending \ watch'.found) \cap watch'.seen = {}
    BY <1>6, <1>9, <2>2
  <2> QED BY <1>1, <1>4, <1>7, <2>1, <2>2, <2>3, WatcherKeepsInv
<1> QED BY <1>8, <1>9

(* The next round checks what is pending.                                  *)
LEMMA NextRoundKeepsInv == LoadInv /\ NextRound => LoadInv'
<1> SUFFICES ASSUME LoadInv, NextRound PROVE LoadInv'
  OBVIOUS
<1>1. /\ Watching /\ watch.resting /\ UNCHANGED <<stack, tool, plan, earlier>>
      /\ watch' = [watch EXCEPT !.resting = FALSE, !.unchecked = watch.pending]
  BY DEF NextRound
<1>2. watch \in Watchers /\ watch.err = "none" /\ (watch.pending \ watch.found) \cap watch.seen = {}
  BY <1>1 DEF LoadInv, ToolOK, Watched
<1>3. watch' \in Watchers
  BY <1>1, <1>2 DEF Watchers
<1>4. /\ watch'.pending = watch.pending /\ watch'.unchecked = watch.pending
      /\ watch'.found = watch.found /\ watch'.err = watch.err /\ watch'.seen = watch.seen
      /\ watch'.resting = FALSE
  BY <1>1, <1>2 DEF Watchers
<1> QED BY <1>1, <1>2, <1>3, <1>4, WatcherKeepsInv

(* Or the end of the context.                                              *)
LEMMA GiveUpKeepsInv == LoadInv /\ GiveUp => LoadInv'
<1> SUFFICES ASSUME LoadInv, GiveUp PROVE LoadInv'
  OBVIOUS
<1> DEFINE w == [watch EXCEPT !.resting = FALSE, !.err = "context"]
<1>1. /\ Watching /\ watch.resting /\ UNCHANGED <<stack, plan, earlier>> /\ Return(w)
  BY DEF GiveUp
<1>2. watch \in Watchers /\ watch.err = "none" /\ (watch.pending \ watch.found) \cap watch.seen = {}
  BY <1>1 DEF LoadInv, ToolOK, Watched
<1>3. w \in Watchers
  BY <1>2 DEF Watchers, Errors
<1>4. /\ w.pending = watch.pending /\ w.unchecked = watch.unchecked
      /\ w.found = watch.found /\ w.err = "context" /\ w.seen = watch.seen /\ w.resting = FALSE
  BY <1>2 DEF Watchers
<1> HIDE DEF w
<1> QED BY <1>1, <1>2, <1>3, <1>4, ReturnKeepsInv

(* What is read.                                                           *)
LEMMA ReadCalls ==
  Step \in Range(Snapshot) \cup {"rows"} =>
    Step \in {"documents", "points", "ends", "lag", "dlq", "rows"}
<1> DEFINE s == Snapshot
<1>1. s = <<"documents", "points", "ends", "lag", "dlq">>
  BY DEF Snapshot
<1>2. /\ DOMAIN s = 1 .. 5 /\ s[1] = "documents" /\ s[2] = "points" /\ s[3] = "ends"
      /\ s[4] = "lag" /\ s[5] = "dlq"
  BY <1>1
<1> HIDE DEF s
<1>3. \A i \in DOMAIN s : s[i] \in {"documents", "points", "ends", "lag", "dlq"}
  <2>1. \A i \in 1 .. 5 : i \in {1, 2, 3, 4, 5}
    OBVIOUS
  <2> QED BY <1>2, <2>1
<1> QED BY <1>3 DEF Range, s

(* A reading of an invocation of index: what it keeps as it is.            *)
LEMMA IndexReads ==
  ASSUME LoadInv, Indexing', tool.mode = "index", tool.err = "none", tool' \in Tools,
         Step \in {"documents", "points", "dlq"}, UNCHANGED <<stack, watch, plan, earlier>>,
         Kept(tool'), tool'.pc = tool.pc + 1, tool'.sent = 0, tool'.arrivals = tool.arrivals,
         tool'.lag = tool.lag, tool'.ends = tool.ends,
         tool'.quiet = tool.quiet, tool'.refreshed = tool.refreshed
  PROVE  /\ StackOK' /\ ToolOK' /\ ErrorsEnd' /\ LagOK' /\ NewRuns' /\ NewDocuments'
         /\ Arrivals' /\ Watched' /\ AtRest'
         /\ Own' = Own /\ (Fresh' <=> Fresh) /\ Indexing /\ (Counting' => Counting)
         /\ Indexed' = Indexed /\ points' = points /\ searchable' = searchable
         /\ tool.pc \in {4, 5, 6, 10, 11, 12}
<1>1. tool.pc \in Nat \ {0} /\ Running /\ tool.count \in Nat \ {0} /\ tool.warm \in Nat
  <2>1. Running
    BY CallsAreOf DEF LoadInv
  <2> QED BY <2>1, RunningTypes DEF LoadInv
<1>2. tool.pc \in {4, 5, 6, 10, 11, 12}
  BY <1>1, IndexSteps, StepIs
<1>3. tool'.pc \in {5, 6, 7, 11, 12, 13} /\ tool'.pc \in Nat \ {0}
  BY <1>2
<1>4. Step' \notin {"lag", "arrive"}
  <2>1. tool'.mode = "index"
    BY DEF Kept
  <2>2. tool'.pc \notin {3, 8}
    BY <1>3
  <2> QED BY <1>3, <2>1, <2>2, IndexSteps, StepIs
<1>5. watch' \in Watchers /\ tool'.pc # 0 /\ tool'.err = "none"
  BY <1>3 DEF LoadInv, ToolOK, Indexing
<1>6. StackOK' /\ ToolOK' /\ ErrorsEnd' /\ LagOK' /\ NewRuns' /\ Running'
  BY <1>1, <1>4, <1>5, ToolStep
<1>7. Written' = Written
  BY <1>1, <1>2, <1>3 DEF Written, Kept
<1>8. Indexing
  BY DEF Indexing
<1>9. /\ NewDocuments' /\ AtRest' /\ Own' = Own /\ (Fresh' <=> Fresh) /\ (Counting' => Counting)
      /\ Indexed' = Indexed /\ points' = points /\ searchable' = searchable
  BY <1>7, IndexStep
<1>10. Arrivals'
  <2>1. \A n : Measured(n)' = Measured(n)
    BY DEF Measured, Kept
  <2>2. tool'.pc >= 8 => tool.pc >= 8
    BY <1>2
  <2>3. tool'.pc # 2 /\ tool'.pc <= 13 /\ ~(tool'.pc = 7 /\ tool'.sent > 0)
    BY <1>3
  <2>4. tool'.pc = 7 => tool'.sent < tool'.count
    BY <1>1 DEF Kept
  <2> QED BY <1>7, <1>8, <2>1, <2>2, <2>3, <2>4 DEF LoadInv, Arrivals
<1>11. Watched'
  <2>1. tool'.pc >= 8 => tool.pc >= 8 /\ tool.pc >= 9
    BY <1>2
  <2>2. tool'.pc >= 9 => tool.pc >= 9
    BY <1>2
  <2>3. watch' = watch /\ keyword' = keyword /\ ~Watching'
    BY <1>4 DEF stack, Watching
  <2> QED BY <1>8, <1>9, <2>1, <2>2, <2>3 DEF LoadInv, Watched
<1> QED BY <1>2, <1>6, <1>8, <1>9, <1>10, <1>11

(* An interval of documents of one run has as many as it is long.          *)
LEMMA MeasuredSize ==
  ASSUME ToolOK, Running, tool.mode = "index", NEW k \in Nat, tool.warm + k <= MaxDocuments
  PROVE  IsFiniteSet(Measured(tool.warm + k)) /\ Cardinality(Measured(tool.warm + k)) = k
<1>1. PICK r \in RunIDs : tool.scope = {r}
  BY RunningTypes DEF Sound
<1> DEFINE from == tool.warm
           M == Measured(from + k)
           f == [i \in 1 .. k |-> <<r, from + i - 1>>]
<1>2. from \in Nat
  BY RunningTypes
<1>3. \A i \in 1 .. k : from + i - 1 \in 0 .. MaxDocuments - 1 /\ from <= from + i - 1
                         /\ from + i - 1 < from + k
  BY <1>2, LoadTestAssumption
<1>4. f \in [1 .. k -> M]
  <2> SUFFICES ASSUME NEW i \in 1 .. k PROVE <<r, from + i - 1>> \in M
    OBVIOUS
  <2>1. <<r, from + i - 1>> \in Docs
    BY <1>3 DEF Docs
  <2> QED BY <1>1, <1>3, <2>1 DEF Measured
<1>5. \A i, j \in 1 .. k : f[i] = f[j] => i = j
  BY <1>2
<1>6. ASSUME NEW d \in M PROVE \E i \in 1 .. k : f[i] = d
  <2>1. d \in Docs /\ d[1] = r /\ from <= d[2] /\ d[2] < from + k
    BY <1>1 DEF Measured
  <2>2. d[2] \in 0 .. MaxDocuments - 1 /\ d = <<d[1], d[2]>>
    BY <2>1 DEF Docs
  <2>3. d[2] \in Int
    BY <2>2, LoadTestAssumption
  <2>4. PICK n \in Int : n = d[2]
    BY <2>3
  <2>5. n - from + 1 \in 1 .. k /\ from + (n - from + 1) - 1 = n
    BY <1>2, <2>1, <2>4
  <2>6. f[n - from + 1] = <<r, n>>
    BY <2>5
  <2> QED BY <2>1, <2>2, <2>4, <2>5, <2>6
<1> HIDE DEF f, M
<1>7. f \in Bijection(1 .. k, M)
  <2>1. f \in Surjection(1 .. k, M)
    BY <1>4, <1>6, Fun_IsSurj
  <2>2. f \in Injection(1 .. k, M)
    BY <1>4, <1>5, Fun_IsInj
  <2> QED BY <2>1, <2>2, Fun_IsBij
<1>8. IsFiniteSet(M) /\ Cardinality(M) = k
  <2>1. ExistsBijection(1 .. k, M)
    BY <1>7 DEF ExistsBijection
  <2>2. IsFiniteSet(1 .. k) /\ Cardinality(1 .. k) = k
    <3>1. 1 \in Int /\ k \in Int /\ (1 > k => k = 0) /\ k - 1 + 1 = k
      OBVIOUS
    <3> QED BY <3>1, FS_Interval
  <2> QED BY <2>1, <2>2, FS_Bijection
<1> QED BY <1>8 DEF M

(* What the run itself adds to the counts, if it began at rest.            *)
LEMMA OwnCounts ==
  ASSUME LoadInv, Counting, tool.pc \in {4, 5, 10, 11}
  PROVE  /\ Cardinality(searchable) \in Nat /\ Cardinality(points) \in Nat
         /\ tool.pc = 4 => Cardinality(searchable) = Cardinality(Indexed \ Own)
         /\ tool.pc = 5 => Cardinality(points) = Cardinality(points \ Own)
         /\ tool.pc = 10 /\ tool.arrivals \subseteq searchable =>
              Cardinality(searchable) = Cardinality(Indexed \ Own) + tool.count
         /\ tool.pc = 11 => Cardinality(points) <= Cardinality(points \ Own) + tool.count
<1>1. /\ Indexing /\ Fresh /\ tool.warm = 0 /\ Running /\ tool.count \in Nat \ {0}
      /\ tool.count <= MaxDocuments
  <2>1. Indexing /\ Fresh /\ tool.warm = 0 /\ Running
    BY Scripts DEF Counting, Indexing, Running
  <2>2. tool.count \in Nat \ {0} /\ tool.warm + tool.count <= MaxDocuments
    BY <2>1, RunningTypes DEF LoadInv, Sound
  <2> QED BY <2>1, <2>2, LoadTestAssumption
<1>2. searchable \in SUBSET Docs /\ points \in SUBSET Docs /\ searchable \ Own = Indexed \ Own
  BY DEF LoadInv, StackOK, AtRest
<1>3. /\ IsFiniteSet(searchable) /\ IsFiniteSet(points)
      /\ IsFiniteSet(searchable \ Own) /\ IsFiniteSet(points \ Own)
      /\ IsFiniteSet(searchable \cap Own) /\ IsFiniteSet(points \cap Own)
  BY <1>2, DocsAreFinite
<1>4. /\ Cardinality(searchable) \in Nat /\ Cardinality(points) \in Nat
      /\ Cardinality(searchable \ Own) \in Nat /\ Cardinality(points \ Own) \in Nat
      /\ Cardinality(searchable \cap Own) \in Nat /\ Cardinality(points \cap Own) \in Nat
  BY <1>3, FS_CardinalityType
<1>5. /\ Cardinality(searchable \ Own) = Cardinality(searchable) - Cardinality(searchable \cap Own)
      /\ Cardinality(points \ Own) = Cardinality(points) - Cardinality(points \cap Own)
  BY <1>3, FS_Difference
<1>6. \A d \in Own : d[2] \in Int /\ (~(d[2] < Written) => d \notin searchable /\ d \notin points)
  <2>1. \A d \in Own : d \in Docs /\ d[1] \in tool.scope
    BY DEF Own
  <2>2. \A d \in Docs : d[2] \in Int
    BY LoadTestAssumption DEF Docs
  <2> QED BY <1>1, <2>1, <2>2 DEF LoadInv, NewDocuments, Untouched
<1>7. ASSUME tool.pc \in {4, 5} PROVE searchable \cap Own = {} /\ points \cap Own = {}
  <2>1. Written = 0
    BY <1>1, <1>7 DEF Written
  <2>2. \A d \in Own : ~(d[2] < 0)
    BY LoadTestAssumption DEF Own, Docs
  <2> QED BY <1>6, <2>1, <2>2
<1>8. ASSUME tool.pc \in {10, 11}
      PROVE  /\ searchable \cap Own \subseteq tool.arrivals /\ points \cap Own \subseteq tool.arrivals
             /\ IsFiniteSet(tool.arrivals) /\ Cardinality(tool.arrivals) = tool.count
             /\ tool.arrivals \subseteq Own
  <2>1. Written = tool.warm + tool.count /\ tool.pc >= 8
    BY <1>8 DEF Written
  <2>2. tool.arrivals = Measured(tool.warm + tool.count)
    BY <1>1, <2>1 DEF LoadInv, Arrivals
  <2>3. IsFiniteSet(tool.arrivals) /\ Cardinality(tool.arrivals) = tool.count
    <3>1. tool.count \in Nat /\ tool.warm + tool.count <= MaxDocuments /\ tool.mode = "index"
      BY <1>1, LoadTestAssumption DEF Indexing
    <3> QED BY <1>1, <2>2, <3>1, MeasuredSize DEF LoadInv
  <2>4. \A d \in Own : tool.warm <= d[2]
    <3>1. \A d \in Docs : 0 <= d[2]
      BY LoadTestAssumption DEF Docs
    <3> QED BY <1>1, <3>1 DEF Own
  <2>5. \A d \in Own : d \in searchable \/ d \in points => d \in tool.arrivals
    BY <1>6, <2>1, <2>2, <2>4 DEF Measured, Own
  <2>6. tool.arrivals \subseteq Own
    BY <2>2 DEF Measured, Own
  <2> QED BY <2>3, <2>5, <2>6
<1>9. tool.pc = 4 => Cardinality(searchable) = Cardinality(Indexed \ Own)
  BY <1>2, <1>4, <1>5, <1>7, FS_EmptySet
<1>10. tool.pc = 5 => Cardinality(points) = Cardinality(points \ Own)
  BY <1>4, <1>5, <1>7, FS_EmptySet
<1>11. ASSUME tool.pc = 10, tool.arrivals \subseteq searchable
       PROVE  Cardinality(searchable) = Cardinality(Indexed \ Own) + tool.count
  <2>1. searchable \cap Own = tool.arrivals
    BY <1>8, <1>11
  <2>2. Cardinality(searchable \cap Own) = tool.count
    BY <1>8, <1>11, <2>1
  <2>3. Cardinality(searchable \ Own) = Cardinality(Indexed \ Own)
    BY <1>2
  <2>4. PICK c \in Nat : c = tool.count
    BY <1>1
  <2>5. Cardinality(searchable) = Cardinality(searchable \ Own) + c
    <3>1. Cardinality(searchable \ Own) = Cardinality(searchable) - c
      BY <1>5, <2>2, <2>4
    <3> QED BY <1>4, <3>1
  <2> QED BY <2>3, <2>4, <2>5
<1>12. ASSUME tool.pc = 11
       PROVE  Cardinality(points) <= Cardinality(points \ Own) + tool.count
  <2>1. Cardinality(points \cap Own) <= tool.count
    BY <1>8, <1>12, FS_Subset
  <2> QED BY <1>1, <1>4, <1>5, <2>1
<1> QED BY <1>4, <1>9, <1>10, <1>11, <1>12

(* One count more.                                                         *)
LEMMA CountedOne ==
  ASSUME tool \in Tools, NEW n \in Int, tool' = [Advance EXCEPT !.counts = Append(@, n)]
  PROVE  /\ tool' \in Tools /\ Kept(tool') /\ tool'.pc = tool.pc + 1 /\ tool'.sent = 0
         /\ tool'.arrivals = tool.arrivals /\ tool'.ends = tool.ends
         /\ tool'.lag = tool.lag /\ tool'.report = tool.report /\ tool'.err = tool.err
         /\ tool'.quiet = tool.quiet /\ tool'.refreshed = tool.refreshed
         /\ Len(tool'.counts) = Len(tool.counts) + 1 /\ Len(tool.counts) \in Nat
         /\ tool'.counts[Len(tool.counts) + 1] = n
         /\ \A i \in 1 .. Len(tool.counts) : tool'.counts[i] = tool.counts[i]
<1>1. PICK t : t = Advance
  OBVIOUS
<1>2. /\ t \in Tools /\ Kept(t) /\ t.pc = tool.pc + 1 /\ t.sent = 0 /\ t.arrivals = tool.arrivals
      /\ t.others = tool.others /\ t.counts = tool.counts /\ t.ends = tool.ends
      /\ t.lag = tool.lag /\ t.report = tool.report /\ t.err = tool.err
      /\ t.quiet = tool.quiet /\ t.refreshed = tool.refreshed
  BY <1>1, Advanced
<1>3. PICK s \in Seq(Int) : s = tool.counts
  BY DEF Tools
<1>4. PICK c : c = Append(s, n)
  OBVIOUS
<1>5. /\ c \in Seq(Int) /\ Len(c) = Len(s) + 1 /\ Len(s) \in Nat
      /\ c[Len(s) + 1] = n /\ \A i \in 1 .. Len(s) : c[i] = s[i]
  BY <1>4
<1>6. tool' = [t EXCEPT !.counts = c]
  BY <1>1, <1>2, <1>3, <1>4
<1>7. tool' \in Tools
  BY <1>2, <1>5, <1>6 DEF Tools
<1>8. /\ tool'.counts = c /\ tool'.mode = t.mode /\ tool'.scope = t.scope /\ tool'.count = t.count
      /\ tool'.warm = t.warm /\ tool'.op = t.op /\ tool'.pc = t.pc /\ tool'.sent = t.sent
      /\ tool'.arrivals = t.arrivals /\ tool'.ends = t.ends
      /\ tool'.lag = t.lag /\ tool'.report = t.report /\ tool'.err = t.err
      /\ tool'.quiet = t.quiet /\ tool'.refreshed = t.refreshed
  BY <1>2, <1>6 DEF Tools
<1> QED BY <1>2, <1>3, <1>5, <1>7, <1>8 DEF Kept

(* The counts, read before and after.                                      *)
LEMMA CountingKeepsInv ==
  ASSUME LoadInv, tool.mode = "index", Step \in {"documents", "points"},
         UNCHANGED <<stack, watch, plan, earlier>>,
         tool' = [Advance EXCEPT !.counts = Append(@, IF Step = "documents" THEN Cardinality(searchable)
                                                      ELSE Cardinality(points))]
  PROVE  LoadInv'
<1> DEFINE n == IF Step = "documents" THEN Cardinality(searchable) ELSE Cardinality(points)
           len == Len(tool.counts)
<1>1. n \in Int
  <2>1. searchable \in SUBSET Docs /\ points \in SUBSET Docs
    BY DEF LoadInv, StackOK
  <2> QED BY <2>1, DocsAreFinite, FS_CardinalityType
<1> HIDE DEF n
<1>2. /\ tool' \in Tools /\ Kept(tool') /\ tool'.pc = tool.pc + 1 /\ tool'.sent = 0
      /\ tool'.arrivals = tool.arrivals /\ tool'.ends = tool.ends
      /\ tool'.lag = tool.lag /\ tool'.report = tool.report /\ tool'.err = tool.err
      /\ tool'.quiet = tool.quiet /\ tool'.refreshed = tool.refreshed
      /\ Len(tool'.counts) = len + 1 /\ len \in Nat /\ tool'.counts[len + 1] = n
      /\ \A i \in 1 .. len : tool'.counts[i] = tool.counts[i]
  BY <1>1, CountedOne DEF LoadInv, ToolOK, n
<1>c. /\ Len(tool'.counts) = len + 1 /\ len \in Nat /\ tool'.counts[len + 1] = n
      /\ \A i \in 1 .. len : tool'.counts[i] = tool.counts[i]
  BY <1>2
<1>3. tool.err = "none" /\ Indexing /\ Indexing'
  BY <1>2 DEF LoadInv, ErrorsEnd, Indexing, Kept
<1>4. /\ StackOK' /\ ToolOK' /\ ErrorsEnd' /\ LagOK' /\ NewRuns' /\ NewDocuments'
      /\ Arrivals' /\ Watched' /\ AtRest'
      /\ Own' = Own /\ (Fresh' <=> Fresh) /\ Indexing /\ (Counting' => Counting)
      /\ Indexed' = Indexed /\ points' = points /\ searchable' = searchable
      /\ tool.pc \in {4, 5, 6, 10, 11, 12}
  <2>1. Step \in {"documents", "points", "dlq"}
    OBVIOUS
  <2> QED BY <1>2, <1>3, <2>1, IndexReads
<1>5. /\ tool.pc \in {4, 5, 10, 11} /\ tool.pc \in Nat \ {0}
      /\ n = IF tool.pc \in {4, 10} THEN Cardinality(searchable) ELSE Cardinality(points)
  <2>1. Step = StepAt("index", tool.pc) /\ tool.pc \in Nat \ {0}
    BY <1>4, StepIs
  <2>2. (Step = "documents" <=> tool.pc \in {4, 10}) /\ (Step = "points" <=> tool.pc \in {5, 11})
    BY <2>1, IndexSteps
  <2> QED BY <2>1, <2>2 DEF n
<1>6. Reported'
  BY <1>2, <1>5 DEF Reported
<1>7. len = CountsBy(tool.pc) /\ (tool.pc <= 9 => ~tool.refreshed)
  BY <1>3 DEF LoadInv, Counts
<1>8. Counting =>
        /\ tool.pc >= 5 => tool.counts[1] = Cardinality(Indexed \ Own)
        /\ tool.pc >= 6 => tool.counts[2] = Cardinality(points \ Own)
        /\ tool.refreshed /\ watch.err = "none" =>
             /\ tool.arrivals \subseteq searchable
             /\ tool.pc >= 11 => tool.counts[3] = Cardinality(Indexed \ Own) + tool.count
  BY DEF LoadInv, Counts
<1>9. Counting =>
         /\ tool.pc = 4 => n = Cardinality(Indexed \ Own)
         /\ tool.pc = 5 => n = Cardinality(points \ Own)
         /\ tool.pc = 10 /\ tool.arrivals \subseteq searchable =>
              n = Cardinality(Indexed \ Own) + tool.count
         /\ tool.pc = 11 => n <= Cardinality(points \ Own) + tool.count
  BY <1>5, OwnCounts
<1>10. Len(tool'.counts) = CountsBy(tool'.pc) /\ (tool'.pc <= 9 => ~tool'.refreshed)
  BY <1>2, <1>5, <1>7 DEF CountsBy
<1>11. CASE tool.pc = 4
  <2>1. len = 0 /\ tool'.pc = 5 /\ ~tool'.refreshed
    BY <1>2, <1>7, <1>11 DEF CountsBy
  <2>2. Counting' => tool'.counts[1] = Cardinality(Indexed' \ Own')
    BY <1>2, <1>4, <1>9, <1>11, <2>1
  <2>3. Counts'
    BY <1>10, <2>1, <2>2 DEF Counts
  <2> QED BY <1>4, <1>6, <2>3 DEF LoadInv
<1>12. CASE tool.pc = 5
  <2>1. len = 1 /\ tool'.pc = 6 /\ ~tool'.refreshed /\ tool.pc >= 5
    BY <1>2, <1>7, <1>12 DEF CountsBy
  <2>2. Counting' => tool'.counts[1] = Cardinality(Indexed' \ Own')
    <3>1. tool'.counts[1] = tool.counts[1]
      BY <1>2, <2>1
    <3> QED BY <1>4, <1>8, <2>1, <3>1
  <2>3. Counting' => tool'.counts[2] = Cardinality(points' \ Own')
    <3>1. tool'.counts[2] = n
      BY <1>c, <2>1
    <3> QED BY <1>4, <1>9, <1>12, <3>1
  <2>4. Counts'
    <3>1. ~(tool'.pc >= 12)
      BY <2>1
    <3>2. ~tool'.refreshed
      BY <2>1
    <3> HIDE DEF len
    <3> QED BY <1>10, <2>2, <2>3, <3>1, <3>2 DEF Counts
  <2> QED BY <1>4, <1>6, <2>4 DEF LoadInv
<1>13. CASE tool.pc \in {10, 11}
  <2>1. /\ tool.pc = 10 => len = 2 /\ tool'.pc = 11
        /\ tool.pc = 11 => len = 3 /\ tool'.pc = 12
    BY <1>2, <1>7 DEF CountsBy
  <2>0. tool.pc >= 5 /\ tool.pc >= 6
    BY <1>13
  <2>2. tool'.counts[1] = tool.counts[1] /\ tool'.counts[2] = tool.counts[2]
    <3>0. len = 2 \/ len = 3
      BY <1>13, <2>1
    <3>1. len \in Nat /\ 2 <= len
      <4>1. CASE len = 2
        BY <4>1
      <4>2. CASE len = 3
        BY <4>2
      <4> QED BY <3>0, <4>1, <4>2
    <3>2. 1 \in 1 .. len /\ 2 \in 1 .. len
      <4>1. PICK m \in Nat : m = len /\ 2 <= m
        BY <3>1
      <4>2. 1 \in 1 .. m /\ 2 \in 1 .. m
        BY <4>1
      <4> QED BY <4>1, <4>2
    <3>3. \A i \in 1 .. len : tool'.counts[i] = tool.counts[i]
      BY <1>c
    <3>4. tool'.counts[1] = tool.counts[1]
      BY <3>2, <3>3
    <3>5. tool'.counts[2] = tool.counts[2]
      BY <3>2, <3>3
    <3> QED BY <3>4, <3>5
  <2>3. Counting' => /\ tool'.counts[1] = Cardinality(Indexed' \ Own')
                     /\ tool'.counts[2] = Cardinality(points' \ Own')
    BY <1>4, <1>8, <2>0, <2>2
  <2>4. ASSUME Counting', tool'.refreshed, watch'.err = "none"
        PROVE  /\ tool'.arrivals \subseteq searchable'
               /\ tool'.counts[3] = Cardinality(Indexed' \ Own') + tool'.count
    <3>1. Counting /\ tool.arrivals \subseteq searchable
      BY <1>2, <1>4, <1>8, <2>4
    <3>2. tool'.counts[3] = Cardinality(Indexed \ Own) + tool.count
      <4>1. CASE tool.pc = 10
        <5>1. tool'.counts[3] = n
          <6>1. len = 2
            BY <2>1, <4>1
          <6> QED BY <1>c, <6>1
        <5> QED BY <1>9, <3>1, <4>1, <5>1
      <4>2. CASE tool.pc = 11
        <5>1. tool'.counts[3] = tool.counts[3]
          <6>1. len = 3
            BY <2>1, <4>2
          <6> QED BY <1>c, <6>1
        <5>2. tool.refreshed /\ watch.err = "none" /\ tool.pc >= 11
          BY <1>2, <2>4, <4>2
        <5> QED BY <1>8, <3>1, <5>1, <5>2
      <4> QED BY <1>13, <4>1, <4>2
    <3> QED BY <1>2, <1>4, <3>1, <3>2 DEF Kept
  <2>5. ASSUME Counting', tool'.pc >= 12
        PROVE  tool'.counts[4] <= Cardinality(points' \ Own') + tool'.count
    <3>1. tool.pc = 11
      BY <1>13, <2>1, <2>5
    <3>2. tool'.counts[4] = n
      <4>1. len = 3
        BY <2>1, <3>1
      <4> QED BY <1>c, <4>1
    <3> QED BY <1>2, <1>4, <1>9, <2>5, <3>1, <3>2 DEF Kept
  <2>6. Counts'
    BY <1>10, <2>3, <2>4, <2>5 DEF Counts
  <2> QED BY <1>4, <1>6, <2>6 DEF LoadInv
<1> QED BY <1>5, <1>11, <1>12, <1>13

(* What Runner.Index returns is made of the last reading.                  *)
LEMMA ReportKeepsInv ==
  ASSUME LoadInv, tool.mode = "index", Step = "dlq", UNCHANGED <<stack, watch, plan, earlier>>,
         tool' = IF tool.pc = 12 THEN [Advance EXCEPT !.report = Report, !.err = watch.err] ELSE Advance
  PROVE  LoadInv'
<1>1. PICK t : t = Advance
  OBVIOUS
<1>2. /\ t \in Tools /\ Kept(t) /\ t.pc = tool.pc + 1 /\ t.sent = 0 /\ t.arrivals = tool.arrivals
      /\ t.others = tool.others /\ t.counts = tool.counts /\ t.ends = tool.ends
      /\ t.lag = tool.lag /\ t.report = tool.report /\ t.err = tool.err
      /\ t.quiet = tool.quiet /\ t.refreshed = tool.refreshed
  BY <1>1, Advanced DEF LoadInv, ToolOK
<1>3. tool.pc \in {6, 12} /\ tool.pc \in Nat \ {0} /\ Running /\ tool.err = "none"
  <2>1. Running /\ tool.err = "none"
    BY CallsAreOf DEF LoadInv, ErrorsEnd
  <2>2. tool.pc \in Nat \ {0}
    BY <2>1, RunningTypes DEF LoadInv
  <2> QED BY <2>1, <2>2, IndexSteps, StepIs
<1>4. CASE tool.pc = 6
  <2>1. tool' = t
    BY <1>1, <1>4
  <2>2. Indexing' /\ tool'.pc = 7
    BY <1>2, <1>3, <1>4, <2>1 DEF Indexing, Kept
  <2>3. /\ StackOK' /\ ToolOK' /\ ErrorsEnd' /\ LagOK' /\ NewRuns' /\ NewDocuments'
        /\ Arrivals' /\ Watched' /\ AtRest'
        /\ Own' = Own /\ (Fresh' <=> Fresh) /\ Indexing /\ (Counting' => Counting)
        /\ Indexed' = Indexed /\ points' = points /\ searchable' = searchable
        /\ tool.pc \in {4, 5, 6, 10, 11, 12}
    BY <1>2, <1>3, <2>1, <2>2, IndexReads
  <2>4. Reported'
    BY <2>2 DEF Reported
  <2>5. Counts'
    <3>1. /\ Len(tool.counts) = CountsBy(6) /\ ~tool.refreshed
          /\ Counting => /\ tool.counts[1] = Cardinality(Indexed \ Own)
                         /\ tool.counts[2] = Cardinality(points \ Own)
      BY <1>4, <2>3 DEF LoadInv, Counts
    <3>2. CountsBy(6) = CountsBy(7)
      BY DEF CountsBy
    <3>3. tool'.counts = tool.counts /\ ~tool'.refreshed
      BY <1>2, <2>1, <3>1
    <3>4. ~(tool'.pc >= 12)
      BY <2>2
    <3> QED BY <2>2, <2>3, <3>1, <3>2, <3>3, <3>4 DEF Counts
  <2> QED BY <2>3, <2>4, <2>5 DEF LoadInv
<1>5. CASE tool.pc = 12
  <2>0. /\ watch.err \in Errors /\ tool.arrivals \in SUBSET Docs /\ watch.pending \in SUBSET Docs
        /\ tool.count \in Nat \ {0} /\ tool.warm \in Nat
    BY <1>3, RunningTypes DEF LoadInv
  <2>1. PICK report : report = Report
    OBVIOUS
  <2>2. tool' = [t EXCEPT !.report = report, !.err = watch.err]
    BY <1>1, <1>5, <2>1
  <2>3. Indexing
    BY <1>3 DEF Indexing
  <2>4. Len(tool.counts) = 4 /\ tool.counts \in Seq(Int)
    BY <1>3, <1>5, <2>3, RunningTypes DEF LoadInv, Counts, CountsBy
  <2>5. /\ tool.counts[1] \in Int /\ tool.counts[2] \in Int /\ tool.counts[3] \in Int
        /\ tool.counts[4] \in Int
    BY <2>4
  <2>6. Cardinality(tool.arrivals) \in Nat /\ Cardinality(watch.pending) \in Nat
    BY <2>0, DocsAreFinite, FS_CardinalityType
  <2>7. /\ report \in Reports
        /\ report.produced = Cardinality(tool.arrivals)
        /\ report.indexed = Cardinality(tool.arrivals) - Cardinality(watch.pending)
        /\ report.documents = tool.counts[3] - tool.counts[1]
        /\ report.points = tool.counts[4] - tool.counts[2]
    <3>1. PICK a \in Int : a = Cardinality(tool.arrivals) - Cardinality(watch.pending)
      BY <2>6
    <3>2. PICK b \in Int : b = tool.counts[3] - tool.counts[1]
      BY <2>5
    <3>3. PICK c \in Int : c = tool.counts[4] - tool.counts[2]
      BY <2>5
    <3>4. report = [produced |-> Cardinality(tool.arrivals), indexed |-> a, documents |-> b, points |-> c]
      BY <2>1, <3>1, <3>2, <3>3 DEF Report
    <3> QED BY <2>6, <3>1, <3>2, <3>3, <3>4 DEF Reports
  <2>8. /\ tool' \in Tools /\ Kept(tool') /\ tool'.pc = 13 /\ tool'.sent = 0
        /\ tool'.arrivals = tool.arrivals /\ tool'.counts = tool.counts /\ tool'.ends = tool.ends
        /\ tool'.lag = tool.lag /\ tool'.report = report /\ tool'.err = watch.err
        /\ tool'.quiet = tool.quiet /\ tool'.refreshed = tool.refreshed
    <3>1. tool' \in Tools
      BY <1>2, <2>0, <2>2, <2>7 DEF Tools
    <3>2. /\ tool'.report = report /\ tool'.err = watch.err
          /\ tool'.counts = t.counts /\ tool'.mode = t.mode /\ tool'.scope = t.scope
          /\ tool'.count = t.count /\ tool'.warm = t.warm /\ tool'.op = t.op /\ tool'.pc = t.pc
          /\ tool'.sent = t.sent /\ tool'.arrivals = t.arrivals /\ tool'.ends = t.ends
          /\ tool'.lag = t.lag /\ tool'.quiet = t.quiet /\ tool'.refreshed = t.refreshed
      BY <1>2, <2>2 DEF Tools
    <3>3. t.pc = 13
      BY <1>2, <1>5
    <3> QED BY <1>2, <3>1, <3>2, <3>3 DEF Kept
  <2>9. CASE Indexing'
    <3>1. /\ StackOK' /\ ToolOK' /\ ErrorsEnd' /\ LagOK' /\ NewRuns' /\ NewDocuments'
          /\ Arrivals' /\ Watched' /\ AtRest'
          /\ Own' = Own /\ (Fresh' <=> Fresh) /\ Indexing /\ (Counting' => Counting)
          /\ Indexed' = Indexed /\ points' = points /\ searchable' = searchable
      <4>1. tool'.pc = tool.pc + 1
        BY <1>5, <2>8
      <4> QED BY <1>3, <2>8, <2>9, <4>1, IndexReads
    <3>2. tool'.err = "none" /\ watch.err = "none"
      BY <2>8, <2>9 DEF Indexing
    <3>3. watch.pending = {}
      BY <1>5, <2>3, <3>2 DEF LoadInv, Watched
    <3>4. tool.arrivals = Measured(tool.warm + tool.count)
      BY <1>5, <2>3 DEF LoadInv, Arrivals, Written
    <3>5. Cardinality(tool.arrivals) = tool.count
      <4>1. tool.count \in Nat /\ tool.warm + tool.count <= MaxDocuments
        BY <1>3, <2>0, RunningTypes DEF LoadInv, Sound
      <4> QED BY <1>3, <3>4, <4>1, MeasuredSize DEF LoadInv
    <3>6. report.produced = tool.count /\ report.indexed = tool.count
      BY <2>0, <2>7, <3>3, <3>5, FS_EmptySet
    <3>7. Counting => /\ tool.counts[1] = Cardinality(Indexed \ Own)
                      /\ tool.counts[2] = Cardinality(points \ Own)
                      /\ tool.refreshed =>
                           /\ tool.arrivals \subseteq searchable
                           /\ tool.counts[3] = Cardinality(Indexed \ Own) + tool.count
                      /\ tool.counts[4] <= Cardinality(points \ Own) + tool.count
      BY <1>5, <3>2 DEF LoadInv, Counts
    <3>8. Counts'
      <4>1. Len(tool'.counts) = CountsBy(tool'.pc) /\ ~(tool'.pc <= 9)
        <5>1. tool'.counts = tool.counts /\ tool'.pc = 13
          BY <2>8
        <5>2. CountsBy(13) = 4
          BY DEF CountsBy
        <5>3. Len(tool'.counts) = 4
          BY <2>4, <5>1
        <5>4. ~(13 <= 9)
          OBVIOUS
        <5> QED BY <5>1, <5>2, <5>3, <5>4
      <4>2. tool'.counts = tool.counts /\ tool'.count = tool.count /\ tool'.arrivals = tool.arrivals
            /\ tool'.refreshed = tool.refreshed
        BY <2>8 DEF Kept
      <4> HIDE <2>8
      <4> QED BY <3>1, <3>7, <4>1, <4>2 DEF Counts
    <3>9. ASSUME Counting', tool'.refreshed
          PROVE  report.documents = tool.count /\ report.points <= tool.count
      <4>1. PICK c \in Nat : c = tool.count
        BY <2>0
      <4>2. tool.counts[3] = tool.counts[1] + c /\ tool.counts[4] <= tool.counts[2] + c
        BY <2>8, <3>1, <3>7, <3>9, <4>1
      <4>3. report.documents = c /\ report.points <= c
        BY <2>5, <2>7, <4>2
      <4> QED BY <4>1, <4>3
    <3>10. Reported'
      BY <2>8, <3>2, <3>6, <3>9 DEF Reported, Kept
    <3> QED BY <3>1, <3>8, <3>10 DEF LoadInv
  <2>10. CASE ~Indexing'
    <3>1. 13 \in Nat \ {0} /\ 13 > 12 /\ 13 # 3 /\ 13 # 8
      OBVIOUS
    <3>2. StepAt("index", 13) = "none"
      BY <3>1, IndexSteps
    <3>3. Step' = "none" /\ tool'.pc # 0
      BY <2>8, <3>2, StepIs DEF Kept
    <3>4. StackOK' /\ NewRuns' /\ \A p \in Part : Position(p)' = Position(p) /\ Position(p) \in Int
      <4>1. earlier \cup tool.scope \subseteq earlier' \cup tool'.scope
        BY <2>8 DEF Kept
      <4> QED BY <4>1, StackKept, NewRunsKept DEF LoadInv, StackOK
    <3>5. ToolOK'
      BY <1>3, <2>8, <3>3, ToolTypes DEF LoadInv, ToolOK
    <3>6. LagOK' /\ ErrorsEnd'
      BY <2>8, <3>3, <3>4, LagKept DEF LoadInv, ErrorsEnd
    <3>7. ~Watching'
      BY <3>3 DEF Watching
    <3> QED BY <2>10, <3>4, <3>5, <3>6, <3>7, NotIndexing DEF LoadInv, Watched
  <2> QED BY <2>9, <2>10
<1> QED BY <1>3, <1>4, <1>5

(* A reading, of whatever mode, or one that failed.                        *)
LEMMA ReadKeepsInv == LoadInv /\ Read => LoadInv'
<1> SUFFICES ASSUME LoadInv, Read PROVE LoadInv'
  OBVIOUS
<1>1. /\ UNCHANGED <<stack, watch, plan, earlier>> /\ committed' = committed
      /\ Step \in {"documents", "points", "ends", "lag", "dlq", "rows"}
  BY ReadCalls DEF Read, stack
<1>2. Running /\ tool.err = "none" /\ tool \in Tools
  BY <1>1, CallsAreOf DEF LoadInv, ErrorsEnd, ToolOK
<1>3. /\ StackOK' /\ \A p \in Part : Position(p)' = Position(p) /\ Position(p) \in Int
      /\ watch' \in Watchers
  BY <1>1, StackKept DEF LoadInv, StackOK, ToolOK
<1>4. CASE IF contextEnded /\ tool.mode = "watch" THEN Fail("none") /\ UNCHANGED failures ELSE Fails
  <2>1. tool'.scope = tool.scope
    BY <1>2, <1>4, Failed DEF Fails, Errors, Kept
  <2>2. NewRuns'
    BY <1>1, <2>1, NewRunsKept DEF LoadInv
  <2>3. CASE Fails
    BY <1>1, <1>2, <1>3, <2>2, <2>3, FailsKeepsInv
  <2>4. CASE tool.mode = "watch" /\ Fail("none")
    <3>1. /\ watch'.err # "store" => (watch'.pending \ watch'.found) \cap watch'.seen = {}
          /\ watch'.resting => watch'.unchecked = {} /\ watch'.err = "none"
          /\ "none" \in Errors /\ tool.mode # "index"
      BY <1>1, <2>4 DEF LoadInv, Watched, Errors
    <3> QED BY <1>1, <1>2, <1>3, <2>2, <2>4, <3>1, FailureKeepsInv
  <2> QED BY <1>4, <2>3, <2>4
<1>5. CASE /\ Step = "documents" => Counted(Cardinality(searchable))
           /\ Step = "points" => Counted(Cardinality(points))
           /\ Step = "ends" => ReadEnds
           /\ Step = "lag" => ReadOffsets
           /\ Step = "rows" => tool' = Advance
           /\ Step = "dlq" => tool' = IF tool.mode = "index" /\ tool.pc = Len(Script.index)
                                      THEN [Advance EXCEPT !.report = Report, !.err = watch.err] ELSE Advance
  <2>1. PICK t : t = Advance
    OBVIOUS
  <2>2. /\ t \in Tools /\ Kept(t) /\ t.pc = tool.pc + 1 /\ t.sent = 0 /\ t.arrivals = tool.arrivals
        /\ t.others = tool.others /\ t.counts = tool.counts /\ t.ends = tool.ends
        /\ t.lag = tool.lag /\ t.report = tool.report /\ t.err = tool.err
        /\ t.quiet = tool.quiet /\ t.refreshed = tool.refreshed
    BY <1>2, <2>1, Advanced
  <2>3. tool.pc \in Nat \ {0} /\ tool.pc + 1 \in Nat \ {0}
    BY <1>2, RunningTypes DEF LoadInv
  <2>4. CASE tool.mode = "index"
    <3>1. Step \in {"documents", "points", "dlq"}
      BY <1>1, <2>3, <2>4, IndexSteps, StepIs
    <3>2. Len(Script.index) = 12
      BY <2>3, IndexSteps
    <3>3. CASE Step \in {"documents", "points"}
      <4>1. tool' = [Advance EXCEPT !.counts = Append(@, IF Step = "documents" THEN Cardinality(searchable)
                                                         ELSE Cardinality(points))]
        BY <1>5, <2>4, <3>3 DEF Counted
      <4> QED BY <1>1, <2>4, <3>3, <4>1, CountingKeepsInv
    <3>4. CASE Step = "dlq"
      <4>1. tool' = IF tool.pc = 12 THEN [Advance EXCEPT !.report = Report, !.err = watch.err] ELSE Advance
        BY <1>5, <2>4, <3>2, <3>4
      <4> QED BY <1>1, <2>4, <3>4, <4>1, ReportKeepsInv
    <3> QED BY <3>1, <3>3, <3>4
  <2>5. CASE tool.mode # "index"
    <3>1. CASE Step \in {"documents", "points", "rows", "dlq"}
      <4>1. tool' = t
        BY <1>5, <2>1, <2>5, <3>1 DEF Counted
      <4>2. Step' # "lag"
        BY <1>2, <2>2, <3>1, <4>1, EndsFirst DEF LoadInv
      <4>3. tool' \in Tools /\ Kept(tool') /\ tool'.pc # 0
        BY <2>2, <2>3, <4>1
      <4>4. NewRuns' /\ LagOK' /\ ErrorsEnd'
        BY <1>1, <1>2, <1>3, <2>2, <4>1, <4>2, <4>3, ToolStep
      <4> QED BY <1>1, <1>2, <1>3, <2>5, <4>3, <4>4, OthersKeepInv
    <3>2. CASE Step = "ends"
      <4>1. PICK lost \in SUBSET Part, n \in {-1, 0} :
              tool' = [Advance EXCEPT !.lag = -1,
                !.ends = [p \in Part |-> [end  |-> Len(topic[p]),
                                          said |-> IF p \in lost THEN n ELSE Len(topic[p])]]]
        BY <1>5, <3>2 DEF ReadEnds
      <4>2. PICK ends \in [Part -> Reading] :
              ends = [p \in Part |-> [end  |-> Len(topic[p]),
                                      said |-> IF p \in lost THEN n ELSE Len(topic[p])]]
        <5>1. ASSUME NEW p \in Part
              PROVE  [end |-> Len(topic[p]), said |-> IF p \in lost THEN n ELSE Len(topic[p])] \in Reading
          <6>1. Len(topic[p]) \in Nat /\ n \in Int
            BY DEF LoadInv, StackOK
          <6> QED BY <6>1 DEF Reading
        <5> QED BY <5>1
      <4>3. PICK none \in Int : none = -1
        OBVIOUS
      <4>4. tool' = [t EXCEPT !.ends = ends, !.lag = none]
        BY <2>1, <4>1, <4>2, <4>3
      <4>5. tool' \in Tools
        <5>1. ends \in Readings
          BY <4>2 DEF Readings
        <5> QED BY <2>2, <4>4, <5>1 DEF Tools
      <4>6. /\ tool'.ends = ends /\ tool'.lag = none /\ tool'.mode = t.mode /\ tool'.scope = t.scope
            /\ tool'.count = t.count /\ tool'.warm = t.warm /\ tool'.op = t.op /\ tool'.pc = t.pc
            /\ tool'.err = t.err
        BY <2>2, <4>4 DEF Tools
      <4>7. Kept(tool') /\ tool'.pc # 0
        BY <2>2, <2>3, <4>6 DEF Kept
      <4>8. NewRuns'
        BY <1>1, <4>7, NewRunsKept DEF LoadInv, Kept
      <4>9. LagOK'
        <5>1. tool'.lag # 0
          BY <4>3, <4>6
        <5>2. \A p \in DOMAIN tool'.ends : p \in Part /\ tool'.ends[p].end \in Nat
          BY <4>2, <4>6 DEF Reading
        <5> QED BY <4>2, <4>6, <5>1, <5>2 DEF LagOK, ZeroLagMeansCaughtUp
      <4>10. ErrorsEnd'
        BY <1>2, <2>2, <4>6 DEF ErrorsEnd
      <4> QED BY <1>1, <1>2, <1>3, <2>5, <4>5, <4>7, <4>8, <4>9, <4>10, OthersKeepInv
    <3>3. CASE Step = "lag"
      <4>1. tool.ends \in [Part -> Reading] /\ committed \in [Part -> Int]
        BY <3>3 DEF LoadInv, LagOK, StackOK
      <4>2. PICK out \in SUBSET Part, lost \in SUBSET Part :
              tool' = [Advance EXCEPT
                !.lag = TotalLag([p \in Part \ out |-> IF p \in lost THEN -1 ELSE committed[p]], tool.ends),
                !.ends = [p \in Part \ out |-> tool.ends[p]]]
        BY <1>5, <3>3 DEF ReadOffsets
      <4>3. PICK S \in SUBSET Part : S = Part \ out
        OBVIOUS
      <4>4. PICK offsets \in [S -> Int] : offsets = [p \in Part \ out |-> IF p \in lost THEN -1 ELSE committed[p]]
        <5>1. ASSUME NEW p \in S PROVE (IF p \in lost THEN -1 ELSE committed[p]) \in Int
          BY <4>1
        <5> QED BY <4>3, <5>1
      <4>5. PICK lag \in Nat : lag = TotalLag(offsets, tool.ends)
        BY <4>1, LagIsHonest
      <4>6. lag = 0 => \A p \in S : tool.ends[p].said <= offsets[p]
        BY <4>1, <4>5, LagIsHonest
      <4>7. PICK ends \in [S -> Reading] : ends = [p \in S |-> tool.ends[p]]
        BY <4>1
      <4>8. tool' = [t EXCEPT !.lag = lag, !.ends = ends]
        BY <2>1, <4>2, <4>3, <4>4, <4>5, <4>7
      <4>9. tool' \in Tools
        <5>1. lag \in Int /\ ends \in Readings
          BY <4>7 DEF Readings
        <5> QED BY <2>2, <4>8, <5>1 DEF Tools
      <4>10. /\ tool'.ends = ends /\ tool'.lag = lag /\ tool'.mode = t.mode /\ tool'.scope = t.scope
             /\ tool'.count = t.count /\ tool'.warm = t.warm /\ tool'.op = t.op /\ tool'.pc = t.pc
             /\ tool'.err = t.err
        BY <2>2, <4>8 DEF Tools
      <4>11. Kept(tool') /\ tool'.pc # 0
        BY <2>2, <2>3, <4>10 DEF Kept
      <4>12. NewRuns'
        BY <1>1, <4>11, NewRunsKept DEF LoadInv, Kept
      <4>13. LagOK'
        <5>1. ASSUME tool'.lag = 0, NEW p \in DOMAIN tool'.ends, tool'.ends[p].said = tool'.ends[p].end
              PROVE  Position(p)' >= tool'.ends[p].end
          <6>1. p \in S /\ p \in Part /\ tool'.ends[p] = tool.ends[p] /\ tool.ends[p].end \in Nat
            BY <4>1, <4>7, <4>10 DEF Reading
          <6>2. tool.ends[p].end <= offsets[p] /\ committed[p] \in Int
            BY <4>1, <4>6, <4>10, <5>1, <6>1
          <6>3. offsets[p] = committed[p]
            BY <4>3, <4>4, <6>1, <6>2
          <6>4. Position(p) = committed[p]
            BY <6>1, <6>2, <6>3 DEF Position
          <6> QED BY <1>3, <6>1, <6>2, <6>3, <6>4
        <5>2. \A p \in DOMAIN tool'.ends : p \in Part /\ tool'.ends[p].end \in Nat
          BY <4>7, <4>10 DEF Reading
        <5>3. Step' # "lag"
          BY <1>2, <2>2, <3>3, <4>10, <4>11, EndsFirst DEF LoadInv
        <5> QED BY <5>1, <5>2, <5>3 DEF LagOK, ZeroLagMeansCaughtUp
      <4>14. ErrorsEnd'
        BY <1>2, <2>2, <4>10 DEF ErrorsEnd
      <4> QED BY <1>1, <1>2, <1>3, <2>5, <4>9, <4>11, <4>12, <4>13, <4>14, OthersKeepInv
    <3> QED BY <1>1, <3>1, <3>2, <3>3
  <2> QED BY <2>4, <2>5
<1> HIDE DEF LoadInv
<1>6. CASE \/ Step = "ends" /\ ReadEnds
           \/ Step = "lag" /\ ReadOffsets
           \/ /\ UNCHANGED failures
              /\ \/ Step = "documents" /\ Counted(Cardinality(searchable))
                 \/ Step = "points" /\ Counted(Cardinality(points))
                 \/ Step = "rows" /\ tool' = Advance
                 \/ /\ Step = "dlq"
                    /\ tool' = IF tool.mode = "index" /\ tool.pc = Len(Script.index)
                               THEN [Advance EXCEPT !.report = Report, !.err = watch.err] ELSE Advance
  BY <1>5, <1>6
<1> QED BY <1>4, <1>6 DEF Read

(* The refresh before the last counts.                                     *)
LEMMA RefreshKeepsInv == LoadInv /\ Refresh => LoadInv'
<1> SUFFICES ASSUME LoadInv, Refresh PROVE LoadInv'
  OBVIOUS
<1>1. /\ Step = "refresh" /\ UNCHANGED <<watch, plan, earlier>>
      /\ rows' = rows /\ version' = version /\ topic' = topic /\ committed' = committed
      /\ half' = half /\ keyword' = keyword /\ points' = points /\ dead' = dead
  BY DEF Refresh
<1>2. PICK t : t = Advance
  OBVIOUS
<1>3. /\ t \in Tools /\ Kept(t) /\ t.pc = tool.pc + 1 /\ t.sent = 0 /\ t.arrivals = tool.arrivals
      /\ t.others = tool.others /\ t.counts = tool.counts /\ t.ends = tool.ends
      /\ t.lag = tool.lag /\ t.report = tool.report /\ t.err = tool.err
      /\ t.quiet = tool.quiet /\ t.refreshed = tool.refreshed
  BY <1>2, Advanced DEF LoadInv, ToolOK
<1>4. /\ Running /\ tool.mode = "index" /\ tool.err = "none" /\ tool.pc = 9
  <2>1. Running /\ tool.mode = "index" /\ tool.err = "none"
    BY <1>1, CallsAreOf DEF LoadInv, ErrorsEnd
  <2>2. tool.pc \in Nat \ {0}
    BY <2>1, RunningTypes DEF LoadInv
  <2> QED BY <1>1, <2>1, <2>2, IndexSteps, StepIs
<1>5. Indexing /\ ~tool.refreshed
  BY <1>4 DEF LoadInv, Counts, Indexing
<1>6. /\ tool' \in Tools /\ Kept(tool') /\ tool'.pc = 10 /\ tool'.sent = 0
      /\ tool'.arrivals = tool.arrivals /\ tool'.counts = tool.counts
      /\ tool'.ends = tool.ends /\ tool'.lag = tool.lag /\ tool'.err = tool.err
      /\ tool'.quiet = tool.quiet
      /\ \/ searchable' = Indexed
         \/ searchable' = searchable /\ ~tool'.refreshed
  <2>1. t.pc = 10
    BY <1>3, <1>4
  <2>2. CASE searchable' = Indexed /\ tool' = [t EXCEPT !.refreshed = TRUE]
    <3>1. tool' \in Tools
      BY <1>3, <2>2 DEF Tools
    <3>2. /\ tool'.counts = t.counts /\ tool'.mode = t.mode /\ tool'.scope = t.scope
          /\ tool'.count = t.count /\ tool'.warm = t.warm /\ tool'.op = t.op /\ tool'.pc = t.pc
          /\ tool'.sent = t.sent /\ tool'.arrivals = t.arrivals /\ tool'.ends = t.ends
          /\ tool'.lag = t.lag /\ tool'.quiet = t.quiet /\ tool'.err = t.err
      BY <1>3, <2>2 DEF Tools
    <3> QED BY <1>3, <2>1, <2>2, <3>1, <3>2 DEF Kept
  <2>3. CASE tool' = t /\ UNCHANGED searchable
    BY <1>3, <1>5, <2>1, <2>3
  <2> QED BY <1>2, <2>2, <2>3 DEF Refresh
<1>7. /\ Indexed' = Indexed /\ \A p \in Part : Position(p)' = Position(p) /\ Position(p) \in Int
      /\ Indexed \in SUBSET Docs
  BY <1>1 DEF Indexed, Position, LoadInv, StackOK
<1>8. StackOK'
  BY <1>1, <1>6, <1>7 DEF LoadInv, StackOK
<1>9. \A d \in Docs : /\ Untouched(d) => Untouched(d)'
                      /\ Created(d) => Created(d)'
  BY <1>1, <1>6 DEF Untouched, Created, Indexed
<1>10. Step' = "documents"
  <2>1. 10 \in Nat \ {0} /\ 10 \in {4, 10}
    OBVIOUS
  <2>2. StepAt("index", 10) = "documents"
    BY <2>1, IndexSteps
  <2> QED BY <1>4, <1>6, <2>2, StepIs DEF Kept
<1>11. ToolOK'
  <2>1. tool'.pc # 0 /\ watch' \in Watchers /\ earlier' \in SUBSET RunIDs /\ plan' = plan
    BY <1>1, <1>6 DEF LoadInv, ToolOK
  <2> QED BY <1>4, <1>6, <2>1, ToolTypes DEF LoadInv
<1>12. ErrorsEnd' /\ Indexing' /\ ~Watching'
  BY <1>4, <1>6, <1>10 DEF ErrorsEnd, Indexing, Watching, Kept
<1>13. LagOK'
  BY <1>6, <1>7, <1>10, LagKept DEF LoadInv
<1>14. /\ Own' = Own /\ (Fresh' <=> Fresh) /\ (Counting' <=> Counting) /\ Written' = Written
  <2>1. Own' = Own /\ (Fresh' <=> Fresh)
    BY <1>1, <1>6 DEF Own, Fresh, Kept
  <2>2. Written' = Written
    BY <1>4, <1>6 DEF Written, Kept
  <2>3. Counting' <=> Counting
    BY <1>5, <1>6, <1>12, <2>1 DEF Counting, Kept
  <2> QED BY <2>1, <2>2, <2>3
<1>15. NewRuns' /\ NewDocuments'
  BY <1>1, <1>5, <1>6, <1>9, <1>14 DEF LoadInv, NewRuns, NewDocuments, Kept
<1>16. Arrivals'
  <2>1. \A n : Measured(n)' = Measured(n)
    BY <1>6 DEF Measured, Kept
  <2> QED BY <1>4, <1>5, <1>6, <1>14, <2>1 DEF LoadInv, Arrivals
<1>17. Watched'
  <2>1. tool.pc >= 8 /\ tool.pc >= 9
    BY <1>4
  <2> QED BY <1>1, <1>5, <1>6, <1>12, <1>14, <2>1 DEF LoadInv, Watched
<1>18. AtRest'
  BY <1>1, <1>6, <1>7, <1>14 DEF LoadInv, AtRest
<1>19. ASSUME Counting', tool'.refreshed, watch'.err = "none"
       PROVE  tool'.arrivals \subseteq searchable'
  <2>1. tool.pc >= 8 /\ tool.pc >= 9 /\ watch.pending = {} /\ Fresh
    BY <1>1, <1>4, <1>5, <1>14, <1>19 DEF LoadInv, Watched, Counting
  <2>2. tool.arrivals \subseteq Indexed
    BY <1>5, <2>1, SeenIsIndexed DEF Indexed
  <2> QED BY <1>6, <1>19, <2>2
<1>20. Counts'
  <2>1. /\ Len(tool.counts) = CountsBy(9)
        /\ Counting => /\ tool.counts[1] = Cardinality(Indexed \ Own)
                       /\ tool.counts[2] = Cardinality(points \ Own)
    BY <1>4, <1>5 DEF LoadInv, Counts
  <2>2. CountsBy(9) = CountsBy(10)
    BY DEF CountsBy
  <2>3. ~(tool'.pc >= 12) /\ ~(tool'.pc >= 11) /\ ~(tool'.pc <= 9)
    BY <1>6
  <2>4. tool'.counts = tool.counts /\ tool'.pc = 10
    BY <1>6
  <2>5. Counting' => /\ tool'.counts[1] = Cardinality(Indexed' \ Own')
                     /\ tool'.counts[2] = Cardinality(points' \ Own')
    BY <1>1, <1>7, <1>14, <2>1, <2>4
  <2>6. Len(tool'.counts) = CountsBy(tool'.pc)
    BY <2>1, <2>2, <2>4
  <2> QED BY <1>19, <2>3, <2>5, <2>6 DEF Counts
<1>21. Reported'
  BY <1>6 DEF Reported
<1> QED BY <1>8, <1>11, <1>12, <1>13, <1>15, <1>16, <1>17, <1>18, <1>20, <1>21 DEF LoadInv

(* What a statement leaves of what is said of the documents.               *)
LEMMA ChangedDocuments ==
  ASSUME StackOK, NEW docs \in SUBSET Docs, NEW op \in Operations, Change(docs, op),
         UNCHANGED <<committed, half, keyword, searchable, points>>
  PROVE  /\ StackOK' /\ Indexed' = Indexed
         /\ \A p \in Part : Position(p)' = Position(p)
         /\ \A d \in Docs : d \notin docs => /\ Untouched(d) => Untouched(d)'
                                             /\ Created(d) => Created(d)'
         /\ op = "c" => \A d \in docs : Untouched(d) => Created(d)'
         /\ \A p \in Part : \A i \in 1 .. Len(topic'[p]) :
              \/ topic'[p][i].doc \in docs
              \/ i \in 1 .. Len(topic[p]) /\ topic'[p][i] = topic[p][i]
<1>1. /\ rows' \in [Docs -> Nat] /\ version' \in Nat
      /\ \A d \in Docs : rows'[d] = IF d \notin docs THEN rows[d]
                                    ELSE IF op = "d" THEN 0 ELSE version + 1
      /\ topic' \in [Part -> Seq(Events)]
  BY Changed
<1>2. \A p \in Part :
        /\ Len(topic[p]) \in Nat /\ Len(topic'[p]) \in Nat
        /\ Len(topic[p]) <= Len(topic'[p])
        /\ \A i \in 1 .. Len(topic[p]) : topic'[p][i] = topic[p][i]
        /\ \A i \in 1 .. Len(topic'[p]) : Len(topic[p]) < i =>
             /\ topic'[p][i].doc \in docs /\ topic'[p][i].op = op
             /\ topic'[p][i].version = version + 1
  BY Changed
<1>3. /\ committed' = committed /\ half' = half /\ keyword' = keyword
      /\ searchable' = searchable /\ points' = points /\ version \in Nat
  BY DEF StackOK
<1>4. Indexed' = Indexed /\ \A p \in Part : Position(p)' = Position(p)
  BY <1>3 DEF Indexed, Position
<1>5. \A p \in Part : /\ Position(p)' \in 0 .. Len(topic'[p])
                      /\ half'[p] => Position(p)' < Len(topic'[p])
  <2> SUFFICES ASSUME NEW p \in Part
               PROVE  Position(p)' \in 0 .. Len(topic'[p]) /\ (half'[p] => Position(p)' < Len(topic'[p]))
    OBVIOUS
  <2>1. Position(p) \in 0 .. Len(topic[p]) /\ (half[p] => Position(p) < Len(topic[p]))
    BY DEF StackOK
  <2>2. Len(topic[p]) \in Nat /\ Len(topic'[p]) \in Nat /\ Len(topic[p]) <= Len(topic'[p])
    BY <1>2
  <2> QED BY <1>3, <1>4, <2>1, <2>2
<1>6. StackOK'
  BY <1>1, <1>3, <1>5 DEF StackOK
<1>7. \A p \in Part : \A i \in 1 .. Len(topic'[p]) :
        \/ i \in 1 .. Len(topic[p]) /\ topic'[p][i] = topic[p][i]
        \/ /\ topic'[p][i].doc \in docs /\ topic'[p][i].op = op
           /\ topic'[p][i].version = version + 1
  <2> SUFFICES ASSUME NEW p \in Part, NEW i \in 1 .. Len(topic'[p]), ~(i \in 1 .. Len(topic[p]))
               PROVE  Len(topic[p]) < i
    BY <1>2
  <2> QED BY <1>2
<1>8. ASSUME NEW d \in Docs, d \notin docs, Untouched(d) PROVE Untouched(d)'
  <2>1. \A p \in Part : \A i \in 1 .. Len(topic'[p]) : topic'[p][i].doc # d
    BY <1>7, <1>8 DEF Untouched
  <2> QED BY <1>1, <1>3, <1>8, <2>1 DEF Untouched
<1>9. ASSUME NEW d \in Docs, d \notin docs, Created(d) PROVE Created(d)'
  <2>1. rows'[d] = rows[d]
    BY <1>1, <1>9
  <2>2. \A p \in Part : \A i \in 1 .. Len(topic'[p]) :
          topic'[p][i].doc = d => topic'[p][i].op = "c" /\ topic'[p][i].version = rows[d]
    BY <1>7, <1>9 DEF Created
  <2> QED BY <1>3, <1>9, <2>1, <2>2 DEF Created
<1>10. ASSUME op = "c", NEW d \in docs, Untouched(d) PROVE Created(d)'
  <2>1. rows'[d] = version + 1 /\ keyword'[d] = 0
    BY <1>1, <1>3, <1>10 DEF Untouched
  <2>2. \A p \in Part : \A i \in 1 .. Len(topic'[p]) :
          topic'[p][i].doc = d => topic'[p][i].op = "c" /\ topic'[p][i].version = version + 1
    BY <1>7, <1>10 DEF Untouched
  <2>3. version + 1 > 0
    BY <1>3
  <2> QED BY <2>1, <2>2, <2>3 DEF Created
<1> QED BY <1>4, <1>6, <1>7, <1>8, <1>9, <1>10

(* An event that no row has given does the same to the topic.              *)
LEMMA PublishedDocuments ==
  ASSUME StackOK, NEW docs \in SUBSET Docs, NEW op \in Operations, NEW v \in Nat,
         Publish(docs, op, v),
         UNCHANGED <<rows, version, committed, half, keyword, searchable, points>>
  PROVE  /\ StackOK' /\ \A p \in Part : Position(p)' = Position(p)
         /\ \A d \in Docs : d \notin docs => (Untouched(d) => Untouched(d)')
<1>1. topic' \in [Part -> Seq(Events)]
  BY Published DEF Appended
<1>2. \A p \in Part :
        /\ Len(topic[p]) \in Nat /\ Len(topic'[p]) \in Nat
        /\ Len(topic[p]) <= Len(topic'[p])
        /\ \A i \in 1 .. Len(topic[p]) : topic'[p][i] = topic[p][i]
        /\ \A i \in 1 .. Len(topic'[p]) : Len(topic[p]) < i => topic'[p][i].doc \in docs
  BY Published DEF Appended
<1>3. /\ rows' = rows /\ version' = version /\ committed' = committed /\ half' = half
      /\ keyword' = keyword /\ searchable' = searchable /\ points' = points
  OBVIOUS
<1>4. \A p \in Part : Position(p)' = Position(p)
  BY <1>3 DEF Position
<1>5. \A p \in Part : /\ Position(p)' \in 0 .. Len(topic'[p])
                      /\ half'[p] => Position(p)' < Len(topic'[p])
  <2> SUFFICES ASSUME NEW p \in Part
               PROVE  Position(p)' \in 0 .. Len(topic'[p]) /\ (half'[p] => Position(p)' < Len(topic'[p]))
    OBVIOUS
  <2>1. Position(p) \in 0 .. Len(topic[p]) /\ (half[p] => Position(p) < Len(topic[p]))
    BY DEF StackOK
  <2>2. Len(topic[p]) \in Nat /\ Len(topic'[p]) \in Nat /\ Len(topic[p]) <= Len(topic'[p])
    BY <1>2
  <2> QED BY <1>3, <1>4, <2>1, <2>2
<1>6. StackOK'
  BY <1>1, <1>3, <1>5 DEF StackOK
<1>7. ASSUME NEW d \in Docs, d \notin docs, Untouched(d) PROVE Untouched(d)'
  <2>1. ASSUME NEW p \in Part, NEW i \in 1 .. Len(topic'[p]) PROVE topic'[p][i].doc # d
    <3>1. CASE i \in 1 .. Len(topic[p])
      BY <1>2, <1>7, <3>1 DEF Untouched
    <3>2. CASE ~(i \in 1 .. Len(topic[p]))
      <4>1. Len(topic[p]) < i
        BY <1>2, <3>2
      <4> QED BY <1>2, <1>7, <4>1
    <3> QED BY <3>1, <3>2
  <2> QED BY <1>3, <1>7, <2>1 DEF Untouched
<1> QED BY <1>4, <1>6, <1>7

(* Somebody else writes: the run's own documents are not concerned.        *)
LEMMA SomebodyKeepsInv == LoadInv /\ SomebodyWrites => LoadInv'
<1> SUFFICES ASSUME LoadInv, SomebodyWrites PROVE LoadInv'
  OBVIOUS
<1>1. PICK d \in Docs : d[1] \notin tool.scope /\ Change({d}, "u") /\ earlier' = earlier \cup {d[1]}
  BY DEF SomebodyWrites
<1>2. /\ Running /\ tool.others > 0 /\ tool' = [tool EXCEPT !.others = @ - 1, !.quiet = FALSE]
      /\ UNCHANGED <<committed, half, keyword, searchable, points, watch, plan>>
  BY DEF SomebodyWrites
<1>3. tool \in Tools /\ tool.others \in Nat
  BY DEF LoadInv, ToolOK, Tools
<1>4. /\ tool' \in Tools /\ Kept(tool') /\ tool'.pc = tool.pc /\ tool'.sent = tool.sent
      /\ tool'.arrivals = tool.arrivals /\ tool'.counts = tool.counts /\ tool'.ends = tool.ends
      /\ tool'.lag = tool.lag /\ tool'.report = tool.report /\ tool'.err = tool.err
      /\ tool'.quiet = FALSE /\ tool'.refreshed = tool.refreshed
  <2>1. PICK n \in Nat : n = tool.others - 1
    BY <1>2, <1>3
  <2>2. tool' = [tool EXCEPT !.others = n, !.quiet = FALSE]
    BY <1>2, <2>1
  <2>3. tool' \in Tools
    BY <1>3, <2>2 DEF Tools
  <2> QED BY <1>3, <2>2, <2>3 DEF Tools, Kept
<1>5. /\ StackOK' /\ Indexed' = Indexed
      /\ \A p \in Part : Position(p)' = Position(p) /\ Position(p) \in Int
      /\ \A c \in Docs : c # d => (Untouched(c) => Untouched(c)') /\ (Created(c) => Created(c)')
  <2>1. {d} \in SUBSET Docs /\ "u" \in Operations /\ \A c : c # d => c \notin {d}
    BY DEF Operations
  <2>2. \A p \in Part : Position(p) \in Int
    BY DEF LoadInv, StackOK
  <2> QED BY <1>1, <1>2, <2>1, <2>2, ChangedDocuments DEF LoadInv
<1>6. ToolOK'
  <2>1. d[1] \in RunIDs
    BY DEF Docs
  <2>2. /\ tool'.pc # 0 /\ watch' \in Watchers /\ earlier' \in SUBSET RunIDs /\ plan' = plan
    BY <1>1, <1>2, <1>4, <2>1 DEF LoadInv, ToolOK
  <2> QED BY <1>2, <1>4, <2>2, ToolTypes DEF LoadInv
<1>7. Step' = Step /\ (Watching' <=> Watching) /\ (Indexing' <=> Indexing)
  BY <1>4, StepIs DEF Kept, Watching, Indexing
<1>8. LagOK' /\ ErrorsEnd'
  BY <1>4, <1>5, <1>7, LagKept DEF LoadInv, ErrorsEnd
<1>9. Written' = Written /\ (Fresh' => Fresh) /\ ~Counting'
  BY <1>1, <1>4 DEF Written, Fresh, Counting, Kept
<1>10. NewRuns'
  BY <1>1, <1>4, <1>5 DEF LoadInv, NewRuns, Kept
<1>11. NewDocuments'
  BY <1>1, <1>4, <1>5, <1>7, <1>9 DEF LoadInv, NewDocuments, Kept
<1>12. Arrivals'
  <2>1. \A n : Measured(n)' = Measured(n)
    BY <1>4 DEF Measured, Kept
  <2> QED BY <1>4, <1>7, <1>9, <2>1 DEF LoadInv, Arrivals, Kept
<1>13. Watched'
  BY <1>2, <1>4, <1>7, <1>9 DEF LoadInv, Watched
<1>14. AtRest' /\ Counts' /\ Reported'
  BY <1>2, <1>4, <1>7, <1>9 DEF LoadInv, AtRest, Counts, Reported, Kept
<1> QED BY <1>5, <1>6, <1>8, <1>10, <1>11, <1>12, <1>13, <1>14 DEF LoadInv

(* What cleanup deletes belongs to the runs it was given.                  *)
LEMMA DeleteKeepsInv == LoadInv /\ Delete => LoadInv'
<1> SUFFICES ASSUME LoadInv, Delete PROVE LoadInv'
  OBVIOUS
<1> DEFINE found == {d \in Docs : rows[d] > 0 /\ d[1] \in tool.scope}
<1>1. /\ Step = "delete" /\ Running /\ tool.err = "none"
      /\ UNCHANGED <<committed, half, keyword, searchable, points, dead, watch, plan, earlier>>
  BY CallsAreOf DEF LoadInv, Delete, ErrorsEnd
<1>2. tool.mode # "index"
  BY <1>1, RunningTypes, IndexSteps, StepIs DEF LoadInv
<1>3. found \in SUBSET Docs /\ \A d \in found : d[1] \in tool.scope
  OBVIOUS
<1>4. ASSUME Change(found, "d") \/ UNCHANGED <<rows, version, topic>>
      PROVE  /\ StackOK' /\ \A p \in Part : Position(p)' = Position(p) /\ Position(p) \in Int
             /\ \A d \in Docs : d \notin found => (Untouched(d) => Untouched(d)')
  <2>1. \A p \in Part : Position(p) \in Int
    BY DEF LoadInv, StackOK
  <2>2. CASE Change(found, "d")
    <3>1. "d" \in Operations
      BY DEF Operations
    <3> HIDE DEF found
    <3> QED BY <1>1, <1>3, <2>1, <2>2, <3>1, ChangedDocuments DEF LoadInv
  <2>3. CASE UNCHANGED <<rows, version, topic>>
    <3>1. UNCHANGED stack
      BY <1>1, <2>3 DEF stack
    <3> QED BY <2>1, <3>1, StackKept DEF LoadInv
  <2> QED BY <1>4, <2>2, <2>3
<1>5. CASE Fails
  <2>1. tool'.scope = tool.scope
    BY <1>1, <1>5, Failed DEF Fails, Errors, LoadInv, ToolOK, Kept
  <2>2. Change(found, "d") \/ UNCHANGED <<rows, version, topic>>
    BY <1>5 DEF Delete
  <2>3. NewRuns'
    BY <1>1, <1>3, <1>4, <2>1, <2>2 DEF LoadInv, NewRuns
  <2> QED BY <1>1, <1>4, <1>5, <2>2, <2>3, FailsKeepsInv
<1>6. CASE Change(found, "d") /\ tool' = Advance
  <2>1. /\ tool' \in Tools /\ Kept(tool') /\ tool'.pc = tool.pc + 1
        /\ tool'.ends = tool.ends /\ tool'.lag = tool.lag /\ tool'.err = tool.err
    BY <1>6, Advanced DEF LoadInv, ToolOK
  <2>2. tool'.pc # 0
    BY <1>1, <2>1, RunningTypes DEF LoadInv
  <2>3. Step' # "lag"
    BY <1>1, <2>1, EndsFirst DEF LoadInv
  <2>4. LagOK' /\ ErrorsEnd'
    BY <1>1, <1>4, <1>6, <2>1, <2>3, LagKept DEF LoadInv, ErrorsEnd
  <2>5. NewRuns'
    BY <1>1, <1>3, <1>4, <1>6, <2>1 DEF LoadInv, NewRuns, Kept
  <2> QED BY <1>1, <1>2, <1>4, <1>6, <2>1, <2>2, <2>4, <2>5, OthersKeepInv
<1> QED BY <1>5, <1>6 DEF Delete

(* Documents from the n-th one on, k of them, of run r.                    *)
Row(r, n, k) == [i \in 1 .. k |-> <<r, n + i - 1>>]

(* What is written or published is of the invocation's run.                *)
LEMMA GeneratedIs ==
  ASSUME ToolOK, Running, tool.mode # "cleanup"
  PROVE  \E r \in RunIDs :
           /\ tool.scope = {r}
           /\ Step = "warmup" => Generated = Row(r, 0, tool.warm)
           /\ Step = "insert" => Generated = Row(r, tool.warm, tool.count)
           /\ Step = "publish" => Generated = Row(r, 0, tool.count)
<1>1. PICK r \in RunIDs : tool.scope = {r}
  BY RunningTypes DEF Sound
<1>2. PICK chosen : chosen = CHOOSE x \in tool.scope : TRUE
  OBVIOUS
<1>3. chosen = r
  BY <1>1, <1>2
<1> DEFINE docs(from, n) == [i \in 1 .. n |-> <<chosen, from + i - 1>>]
<1>4. Generated = CASE Step = "warmup" -> docs(0, tool.warm)
                    [] Step = "insert" -> docs(tool.warm, tool.count)
                    [] OTHER -> docs(0, tool.count)
  BY <1>2 DEF Generated
<1>5. \A from, n : docs(from, n) = Row(r, from, n)
  BY <1>3 DEF Row
<1> HIDE DEF docs
<1>6. CASE Step = "warmup"
  <2>1. Step # "insert" /\ Step # "publish"
    BY <1>6
  <2>2. Generated = docs(0, tool.warm)
    BY <1>4, <1>6, <2>1
  <2> QED BY <1>1, <1>5, <2>1, <2>2
<1>7. CASE Step = "insert"
  <2>1. Step # "warmup" /\ Step # "publish"
    BY <1>7
  <2>2. Generated = docs(tool.warm, tool.count)
    BY <1>4, <1>7, <2>1
  <2> QED BY <1>1, <1>5, <2>1, <2>2
<1>8. CASE Step \notin {"warmup", "insert"}
  <2>1. Generated = docs(0, tool.count)
    BY <1>4, <1>8
  <2> QED BY <1>1, <1>5, <1>8, <2>1
<1> QED BY <1>6, <1>7, <1>8

(* Min of two naturals.                                                    *)
LEMMA MinOfTwo ==
  ASSUME NEW a \in Nat, NEW b \in Nat
  PROVE  Min({a, b}) \in Nat /\ Min({a, b}) = IF a <= b THEN a ELSE b
<1> DEFINE S == {a, b}
<1>1. \E x \in S : \A y \in S : x <= y
  OBVIOUS
<1>2. Min(S) \in S /\ \A y \in S : Min(S) <= y
  BY <1>1 DEF Min
<1> QED BY <1>2

(* The documents of a batch, by their numbers.                             *)
LEMMA BatchIs ==
  ASSUME ToolOK, Running, Step \in {"warmup", "insert"},
         NEW n \in Nat, n = IF Step = "warmup" THEN 0 ELSE tool.warm,
         NEW k \in Nat, k = IF Step = "warmup" THEN tool.warm ELSE tool.count,
         NEW upto \in Nat, upto = IF tool.sent + BatchSize < k THEN tool.sent + BatchSize ELSE k
  PROVE  /\ Len(Generated) = k
         /\ Batch \in SUBSET Docs
         /\ Batch = {d \in Docs : d[1] \in tool.scope /\ n + tool.sent <= d[2] /\ d[2] < n + upto}
<1>1. tool.mode = "index" /\ tool.sent \in Nat /\ tool.warm + tool.count <= MaxDocuments
      /\ tool.warm \in Nat /\ tool.count \in Nat /\ BatchSize \in Nat \ {0} /\ MaxDocuments \in Nat
  BY CallsAreOf, RunningTypes, LoadTestAssumption DEF Sound
<1>2. PICK r \in RunIDs : tool.scope = {r} /\ Generated = Row(r, n, k)
  BY <1>1, GeneratedIs
<1>3. Len(Generated) = k
  <2>1. Row(r, n, k) = [i \in 1 .. k |-> <<r, n + i - 1>>]
    BY DEF Row
  <2> QED BY <1>2, <2>1
<1>4. tool.sent + BatchSize \in Nat
  BY <1>1
<1>5. Min({tool.sent + BatchSize, Len(Generated)}) = upto
  <2>1. PICK a \in Nat : a = tool.sent + BatchSize
    BY <1>4
  <2>2. Min({a, k}) = IF a <= k THEN a ELSE k
    BY MinOfTwo
  <2>3. upto = IF a < k THEN a ELSE k
    BY <2>1
  <2>4. Min({a, k}) = upto
    BY <2>2, <2>3
  <2> QED BY <1>3, <2>1, <2>4
<1>6. Batch = {Row(r, n, k)[i] : i \in tool.sent + 1 .. upto}
  BY <1>2, <1>5 DEF Batch
<1>7. n + k <= MaxDocuments /\ upto <= k
  BY <1>1
<1>8. ASSUME NEW i \in tool.sent + 1 .. upto
      PROVE  /\ Row(r, n, k)[i] \in Docs /\ Row(r, n, k)[i][1] = r
             /\ n + tool.sent <= Row(r, n, k)[i][2] /\ Row(r, n, k)[i][2] < n + upto
  <2>1. PICK s \in Nat : s = tool.sent
    BY <1>1
  <2>2. i \in Int /\ s + 1 <= i /\ i <= upto
    BY <2>1
  <2>3. PICK j \in Int : j = n + i - 1
    BY <2>2
  <2>4. i \in 1 .. k
    BY <1>7, <2>2
  <2>5. 0 <= j /\ n + s <= j /\ j < n + upto
    BY <2>2, <2>3
  <2>6. j <= MaxDocuments - 1
    BY <1>1, <1>7, <2>5
  <2>7. Row(r, n, k)[i] = <<r, j>>
    BY <2>3, <2>4 DEF Row
  <2>8. j \in 0 .. MaxDocuments - 1
    BY <1>1, <2>5, <2>6
  <2>9. <<r, j>> \in Docs
    BY <2>8 DEF Docs
  <2> QED BY <2>1, <2>5, <2>7, <2>9
<1>9. ASSUME NEW d \in Docs, d[1] = r, n + tool.sent <= d[2], d[2] < n + upto
      PROVE  \E i \in tool.sent + 1 .. upto : d = Row(r, n, k)[i]
  <2>1. d[2] \in 0 .. MaxDocuments - 1 /\ d = <<d[1], d[2]>>
    BY DEF Docs
  <2>2. PICK i \in Int : i = d[2] - n + 1
    BY <2>1
  <2>3. i \in tool.sent + 1 .. upto /\ i \in 1 .. k /\ n + i - 1 = d[2]
    BY <1>1, <1>7, <1>9, <2>1, <2>2
  <2>4. Row(r, n, k)[i] = <<r, n + i - 1>>
    BY <2>3 DEF Row
  <2> QED BY <1>9, <2>1, <2>3, <2>4
<1>10. \A i \in tool.sent + 1 .. upto :
         Row(r, n, k)[i] \in {d \in Docs : d[1] \in tool.scope /\ n + tool.sent <= d[2] /\ d[2] < n + upto}
  <2> QED BY <1>2, <1>8
<1>11. Batch \subseteq {d \in Docs : d[1] \in tool.scope /\ n + tool.sent <= d[2] /\ d[2] < n + upto}
  BY <1>6, <1>10
<1>12. {d \in Docs : d[1] \in tool.scope /\ n + tool.sent <= d[2] /\ d[2] < n + upto} \subseteq Batch
  BY <1>2, <1>6, <1>9
<1> QED BY <1>3, <1>11, <1>12

(* Only documents of the invocation's run are published.                   *)
LEMMA PublishedIsOwn ==
  ASSUME ToolOK, Step = "publish"
  PROVE  /\ Running /\ tool.mode # "index"
         /\ Generated[(tool.sent % tool.count) + 1] \in Own
<1>1. Running /\ tool.pc \in Nat \ {0} /\ tool.mode \in DOMAIN Script
  BY CallsAreOf, RunningTypes
<1>2. tool.mode # "index"
  BY <1>1, IndexSteps, StepIs
<1>3. tool.mode # "cleanup"
  <2> SUFFICES ASSUME tool.mode = "cleanup" PROVE FALSE
    OBVIOUS
  <2>1. Script["cleanup"] = <<"connect", "delete">> /\ Len(<<"connect", "delete">>) = 2
        /\ <<"connect", "delete">>[1] = "connect" /\ <<"connect", "delete">>[2] = "delete"
    BY Scripts
  <2>2. Step = IF ~(tool.pc > 2) THEN <<"connect", "delete">>[tool.pc] ELSE "none"
    BY <2>1, StepIs DEF StepAt
  <2>3. tool.pc = 1 \/ tool.pc = 2 \/ tool.pc > 2
    BY <1>1
  <2> QED BY <2>1, <2>2, <2>3
<1>4. PICK r \in RunIDs : tool.scope = {r} /\ Generated = Row(r, 0, tool.count)
  BY <1>1, <1>3, GeneratedIs
<1>5. tool.sent \in Nat /\ tool.count \in Nat \ {0} /\ tool.count <= MaxDocuments /\ MaxDocuments \in Nat
  <2>1. tool.warm \in Nat /\ tool.warm + tool.count <= MaxDocuments /\ tool.sent \in Nat
        /\ tool.count \in Nat \ {0} /\ MaxDocuments \in Nat
    BY <1>1, RunningTypes, LoadTestAssumption DEF Sound
  <2> QED BY <2>1
<1>6. PICK j \in Nat : j = tool.sent % tool.count /\ j < tool.count
  <2>1. PICK s \in Nat : s = tool.sent
    BY <1>5
  <2>2. PICK c \in Nat \ {0} : c = tool.count
    BY <1>5
  <2>3. s % c \in 0 .. c - 1
    OBVIOUS
  <2> QED BY <2>1, <2>2, <2>3
<1>7. Generated[j + 1] = <<r, j>>
  <2>1. j + 1 \in 1 .. tool.count /\ 0 + (j + 1) - 1 = j
    BY <1>5, <1>6
  <2> QED BY <1>4, <2>1 DEF Row
<1>8. <<r, j>> \in Own
  <2>1. j \in 0 .. MaxDocuments - 1
    BY <1>5, <1>6
  <2> QED BY <1>4, <2>1 DEF Own, Docs
<1> QED BY <1>1, <1>2, <1>6, <1>7, <1>8

(* Events published without a row say nothing of the rows of another run.  *)
LEMMA PublishKeepsInv == LoadInv /\ PublishEvent => LoadInv'
<1> SUFFICES ASSUME LoadInv, PublishEvent PROVE LoadInv'
  OBVIOUS
<1>1. /\ Step = "publish" /\ Running /\ tool.err = "none" /\ tool.mode # "index"
      /\ UNCHANGED <<rows, version, committed, half, keyword, searchable, points, dead, watch, plan, earlier>>
  BY PublishedIsOwn DEF LoadInv, PublishEvent, ErrorsEnd
<1>2. PICK d \in Own : d = Generated[(tool.sent % tool.count) + 1]
  BY <1>1, PublishedIsOwn DEF LoadInv
<1>3. /\ {d} \in SUBSET Docs /\ d[1] \in tool.scope
      /\ tool.op \in Operations /\ 1 \in Nat
  BY <1>1, <1>2, RunningTypes DEF Own, LoadInv
<1>4. ASSUME Publish({d}, tool.op, 1) \/ UNCHANGED topic
      PROVE  /\ StackOK' /\ \A p \in Part : Position(p)' = Position(p) /\ Position(p) \in Int
             /\ \A c \in Docs : c # d => (Untouched(c) => Untouched(c)')
  <2>1. \A p \in Part : Position(p) \in Int
    BY DEF LoadInv, StackOK
  <2>2. CASE Publish({d}, tool.op, 1)
    <3>1. \A c : c # d => c \notin {d}
      OBVIOUS
    <3>2. UNCHANGED <<rows, version, committed, half, keyword, searchable, points>>
      BY <1>1
    <3> QED BY <1>3, <2>1, <2>2, <3>1, <3>2, PublishedDocuments DEF LoadInv
  <2>3. CASE UNCHANGED topic
    <3>1. UNCHANGED stack
      BY <1>1, <2>3 DEF stack
    <3> QED BY <2>1, <3>1, StackKept DEF LoadInv
  <2> QED BY <1>4, <2>2, <2>3
<1>5. CASE Fails
  <2>1. tool'.scope = tool.scope
    BY <1>1, <1>5, Failed DEF Fails, Errors, LoadInv, ToolOK, Kept
  <2>2. Publish({d}, tool.op, 1) \/ UNCHANGED topic
    BY <1>2 DEF PublishEvent
  <2>3. NewRuns'
    BY <1>1, <1>3, <1>4, <2>1, <2>2 DEF LoadInv, NewRuns
  <2> QED BY <1>1, <1>4, <1>5, <2>2, <2>3, FailsKeepsInv
<1>6. CASE /\ Publish({d}, tool.op, 1)
           /\ tool' = IF tool.sent + 1 < Deliveries * tool.count THEN [tool EXCEPT !.sent = @ + 1] ELSE Advance
  <2>1. /\ tool' \in Tools /\ Kept(tool') /\ tool'.pc # 0
        /\ tool'.ends = tool.ends /\ tool'.lag = tool.lag /\ tool'.err = tool.err
        /\ Step' # "lag"
    <3>1. CASE tool' = Advance
      <4>1. /\ tool' \in Tools /\ Kept(tool') /\ tool'.pc = tool.pc + 1
            /\ tool'.ends = tool.ends /\ tool'.lag = tool.lag /\ tool'.err = tool.err
        BY <3>1, Advanced DEF LoadInv, ToolOK
      <4>2. tool'.pc # 0
        BY <1>1, <4>1, RunningTypes DEF LoadInv
      <4>3. Step' # "lag"
        BY <1>1, <4>1, EndsFirst DEF LoadInv
      <4> QED BY <4>1, <4>2, <4>3
    <3>2. CASE tool' = [tool EXCEPT !.sent = @ + 1]
      <4>1. tool \in Tools /\ tool.sent \in Nat /\ tool.pc # 0
        BY <1>1, RunningTypes DEF LoadInv, ToolOK
      <4>2. PICK next \in Nat : next = tool.sent + 1
        BY <4>1
      <4>3. tool' = [tool EXCEPT !.sent = next]
        BY <3>2, <4>2
      <4>4. tool' \in Tools
        BY <4>1, <4>3 DEF Tools
      <4>5. /\ Kept(tool') /\ tool'.pc = tool.pc /\ tool'.mode = tool.mode
            /\ tool'.ends = tool.ends /\ tool'.lag = tool.lag /\ tool'.err = tool.err
        BY <4>1, <4>3 DEF Tools, Kept
      <4>6. Step' = Step
        BY <4>5, StepIs
      <4> QED BY <1>1, <4>1, <4>4, <4>5, <4>6
    <3> QED BY <1>6, <3>1, <3>2
  <2>2. LagOK' /\ ErrorsEnd'
    BY <1>1, <1>4, <1>6, <2>1, LagKept DEF LoadInv, ErrorsEnd
  <2>3. NewRuns'
    BY <1>1, <1>3, <1>4, <1>6, <2>1 DEF LoadInv, NewRuns, Kept
  <2> QED BY <1>1, <1>4, <1>6, <2>1, <2>2, <2>3, OthersKeepInv
<1> QED BY <1>2, <1>5, <1>6 DEF PublishEvent

(* What the invocation has on its books after a batch.                     *)
LEMMA BatchBooks ==
  ASSUME tool \in Tools, BatchSize \in Nat, NEW k \in Nat, NEW all \in SUBSET Docs, NEW t,
         t = IF tool.sent + BatchSize < k THEN [tool EXCEPT !.sent = @ + BatchSize] ELSE Advance,
         tool' = [t EXCEPT !.arrivals = all]
  PROVE  /\ tool' \in Tools /\ Kept(tool') /\ tool'.arrivals = all
         /\ tool'.counts = tool.counts /\ tool'.ends = tool.ends
         /\ tool'.lag = tool.lag /\ tool'.report = tool.report /\ tool'.err = tool.err
         /\ tool'.quiet = tool.quiet /\ tool'.refreshed = tool.refreshed
         /\ IF tool.sent + BatchSize < k THEN tool'.pc = tool.pc /\ tool'.sent = tool.sent + BatchSize
            ELSE tool'.pc = tool.pc + 1 /\ tool'.sent = 0
<1>1. /\ t \in Tools /\ Kept(t)
      /\ t.counts = tool.counts /\ t.ends = tool.ends
      /\ t.lag = tool.lag /\ t.report = tool.report /\ t.err = tool.err
      /\ t.quiet = tool.quiet /\ t.refreshed = tool.refreshed
      /\ IF tool.sent + BatchSize < k THEN t.pc = tool.pc /\ t.sent = tool.sent + BatchSize
         ELSE t.pc = tool.pc + 1 /\ t.sent = 0
  <2>1. CASE tool.sent + BatchSize < k
    <3>1. tool.sent \in Nat
      BY DEF Tools
    <3>2. PICK next \in Nat : next = tool.sent + BatchSize
      BY <3>1
    <3>3. t = [tool EXCEPT !.sent = next]
      BY <2>1, <3>2
    <3>4. t \in Tools
      BY <3>3 DEF Tools
    <3> QED BY <2>1, <3>2, <3>3, <3>4 DEF Tools, Kept
  <2>2. CASE ~(tool.sent + BatchSize < k)
    <3>1. t = Advance
      BY <2>2
    <3> QED BY <2>2, <3>1, Advanced
  <2> QED BY <2>1, <2>2
<1>2. tool' \in Tools
  BY <1>1 DEF Tools
<1>3. /\ tool'.arrivals = all /\ tool'.counts = t.counts /\ tool'.mode = t.mode
      /\ tool'.scope = t.scope /\ tool'.count = t.count /\ tool'.warm = t.warm /\ tool'.op = t.op
      /\ tool'.pc = t.pc /\ tool'.sent = t.sent /\ tool'.ends = t.ends /\ tool'.lag = t.lag
      /\ tool'.report = t.report /\ tool'.err = t.err
      /\ tool'.quiet = t.quiet /\ tool'.refreshed = t.refreshed
  BY <1>1 DEF Tools
<1> QED BY <1>1, <1>2, <1>3 DEF Kept

(* A batch brings the next documents of a new run, each for the first      *)
(* time, and the watcher has seen none of those it is to wait for.         *)
LEMMA InsertKeepsInv == LoadInv /\ Insert => LoadInv'
<1> SUFFICES ASSUME LoadInv, Insert PROVE LoadInv'
  OBVIOUS
<1>1. /\ Step \in {"warmup", "insert"} /\ Running /\ tool.err = "none" /\ tool.mode = "index"
      /\ UNCHANGED <<committed, half, keyword, searchable, points, dead, plan, earlier>>
  BY CallsAreOf DEF LoadInv, Insert, ErrorsEnd
<1>2. /\ tool.pc \in Nat \ {0} /\ tool.sent \in Nat /\ tool.warm \in Nat /\ tool.count \in Nat \ {0}
      /\ tool.arrivals \in SUBSET Docs /\ BatchSize \in Nat \ {0} /\ tool \in Tools
  BY <1>1, RunningTypes, LoadTestAssumption DEF LoadInv, ToolOK
<1>3. /\ Step = "warmup" <=> tool.pc = 2
      /\ Step = "insert" <=> tool.pc = 7
      /\ tool.pc \in {2, 7}
  BY <1>1, <1>2, IndexSteps, StepIs
<1>4. Indexing
  BY <1>1 DEF Indexing
<1>5. PICK n \in Nat : n = IF Step = "warmup" THEN 0 ELSE tool.warm
  BY <1>2
<1>6. PICK k \in Nat : k = IF Step = "warmup" THEN tool.warm ELSE tool.count
  BY <1>2
<1>7. PICK upto \in Nat : upto = IF tool.sent + BatchSize < k THEN tool.sent + BatchSize ELSE k
  BY <1>2
<1>8. PICK batch : batch = Batch
  OBVIOUS
<1>9. /\ Len(Generated) = k /\ batch \in SUBSET Docs
      /\ batch = {d \in Docs : d[1] \in tool.scope /\ n + tool.sent <= d[2] /\ d[2] < n + upto}
  BY <1>1, <1>5, <1>6, <1>7, <1>8, BatchIs DEF LoadInv
<1>10. "c" \in Operations /\ \A d \in batch : d \in Own /\ d[1] \in tool.scope
  BY <1>9 DEF Operations, Own
<1>11. \A p \in Part : Position(p) \in Int
  BY DEF LoadInv, StackOK
<1>12. ASSUME Fails, UNCHANGED watch, Change(batch, "c") \/ UNCHANGED <<rows, version, topic>>
       PROVE  LoadInv'
  <2>1. tool'.scope = tool.scope
    BY <1>1, <1>12, Failed DEF Fails, Errors, LoadInv, ToolOK, Kept
  <2>2. StackOK' /\ \A d \in Docs : d \notin batch => (Untouched(d) => Untouched(d)')
    <3>1. CASE Change(batch, "c")
      BY <1>1, <1>9, <1>10, <3>1, ChangedDocuments DEF LoadInv
    <3>2. CASE UNCHANGED <<rows, version, topic>>
      <4>1. UNCHANGED stack
        BY <1>1, <3>2 DEF stack
      <4> QED BY <4>1, StackKept DEF LoadInv
    <3> QED BY <1>12, <3>1, <3>2
  <2>3. NewRuns'
    BY <1>1, <1>10, <2>1, <2>2 DEF LoadInv, NewRuns
  <2> QED BY <1>1, <1>12, <2>2, <2>3, FailsKeepsInv
<1> DEFINE all == (IF tool.sent = 0 THEN {} ELSE tool.arrivals) \cup batch
           t == IF tool.sent + BatchSize < k THEN [tool EXCEPT !.sent = @ + BatchSize] ELSE Advance
<1>13. ASSUME /\ Change(batch, "c")
              /\ tool' = [t EXCEPT !.arrivals = all]
              /\ watch' = [NoWatch EXCEPT !.pending = all, !.unchecked = all]
       PROVE  LoadInv'
  <2>1. PICK written \in SUBSET Docs : written = all
    BY <1>2, <1>9
  <2>2. /\ tool' \in Tools /\ Kept(tool') /\ tool'.arrivals = written
        /\ tool'.counts = tool.counts /\ tool'.ends = tool.ends
        /\ tool'.lag = tool.lag /\ tool'.report = tool.report /\ tool'.err = tool.err
        /\ tool'.quiet = tool.quiet /\ tool'.refreshed = tool.refreshed
        /\ IF tool.sent + BatchSize < k THEN tool'.pc = tool.pc /\ tool'.sent = tool.sent + BatchSize
           ELSE tool'.pc = tool.pc + 1 /\ tool'.sent = 0
    BY <1>2, <1>13, <2>1, BatchBooks
  <2>3. /\ watch' \in Watchers /\ watch'.pending = written /\ watch'.unchecked = written
        /\ watch'.found = {} /\ watch'.seen = {} /\ watch'.resting = FALSE /\ watch'.err = "none"
    <3>1. watch' = [pending |-> written, unchecked |-> written, found |-> {}, resting |-> FALSE,
                    err |-> "none", seen |-> {}]
      BY <1>13, <2>1 DEF NoWatch
    <3> QED BY <2>1, <3>1 DEF Watchers, Errors
  <2>4. /\ StackOK' /\ Indexed' = Indexed
        /\ \A p \in Part : Position(p)' = Position(p)
        /\ \A d \in Docs : d \notin batch => /\ Untouched(d) => Untouched(d)'
                                             /\ Created(d) => Created(d)'
        /\ \A d \in batch : Untouched(d) => Created(d)'
        /\ \A p \in Part : \A i \in 1 .. Len(topic'[p]) :
             \/ topic'[p][i].doc \in batch
             \/ i \in 1 .. Len(topic[p]) /\ topic'[p][i] = topic[p][i]
    BY <1>1, <1>9, <1>10, <1>13, ChangedDocuments DEF LoadInv
  <2>5. tool'.pc \in {2, 3, 7, 8} /\ (tool'.pc = 2 => tool.pc = 2)
        /\ (tool'.pc = 3 => tool.pc = 2) /\ (tool'.pc \in {7, 8} => tool.pc = 7)
    BY <1>3, <2>2
  <2>6. Step' \in {"warmup", "insert", "arrive"}
    <3>1. tool'.pc \in Nat \ {0} /\ tool'.mode = "index"
      BY <1>1, <2>2, <2>5 DEF Kept
    <3> QED BY <2>5, <3>1, IndexSteps, StepIs
  <2>7. ToolOK'
    <3>1. tool'.pc # 0 /\ plan' = plan /\ earlier' \in SUBSET RunIDs
      BY <1>1, <2>5 DEF LoadInv, ToolOK
    <3> QED BY <1>1, <2>2, <2>3, <3>1, ToolTypes DEF LoadInv
  <2>8. ErrorsEnd' /\ Indexing'
    BY <1>1, <2>2 DEF ErrorsEnd, Indexing, Kept
  <2>9. LagOK'
    BY <1>11, <2>2, <2>4, <2>6, LagKept DEF LoadInv
  <2>10. Own' = Own /\ (Fresh' <=> Fresh) /\ (Counting' => Counting)
    <3>1. Own' = Own /\ (Fresh' <=> Fresh)
      BY <1>1, <2>2 DEF Own, Fresh, Kept
    <3> QED BY <1>4, <2>2, <3>1 DEF Counting, Kept
  <2>11. Written = n + tool.sent /\ Written' = n + upto
    <3>1. CASE tool.pc = 2
      <4>1. n = 0 /\ k = tool.warm
        BY <1>3, <1>5, <1>6, <3>1
      <4>2. Written = tool.sent
        BY <3>1 DEF Written
      <4>3. CASE tool.sent + BatchSize < k
        <5>1. tool'.pc = 2 /\ tool'.sent = tool.sent + BatchSize /\ upto = tool.sent + BatchSize
          BY <1>7, <2>2, <3>1, <4>3
        <5>2. Written' = tool'.sent
          BY <5>1 DEF Written
        <5> QED BY <1>2, <4>1, <4>2, <5>1, <5>2
      <4>4. CASE ~(tool.sent + BatchSize < k)
        <5>1. tool'.pc = 3 /\ upto = tool.warm
          BY <1>7, <2>2, <3>1, <4>1, <4>4
        <5>2. Written' = tool'.warm
          BY <5>1 DEF Written
        <5> QED BY <1>2, <2>2, <4>1, <4>2, <5>1, <5>2 DEF Kept
      <4> QED BY <4>3, <4>4
    <3>2. CASE tool.pc = 7
      <4>1. n = tool.warm /\ k = tool.count
        BY <1>3, <1>5, <1>6, <3>2
      <4>2. Written = tool.warm + tool.sent
        BY <3>2 DEF Written
      <4>3. CASE tool.sent + BatchSize < k
        <5>1. tool'.pc = 7 /\ tool'.sent = tool.sent + BatchSize /\ upto = tool.sent + BatchSize
          BY <1>7, <2>2, <3>2, <4>3
        <5>2. Written' = tool'.warm + tool'.sent
          BY <5>1 DEF Written
        <5> QED BY <2>2, <4>1, <4>2, <5>1, <5>2 DEF Kept
      <4>4. CASE ~(tool.sent + BatchSize < k)
        <5>1. tool'.pc = 8 /\ upto = tool.count
          BY <1>7, <2>2, <3>2, <4>1, <4>4
        <5>2. Written' = tool'.warm + tool'.count
          BY <5>1 DEF Written
        <5> QED BY <2>2, <4>1, <4>2, <5>1, <5>2 DEF Kept
      <4> QED BY <4>3, <4>4
    <3> QED BY <1>3, <3>1, <3>2
  <2>12. tool.sent <= upto
    <3>1. CASE tool.pc = 2
      <4>1. tool.sent = 0 \/ tool.sent < tool.warm
        BY <1>4, <3>1 DEF LoadInv, Arrivals
      <4> QED BY <1>2, <1>3, <1>6, <1>7, <3>1, <4>1
    <3>2. CASE tool.pc = 7
      <4>1. tool.sent < tool.count
        BY <1>4, <3>2 DEF LoadInv, Arrivals
      <4> QED BY <1>2, <1>3, <1>6, <1>7, <3>2, <4>1
    <3> QED BY <1>3, <3>1, <3>2
  <2>13. NewRuns'
    BY <1>1, <1>10, <2>2, <2>4 DEF LoadInv, NewRuns, Kept
  <2>14. NewDocuments'
    <3> SUFFICES ASSUME Fresh', NEW d \in Docs, d[1] \in tool.scope
                 PROVE  IF d[2] < Written' THEN Created(d)' ELSE Untouched(d)'
      BY <2>2 DEF NewDocuments, Kept
    <3>1. IF d[2] < Written THEN Created(d) ELSE Untouched(d)
      BY <1>4, <2>10 DEF LoadInv, NewDocuments
    <3>2. d[2] \in Nat
      BY LoadTestAssumption DEF Docs
    <3>3. CASE d \in batch
      <4>1. Written <= d[2] /\ d[2] < Written'
        BY <1>9, <2>11, <3>3
      <4>2. ~(d[2] < Written)
        BY <1>2, <2>11, <3>2, <4>1
      <4> QED BY <2>4, <3>1, <3>3, <4>1, <4>2
    <3>4. CASE d \notin batch
      <4>1. ~(n + tool.sent <= d[2] /\ d[2] < n + upto)
        BY <1>9, <3>4
      <4>2. d[2] < Written' <=> d[2] < Written
        BY <1>2, <2>11, <2>12, <3>2, <4>1
      <4> QED BY <2>4, <3>1, <3>4, <4>2
    <3> QED BY <3>3, <3>4
  <2>15. ASSUME tool.pc = 7 PROVE written = Measured(Written)'
    <3>1. n = tool.warm
      BY <1>3, <1>5, <2>15
    <3>2. Measured(Written)' = {d \in Docs : d[1] \in tool.scope /\ tool.warm <= d[2] /\ d[2] < n + upto}
      BY <2>2, <2>11 DEF Measured, Kept
    <3>3. tool.sent > 0 => tool.arrivals = {d \in Docs : d[1] \in tool.scope /\ tool.warm <= d[2] /\ d[2] < n + tool.sent}
      BY <1>4, <2>11, <2>15 DEF LoadInv, Arrivals, Measured
    <3>4. \A d \in Docs : d[2] \in Nat
      BY LoadTestAssumption DEF Docs
    <3>5. ASSUME NEW d \in Docs
          PROVE  d \in written <=> d[1] \in tool.scope /\ tool.warm <= d[2] /\ d[2] < n + upto
      <4>1. d \in batch <=> d[1] \in tool.scope /\ n + tool.sent <= d[2] /\ d[2] < n + upto
        BY <1>9
      <4>2. PICK m \in Nat : m = d[2]
        BY <3>4
      <4>3. CASE tool.sent = 0
        BY <2>1, <3>1, <4>1, <4>3
      <4>4. CASE tool.sent # 0
        <5>1. tool.sent > 0
          BY <1>2, <4>4
        <5>2. d \in tool.arrivals <=> d[1] \in tool.scope /\ tool.warm <= m /\ m < n + tool.sent
          BY <3>3, <4>2, <5>1
        <5>3. d \in written <=> d \in tool.arrivals \/ d \in batch
          BY <2>1, <4>4
        <5>4. \/ m < n + tool.sent
              \/ n + tool.sent <= m
          BY <1>2
        <5>5. CASE m < n + tool.sent
          <6>1. m < n + upto /\ ~(n + tool.sent <= m)
            BY <1>2, <2>12, <5>5
          <6> QED BY <4>1, <4>2, <5>2, <5>3, <5>5, <6>1
        <5>6. CASE n + tool.sent <= m
          <6>1. ~(m < n + tool.sent) /\ tool.warm <= m
            BY <1>2, <3>1, <5>6
          <6> QED BY <4>1, <4>2, <5>2, <5>3, <5>6, <6>1
        <5> QED BY <5>4, <5>5, <5>6
      <4> QED BY <4>3, <4>4
    <3>6. written \subseteq Docs
      BY <2>1
    <3> HIDE DEF all
    <3> QED BY <3>2, <3>5, <3>6
  <2>16. Arrivals'
    <3>1. tool'.pc = 2 => tool'.sent < tool'.warm
      BY <1>2, <1>3, <1>6, <2>2, <2>5 DEF Kept
    <3>2. tool'.pc = 7 => tool'.sent < tool'.count
      BY <1>2, <1>3, <1>6, <2>2, <2>5 DEF Kept
    <3>3. (tool'.pc = 7 /\ tool'.sent > 0) \/ tool'.pc >= 8 => tool'.arrivals = Measured(Written)'
      BY <2>2, <2>5, <2>15
    <3>4. tool'.pc <= 13
      BY <2>5
    <3> QED BY <3>1, <3>2, <3>3, <3>4 DEF Arrivals
  <2>17. Watched'
    <3>1. ~(tool'.pc >= 9)
      BY <2>5
    <3> QED BY <2>2, <2>3, <3>1 DEF Watched
  <2>18. AtRest'
    <3> SUFFICES ASSUME Counting'
                 PROVE  /\ \A p \in Part : \A i \in 1 .. Len(topic'[p]) :
                             Position(p)' < i => topic'[p][i].doc \in Own'
                        /\ searchable' \ Own' = Indexed' \ Own'
      BY DEF AtRest
    <3>1. Counting
      BY <2>10
    <3>2. /\ \A p \in Part : \A i \in 1 .. Len(topic[p]) : Position(p) < i => topic[p][i].doc \in Own
          /\ searchable \ Own = Indexed \ Own
      BY <3>1 DEF LoadInv, AtRest
    <3> QED BY <1>1, <1>10, <2>4, <2>10, <3>2
  <2>19. Counts'
    <3>1. Len(tool.counts) = CountsBy(tool.pc) /\ ~tool.refreshed
      BY <1>3, <1>4 DEF LoadInv, Counts
    <3>2. CountsBy(tool'.pc) = CountsBy(tool.pc)
      BY <1>3, <2>5 DEF CountsBy
    <3>3. Counting /\ tool.pc = 7 => /\ tool.counts[1] = Cardinality(Indexed \ Own)
                                     /\ tool.counts[2] = Cardinality(points \ Own)
      BY DEF LoadInv, Counts
    <3>4. tool'.counts = tool.counts /\ ~tool'.refreshed
      BY <2>2, <3>1
    <3>5. ~(tool'.pc >= 12) /\ (tool'.pc >= 5 => tool.pc = 7) /\ (tool'.pc >= 6 => tool.pc = 7)
      BY <2>5
    <3>6. Indexed' = Indexed /\ points' = points /\ Own' = Own
      BY <1>1, <2>4, <2>10
    <3>7. Len(tool'.counts) = CountsBy(tool'.pc)
      BY <3>1, <3>2, <3>4
    <3>8. Counting' => /\ tool'.pc >= 5 => tool'.counts[1] = Cardinality(Indexed' \ Own')
                       /\ tool'.pc >= 6 => tool'.counts[2] = Cardinality(points' \ Own')
      BY <2>10, <3>3, <3>4, <3>5, <3>6
    <3> QED BY <3>4, <3>5, <3>7, <3>8 DEF Counts
  <2>20. Reported'
    <3>1. tool'.pc # 13
      BY <2>5
    <3> QED BY <3>1 DEF Reported
  <2> QED BY <2>4, <2>7, <2>8, <2>9, <2>13, <2>14, <2>16, <2>17, <2>18, <2>19, <2>20 DEF LoadInv
<1>14. \/ /\ Change(batch, "c")
          /\ tool' = [t EXCEPT !.arrivals = all]
          /\ watch' = [NoWatch EXCEPT !.pending = all, !.unchecked = all]
       \/ Fails /\ UNCHANGED watch /\ (Change(batch, "c") \/ UNCHANGED <<rows, version, topic>>)
  BY <1>8, <1>9 DEF Insert
<1> QED BY <1>12, <1>13, <1>14

-----------------------------------------------------------------------------
(* Before the first invocation nothing has been written.                   *)
LEMMA LoadInitInv == LoadInit => LoadInv
<1> SUFFICES ASSUME LoadInit PROVE LoadInv
  OBVIOUS
<1>1. /\ rows = [d \in Docs |-> 0] /\ version = 0
      /\ topic = [p \in Part |-> <<>>] /\ committed = [p \in Part |-> -1]
      /\ half = [p \in Part |-> FALSE]
      /\ keyword = [d \in Docs |-> 0] /\ searchable = {} /\ points = {}
      /\ tool = Idle /\ watch = NoWatch /\ plan \in Plans /\ earlier = {}
  BY DEF LoadInit
<1>2. StackOK
  <2>1. rows \in [Docs -> Nat] /\ keyword \in [Docs -> Nat] /\ version \in Nat
        /\ half \in [Part -> BOOLEAN]
    BY <1>1
  <2>2. PICK none \in Int : none = -1 /\ none < 0
    OBVIOUS
  <2>3. committed \in [Part -> Int] /\ \A p \in Part : committed[p] < 0
    BY <1>1, <2>2
  <2>4. topic \in [Part -> Seq(Events)] /\ \A p \in Part : Len(topic[p]) = 0
    BY <1>1
  <2>5. \A p \in Part : Position(p) = 0 /\ ~half[p]
    BY <1>1, <2>3 DEF Position
  <2> QED BY <1>1, <2>1, <2>3, <2>4, <2>5 DEF StackOK
<1>3. ~Running /\ Step = "none" /\ ~Watching /\ ~Indexing
  BY <1>1, IdleIs DEF Running, Step, Watching, Indexing
<1>4. ToolOK
  <2>1. NoWatch \in Watchers
    BY DEF NoWatch, Watchers, Errors
  <2>2. plan \in Seq(Invocations)
        /\ \A i \in 1 .. Len(plan) :
             /\ plan[i].warm + plan[i].count <= MaxDocuments
             /\ \/ \E r \in RunIDs : plan[i].scope = {r}
                \/ plan[i].mode = "cleanup" /\ plan[i].scope = RunIDs
    BY <1>1, PlansAssumption
  <2>3. \A i \in 1 .. Len(plan) : plan[i] \in Invocations
    BY <2>2
  <2>4. \A i \in 1 .. Len(plan) : Sound(plan[i])
    BY <2>2, <2>3 DEF Sound, Invocations
  <2> QED BY <1>1, <1>3, <2>1, <2>2, <2>4, IdleIs DEF ToolOK
<1>5. ErrorsEnd /\ LagOK
  BY <1>1, <1>3, IdleIs DEF ErrorsEnd, LagOK, ZeroLagMeansCaughtUp
<1>6. NewRuns
  <2>1. \A p \in Part : \A i \in 1 .. Len(topic[p]) : FALSE
    BY <1>1
  <2> QED BY <1>1, <2>1 DEF NewRuns, Untouched
<1>7. NewDocuments /\ Arrivals /\ Watched /\ AtRest /\ Counts /\ Reported
  <2>1. NewDocuments /\ Arrivals /\ Watched
    BY <1>1, <1>3 DEF NewDocuments, Arrivals, Watched, NoWatch
  <2>2. AtRest /\ Counts /\ Reported
    BY <1>3 DEF AtRest, Counts, Counting, Reported
  <2> QED BY <2>1, <2>2
<1> QED BY <1>2, <1>4, <1>5, <1>6, <1>7 DEF LoadInv

(* No step breaks it.                                                      *)
LEMMA LoadNextInv == LoadInv /\ [LoadNext]_loadVars => LoadInv'
<1> SUFFICES ASSUME LoadInv, [LoadNext]_loadVars PROVE LoadInv'
  OBVIOUS
<1>1. CASE Start
  BY <1>1, StartKeepsInv
<1>2. CASE SomebodyWrites
  BY <1>2, SomebodyKeepsInv
<1>3. CASE ContextEnds \/ ReadHangs
  BY <1>3, NothingKeepsInv DEF ContextEnds, ReadHangs
<1>4. CASE Connect \/ Read \/ Insert \/ PublishEvent \/ Delete \/ Refresh
  BY <1>4, ConnectKeepsInv, ReadKeepsInv, InsertKeepsInv, PublishKeepsInv, DeleteKeepsInv, RefreshKeepsInv
<1>5. CASE \E d \in Docs : Check(d)
  BY <1>5, CheckKeepsInv
<1>6. CASE RoundEnds \/ NextRound \/ GiveUp
  BY <1>6, RoundEndsKeepsInv, NextRoundKeepsInv, GiveUpKeepsInv
<1>7. CASE Tick \/ StopWatching \/ Exit
  BY <1>7, TickKeepsInv, StopWatchingKeepsInv, ExitKeepsInv
<1>8. CASE Stack
  BY <1>8, StackKeepsInv
<1>9. CASE UNCHANGED loadVars
  BY <1>9, NothingKeepsInv DEF loadVars
<1> QED BY <1>1, <1>2, <1>3, <1>4, <1>5, <1>6, <1>7, <1>8, <1>9 DEF LoadNext, Tool

(* What an index run reports follows from what it has on its books.        *)
LEMMA BooksAreHonest == LoadInv => ReportIsHonest
<1> SUFFICES ASSUME LoadInv PROVE ReportIsHonest
  OBVIOUS
<1>1. watch.err # "store" => (watch.pending \ watch.found) \cap watch.seen = {}
  BY DEF LoadInv, Watched
<1>2. ASSUME Over, tool.mode = "index", tool.err = "none", Fresh
      PROVE  /\ tool.report.produced = tool.count /\ tool.report.indexed = tool.count
             /\ \A d \in tool.arrivals : rows[d] > 0 /\ keyword[d] = rows[d]
             /\ tool.quiet /\ tool.refreshed /\ tool.warm = 0 =>
                  tool.report.documents = tool.count /\ tool.report.points <= tool.count
  <2>1. Indexing
    BY <1>2 DEF Indexing
  <2>2. tool.pc \in Nat \ {0} /\ tool.pc > 12 /\ tool.pc <= 13
    <3>1. Running /\ tool.pc > Len(Script["index"])
      BY <1>2 DEF Over
    <3>2. tool.pc \in Nat \ {0}
      BY <3>1, RunningTypes DEF LoadInv
    <3>3. tool.pc <= 13
      BY <2>1 DEF LoadInv, Arrivals
    <3> QED BY <3>1, <3>2, <3>3, IndexSteps
  <2>3. tool.pc = 13 /\ tool.pc >= 8 /\ tool.pc >= 9
    BY <2>2
  <2>4. /\ watch.err = "none" /\ tool.report.produced = tool.count /\ tool.report.indexed = tool.count
        /\ Counting /\ tool.refreshed =>
             tool.report.documents = tool.count /\ tool.report.points <= tool.count
    BY <2>1, <2>3 DEF LoadInv, Reported
  <2>5. watch.pending = {}
    BY <2>1, <2>3, <2>4 DEF LoadInv, Watched
  <2>6. ASSUME NEW d \in tool.arrivals PROVE rows[d] > 0 /\ keyword[d] = rows[d]
    <3>1. d \in (tool.arrivals \ watch.pending) \cup watch.found
      BY <2>5
    <3>2. d \in Docs /\ Created(d) /\ keyword[d] > 0
      BY <1>2, <2>1, <2>3, <3>1, SeenIsIndexed
    <3> QED BY <3>2 DEF Created
  <2>7. tool.quiet /\ tool.warm = 0 => Counting
    BY <1>2, <2>1 DEF Counting
  <2> QED BY <2>4, <2>6, <2>7
<1> QED BY <1>1, <1>2 DEF ReportIsHonest

(* Whatever the stack does with its events, and wherever calls fail or the *)
(* context ends, what is said of the invocation, of its run and of what    *)
(* others wrote stays true (cmd/loadgen/main.go, internal/loadtest).       *)
THEOREM LoadInvariance == LoadSpec => []LoadInv
<1>1. LoadInit => LoadInv
  BY LoadInitInv
<1>2. LoadInv /\ [LoadNext]_loadVars => LoadInv'
  BY LoadNextInv
<1> QED BY <1>1, <1>2, PTL DEF LoadSpec

(* An index run of a new id that reports no error found everything it      *)
(* wrote, in the version of its row, and on a stack at rest it reports     *)
(* exactly the growth it caused (stats.go, indexMode of main.go).          *)
THEOREM ReportsAreHonest == LoadSpec => []ReportIsHonest
<1>1. LoadInv => ReportIsHonest
  BY BooksAreHonest
<1> QED BY <1>1, LoadInvariance, PTL

(* A lag of zero means that every partition's backlog, as it was when its  *)
(* end was read, has been committed (ConsumerLag, TotalLag in kafka.go).   *)
THEOREM ZeroLagIsHonest == LoadSpec => []ZeroLagMeansCaughtUp
<1>1. LoadInv => ZeroLagMeansCaughtUp
  BY DEF LoadInv, LagOK
<1> QED BY <1>1, LoadInvariance, PTL
=============================================================================
