-------------------------- MODULE EventRetryProofs --------------------------
(***************************************************************************)
(* Proofs about EventRetry, for every retry policy that Policy.Validate    *)
(* accepts.                                                                *)
(*                                                                         *)
(* The invariant counts: a try begins with one wait fewer than tries, a    *)
(* wait is recorded before it is waited out, and Do returns without the    *)
(* context's error only with an error that is not worth a retry or with    *)
(* every attempt spent.                                                    *)
(***************************************************************************)
EXTENDS EventRetry, SequenceTheorems, WellFoundedInduction, TLAPS

AllFailures == KeywordFailures \cup VectorFailures \cup EmbedderFailures \cup EventFailures

Typed == /\ op \in {"upsert", "delete", "tombstone", "unreadable"}
         /\ step \in Finals \cup {"decoding", "trying", "waiting", "returned", "publishing"}
         /\ attempt \in 0 .. MaxAttempts
         /\ failures \in Seq(AllFailures)
         /\ contextErr \in BOOLEAN /\ cancelled \in BOOLEAN
         /\ waits \in Seq({Backoff(n) : n \in 1 .. MaxAttempts})
         /\ reason \in {"none", "retry_exhausted", "non_retryable"}

(* The tries and the waits so far, by the step that is next.               *)
Tries ==
  /\ step \in {"decoding", "skipped"} => attempt = 0 /\ Len(waits) = 0
  /\ step \in {"trying", "indexed"} => attempt > 0 /\ Len(waits) = attempt - 1
  /\ step = "waiting" => attempt \in 1 .. MaxAttempts - 1 /\ Len(waits) = attempt
  /\ step = "returned" => /\ attempt > 0
                          /\ Len(waits) = attempt - 1 \/ contextErr
  /\ step \in {"publishing", "dead-lettered", "stopped"} =>
       Len(waits) = IF attempt = 0 THEN 0 ELSE attempt - 1

Spent == attempt = MaxAttempts \/ ClassifyError(failures) = "non_retryable"

(* Why Do went on, and why it returned.                                    *)
Reasons ==
  /\ contextErr => cancelled
  /\ step = "waiting" => ClassifyError(failures) # "non_retryable"
  /\ step = "returned" /\ ~contextErr => Spent
  /\ step \in {"publishing", "dead-lettered"} => Spent
  /\ step \notin Finals => reason = "none"
  /\ reason = "retry_exhausted" => attempt = MaxAttempts
  /\ step = "left" => cancelled

(* The waits are those of the policy, one after the other.                 *)
Delays == \A i \in DOMAIN waits : waits[i] = Backoff(i)

IndInv == Typed /\ Tries /\ Reasons /\ Delays

-----------------------------------------------------------------------------
(* Errors.                                                                 *)

(* Each error of a try is a sequence of the failures it joins.             *)
LEMMA ErrorsAreFailures ==
  ASSUME NEW operation, NEW err \in Errors(operation) PROVE err \in Seq(AllFailures)
<1>1. ASSUME NEW f \in AllFailures PROVE <<f>> \in Seq(AllFailures)
  OBVIOUS
<1>2. ASSUME NEW f \in AllFailures, NEW g \in AllFailures PROVE <<f, g>> \in Seq(AllFailures)
  OBVIOUS
<1>3. \/ \E f \in AllFailures : err = <<f>>
      \/ \E f \in AllFailures, g \in AllFailures : err = <<f, g>>
  <2>1. CASE operation = "delete"
    <3>1. err \in {<<f>> : f \in KeywordFailures \cup VectorFailures}
            \/ err \in KeywordFailures \X VectorFailures
      BY <2>1 DEF Errors
    <3>2. ASSUME err \in KeywordFailures \X VectorFailures
          PROVE  \E f \in AllFailures, g \in AllFailures : err = <<f, g>>
      BY <3>2 DEF AllFailures
    <3>3. ASSUME err \in {<<f>> : f \in KeywordFailures \cup VectorFailures}
          PROVE  \E f \in AllFailures : err = <<f>>
      BY <3>3 DEF AllFailures
    <3> QED
      BY <3>1, <3>2, <3>3
  <2>2. CASE operation # "delete"
    BY <2>2 DEF Errors, AllFailures
  <2> QED
    BY <2>1, <2>2
<1> QED
  BY <1>1, <1>2, <1>3

(* Failures that are all temporary are worth a retry.                      *)
LEMMA TemporaryIsRetried ==
  ASSUME NEW err \in Seq(AllFailures), err # <<>>, \A i \in DOMAIN err : SaysTemporary(err[i])
  PROVE  ClassifyError(err) # "non_retryable"
<1>1. 1 \in DOMAIN err /\ \A i \in DOMAIN err : i \in Nat /\ 1 <= i
  OBVIOUS
<1>2. ~MarkedPermanent(err)
  BY <1>1 DEF MarkedPermanent, Permanent, SaysTemporary
<1>3. {i \in DOMAIN err : SaysTemporary(err[i]) \/ SaysFinal(err[i])} = DOMAIN err
  OBVIOUS
<1>4. Min(DOMAIN err) \in DOMAIN err
  BY <1>1 DEF Min
<1>5. SaysTemporary(err[Min(DOMAIN err)]) /\ DOMAIN err # {}
  BY <1>1, <1>4
<1> QED
  BY <1>2, <1>3, <1>5 DEF ClassifyError

(* What can be read wrong of a message is hopeless.                        *)
LEMMA UnreadableIsHopeless == ClassifyError(<<Failure("event", "invalid input")>>) = "non_retryable"
<1> DEFINE err == <<Failure("event", "invalid input")>>
<1>0. ASSUME NEW f PROVE DOMAIN <<f>> = {1} /\ <<f>>[1] = f
  OBVIOUS
<1>1. DOMAIN err = {1} /\ err[1].cause = "invalid input"
  <2>1. Failure("event", "invalid input").cause = "invalid input"
    BY DEF Failure
  <2> QED
    BY <1>0, <2>1
<1> HIDE DEF err
<1>2. MarkedPermanent(err)
  BY <1>1 DEF MarkedPermanent, Permanent
<1> QED
  BY <1>2 DEF ClassifyError, err

-----------------------------------------------------------------------------
(* The invariant.                                                          *)

(* Before the first attempt nothing has failed and nothing was waited for. *)
LEMMA InitEstablishes == Init => IndInv
<1> SUFFICES ASSUME Init PROVE IndInv
  OBVIOUS
<1>1. waits = <<>> /\ failures = <<>> /\ step = "decoding" /\ attempt = 0 /\ reason = "none"
  BY DEF Init
<1>2. contextErr \in BOOLEAN /\ cancelled \in BOOLEAN /\ ~contextErr
  BY Zenon DEF Init
<1>3. Len(<<>>) = 0 /\ \A S : <<>> \in Seq(S)
  BY EmptySeq
<1>4. Typed
  BY <1>1, <1>2, <1>3, PolicyAssumption DEF Typed, Init
<1> QED
  BY <1>1, <1>2, <1>3, <1>4 DEF IndInv, Tries, Reasons, Delays

(* Each step keeps the types.                                              *)
LEMMA TypedPreserved == IndInv /\ Next => Typed'
<1> SUFFICES ASSUME IndInv, Next PROVE Typed'
  OBVIOUS
<1> USE PolicyAssumption DEF Finals
<1>a. Typed /\ Tries
  BY DEF IndInv
<1>b. TRUE \in BOOLEAN /\ contextErr \in BOOLEAN /\ cancelled \in BOOLEAN
  BY <1>a DEF Typed
<1>c. contextErr' \in BOOLEAN /\ cancelled' \in BOOLEAN
  BY Zenon, <1>b DEF Next, Cancel, Decode, Succeed, BackoffEnds, BackoffCancelled, Decide, Publish, Fail
<1>d. ASSUME NEW n \in 1 .. MaxAttempts
      PROVE  Append(waits, Backoff(n)) \in Seq({Backoff(m) : m \in 1 .. MaxAttempts})
  BY <1>a, AppendProperties DEF Typed
<1>e. <<>> \in Seq(AllFailures) /\ <<Failure("event", "invalid input")>> \in Seq(AllFailures)
  BY DEF AllFailures, EventFailures
<1>f. DeadLetterReason \in {"retry_exhausted", "non_retryable"}
  BY DEF DeadLetterReason
<1>1. CASE Cancel
  BY <1>a, <1>c, <1>1 DEF Cancel, Typed
<1>2. CASE Decode
  <2>1. op \in {"upsert", "delete", "tombstone", "unreadable"} /\ MaxAttempts >= 1
    BY <1>a DEF Typed
  <2>2. step' \in {"skipped", "publishing", "trying"} /\ attempt' \in {0, 1}
    BY <2>1, <1>2 DEF Decode
  <2>5. failures' = <<>> \/ failures' = <<Failure("event", "invalid input")>>
    BY <1>2 DEF Decode
  <2>3. UNCHANGED <<op, contextErr, cancelled, waits, reason>>
    BY <1>2 DEF Decode
  <2>4. failures' \in Seq(AllFailures)
    BY <1>e, <2>5
  <2> QED
    BY <1>a, <2>1, <2>2, <2>3, <2>4 DEF Typed
<1>3. CASE Succeed
  BY <1>a, <1>c, <1>3 DEF Succeed, Typed
<1>4. CASE BackoffEnds
  BY <1>a, <1>c, <1>4 DEF BackoffEnds, Typed, Tries
<1>5. CASE BackoffCancelled
  BY <1>a, <1>c, <1>5 DEF BackoffCancelled, Typed
<1>6. CASE Decide
  BY <1>a, <1>c, <1>6 DEF Decide, Typed
<1>7. CASE Publish
  BY <1>a, <1>c, <1>7, <1>f DEF Publish, Typed
<1>8. ASSUME NEW err \in Errors(op), Fail(err) PROVE Typed'
  <2>1. err \in Seq(AllFailures)
    BY ErrorsAreFailures
  <2>2. waits' = waits \/ waits' = Append(waits, Backoff(attempt))
    BY <1>8 DEF Fail, RecordRetry
  <2>3. attempt \in 1 .. MaxAttempts
    BY <1>a, <1>8 DEF Fail, Typed, Tries
  <2>4. waits' \in Seq({Backoff(m) : m \in 1 .. MaxAttempts})
    BY <1>a, <1>d, <2>2, <2>3 DEF Typed
  <2> QED
    BY <1>a, <1>c, <1>8, <2>1, <2>4 DEF Fail, Typed
<1> QED
  BY <1>1, <1>2, <1>3, <1>4, <1>5, <1>6, <1>7, <1>8 DEF Next

(* Each step keeps the count of tries and waits: a wait is recorded with   *)
(* the step to it, and a try begun after it.                               *)
LEMMA TriesPreserved == IndInv /\ Next => Tries'
<1> SUFFICES ASSUME IndInv, Next PROVE Tries'
  OBVIOUS
<1> USE PolicyAssumption DEF Finals
<1>a. Typed /\ Tries /\ Reasons /\ attempt \in Nat /\ Len(waits) \in Nat
  BY LenProperties DEF IndInv, Typed
<1>b. ASSUME NEW n \in 1 .. MaxAttempts PROVE Len(Append(waits, Backoff(n))) = Len(waits) + 1
  BY <1>a, AppendProperties DEF Typed
<1>1. CASE Cancel
  BY <1>a, <1>1 DEF Cancel, Tries
<1>2. CASE Decode
  <2>1. op \in {"upsert", "delete", "tombstone", "unreadable"} /\ Len(waits) = 0
    BY <1>a, <1>2 DEF Decode, Typed, Tries
  <2>2. \/ step' = "skipped" /\ attempt' = 0
        \/ step' = "publishing" /\ attempt' = 0
        \/ step' = "trying" /\ attempt' = 1
    BY <2>1, <1>2 DEF Decode
  <2>3. UNCHANGED waits
    BY <1>2 DEF Decode
  <2> QED
    BY <2>1, <2>2, <2>3 DEF Tries
<1>3. CASE Succeed
  BY <1>a, <1>3 DEF Succeed, Tries
<1>4. CASE BackoffEnds
  BY <1>a, <1>4 DEF BackoffEnds, Tries
<1>5. CASE BackoffCancelled
  BY <1>a, <1>5 DEF BackoffCancelled, Tries
<1>6. CASE Decide
  BY <1>a, <1>6 DEF Decide, Tries, Reasons
<1>7. CASE Publish
  BY <1>a, <1>7 DEF Publish, Tries
<1>8. ASSUME NEW err \in Errors(op), Fail(err) PROVE Tries'
  BY <1>a, <1>8, <1>b DEF Fail, Tries, RecordRetry, Typed
<1> QED
  BY <1>1, <1>2, <1>3, <1>4, <1>5, <1>6, <1>7, <1>8 DEF Next

(* Each step keeps the reasons: Do gives up on a hopeless error or at the  *)
(* last attempt, and Process takes only a shutdown for one.                *)
LEMMA ReasonsPreserved == IndInv /\ Next => Reasons'
<1> SUFFICES ASSUME IndInv, Next PROVE Reasons'
  OBVIOUS
<1> USE PolicyAssumption DEF Finals
<1>a. Typed /\ Tries /\ Reasons /\ attempt \in 0 .. MaxAttempts
  BY DEF IndInv, Typed
<1>b. UNCHANGED failures => ClassifyError(failures)' = ClassifyError(failures)
  BY DEF ClassifyError, MarkedPermanent
<1>c. ASSUME NEW err, failures' = err PROVE ClassifyError(failures)' = ClassifyError(err)
  BY <1>c DEF ClassifyError, MarkedPermanent
<1>1. CASE Cancel
  BY <1>a, <1>1, <1>b DEF Cancel, Reasons, Spent
<1>2. CASE Decode
  BY <1>a, <1>2, <1>c, UnreadableIsHopeless DEF Decode, Reasons, Spent, Typed, Tries
<1>3. CASE Succeed
  BY <1>a, <1>3, <1>b DEF Succeed, Reasons, Spent
<1>4. CASE BackoffEnds
  BY <1>a, <1>4, <1>b DEF BackoffEnds, Reasons, Spent
<1>5. CASE BackoffCancelled
  BY <1>a, <1>5, <1>b DEF BackoffCancelled, Reasons, Spent
<1>6. CASE Decide
  BY <1>a, <1>6, <1>b DEF Decide, Reasons, Spent
<1>7. CASE Publish
  BY <1>a, <1>7, <1>b DEF Publish, Reasons, Spent, DeadLetterReason
<1>8. ASSUME NEW err \in Errors(op), Fail(err) PROVE Reasons'
  BY <1>a, <1>8, <1>c DEF Fail, Reasons, Spent
<1> QED
  BY <1>1, <1>2, <1>3, <1>4, <1>5, <1>6, <1>7, <1>8 DEF Next

(* Each step keeps the delays.                                             *)
LEMMA DelaysPreserved == IndInv /\ Next => Delays'
<1> SUFFICES ASSUME IndInv, Next PROVE Delays'
  OBVIOUS
<1>a. Typed /\ Tries /\ Delays /\ attempt \in Nat
  BY PolicyAssumption DEF IndInv, Typed
<1>b. ASSUME UNCHANGED waits PROVE Delays'
  BY <1>a, <1>b DEF Delays
<1>c. ASSUME NEW n \in 1 .. MaxAttempts, n = Len(waits) + 1, waits' = Append(waits, Backoff(n)) PROVE Delays'
  <2>1. /\ DOMAIN waits' = 1 .. n /\ DOMAIN waits = 1 .. n - 1
        /\ \A i \in 1 .. n - 1 : waits'[i] = waits[i]
        /\ waits'[n] = Backoff(n)
    BY <1>a, <1>c, AppendProperties DEF Typed
  <2> QED
    BY <1>a, <1>c, <2>1 DEF Delays
<1>1. CASE Cancel
  BY <1>b, <1>1 DEF Cancel
<1>2. CASE Decode
  BY <1>b, <1>2 DEF Decode
<1>3. CASE Succeed
  BY <1>b, <1>3 DEF Succeed
<1>4. CASE BackoffEnds
  BY <1>b, <1>4 DEF BackoffEnds
<1>5. CASE BackoffCancelled
  BY <1>b, <1>5 DEF BackoffCancelled
<1>6. CASE Decide
  BY <1>b, <1>6 DEF Decide
<1>7. CASE Publish
  BY <1>b, <1>7 DEF Publish
<1>8. ASSUME NEW err \in Errors(op), Fail(err) PROVE Delays'
  BY <1>a, <1>b, <1>c, <1>8 DEF Fail, RecordRetry, Tries, Typed
<1> QED
  BY <1>1, <1>2, <1>3, <1>4, <1>5, <1>6, <1>7, <1>8 DEF Next

-----------------------------------------------------------------------------
(* The theorems.                                                           *)

(* The invariant holds in every reachable state.                           *)
LEMMA IndInvHolds == Spec => []IndInv
<1>1. IndInv /\ Next => IndInv'
  BY TypedPreserved, TriesPreserved, ReasonsPreserved, DelaysPreserved DEF IndInv
<1>2. IndInv /\ UNCHANGED vars => IndInv'
  BY DEF IndInv, vars, Typed, Tries, Reasons, Delays, Spent, ClassifyError, MarkedPermanent
<1> QED
  BY <1>1, <1>2, InitEstablishes, PTL DEF Spec

(* Only a shutdown leaves an event neither indexed nor dead-lettered while *)
(* consumption goes on (Process, pipeline.go:202).                         *)
THEOREM OnlyShutdownLeaves == Spec => []LeftOnlyByShutdown
<1>1. IndInv => LeftOnlyByShutdown
  BY DEF IndInv, Reasons, LeftOnlyByShutdown
<1> QED
  BY <1>1, IndInvHolds, PTL

(* An outage is tried as often as the policy allows before its event is    *)
(* dead-lettered, unless the embedder refused the connection               *)
(* (classifyChange, Runner.Do).                                            *)
THEOREM TemporarySpendsAll == Spec => []OutagesUseEveryAttempt
<1>1. IndInv => OutagesUseEveryAttempt
  <2> SUFFICES ASSUME IndInv, step \in {"publishing", "dead-lettered"}, failures # <<>>,
                      \A i \in DOMAIN failures : Outage(failures[i]),
                      \A i \in DOMAIN failures : failures[i].cause # "refused"
               PROVE  attempt = MaxAttempts
    BY DEF OutagesUseEveryAttempt
  <2>1. \A i \in DOMAIN failures : SaysTemporary(failures[i])
    BY DEF Outage
  <2>2. ClassifyError(failures) # "non_retryable"
    BY <2>1, TemporaryIsRetried DEF IndInv, Typed
  <2> QED
    BY <2>2 DEF IndInv, Reasons, Spent
<1> QED
  BY <1>1, IndInvHolds, PTL

(* An error that is hopeless in all its parts is never tried again, also   *)
(* when both stores of a delete refuse (classifyChange).                   *)
THEOREM HopelessEndsTries == Spec => HopelessIsNotRetried
<1>1. IndInv /\ BackoffEnds => \E i \in DOMAIN failures : ~Permanent(failures[i])
  BY DEF IndInv, Reasons, BackoffEnds, ClassifyError, MarkedPermanent
<1> QED
  BY <1>1, IndInvHolds, PTL DEF Spec, HopelessIsNotRetried

(* A nonempty set of naturals has a least element: what stands for         *)
(* induction below, as a smallest counterexample.                          *)
LEMMA Least == ASSUME NEW T, T \subseteq Nat, T # {} PROVE \E x \in T : \A y \in T : x <= y
<1> DEFINE R == OpToRel(<, Nat)
<1>1. PICK x \in T : \A y \in T : ~ (<<y, x>> \in R)
  BY NatLessThanWellFounded, WFMin
<1>2. ASSUME NEW y \in T PROVE x <= y
  <2>1. x \in Nat /\ y \in Nat
    OBVIOUS
  <2>2. ~ (<<y, x>> \in R)
    BY <1>1
  <2>3. y < x => <<y, x>> \in R
    BY <2>1 DEF OpToRel
  <2> HIDE DEF R
  <2> QED
    BY <2>1, <2>2, <2>3
<1> QED
  BY <1>2

(* The first n powers.                                                     *)
Powers(f, n) == f = [i \in 0 .. n |-> IF i = 0 THEN 1 ELSE Multiplier * f[i - 1]]

(* What Powers says of each of them.                                       *)
LEMMA PowersUnfold ==
  ASSUME NEW n \in Nat, NEW f
  PROVE  Powers(f, n) => /\ f[0] = 1
                         /\ \A i \in 1 .. n : f[i] = Multiplier * f[i - 1]
<1> SUFFICES ASSUME Powers(f, n)
             PROVE  f[0] = 1 /\ \A i \in 1 .. n : f[i] = Multiplier * f[i - 1]
  OBVIOUS
<1>1. ASSUME NEW i \in 0 .. n PROVE f[i] = IF i = 0 THEN 1 ELSE Multiplier * f[i - 1]
  BY DEF Powers
<1>2. 0 \in 0 .. n /\ \A i \in 1 .. n : i \in 0 .. n /\ i # 0
  OBVIOUS
<1> QED
  BY <1>1, <1>2

(* There are such functions.                                               *)
LEMMA PowersExist == \A n \in Nat : \E f : Powers(f, n)
<1> DEFINE Bad == {n \in Nat : ~ \E f : Powers(f, n)}
<1> SUFFICES ASSUME Bad # {} PROVE FALSE
  OBVIOUS
<1>1. PICK n \in Bad : \A m \in Bad : n <= m
  BY Least
<1>2. n \in Nat
  OBVIOUS
<1>3. CASE n = 0
  <2> DEFINE h == [i \in 0 .. 0 |-> 1]
  <2>1. h = [i \in 0 .. 0 |-> IF i = 0 THEN 1 ELSE Multiplier * h[i - 1]]
    OBVIOUS
  <2>2. Powers(h, n)
    BY <1>3, <2>1 DEF Powers
  <2> QED
    BY <2>2
<1>4. CASE n # 0
  <2>1. n - 1 \in Nat /\ ~(n <= n - 1)
    BY <1>2, <1>4
  <2>2. PICK g : Powers(g, n - 1)
    BY <1>1, <2>1
  <2>3. g[0] = 1 /\ \A i \in 1 .. n - 1 : g[i] = Multiplier * g[i - 1]
    BY <2>1, <2>2, PowersUnfold
  <2>4. PICK last : last = Multiplier * g[n - 1]
    OBVIOUS
  <2> DEFINE h == [i \in 0 .. n |-> IF i = n THEN last ELSE g[i]]
  <2>5. ASSUME NEW i \in 0 .. n PROVE h[i] = IF i = 0 THEN 1 ELSE Multiplier * h[i - 1]
    <3>1. CASE i = n
      <4>1. i - 1 \in 0 .. n /\ i - 1 # n /\ i # 0
        BY <1>2, <1>4, <3>1
      <4>2. h[i - 1] = g[i - 1] /\ h[i] = last
        BY <3>1, <4>1
      <4> HIDE DEF h
      <4> QED
        BY <2>4, <3>1, <4>1, <4>2
    <3>2. CASE i # n
      <4>1. h[i] = g[i]
        BY <3>2
      <4>2. i # 0 => i \in 1 .. n - 1 /\ h[i - 1] = g[i - 1]
        BY <1>2, <3>2
      <4> HIDE DEF h
      <4> QED
        BY <2>3, <4>1, <4>2
    <3> QED
      BY <3>1, <3>2
  <2>6. h = [i \in 0 .. n |-> h[i]]
    OBVIOUS
  <2>7. Powers(h, n)
    <3> HIDE DEF h
    <3> QED
      BY <2>5, <2>6 DEF Powers
  <2> QED
    BY <2>7
<1> QED
  BY <1>3, <1>4

(* They agree with each other.                                             *)
LEMMA PowersAgree ==
  ASSUME NEW m \in Nat, NEW n \in Nat, NEW f, NEW g, Powers(f, m), Powers(g, n)
  PROVE  \A i \in Nat : i <= m /\ i <= n => f[i] = g[i]
<1> DEFINE Bad == {i \in Nat : i <= m /\ i <= n /\ f[i] # g[i]}
<1> SUFFICES ASSUME Bad # {} PROVE FALSE
  OBVIOUS
<1>1. PICK i \in Bad : \A j \in Bad : i <= j
  BY Least
<1>2. /\ f[0] = 1 /\ \A j \in 1 .. m : f[j] = Multiplier * f[j - 1]
      /\ g[0] = 1 /\ \A j \in 1 .. n : g[j] = Multiplier * g[j - 1]
  BY PowersUnfold
<1>3. i \in Nat /\ i <= m /\ i <= n /\ f[i] # g[i]
  OBVIOUS
<1>4. i # 0
  BY <1>2, <1>3
<1>5. i - 1 \in Nat /\ i - 1 <= m /\ i - 1 <= n /\ ~(i <= i - 1) /\ i \in 1 .. m /\ i \in 1 .. n
  BY <1>3, <1>4
<1>6. f[i - 1] = g[i - 1]
  BY <1>1, <1>5
<1>7. f[i] = Multiplier * f[i - 1] /\ g[i] = Multiplier * g[i - 1]
  BY <1>2, <1>5
<1> HIDE DEF Bad
<1> QED
  BY <1>3, <1>6, <1>7

(* Growth is the function its definition describes.                        *)
LEMMA GrowthUnfolds == \A n \in Nat : Growth[n] = IF n = 0 THEN 1 ELSE Multiplier * Growth[n - 1]
<1> DEFINE P(n) == CHOOSE f : Powers(f, n)
           h == [n \in Nat |-> P(n)[n]]
<1>1. ASSUME NEW n \in Nat PROVE Powers(P(n), n)
  BY PowersExist
<1>2. ASSUME NEW n \in Nat PROVE h[n] = IF n = 0 THEN 1 ELSE Multiplier * h[n - 1]
  <2>1. h[n] = P(n)[n]
    OBVIOUS
  <2>2. P(n)[0] = 1 /\ \A i \in 1 .. n : P(n)[i] = Multiplier * P(n)[i - 1]
    <3> HIDE DEF P
    <3> QED
      BY <1>1, PowersUnfold
  <2>3. CASE n = 0
    <3> HIDE DEF P, h
    <3> QED
      BY <2>1, <2>2, <2>3
  <2>4. CASE n # 0
    <3>1. n - 1 \in Nat /\ n - 1 <= n - 1 /\ n - 1 <= n /\ n \in 1 .. n
      BY <2>4
    <3>2. h[n - 1] = P(n - 1)[n - 1]
      BY <3>1
    <3> HIDE DEF P, h
    <3>3. P(n)[n - 1] = P(n - 1)[n - 1]
      <4>1. Powers(P(n), n) /\ Powers(P(n - 1), n - 1)
        BY <1>1, <3>1
      <4>2. PICK f, g : f = P(n) /\ g = P(n - 1)
        OBVIOUS
      <4>3. f[n - 1] = g[n - 1]
        BY <3>1, <4>1, <4>2, PowersAgree
      <4> QED
        BY <4>2, <4>3
    <3> QED
      BY <2>1, <2>2, <2>4, <3>1, <3>2, <3>3
  <2> QED
    BY <2>3, <2>4
<1>3. h = [n \in Nat |-> h[n]]
  OBVIOUS
<1>4. h = [n \in Nat |-> IF n = 0 THEN 1 ELSE Multiplier * h[n - 1]]
  <2> HIDE DEF h
  <2> QED
    BY <1>2, <1>3
<1>5. Growth = [n \in Nat |-> IF n = 0 THEN 1 ELSE Multiplier * Growth[n - 1]]
  <2> HIDE DEF h
  <2>1. \E g : g = [n \in Nat |-> IF n = 0 THEN 1 ELSE Multiplier * g[n - 1]]
    BY <1>4
  <2> QED
    BY <2>1 DEF Growth
<1> QED
  BY <1>5

(* Powers of the multiplier neither vanish nor shrink.                     *)
LEMMA Grows == \A n \in Nat : Growth[n] \in Nat \ {0} /\ Growth[n] <= Growth[n + 1]
<1>1. Multiplier \in Nat \ {0}
  BY PolicyAssumption
<1>2. ASSUME NEW n \in Nat, Growth[n] \in Nat \ {0}
      PROVE  Growth[n + 1] \in Nat \ {0} /\ Growth[n] <= Growth[n + 1]
  <2>1. n + 1 \in Nat /\ n + 1 # 0 /\ n + 1 - 1 = n
    OBVIOUS
  <2>2. Growth[n + 1] = Multiplier * Growth[n]
    BY <2>1, GrowthUnfolds
  <2>3. PICK p \in Nat \ {0} : p = Growth[n]
    BY <1>2
  <2>4. Multiplier * p = p + (Multiplier - 1) * p /\ (Multiplier - 1) * p \in Nat
    BY <1>1
  <2> QED
    BY <2>2, <2>3, <2>4
<1>3. \A n \in Nat : Growth[n] \in Nat \ {0}
  <2> DEFINE Bad == {n \in Nat : Growth[n] \notin Nat \ {0}}
  <2> SUFFICES ASSUME Bad # {} PROVE FALSE
    OBVIOUS
  <2>1. PICK n \in Bad : \A m \in Bad : n <= m
    BY Least
  <2>2. n # 0
    BY GrowthUnfolds
  <2>3. n - 1 \in Nat /\ ~(n <= n - 1) /\ n - 1 + 1 = n
    BY <2>2
  <2>4. Growth[n - 1] \in Nat \ {0}
    BY <2>1, <2>3
  <2>5. Growth[n - 1 + 1] \in Nat \ {0}
    BY <1>2, <2>3, <2>4
  <2> QED
    BY <2>3, <2>5
<1> QED
  BY <1>2, <1>3

(* The policy's delays stay between its bounds and never shrink.           *)
LEMMA BackoffGrows ==
  ASSUME NEW n \in Nat \ {0}
  PROVE  /\ InitialBackoff <= Backoff(n) /\ Backoff(n) <= MaxBackoff
         /\ Backoff(n) <= Backoff(n + 1)
<1> USE PolicyAssumption
<1>1. ASSUME NEW a \in Nat, NEW b \in Nat
      PROVE  /\ Min({a, b}) \in {a, b} /\ Min({a, b}) <= a /\ Min({a, b}) <= b
  BY DEF Min
<1>2. /\ Growth[n - 1] \in Nat \ {0} /\ Growth[n] \in Nat \ {0}
      /\ Growth[n - 1] <= Growth[n]
  <2>1. n - 1 \in Nat /\ n - 1 + 1 = n
    OBVIOUS
  <2> QED
    BY <2>1, Grows
<1>3. ASSUME NEW b \in Nat \ {0}, NEW p \in Nat \ {0}, NEW q \in Nat \ {0}, p <= q
      PROVE  b * p \in Nat /\ b * q \in Nat /\ b <= b * p /\ b * p <= b * q
  <2>1. b * p \in Nat /\ b * q \in Nat /\ b * (p - 1) \in Nat /\ b * (q - p) \in Nat
    BY <1>3
  <2>2. b * p = b + b * (p - 1) /\ b * q = b * p + b * (q - p)
    BY <1>3
  <2> QED
    BY <2>1, <2>2
<1> DEFINE now == InitialBackoff * Growth[n - 1]
           then == InitialBackoff * Growth[n]
<1>4. now \in Nat /\ then \in Nat /\ InitialBackoff <= now /\ now <= then
  BY <1>2, <1>3
<1>5. Backoff(n) = Min({now, MaxBackoff}) /\ Backoff(n + 1) = Min({then, MaxBackoff})
  BY DEF Backoff
<1> HIDE DEF now, then
<1> QED
  BY <1>1, <1>4, <1>5

(* What the metrics say of retries is what happened: one is counted for    *)
(* each try after the first, "retry_exhausted" means that all were spent,  *)
(* and the delays grow within the policy's bounds.                         *)
THEOREM RetriesMeasured == Spec => []RetriesMeasuredAsMade
<1>1. IndInv => RetriesMeasuredAsMade
  <2> SUFFICES ASSUME IndInv PROVE RetriesMeasuredAsMade
    OBVIOUS
  <2>1. step \in Finals \ {"left"} => Len(waits) = IF attempt = 0 THEN 0 ELSE attempt - 1
    BY DEF IndInv, Typed, Tries, Finals
  <2>2. reason = "retry_exhausted" => attempt = MaxAttempts
    BY DEF IndInv, Reasons
  <2>3. ASSUME NEW i \in DOMAIN waits
        PROVE  /\ InitialBackoff <= waits[i] /\ waits[i] <= MaxBackoff
               /\ i > 1 => waits[i - 1] <= waits[i]
    <3>1. i \in 1 .. Len(waits) /\ Len(waits) \in Nat /\ DOMAIN waits = 1 .. Len(waits)
      BY LenProperties DEF IndInv, Typed
    <3>2. waits[i] = Backoff(i) /\ (i > 1 => waits[i - 1] = Backoff(i - 1))
      BY <3>1 DEF IndInv, Delays
    <3>3. i > 1 => Backoff(i - 1) <= Backoff(i)
      <4> SUFFICES ASSUME i > 1 PROVE Backoff(i - 1) <= Backoff(i)
        OBVIOUS
      <4>1. i - 1 \in Nat \ {0} /\ (i - 1) + 1 = i
        BY <3>1
      <4> QED
        BY <4>1, BackoffGrows
    <3>4. i \in Nat \ {0}
      BY <3>1
    <3>5. InitialBackoff <= Backoff(i) /\ Backoff(i) <= MaxBackoff
      BY <3>4, BackoffGrows
    <3> QED
      BY <3>2, <3>3, <3>5
  <2> QED
    BY <2>1, <2>2, <2>3 DEF RetriesMeasuredAsMade
<1> QED
  BY <1>1, IndInvHolds, PTL
=============================================================================
