------------------------ MODULE OffsetTrackerProofs ------------------------
(***************************************************************************)
(* Theorems about OffsetTracker for any number of processes, any log and   *)
(* any number of rebalances and crashes.  The argument of the main one:    *)
(* a commit is sent and queued only for a popped offset, which is          *)
(* finished; everything below it is finished or was tracked before it      *)
(* (TrackedBacked), hence popped with it or earlier.  A rebalance restarts *)
(* the reader at a committed offset, so nothing is skipped (PositionBacked)*)
(***************************************************************************)
EXTENDS OffsetTracker, SequenceTheorems, TLAPS

-----------------------------------------------------------------------------
(* Dropping the first k elements of a sequence shifts the others (the      *)
(* reslicing p.inFlight[1:] in markDone).                                  *)
LEMMA DroppedProperties ==
  ASSUME NEW S, NEW s \in Seq(S), NEW k \in 0 .. Len(s)
  PROVE  /\ Dropped(s, k) \in Seq(S)
         /\ Len(Dropped(s, k)) = Len(s) - k
         /\ \A i \in 1 .. Len(s) - k : Dropped(s, k)[i] = s[k + i]
<1>1. /\ k + 1 \in Int
      /\ Len(s) \in Int
      /\ \A i \in k + 1 .. Len(s) : s[i] \in S
  OBVIOUS
<1>2. /\ SubSeq(s, k + 1, Len(s)) \in Seq(S)
      /\ Len(SubSeq(s, k + 1, Len(s))) =
           IF k + 1 <= Len(s) THEN Len(s) - (k + 1) + 1 ELSE 0
      /\ \A i \in 1 .. Len(s) - (k + 1) + 1 :
           SubSeq(s, k + 1, Len(s))[i] = s[k + 1 + i - 1]
  BY <1>1, SubSeqProperties
<1>3. \A i \in Int : k + 1 + i - 1 = k + i
  OBVIOUS
<1> QED BY <1>1, <1>2, <1>3 DEF Dropped

(* Type correctness of every reachable state of OffsetTracker.             *)
THEOREM TypeCorrect == Spec => []TypeOK
<1>1. Init => TypeOK
  BY ConstantsAssumption DEF Init, TypeOK, Offsets, Commits
<1>2. TypeOK /\ [Next]_vars => TypeOK'
  <2> SUFFICES ASSUME TypeOK, [Next]_vars PROVE TypeOK'
    OBVIOUS
  <2> USE ConstantsAssumption
  <2>1. ASSUME NEW c \in Consumers, Fetch(c) PROVE TypeOK'
    <3>1. position \in Offsets
      BY <2>1 DEF Fetch, TypeOK, Offsets
    <3>2. inFlight' \in [Consumers -> Seq(Offsets)]
      <4>1. Append(inFlight[c], position) \in Seq(Offsets)
        BY <3>1, AppendProperties DEF TypeOK
      <4> QED BY <4>1, <2>1 DEF Fetch, TypeOK
    <3>3. handling' \in [Consumers -> [Offsets -> Nat]]
      BY <3>1, <2>1 DEF Fetch, TypeOK
    <3>4. overlapped' \in [Consumers -> BOOLEAN]
      BY <2>1 DEF Fetch, TypeOK
    <3>5. position' \in 0 .. LogLen
      BY <2>1 DEF Fetch, TypeOK
    <3> QED BY <2>1, <3>2, <3>3, <3>4, <3>5 DEF Fetch, TypeOK, commitVars
  <2>2. ASSUME NEW c \in Consumers, Flush(c) PROVE TypeOK'
    BY <2>2 DEF Flush, TypeOK, trackerVars
  <2>3. ASSUME NEW c \in Consumers, Assign(c) PROVE TypeOK'
    BY <2>3 DEF Assign, TypeOK, trackerVars, commitVars
  <2>4. ASSUME NEW c \in Consumers, Crash(c) PROVE TypeOK'
    <3>1. /\ <<>> \in Seq(Offsets) /\ [o \in Offsets |-> 0] \in [Offsets -> Nat]
          /\ [n \in Commits |-> 0] \in [Commits -> Nat]
      OBVIOUS
    <3>2. generation' \in 0 .. MaxGeneration /\ owner' \in Consumers \cup {NoOwner}
      BY <2>4 DEF Crash, TypeOK
    <3> QED BY <2>4, <3>1, <3>2 DEF Crash, TypeOK
  <2>5. ASSUME NEW c \in Consumers, NEW o \in Offsets, Finish(c, o) PROVE TypeOK'
    <3>1. PICK k \in 0 .. Len(inFlight[c]) :
            /\ inFlight' = [inFlight EXCEPT ![c] = Dropped(@, k)]
            /\ done' = [done EXCEPT ![c] =
                          (@ \cup {o}) \ {inFlight[c][i] : i \in 1 .. k}]
            /\ IF k = 0 THEN UNCHANGED sending
               ELSE sending' = [sending EXCEPT ![c][inFlight[c][k] + 1] = @ + 1]
      BY <2>5 DEF Finish
    <3>2. inFlight' \in [Consumers -> Seq(Offsets)]
      BY <3>1, DroppedProperties DEF TypeOK
    <3>3. done' \in [Consumers -> SUBSET Offsets]
      BY <3>1 DEF TypeOK
    <3>4. sending' \in [Consumers -> [Commits -> Nat]]
      <4>1. CASE k = 0
        BY <4>1, <3>1 DEF TypeOK
      <4>2. CASE k # 0
        <5>1. inFlight[c][k] \in 0 .. LogLen - 1
          BY <4>2, ElementOfSeq DEF TypeOK, Offsets
        <5> DEFINE n == inFlight[c][k] + 1
        <5>2. sending' = [sending EXCEPT ![c][n] = @ + 1]
          BY <4>2, <3>1
        <5>3. n \in Commits
          BY <5>1 DEF Commits
        <5> HIDE DEF n
        <5> QED BY <5>2, <5>3 DEF TypeOK
      <4> QED BY <4>1, <4>2
    <3>5. handling' \in [Consumers -> [Offsets -> Nat]]
      <4>1. handling[c][o] - 1 \in Nat
        BY <2>5 DEF Finish, TypeOK
      <4> QED BY <4>1, <2>5 DEF Finish, TypeOK
    <3> QED BY <2>5, <3>2, <3>3, <3>4, <3>5 DEF Finish, TypeOK
  <2>6. CASE Revoke
    <3>1. queued' \in [Consumers -> 0 .. LogLen]
      BY <2>6 DEF Revoke, TypeOK
    <3> QED BY <2>6, <3>1 DEF Revoke, TypeOK, trackerVars
  <2>7. ASSUME NEW c \in Consumers, NEW n \in Commits, Send(c, n) PROVE TypeOK'
    <3>1. sending[c][n] - 1 \in Nat /\ n \in 0 .. LogLen
      BY <2>7 DEF Send, TypeOK, Commits
    <3>2. sending' \in [Consumers -> [Commits -> Nat]]
      BY <2>7, <3>1 DEF Send, TypeOK
    <3>3. queued' \in [Consumers -> 0 .. LogLen]
      BY <2>7, <3>1 DEF Send, TypeOK
    <3> QED BY <2>7, <3>2, <3>3 DEF Send, TypeOK, trackerVars, brokerVars
  <2>8. CASE UNCHANGED vars
    BY <2>8 DEF vars, TypeOK
  <2> QED BY <2>1, <2>2, <2>3, <2>4, <2>5, <2>6, <2>7, <2>8 DEF Next
<1> QED BY <1>1, <1>2, PTL DEF Spec

-----------------------------------------------------------------------------
(* Popping finished offsets off the front of a tracker's queue keeps it    *)
(* backed: a position's predecessors are finished or still before it       *)
(* (the loop of markDone).                                                 *)
LEMMA PoppingKeepsBacked ==
  ASSUME NEW s \in Seq(Offsets), NEW F, NEW k \in 0 .. Len(s),
         \A i \in 1 .. k : s[i] \in F,
         NEW b \in Nat, NEW n \in k .. Len(s), Backed(F, s, n, b)
  PROVE  Backed(F, Dropped(s, k), n - k, b)
<1> SUFFICES ASSUME NEW o \in Offsets, o < b, o \notin F
             PROVE  \E j \in 1 .. n - k : Dropped(s, k)[j] = o
  BY DEF Backed
<1>1. PICK j \in 1 .. n : s[j] = o
  BY DEF Backed
<1>2. j \notin 1 .. k
  BY <1>1
<1>3. /\ j - k \in 1 .. n - k
      /\ j - k \in 1 .. Len(s) - k
      /\ k + (j - k) = j
  BY <1>2
<1>4. Dropped(s, k)[j - k] = s[j]
  BY <1>3, DroppedProperties
<1> QED BY <1>1, <1>3, <1>4

(* A queue is backed by more finished messages and by the same prefix.     *)
LEMMA BackedIsMonotonic ==
  ASSUME NEW s, NEW t, NEW F, NEW G, NEW n \in Nat, NEW b,
         F \subseteq G, \A j \in 1 .. n : t[j] = s[j], Backed(F, s, n, b)
  PROVE  Backed(G, t, n, b)
BY DEF Backed

\* The inductive invariant: NeverAhead strengthened with where the next
\* commit, fetch and assignment get their offsets from.
IndInv == TypeOK /\ NeverAhead /\ CommitBacked

(* Nothing below a commit is unfinished when a worker is left to send it:  *)
(* the last popped offset and everything before it are finished.           *)
LEMMA PoppedIsBacked ==
  ASSUME NEW s \in Seq(Offsets), NEW F, NEW k \in 1 .. Len(s),
         \A i \in 1 .. k : s[i] \in F,
         Backed(F, s, k - 1, s[k])
  PROVE  \A o \in Offsets : o < s[k] + 1 => o \in F
<1>1. s[k] \in Offsets
  BY ElementOfSeq
<1>2. \A o \in Offsets : o < s[k] + 1 => o < s[k] \/ o = s[k]
  BY <1>1, ConstantsAssumption DEF Offsets
<1>3. \A j \in 1 .. k - 1 : j \in 1 .. k
  OBVIOUS
<1> QED BY <1>2, <1>3 DEF Backed

(* Done of any delivery keeps every part of CommitBacked (markDone, and    *)
(* the commit its worker is left to send).                                 *)
LEMMA FinishKeepsBacked ==
  ASSUME IndInv, TypeOK', NEW c \in Consumers, NEW o \in Offsets, Finish(c, o)
  PROVE  CommitBacked'
<1> USE ConstantsAssumption DEF IndInv, CommitBacked
<1>1. PICK k \in 0 .. Len(inFlight[c]) :
        /\ PopsExactly(inFlight[c], done[c] \cup {o}, k)
        /\ inFlight' = [inFlight EXCEPT ![c] = Dropped(@, k)]
        /\ done' = [done EXCEPT ![c] =
                      (@ \cup {o}) \ {inFlight[c][i] : i \in 1 .. k}]
        /\ IF k = 0 THEN UNCHANGED sending
           ELSE sending' = [sending EXCEPT ![c][inFlight[c][k] + 1] = @ + 1]
  BY DEF Finish
<1>2. /\ finished' = finished \cup {o}
      /\ owner' = owner
      /\ position' = position
      /\ queued' = queued
  BY DEF Finish
<1>3. inFlight[c] \in Seq(Offsets)
  BY DEF TypeOK
<1>4. \A i \in 1 .. k : inFlight[c][i] \in finished'
  BY <1>1, <1>2 DEF PopsExactly, Poppable, DoneFinished
<1>5. inFlight'[c] = Dropped(inFlight[c], k)
  BY <1>1 DEF TypeOK
<1>6. \A d \in Consumers : d # c => inFlight'[d] = inFlight[d]
  BY <1>1 DEF TypeOK
<1>k. k \in 0 .. Len(inFlight[c])
  OBVIOUS
<1>d. /\ Len(Dropped(inFlight[c], k)) = Len(inFlight[c]) - k
      /\ \A i \in 1 .. Len(inFlight[c]) - k : Dropped(inFlight[c], k)[i] = inFlight[c][k + i]
  BY ONLY <1>3, <1>k, DroppedProperties
<1>b. \A b \in Nat, n \in k .. Len(inFlight[c]) :
        Backed(finished, inFlight[c], n, b) =>
          Backed(finished', Dropped(inFlight[c], k), n - k, b)
  <2> TAKE b \in Nat, n \in k .. Len(inFlight[c])
  <2> HAVE Backed(finished, inFlight[c], n, b)
  <2>1. n \in Nat /\ finished \subseteq finished'
    BY <1>2
  <2>2. Backed(finished', inFlight[c], n, b)
    BY <2>1, BackedIsMonotonic
  <2> QED BY <2>2, <1>3, <1>4, <1>k, PoppingKeepsBacked
<1>7. DoneFinished'
  BY <1>1, <1>2 DEF DoneFinished, TypeOK
<1>q. QueueBacked'
  BY <1>2 DEF QueueBacked
<1>8. SendingBacked'
  <2>1. CASE k = 0
    BY <2>1, <1>1, <1>2 DEF SendingBacked
  <2>2. CASE k # 0
    <3>1. k \in 1 .. Len(inFlight[c])
      BY <2>2, <1>1
    <3>2. Backed(finished', inFlight[c], k - 1, inFlight[c][k])
      <4>1. k - 1 \in Nat /\ finished \subseteq finished'
        BY <3>1, <1>2
      <4>2. Backed(finished, inFlight[c], k - 1, inFlight[c][k])
        BY <3>1 DEF TrackedBacked
      <4> QED BY <4>1, <4>2, BackedIsMonotonic
    <3> DEFINE n == inFlight[c][k] + 1
    <3>3. \A p \in Offsets : p < n => p \in finished'
      BY <3>1, <3>2, <1>3, <1>4, PoppedIsBacked
    <3>4. sending' = [sending EXCEPT ![c][n] = @ + 1]
      BY <2>2, <1>1
    <3> HIDE DEF n
    <3>5. \A d \in Consumers, m \in Commits :
            sending'[d][m] > 0 => sending[d][m] > 0 \/ m = n
      BY <3>4 DEF TypeOK
    <3> QED BY <3>3, <3>5, <1>2 DEF SendingBacked
  <2> QED BY <2>1, <2>2
<1>9. TrackedBacked'
  <2> SUFFICES ASSUME NEW d \in Consumers, NEW i \in 1 .. Len(inFlight'[d])
               PROVE  Backed(finished', inFlight'[d], i - 1, inFlight'[d][i])
    BY DEF TrackedBacked
  <2>1. CASE d # c
    <3>1. /\ i - 1 \in Nat
          /\ inFlight'[d] = inFlight[d]
          /\ finished \subseteq finished'
          /\ Len(inFlight[d]) \in Nat
      BY <2>1, <1>2, <1>6 DEF TypeOK
    <3>2. Backed(finished, inFlight[d], i - 1, inFlight[d][i])
      BY <3>1 DEF TrackedBacked
    <3> QED BY <3>1, <3>2, BackedIsMonotonic
  <2>2. CASE d = c
    <3>1. i \in 1 .. Len(inFlight[c]) - k /\ inFlight'[c][i] = inFlight[c][k + i]
      BY <2>2, <1>5, <1>d
    <3>2. /\ k + i \in 1 .. Len(inFlight[c])
          /\ k + i - 1 \in k .. Len(inFlight[c])
          /\ (k + i - 1) - k = i - 1
      BY <3>1, <1>1
    <3>3. inFlight[c][k + i] \in Nat
      BY <3>2, <1>3, ElementOfSeq DEF Offsets
    <3>4. Backed(finished, inFlight[c], k + i - 1, inFlight[c][k + i])
      BY <3>2 DEF TrackedBacked
    <3>5. Backed(finished', Dropped(inFlight[c], k), (k + i - 1) - k, inFlight[c][k + i])
      BY <3>2, <3>3, <3>4, <1>b
    <3> QED BY <3>1, <3>2, <3>5, <2>2, <1>5
  <2> QED BY <2>1, <2>2
<1>10. PositionBacked'
  <2> SUFFICES ASSUME NEW d \in Consumers, owner = d
               PROVE  Backed(finished', inFlight'[d], Len(inFlight'[d]), position)
    BY <1>2 DEF PositionBacked
  <2>0. Backed(finished, inFlight[d], Len(inFlight[d]), position)
    BY DEF PositionBacked
  <2>1. CASE d # c
    <3>1. Len(inFlight[d]) \in Nat /\ finished \subseteq finished'
      BY <1>2 DEF TypeOK
    <3> QED BY <3>1, <2>0, <2>1, <1>6, BackedIsMonotonic
  <2>2. CASE d = c
    <3>1. position \in Nat /\ Len(inFlight[c]) \in k .. Len(inFlight[c])
      BY <1>1, <1>3 DEF TypeOK
    <3>2. Backed(finished', Dropped(inFlight[c], k), Len(inFlight[c]) - k, position)
      BY <3>1, <2>0, <2>2, <1>b
    <3> QED BY <3>2, <2>2, <1>5, <1>d
  <2> QED BY <2>1, <2>2
<1> QED BY <1>7, <1>8, <1>q, <1>9, <1>10

(* CommitMessages queues a commit below which everything is finished.      *)
LEMMA SendKeepsBacked ==
  ASSUME IndInv, NEW c \in Consumers, NEW n \in Commits, Send(c, n)
  PROVE  CommitBacked'
<1> USE DEF IndInv, CommitBacked
<1>1. /\ sending' = [sending EXCEPT ![c][n] = @ - 1]
      /\ queued' = [queued EXCEPT ![c] = IF n > @ THEN n ELSE @]
      /\ UNCHANGED <<inFlight, done, owner, position, finished>>
  BY DEF Send, trackerVars, brokerVars
<1>2. \A o \in Offsets : o < n => o \in finished
  BY DEF Send, SendingBacked
<1>3. \A d \in Consumers : queued'[d] \in {queued[d], n}
  BY <1>1 DEF TypeOK
<1>4. QueueBacked'
  BY <1>1, <1>2, <1>3 DEF QueueBacked
<1>5. \A d \in Consumers, m \in Commits : sending'[d][m] > 0 => sending[d][m] > 0
  BY <1>1 DEF TypeOK
<1>6. SendingBacked'
  BY <1>1, <1>5 DEF SendingBacked
<1>7. DoneFinished' /\ TrackedBacked' /\ PositionBacked'
  BY <1>1 DEF DoneFinished, TrackedBacked, PositionBacked
<1> QED BY <1>4, <1>6, <1>7

(* A fetch appends exactly the position up to which the log is backed      *)
(* (Consumer.Run and track).                                               *)
LEMMA FetchKeepsBacked ==
  ASSUME IndInv, NEW c \in Consumers, Fetch(c)
  PROVE  CommitBacked'
<1> USE ConstantsAssumption DEF IndInv, CommitBacked
<1>1. /\ owner = c /\ owner' = owner
      /\ done' = done /\ queued' = queued /\ sending' = sending
      /\ finished' = finished
      /\ position' = position + 1
      /\ inFlight' = [inFlight EXCEPT ![c] = Append(@, position)]
  BY DEF Fetch, commitVars
<1>2. position \in Offsets /\ inFlight[c] \in Seq(Offsets)
  BY DEF Fetch, TypeOK, Offsets
<1> DEFINE s == inFlight[c]
<1>3. /\ Len(inFlight'[c]) = Len(s) + 1
      /\ \A i \in 1 .. Len(s) : inFlight'[c][i] = s[i]
      /\ inFlight'[c][Len(s) + 1] = position
  BY <1>1, <1>2, AppendProperties DEF TypeOK
<1>4. \A d \in Consumers : d # c => inFlight'[d] = inFlight[d]
  BY <1>1 DEF TypeOK
<1>5. Len(s) \in Nat
  BY <1>2
<1>6. Backed(finished, s, Len(s), position)
  BY <1>1 DEF PositionBacked
<1>7. TrackedBacked'
  <2> SUFFICES ASSUME NEW d \in Consumers, NEW i \in 1 .. Len(inFlight'[d])
               PROVE  Backed(finished, inFlight'[d], i - 1, inFlight'[d][i])
    BY <1>1 DEF TrackedBacked
  <2>1. CASE d # c
    BY <2>1, <1>4 DEF TrackedBacked
  <2>2. CASE d = c /\ i \in 1 .. Len(s)
    <3>1. Backed(finished, s, i - 1, s[i])
      BY <2>2 DEF TrackedBacked
    <3>2. /\ i - 1 \in Nat
          /\ \A j \in 1 .. i - 1 : inFlight'[c][j] = s[j]
      BY <2>2, <1>3, <1>5
    <3> QED BY <3>1, <3>2, <2>2, <1>3, BackedIsMonotonic
  <2>3. CASE d = c /\ i = Len(s) + 1
    <3>1. i - 1 = Len(s) /\ inFlight'[d][i] = position
      BY <2>3, <1>3, <1>5
    <3>2. Backed(finished, inFlight'[c], Len(s), position)
      <4>1. finished \subseteq finished /\ \A j \in 1 .. Len(s) : inFlight'[c][j] = s[j]
        BY <1>3
      <4> HIDE DEF s, IndInv, CommitBacked
      <4> QED BY ONLY <4>1, <1>5, <1>6, BackedIsMonotonic
    <3> QED BY <3>1, <3>2, <2>3
  <2>4. d = c => i \in 1 .. Len(s) \/ i = Len(s) + 1
    BY <1>3, <1>5
  <2> QED BY <2>1, <2>2, <2>3, <2>4
<1>8. PositionBacked'
  <2> SUFFICES ASSUME NEW o \in Offsets, o < position + 1
               PROVE  o \in finished \/ \E j \in 1 .. Len(s) + 1 : inFlight'[c][j] = o
    BY <1>1, <1>3 DEF PositionBacked, Backed
  <2>1. CASE o = position
    BY <2>1, <1>3, <1>5
  <2>2. CASE o # position
    <3>1. o < position
      BY <2>2, <1>2 DEF Offsets
    <3>2. o \in finished \/ \E j \in 1 .. Len(s) : s[j] = o
      BY <3>1, <1>6 DEF Backed
    <3> QED BY <3>2, <1>3, <1>5
  <2> QED BY <2>1, <2>2
<1> QED BY <1>1, <1>7, <1>8 DEF DoneFinished, SendingBacked, QueueBacked

(* The strengthened invariant is inductive.                                *)
LEMMA IndInvHolds == Spec => []IndInv
<1> USE ConstantsAssumption
<1>1. Init => IndInv
  <2> SUFFICES ASSUME Init PROVE IndInv
    OBVIOUS
  <2>1. TypeOK
    BY DEF Init, TypeOK, Offsets
  <2>2. NeverAhead /\ DoneFinished /\ SendingBacked /\ QueueBacked
    BY DEF Init, NeverAhead, DoneFinished, SendingBacked, QueueBacked, Offsets
  <2>3. TrackedBacked
    BY DEF Init, TrackedBacked
  <2>4. PositionBacked
    BY DEF Init, PositionBacked, Backed
  <2> QED BY <2>1, <2>2, <2>3, <2>4 DEF IndInv, CommitBacked
<1>2. IndInv /\ TypeOK' /\ [Next]_vars => IndInv'
  <2> SUFFICES ASSUME IndInv, TypeOK', [Next]_vars PROVE NeverAhead' /\ CommitBacked'
    BY DEF IndInv
  <2> USE DEF IndInv
  <2>1. ASSUME NEW c \in Consumers, Fetch(c) PROVE NeverAhead' /\ CommitBacked'
    BY <2>1, FetchKeepsBacked DEF Fetch, NeverAhead
  <2>2. ASSUME NEW c \in Consumers, NEW o \in Offsets, Finish(c, o)
        PROVE NeverAhead' /\ CommitBacked'
    BY <2>2, FinishKeepsBacked DEF Finish, NeverAhead
  <2>3. ASSUME NEW c \in Consumers, Flush(c) PROVE NeverAhead' /\ CommitBacked'
    <3> USE <2>3 DEF Flush, CommitBacked, trackerVars
    <3>1. NeverAhead'
      BY DEF NeverAhead, QueueBacked
    <3>2. QueueBacked'
      BY DEF QueueBacked, TypeOK, Offsets
    <3>3. DoneFinished' /\ SendingBacked' /\ TrackedBacked' /\ PositionBacked'
      BY DEF DoneFinished, SendingBacked, TrackedBacked, PositionBacked
    <3> QED BY <3>1, <3>2, <3>3
  <2>4. ASSUME NEW c \in Consumers, Assign(c) PROVE NeverAhead' /\ CommitBacked'
    <3> USE <2>4 DEF Assign, CommitBacked, trackerVars, commitVars
    <3>1. PositionBacked'
      BY DEF PositionBacked, NeverAhead, Backed
    <3>2. NeverAhead' /\ SendingBacked' /\ QueueBacked'
      BY DEF NeverAhead, SendingBacked, QueueBacked
    <3>3. DoneFinished' /\ TrackedBacked'
      BY DEF DoneFinished, TrackedBacked
    <3> QED BY <3>1, <3>2, <3>3
  <2>5. ASSUME NEW c \in Consumers, Crash(c) PROVE NeverAhead' /\ CommitBacked'
    <3> USE <2>5 DEF Crash, CommitBacked
    <3>1. NeverAhead' /\ DoneFinished'
      BY DEF NeverAhead, DoneFinished, TypeOK
    <3>2. QueueBacked'
      BY DEF QueueBacked, TypeOK, Offsets
    <3>s. SendingBacked'
      <4>1. \A d \in Consumers, n \in Commits : sending'[d][n] > 0 => sending[d][n] > 0
        BY DEF TypeOK
      <4> QED BY <4>1 DEF SendingBacked
    <3>3. /\ \A d \in Consumers : d # c => inFlight'[d] = inFlight[d]
          /\ inFlight'[c] = <<>>
      BY DEF TypeOK
    <3>4. TrackedBacked'
      BY <3>3 DEF TrackedBacked
    <3>5. PositionBacked'
      BY <3>3 DEF PositionBacked
    <3> QED BY <3>1, <3>2, <3>s, <3>4, <3>5
  <2>6. CASE Revoke
    <3> USE <2>6 DEF Revoke, CommitBacked, trackerVars
    <3>1. NeverAhead' /\ DoneFinished' /\ SendingBacked' /\ TrackedBacked' /\ PositionBacked'
      BY DEF NeverAhead, DoneFinished, SendingBacked, TrackedBacked, PositionBacked
    <3>2. QueueBacked'
      BY DEF QueueBacked, TypeOK, Offsets
    <3> QED BY <3>1, <3>2
  <2>7. ASSUME NEW c \in Consumers, NEW n \in Commits, Send(c, n)
        PROVE NeverAhead' /\ CommitBacked'
    BY <2>7, SendKeepsBacked DEF Send, NeverAhead, brokerVars
  <2>8. CASE UNCHANGED vars
    BY <2>8 DEF vars, NeverAhead, CommitBacked, DoneFinished, SendingBacked, QueueBacked,
                TrackedBacked, PositionBacked
  <2> QED BY <2>1, <2>2, <2>3, <2>4, <2>5, <2>6, <2>7, <2>8 DEF Next
<1> QED BY <1>1, <1>2, TypeCorrect, PTL DEF Spec

(* No message is lost: an offset below the committed one was finished, for *)
(* any number of processes, rebalances, crashes and lost or late commits   *)
(* (Consumer comment, consumer.go:47-51).                                  *)
THEOREM CommitNeverAhead == Spec => []NeverAhead
BY IndInvHolds, PTL DEF IndInv

(* What a tracker, a commit on its way, a commit queue and a reader's      *)
(* position have passed over is always finished or still tracked before it *)
(* (track, markDone, CommitMessages).                                      *)
THEOREM CommitAlwaysBacked == Spec => []CommitBacked
BY IndInvHolds, PTL DEF IndInv

(* OffsetTracker implements CommitLog: each step finishes a message, moves *)
(* the committed offset over finished ones, or changes neither.            *)
THEOREM Refinement == Spec => ImplementsCommitLog
<1> USE ConstantsAssumption
<1>1. Init => Log!Init
  BY DEF Init, Log!Init
<1>2. IndInv /\ [Next]_vars => [Log!Next]_Log!vars
  <2> SUFFICES ASSUME IndInv, [Next]_vars PROVE [Log!Next]_Log!vars
    OBVIOUS
  <2>1. ASSUME NEW c \in Consumers, NEW o \in Offsets, Finish(c, o) PROVE Log!Next
    BY <2>1 DEF Finish, Log!Next, Log!Finish, Log!Offsets, Offsets
  <2>2. ASSUME NEW c \in Consumers, Flush(c) PROVE Log!Next
    <3>1. queued[c] \in 0 .. LogLen
      BY DEF IndInv, TypeOK
    <3>2. 0 .. queued[c] - 1 \subseteq finished
      BY <3>1 DEF IndInv, CommitBacked, QueueBacked, Offsets
    <3>3. Log!Commit(queued[c])
      BY <2>2, <3>2 DEF Flush, Log!Commit
    <3> QED BY <3>1, <3>3 DEF Log!Next
  <2>3. ASSUME NEW c \in Consumers, Fetch(c) \/ Assign(c) \/ Crash(c) PROVE UNCHANGED Log!vars
    BY <2>3 DEF Fetch, Assign, Crash, Log!vars
  <2>4. CASE Revoke
    BY <2>4 DEF Revoke, Log!vars
  <2>5. ASSUME NEW c \in Consumers, NEW n \in Commits, Send(c, n) PROVE UNCHANGED Log!vars
    BY <2>5 DEF Send, Log!vars, brokerVars
  <2>6. CASE UNCHANGED vars
    BY <2>6 DEF vars, Log!vars
  <2> QED BY <2>1, <2>2, <2>3, <2>4, <2>5, <2>6 DEF Next
<1> QED BY <1>1, <1>2, IndInvHolds, PTL DEF Spec, ImplementsCommitLog, Log!Spec

-----------------------------------------------------------------------------
(* A fetch of an offset that is not tracked keeps every tracked offset     *)
(* unique and accounted for (Consumer.Run and track).                      *)
LEMMA FetchKeepsTrackedOnce ==
  ASSUME TypeOK, NEW c \in Consumers, Fetch(c), ~overlapped'[c], TrackedOnce(c)
  PROVE  TrackedOnce(c)'
<1> USE ConstantsAssumption
<1>1. position \in Offsets /\ inFlight[c] \in Seq(Offsets) /\ Len(inFlight[c]) \in Nat
  BY DEF Fetch, TypeOK, Offsets
<1>2. \A i \in 1 .. Len(inFlight[c]) : inFlight[c][i] # position
  <2>1. overlapped'[c] = (overlapped[c] \/ position \in Tracked(c))
    BY Zenon DEF Fetch, TypeOK
  <2>2. position \notin Tracked(c)
    BY <2>1, Zenon
  <2>3. DOMAIN inFlight[c] = 1 .. Len(inFlight[c])
    BY <1>1
  <2> QED BY <2>2, <2>3, Zenon DEF Tracked
<1> DEFINE s == inFlight[c]
           t == inFlight'[c]
           h == handling[c]
           g == handling'[c]
<1>3. /\ Len(t) = Len(s) + 1
      /\ \A i \in 1 .. Len(s) : t[i] = s[i]
      /\ t[Len(s) + 1] = position
      /\ t # <<>>
  <2>1. t = Append(s, position)
    BY DEF TypeOK, Fetch
  <2> HIDE DEF s, t
  <2>2. s \in Seq(Offsets)
    BY <1>1 DEF s
  <2> QED BY ONLY <2>1, <2>2, <1>1, AppendProperties
<1>4. /\ done'[c] = done[c]
      /\ h \in [Offsets -> Nat]
      /\ g = [h EXCEPT ![position] = @ + 1]
  BY <1>1 DEF Fetch, TypeOK
<1>5. h[position] = 0
  BY <1>1, <1>2, <1>4 DEF TrackedOnce
<1>6. \A i \in 1 .. Len(t) : i \in 1 .. Len(s) \/ i = Len(s) + 1
  BY <1>1, <1>3
<1>7. s = <<>> <=> Len(s) = 0
  BY <1>1
<1>8. \A i \in 1 .. Len(s) : s[i] \in Offsets
  BY <1>1, ElementOfSeq
<1>s. /\ \A i, j \in 1 .. Len(s) : i # j => s[i] # s[j]
      /\ \A i \in 1 .. Len(s) : h[s[i]] = 0 => s[i] \in done[c]
      /\ \A o \in Offsets : h[o] > 0 =>
           h[o] = 1 /\ o \notin done[c] /\ \E i \in 1 .. Len(s) : s[i] = o
      /\ \A o \in done[c] : \E i \in 1 .. Len(s) : s[i] = o
      /\ s # <<>> => s[1] \notin done[c]
  BY DEF TrackedOnce
<1>l. \A i \in 1 .. Len(s) : i \in 1 .. Len(t)
  BY <1>1, <1>3
<1>e. Len(s) + 1 \in 1 .. Len(t)
  BY <1>1, <1>3
<1>p. position \notin done[c]
  BY <1>2, <1>s
<1>g. /\ g[position] = 1
      /\ \A o \in Offsets : o # position => g[o] = h[o]
  BY <1>1, <1>4, <1>5
<1> HIDE DEF s, t, h, g
<1>9. \A i, j \in 1 .. Len(t) : i # j => t[i] # t[j]
  BY <1>2, <1>3, <1>6, <1>s DEF s
<1>10. \A i \in 1 .. Len(t) : g[t[i]] = 0 => t[i] \in done[c]
  BY <1>3, <1>6, <1>8, <1>g, <1>s
<1>11. \A o \in Offsets : g[o] > 0 =>
         g[o] = 1 /\ o \notin done[c] /\ \E i \in 1 .. Len(t) : t[i] = o
  BY <1>3, <1>l, <1>e, <1>p, <1>g, <1>s
<1>12. \A o \in done[c] : \E i \in 1 .. Len(t) : t[i] = o
  BY <1>3, <1>l, <1>s
<1>13. t[1] \notin done[c]
  <2>1. CASE Len(s) = 0
    BY <2>1, <1>3, <1>p
  <2>2. CASE Len(s) # 0
    <3>1. 1 \in 1 .. Len(s)
      BY <2>2, <1>1 DEF s
    <3> QED BY <3>1, <2>2, <1>3, <1>7, <1>s
  <2> QED BY <2>1, <2>2
<1> QED BY <1>4, <1>9, <1>10, <1>11, <1>12, <1>13 DEF TrackedOnce, t, g

(* Done of a delivery keeps every tracked offset unique and accounted for, *)
(* and pops as far as it can (markDone).                                   *)
LEMMA FinishKeepsTrackedOnce ==
  ASSUME TypeOK, NEW c \in Consumers, NEW o \in Offsets, Finish(c, o), TrackedOnce(c)
  PROVE  TrackedOnce(c)'
<1> USE ConstantsAssumption
<1> DEFINE s == inFlight[c]
           t == inFlight'[c]
           h == handling[c]
           g == handling'[c]
           d == done[c]
           e == done'[c]
<1>1. PICK k \in 0 .. Len(s) :
        /\ PopsExactly(s, d \cup {o}, k)
        /\ inFlight' = [inFlight EXCEPT ![c] = Dropped(@, k)]
        /\ done' = [done EXCEPT ![c] = (@ \cup {o}) \ {s[i] : i \in 1 .. k}]
  BY DEF Finish
<1>2. s \in Seq(Offsets) /\ Len(s) \in Nat
  BY DEF TypeOK
<1>3. /\ t = Dropped(s, k)
      /\ e = (d \cup {o}) \ {s[i] : i \in 1 .. k}
  BY <1>1 DEF TypeOK
<1>4. /\ t \in Seq(Offsets)
      /\ Len(t) = Len(s) - k
      /\ \A i \in 1 .. Len(s) - k : t[i] = s[k + i]
  <2>1. k \in 0 .. Len(s) /\ t = Dropped(s, k)
    BY <1>3
  <2> HIDE DEF s, t
  <2> QED BY ONLY <1>2, <2>1, DroppedProperties
<1>5. /\ h \in [Offsets -> Nat]
      /\ h[o] > 0
      /\ g = [h EXCEPT ![o] = @ - 1]
  BY DEF Finish, TypeOK
<1>s. /\ \A i, j \in 1 .. Len(s) : i # j => s[i] # s[j]
      /\ \A i \in 1 .. Len(s) : h[s[i]] = 0 => s[i] \in d
      /\ \A p \in Offsets : h[p] > 0 =>
           h[p] = 1 /\ p \notin d /\ \E i \in 1 .. Len(s) : s[i] = p
      /\ \A p \in d : \E i \in 1 .. Len(s) : s[i] = p
  BY DEF TrackedOnce
<1>6. /\ g[o] = 0
      /\ \A p \in Offsets : p # o => g[p] = h[p]
  BY <1>5, <1>s
<1>7. \A i \in 1 .. Len(t) : k + i \in 1 .. Len(s) /\ k + i \notin 1 .. k
  BY <1>2, <1>4
<1>8. \A i \in 1 .. Len(s) : s[i] \in Offsets
  BY <1>2, ElementOfSeq
<1>9. \A i \in 1 .. Len(s) : i \in 1 .. k \/ (i - k \in 1 .. Len(t) /\ t[i - k] = s[i])
  BY <1>2, <1>4
<1>10. \A i \in 1 .. k : i \in 1 .. Len(s) /\ s[i] \in d \cup {o}
  BY <1>1, <1>2 DEF PopsExactly, Poppable
<1>11. \A p : p \in e <=> p \in d \cup {o} /\ \A i \in 1 .. k : s[i] # p
  BY <1>3
<1>m. k < Len(s) => ~Poppable(s, d \cup {o}, k + 1)
  BY <1>1 DEF PopsExactly
<1>f. \A i \in 1 .. Len(t) : t[i] = s[k + i]
  BY <1>4
<1>k. k \in Nat
  BY <1>2
<1> HIDE DEF s, t, h, g, d, e
<1>12. \A i, j \in 1 .. Len(t) : i # j => t[i] # t[j]
  <2> TAKE i, j \in 1 .. Len(t)
  <2> HAVE i # j
  <2>1. k + i # k + j
    BY <1>k
  <2> QED BY <2>1, <1>7, <1>f, <1>s
<1>13. \A i \in 1 .. Len(t) : g[t[i]] = 0 => t[i] \in e
  <2> TAKE i \in 1 .. Len(t)
  <2> HAVE g[t[i]] = 0
  <2>1. t[i] = s[k + i] /\ k + i \in 1 .. Len(s) /\ s[k + i] \in Offsets
    BY <1>7, <1>8, <1>f
  <2>2. \A j \in 1 .. k : s[j] # s[k + i]
    BY <2>1, <1>7, <1>10, <1>s
  <2>3. s[k + i] \in d \cup {o}
    BY <2>1, <1>6, <1>s
  <2> QED BY <2>1, <2>2, <2>3, <1>11
<1>14. \A p \in Offsets : g[p] > 0 =>
         g[p] = 1 /\ p \notin e /\ \E i \in 1 .. Len(t) : t[i] = p
  <2> TAKE p \in Offsets
  <2> HAVE g[p] > 0
  <2>1. p # o /\ g[p] = h[p]
    BY <1>6
  <2>2. h[p] = 1 /\ p \notin d /\ \E i \in 1 .. Len(s) : s[i] = p
    BY <2>1, <1>s
  <2>3. PICK i \in 1 .. Len(s) : s[i] = p
    BY <2>2
  <2>4. i \notin 1 .. k
    BY <2>1, <2>2, <2>3, <1>10
  <2> QED BY <2>1, <2>2, <2>3, <2>4, <1>9, <1>11
<1>15. \A p \in e : \E i \in 1 .. Len(t) : t[i] = p
  <2> TAKE p \in e
  <2>1. p \in d \cup {o} /\ \A i \in 1 .. k : s[i] # p
    BY <1>11
  <2>2. PICK i \in 1 .. Len(s) : s[i] = p
    BY <2>1, <1>5, <1>s
  <2> QED BY <2>1, <2>2, <1>9
<1>16. t # <<>> => t[1] \notin e
  <2> SUFFICES ASSUME t # <<>>, t[1] \in e PROVE FALSE
    OBVIOUS
  <2>1. 1 \in 1 .. Len(t)
    BY <1>4 DEF t
  <2>2. k < Len(s) /\ t[1] = s[k + 1]
    BY <2>1, <1>2, <1>4, <1>f
  <2>3. s[k + 1] \in d \cup {o}
    BY <2>2, <1>11
  <2>4. \A i \in 1 .. k + 1 : i \in 1 .. Len(s) /\ s[i] \in d \cup {o}
    <3>1. \A i \in 1 .. k + 1 : i \in 1 .. k \/ i = k + 1
      BY <1>k
    <3>2. k + 1 \in 1 .. Len(s)
      BY <2>2, <1>k, <1>2 DEF s
    <3> QED BY <3>1, <3>2, <2>3, <1>10
  <2>5. Poppable(s, d \cup {o}, k + 1)
    BY <2>4, <1>s DEF Poppable
  <2> QED BY <2>2, <2>5, <1>m
<1> QED BY <1>12, <1>13, <1>14, <1>15, <1>16 DEF TrackedOnce, t, g, e

(* Every tracked offset of a process that fetched none twice is tracked    *)
(* once, and waits only for offsets that a worker still has.               *)
THEOREM TrackedOnceHolds == Spec => []TrackedOnceUnlessOverlapped
<1> USE ConstantsAssumption
<1>1. Init => TrackedOnceUnlessOverlapped
  BY DEF Init, TrackedOnceUnlessOverlapped, TrackedOnce
<1>2. TypeOK /\ TrackedOnceUnlessOverlapped /\ [Next]_vars => TrackedOnceUnlessOverlapped'
  <2> SUFFICES ASSUME TypeOK, TrackedOnceUnlessOverlapped, [Next]_vars,
                      NEW c \in Consumers, ~overlapped'[c]
               PROVE  TrackedOnce(c)'
    BY DEF TrackedOnceUnlessOverlapped
  <2>1. CASE UNCHANGED <<inFlight[c], done[c], handling[c], overlapped[c]>>
    BY <2>1 DEF TrackedOnceUnlessOverlapped, TrackedOnce
  <2>2. ASSUME NEW b \in Consumers, Fetch(b) PROVE TrackedOnce(c)'
    <3>1. CASE b = c
      <4>1. ~overlapped[c]
        BY <2>2, <3>1 DEF Fetch, TypeOK
      <4> QED BY <4>1, <2>2, <3>1, FetchKeepsTrackedOnce DEF TrackedOnceUnlessOverlapped
    <3>2. CASE b # c
      BY <2>2, <3>2, <2>1 DEF Fetch, TypeOK
    <3> QED BY <3>1, <3>2
  <2>3. ASSUME NEW b \in Consumers, NEW o \in Offsets, Finish(b, o) PROVE TrackedOnce(c)'
    <3>1. CASE b = c
      <4>1. ~overlapped[c]
        BY <2>3 DEF Finish
      <4> QED BY <4>1, <2>3, <3>1, FinishKeepsTrackedOnce DEF TrackedOnceUnlessOverlapped
    <3>2. CASE b # c
      <4>1. UNCHANGED <<inFlight[c], done[c], handling[c], overlapped[c]>>
        BY <2>3, <3>2 DEF Finish, TypeOK
      <4> QED BY <4>1, <2>1
    <3> QED BY <3>1, <3>2
  <2>4. ASSUME NEW b \in Consumers, Flush(b) \/ Assign(b) PROVE TrackedOnce(c)'
    BY <2>4, <2>1 DEF Flush, Assign, trackerVars
  <2>5. ASSUME NEW b \in Consumers, Crash(b) PROVE TrackedOnce(c)'
    <3>1. CASE b = c
      <4>1. inFlight'[c] = <<>> /\ done'[c] = {} /\ handling'[c] = [o \in Offsets |-> 0]
        BY <2>5, <3>1 DEF Crash, TypeOK
      <4> QED BY <4>1 DEF TrackedOnce
    <3>2. CASE b # c
      <4>1. UNCHANGED <<inFlight[c], done[c], handling[c], overlapped[c]>>
        BY <2>5, <3>2 DEF Crash, TypeOK
      <4> QED BY <4>1, <2>1
    <3> QED BY <3>1, <3>2
  <2>6. CASE Revoke
    BY <2>6, <2>1 DEF Revoke, trackerVars
  <2>7. ASSUME NEW b \in Consumers, NEW n \in Commits, Send(b, n) PROVE TrackedOnce(c)'
    BY <2>7, <2>1 DEF Send, trackerVars
  <2>8. CASE UNCHANGED vars
    BY <2>8, <2>1 DEF vars
  <2> QED BY <2>2, <2>3, <2>4, <2>5, <2>6, <2>7, <2>8 DEF Next
<1> QED BY <1>1, <1>2, TypeCorrect, PTL DEF Spec

(* A process that fetched no offset it still tracked commits up to the     *)
(* first message still in flight (consumer.go:48-50).                      *)
THEOREM CommitsUpToFirstInFlight == Spec => []HeadInFlightUnlessOverlapped
<1>1. TypeOK /\ TrackedOnceUnlessOverlapped => HeadInFlightUnlessOverlapped
  <2> SUFFICES ASSUME TypeOK, NEW c \in Consumers, TrackedOnce(c), inFlight[c] # <<>>
               PROVE  handling[c][inFlight[c][1]] > 0
    BY DEF TrackedOnceUnlessOverlapped, HeadInFlightUnlessOverlapped
  <2>1. inFlight[c] \in Seq(Offsets) /\ 1 \in 1 .. Len(inFlight[c])
    BY DEF TypeOK
  <2>2. inFlight[c][1] \in Offsets
    BY <2>1, ElementOfSeq
  <2>3. handling[c][inFlight[c][1]] \in Nat
    BY <2>2 DEF TypeOK
  <2>4. handling[c][inFlight[c][1]] # 0
    BY <2>1 DEF TrackedOnce
  <2> QED BY <2>3, <2>4
<1> QED BY <1>1, TypeCorrect, TrackedOnceHolds, PTL
=============================================================================
