--------------------------- MODULE OffsetTracker ---------------------------
(***************************************************************************)
(* The offset tracker of internal/kafka/consumer.go, in every process of   *)
(* one consumer group that reads one partition, together with the broker's *)
(* side of the group: assignment, rebalance and the committed offset.      *)
(*                                                                         *)
(* Covered: add and markDone of the tracker, the Done callback that queues *)
(* a commit once the tracker's mutex is released, the background flush of  *)
(* queued commits, rebalances (also one that gives the partition back to   *)
(* the same process), crashes, restarts.                                   *)
(* A message that is abandoned (the worker returned without calling Done)  *)
(* is one that stays in `handling' for ever: no action is obliged to       *)
(* finish it unless the fair specification says so.                        *)
(* Not covered: which worker handles a message and for how long (see       *)
(* ConsumerService), and the other partitions, whose trackers share        *)
(* nothing with this one but a mutex.                                      *)
(***************************************************************************)
EXTENDS Integers, Sequences

CONSTANTS
  Consumers,                \* processes of the group that run cmd/consumer
  NoOwner,                  \* the partition is assigned to nobody (a rebalance is under way)
  LogLen,                   \* messages in the partition; their offsets are 0 .. LogLen - 1
  MaxGeneration             \* bound on the number of membership changes

ASSUME ConstantsAssumption == /\ NoOwner \notin Consumers
                              /\ LogLen \in Nat
                              /\ MaxGeneration \in Nat

Offsets == 0 .. LogLen - 1
Commits == 1 .. LogLen      \* what a commit may say: the offset after the last message it covers

VARIABLES
  inFlight,                 \* [process -> offsets in fetch order, not yet committable]
  done,                     \* [process -> finished offsets that wait for an earlier one]
  handling,                 \* [process -> [offset -> deliveries whose Done was not called]]
  sending,                  \* [process -> [commit -> workers between markDone and its CommitMessages]]
  queued,                   \* [process -> commit queued in its reader, 0 for none]
  owner,                    \* process the partition is assigned to
  position,                 \* next offset the owner's reader fetches
  committed,                \* committed offset at the broker
  generation,               \* membership changes so far
  finished,                 \* history: offsets whose Done was ever called
  overlapped                \* history: [process -> an offset was fetched while tracked]

trackerVars == <<inFlight, done, handling, overlapped>>
commitVars  == <<sending, queued>>
brokerVars  == <<owner, position, committed, generation>>
vars == <<inFlight, done, handling, sending, queued, owner, position, committed,
          generation, finished, overlapped>>

Tracked(c) == {inFlight[c][i] : i \in DOMAIN inFlight[c]}

Init == /\ inFlight = [c \in Consumers |-> <<>>]
        /\ done = [c \in Consumers |-> {}]
        /\ handling = [c \in Consumers |-> [o \in Offsets |-> 0]]
        /\ sending = [c \in Consumers |-> [n \in Commits |-> 0]]
        /\ queued = [c \in Consumers |-> 0]
        /\ owner = NoOwner
        /\ position = 0
        /\ committed = 0
        /\ generation = 0
        /\ finished = {}
        /\ overlapped = [c \in Consumers |-> FALSE]

-----------------------------------------------------------------------------
(* offsetTracker.markDone.  The loop pops the head of inFlight while it is *)
(* in the done set and deletes each popped offset from that set.  The set  *)
(* holds one copy of an offset, so the loop takes exactly the longest      *)
(* prefix of distinct finished offsets.                                    *)
Poppable(s, d, k) == /\ \A i \in 1 .. k : s[i] \in d
                     /\ \A i, j \in 1 .. k : i # j => s[i] # s[j]

\* Mutants of PopsExactly: pop up to any finished offset; pop the head alone.
PopsAnyDone(s, d, k) == k \in 0 .. Len(s) /\ (k > 0 => s[k] \in d)
PopsHeadOnly(s, d, k) == k = IF s # <<>> /\ s[1] \in d THEN 1 ELSE 0

\* The loop stopped after k pops: the prefix is poppable and cannot be extended.
PopsExactly(s, d, k) == /\ k \in 0 .. Len(s)
                        /\ Poppable(s, d, k)
                        /\ k < Len(s) => ~Poppable(s, d, k + 1)

Dropped(s, k) == SubSeq(s, k + 1, Len(s))

-----------------------------------------------------------------------------
(* FetchMessage in Consumer.Run followed by track: the owner's reader      *)
(* delivers the next offset and the tracker appends it.                    *)
Fetch(c) ==
  /\ owner = c
  /\ position < LogLen
  /\ inFlight' = [inFlight EXCEPT ![c] = Append(@, position)]
  /\ handling' = [handling EXCEPT ![c][position] = @ + 1]
  /\ overlapped' = [overlapped EXCEPT ![c] = @ \/ position \in Tracked(c)]
  /\ position' = position + 1
  /\ UNCHANGED <<done, commitVars, owner, committed, generation, finished>>

(* Message.Done of one delivery of o, up to the unlock of the tracker's    *)
(* mutex: markDone.  When it popped, the worker is left with the last      *)
(* popped offset to commit.                                                *)
Finish(c, o) ==
  /\ handling[c][o] > 0
  /\ handling' = [handling EXCEPT ![c][o] = @ - 1]
  /\ finished' = finished \cup {o}
  /\ \E k \in 0 .. Len(inFlight[c]) :
       /\ PopsExactly(inFlight[c], done[c] \cup {o}, k)
       /\ inFlight' = [inFlight EXCEPT ![c] = Dropped(@, k)]
       /\ done' = [done EXCEPT ![c] =
                     (@ \cup {o}) \ {inFlight[c][i] : i \in 1 .. k}]
       /\ IF k = 0 THEN UNCHANGED sending
                   ELSE sending' = [sending EXCEPT ![c][inFlight[c][k] + 1] = @ + 1]
  /\ UNCHANGED <<queued, owner, position, committed, generation, overlapped>>

(* The rest of Done: CommitMessages of the offset before n.  Another       *)
(* worker may have queued a later commit since the unlock, and the reader  *)
(* may have flushed it: the queue only keeps the highest of what it holds. *)
Send(c, n) ==
  /\ sending[c][n] > 0
  /\ sending' = [sending EXCEPT ![c][n] = @ - 1]
  /\ queued' = [queued EXCEPT ![c] = IF n > @ THEN n ELSE @]
  /\ UNCHANGED <<trackerVars, brokerVars, finished>>

(* The reader's commit loop: every commitInterval, and on Close, the       *)
(* queued offset is sent.  The broker checks the sender's generation, not  *)
(* what it owns, and overwrites the committed offset, forwards or back.    *)
Flush(c) ==
  /\ queued[c] > 0
  /\ committed' = queued[c]
  /\ queued' = [queued EXCEPT ![c] = 0]
  /\ UNCHANGED <<trackerVars, sending, owner, position, generation, finished>>

(* A rebalance takes the partition away.  The reader of each process ends  *)
(* its generation; what it had queued is committed later (Flush) or lost.  *)
(* The tracker is not told: Consumer.Run only sees FetchMessage.           *)
Revoke ==
  /\ owner # NoOwner
  /\ generation < MaxGeneration
  /\ owner' = NoOwner
  /\ generation' = generation + 1
  /\ \E lost \in SUBSET Consumers :
       queued' = [c \in Consumers |-> IF c \in lost THEN 0 ELSE queued[c]]
  /\ UNCHANGED <<trackerVars, sending, position, committed, finished>>

\* Mutants of Assign: start one message late; start at the end of the log
\* (LastOffset) when nothing was committed.
AssignNext(c) ==
  /\ owner = NoOwner /\ owner' = c
  /\ position' = IF committed < LogLen THEN committed + 1 ELSE committed
  /\ UNCHANGED <<trackerVars, commitVars, committed, generation, finished>>
AssignLatest(c) ==
  /\ owner = NoOwner /\ owner' = c
  /\ position' = IF committed = 0 THEN LogLen ELSE committed
  /\ UNCHANGED <<trackerVars, commitVars, committed, generation, finished>>

(* The group assigns the partition, possibly to the same process as        *)
(* before, and its reader starts at the committed offset (FirstOffset when *)
(* nothing was committed).                                                 *)
Assign(c) ==
  /\ owner = NoOwner
  /\ owner' = c
  /\ position' = committed
  /\ UNCHANGED <<trackerVars, commitVars, committed, generation, finished>>

(* A process dies and starts again with an empty tracker: everything it    *)
(* had not committed is delivered again, to it or to another.              *)
Crash(c) ==
  /\ generation < MaxGeneration
  /\ generation' = generation + 1
  /\ owner' = IF owner = c THEN NoOwner ELSE owner
  /\ inFlight' = [inFlight EXCEPT ![c] = <<>>]
  /\ done' = [done EXCEPT ![c] = {}]
  /\ handling' = [handling EXCEPT ![c] = [o \in Offsets |-> 0]]
  /\ sending' = [sending EXCEPT ![c] = [n \in Commits |-> 0]]
  /\ queued' = [queued EXCEPT ![c] = 0]
  /\ overlapped' = [overlapped EXCEPT ![c] = FALSE]
  /\ UNCHANGED <<position, committed, finished>>

Next == \/ \E c \in Consumers : Fetch(c) \/ Flush(c) \/ Assign(c) \/ Crash(c)
        \/ \E c \in Consumers, o \in Offsets : Finish(c, o)
        \/ \E c \in Consumers, n \in Commits : Send(c, n)
        \/ Revoke

Spec == Init /\ [][Next]_vars

\* The reader, its commit loop and the group coordinator keep running.  That
\* every handler returns holds while the stores answer its calls: their clients
\* set no timeout (see ConsumerService).
Fairness == \A c \in Consumers :
              /\ WF_vars(Fetch(c))
              /\ WF_vars(Flush(c))
              /\ \A o \in Offsets : WF_vars(Finish(c, o))
              /\ \A n \in Commits : WF_vars(Send(c, n))

GroupFairness == WF_vars(\E c \in Consumers : Assign(c))

FairSpec == Spec /\ Fairness /\ GroupFairness

-----------------------------------------------------------------------------
(* Every variable has its type. *)
TypeOK == /\ inFlight \in [Consumers -> Seq(Offsets)]
          /\ done \in [Consumers -> SUBSET Offsets]
          /\ handling \in [Consumers -> [Offsets -> Nat]]
          /\ sending \in [Consumers -> [Commits -> Nat]]
          /\ queued \in [Consumers -> 0 .. LogLen]
          /\ owner \in Consumers \cup {NoOwner}
          /\ position \in 0 .. LogLen
          /\ committed \in 0 .. LogLen
          /\ generation \in 0 .. MaxGeneration
          /\ finished \subseteq Offsets
          /\ overlapped \in [Consumers -> BOOLEAN]

(* No message is lost: whatever the workers' order, rebalances, late or    *)
(* lost commits of several processes and crashes did, every message below  *)
(* the committed offset was finished by somebody (Consumer comment,        *)
(* consumer.go:47-51).                                                     *)
NeverAhead == \A o \in Offsets : o < committed => o \in finished

(* Why NeverAhead holds at the next commit too: whatever the broker, a     *)
(* commit on its way, a queue, a tracker or the reader's position has      *)
(* passed over is finished or still tracked before it by the same process. *)
\* Everything below offset b is in F or among the first n elements of s.
Backed(F, s, n, b) ==
  \A o \in Offsets : o < b => o \in F \/ \E j \in 1 .. n : s[j] = o

DoneFinished == \A c \in Consumers : done[c] \subseteq finished

SendingBacked ==
  \A c \in Consumers, n \in Commits :
    sending[c][n] > 0 => \A o \in Offsets : o < n => o \in finished

QueueBacked ==
  \A c \in Consumers : \A o \in Offsets : o < queued[c] => o \in finished

TrackedBacked ==
  \A c \in Consumers : \A i \in 1 .. Len(inFlight[c]) :
    Backed(finished, inFlight[c], i - 1, inFlight[c][i])

PositionBacked ==
  \A c \in Consumers :
    owner = c => Backed(finished, inFlight[c], Len(inFlight[c]), position)

CommitBacked == /\ DoneFinished /\ SendingBacked /\ QueueBacked
                /\ TrackedBacked /\ PositionBacked

(* What a process that fetched no offset twice knows: each tracked offset  *)
(* is there once and is either with a worker or waiting in done, and the   *)
(* head is never waiting.                                                  *)
TrackedOnce(c) ==
  /\ \A i, j \in 1 .. Len(inFlight[c]) : i # j => inFlight[c][i] # inFlight[c][j]
  /\ \A i \in 1 .. Len(inFlight[c]) :
       handling[c][inFlight[c][i]] = 0 => inFlight[c][i] \in done[c]
  /\ \A o \in Offsets : handling[c][o] > 0 =>
       /\ handling[c][o] = 1
       /\ o \notin done[c]
       /\ \E i \in 1 .. Len(inFlight[c]) : inFlight[c][i] = o
  /\ \A o \in done[c] : \E i \in 1 .. Len(inFlight[c]) : inFlight[c][i] = o
  /\ inFlight[c] # <<>> => inFlight[c][1] \notin done[c]

TrackedOnceUnlessOverlapped ==
  \A c \in Consumers : ~overlapped[c] => TrackedOnce(c)

(* In a process that never fetched an offset it still tracked, commits are *)
(* held back only by real work: the head of inFlight is a message some     *)
(* worker still has (consumer.go:48-50, the code between Run and markDone).*)
HeadInFlightUnlessOverlapped ==
  \A c \in Consumers :
    inFlight[c] # <<>> /\ ~overlapped[c] => handling[c][inFlight[c][1]] > 0

(* The same without the exception, as consumer.go:48-50 states it: "the    *)
(* consumer only commits up to the first message that is still in flight". *)
HeadInFlight ==
  \A c \in Consumers :
    inFlight[c] # <<>> => handling[c][inFlight[c][1]] > 0

(* Every message of the partition is finished in the end, through any      *)
(* bounded number of crashes and rebalances: what was not committed is     *)
(* delivered again (consumer.go:50-51).  Without overlapping fetches the   *)
(* committed offset also reaches the end of the log, so that a later       *)
(* restart repeats nothing (track and the commit loop).                    *)
EventuallyCommitted ==
  /\ <>(finished = Offsets)
  /\ [](\A c \in Consumers : ~overlapped[c]) => <>(committed = LogLen)

(* The tracker and the group implement the abstract commit log: a commit   *)
(* is always backed by finished messages and a finish never commits.       *)
Log == INSTANCE CommitLog
ImplementsCommitLog == Log!Spec
=============================================================================
