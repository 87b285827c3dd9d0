----------------------------- MODULE CommitLog -----------------------------
(***************************************************************************)
(* What the indexing consumer promises about one Kafka partition, with no  *)
(* mention of workers, trackers or rebalances: messages are finished in    *)
(* any order and any number of times, and an offset is committed only when *)
(* every message below it is finished (the Consumer comment in             *)
(* internal/kafka/consumer.go and the commit rules of pipeline.go).        *)
(* A commit may fall back: at-least-once delivery allows repetition, never *)
(* a gap.                                                                  *)
(***************************************************************************)
EXTENDS Integers

CONSTANT LogLen             \* number of messages in the partition

Offsets == 0 .. LogLen - 1

VARIABLES
  finished,                 \* offsets indexed, skipped or dead-lettered at least once
  committed                 \* the group's committed offset: the next one to deliver

vars == <<finished, committed>>

Init == finished = {} /\ committed = 0

Finish(o) == finished' = finished \cup {o} /\ UNCHANGED committed

Commit(n) == /\ 0 .. n - 1 \subseteq finished
             /\ committed' = n
             /\ UNCHANGED finished

Next == \/ \E o \in Offsets : Finish(o)
        \/ \E n \in 0 .. LogLen : Commit(n)

Spec == Init /\ [][Next]_vars
=============================================================================
