------------------------- MODULE MCConsumerService -------------------------
(* ConsumerService for TLC: two messages of one key and one of another on  *)
(* two workers, so that one key waits while the other worker overtakes;    *)
(* and five messages on one worker, more than it and its queue can hold.   *)
EXTENDS ConsumerService

CONSTANTS k1, k2

\* Two updates of one row, and a message that cannot be parsed behind them.
MixedKey     == <<k1, k1, k2>>
MixedPayload == <<"event", "event", "malformed">>

\* More than one worker, its queue and the fetch loop can hold.
LongKey     == <<k1, k2, k1, NoKey, k2>>
LongPayload == <<"event", "event", "tombstone", "malformed", "event">>

MCHash == [k \in {k1, k2} |-> IF k = k1 THEN 2 ELSE 3]
=============================================================================
