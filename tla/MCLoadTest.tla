---------------------------- MODULE MCLoadTest ----------------------------
(* LoadTest for TLC: every mode, alone and after what another one left.   *)
EXTENDS LoadTest

CONSTANTS r1, r2

Invocation(mode, scope, count) == [mode |-> mode, scope |-> scope, count |-> count, warm |-> 0,
                                    op |-> "c", others |-> 0, limited |-> TRUE]
Index == Invocation("index", {r1}, 2)

MCPlans == {
  <<[Index EXCEPT !.warm = 1, !.limited = FALSE]>>,
  <<Index, Invocation("cleanup", {r1, r2}, 1)>>,
  <<Invocation("publish", {r2}, 1), Index>>,
  <<Invocation("duplicate", {r1}, 1)>>,
  <<[Invocation("publish", {r1}, 3) EXCEPT !.op = "d"], [Invocation("watch", {r1}, 2) EXCEPT !.others = 1]>>}
===========================================================================
