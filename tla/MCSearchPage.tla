---------------------------- MODULE MCSearchPage ----------------------------
(* SearchPage for TLC: Fuse on its own, and searches under every order of  *)
(* the limits.                                                             *)
EXTENDS SearchPage, TLC

FusedIds == {1, 2}

\* A list of n entries whose payloads name the list, so that the origin of a
\* result shows.
Lists(l, n, payloads) == [1 .. n -> [id : FusedIds \cup {NoId}, payload : payloads]]

\* Two lists with empty ids, repeated ids and missing payloads.
TwoLists == UNION {Lists(1, m, {Nil, 1}) \X Lists(2, n, {2}) : m, n \in 0 .. 2}

\* Three lists, no id twice in one: equal ranks met in different orders.
Once(s) == \A i, j \in DOMAIN s : i # j /\ s[i].id = s[j].id => s[i].id = NoId
Placed(l) == {s \in Lists(l, 3, {l}) : Once(s)}
ThreeLists == Placed(1) \X Placed(2) \X Placed(3)

\* And some whose exact scores are equal although their ranks are not: twice
\* the first rank and three times the fourth, for K = 5.
Ends(l) == {s \in Lists(l, 4, {l}) : Once(s) /\ s[2].id = NoId /\ s[3].id = NoId}

MCInputs == TwoLists \cup ThreeLists \cup (Ends(1) \X Ends(2) \X Ends(3))

\* The limits in the environment, beside what is required.
Limited(default, max, candidates) ==
  [SEARCH_DEFAULT_LIMIT |-> Value(default), SEARCH_MAX_LIMIT |-> Value(max),
   SEARCH_CANDIDATE_LIMIT |-> Value(candidates), RRF_K |-> Value(K)]
    @@ [k \in Keys |-> IF k \in Required THEN Value(1) ELSE Unset]

\* The last three are refused: by Load for either comparison, by hybrid.New.
MCEnvironments ==
  [apart |-> Limited(1, 2, 3), equal |-> Limited(2, 2, 2), narrow |-> Limited(1, 3, 3),
   reversed |-> Limited(2, 1, 3), short |-> Limited(1, 3, 2), beyond |-> Limited(1, 3, 4)]
=============================================================================
