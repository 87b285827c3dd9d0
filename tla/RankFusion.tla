----------------------------- MODULE RankFusion -----------------------------
(***************************************************************************)
(* Reciprocal Rank Fusion (internal/search/rrf/rrf.go): Fuse scans the     *)
(* lists entry by entry, then orders the candidates, whose map has no      *)
(* order of its own, with a sort that is not stable.                       *)
(*                                                                         *)
(* Scores are binary floating-point numbers with a few bits of precision,  *)
(* so that a sum depends on the order of its terms as it does in Go; the   *)
(* reference the result is compared with is exact.                         *)
(* Not covered: k and limit below 1, which Fuse refuses at once.           *)
(***************************************************************************)
EXTENDS Integers, Sequences, FiniteSetsExt

CONSTANTS
  K,                        \* smoothing constant
  Ids,                      \* document ids: numbers, in the order of the strings
  Inputs,                   \* result sets: sequences of lists of [id, payload]
  Limits,                   \* limits a caller may ask for
  MaxRank,                  \* longest list, and most lists
  Precision,                \* significant bits of a score
  One                       \* 1.0 as an integer: a power of two

NoId == 0                   \* the empty id
Nil  == 0                   \* no payload; other payloads are numbers above it

ASSUME FusionAssumption == K \in Nat \ {0} /\ Ids \subseteq Nat \ {NoId}
                             /\ Limits \subseteq Nat \ {0}
                             /\ {MaxRank, Precision, One} \subseteq Nat \ {0}
                             /\ Inputs \subseteq Seq(Seq([id : Ids \cup {NoId}, payload : Nat]))

VARIABLES
  input, limit,             \* the arguments of Fuse
  list, index,              \* the entry Fuse looks at
  seen,                     \* ids met in this list
  ranks,                    \* [id -> its ranks, in the order met]
  payload,                  \* [id -> first payload met]
  results,                  \* ids in their final order
  step                      \* "scanning" or "done"

vars == <<input, limit, list, index, seen, ranks, payload, results, step>>

Init == /\ input \in Inputs /\ limit \in Limits
        /\ list = 1 /\ index = 1 /\ seen = {}
        /\ ranks = [d \in Ids |-> <<>>] /\ payload = [d \in Ids |-> Nil]
        /\ results = <<>> /\ step = "scanning"

-----------------------------------------------------------------------------
(* Arithmetic of scores.                                                   *)
\* p / q in so many bits: the nearest such number, of two the even one.
Rounded(p, q) ==
  LET cut == CHOOSE e \in 0 .. p : /\ p \div (q * 2 ^ e) < 2 ^ Precision
                                  /\ \A d \in 0 .. e - 1 : p \div (q * 2 ^ d) >= 2 ^ Precision
      unit == q * 2 ^ cut
      down == p \div unit
      rest == 2 * (p % unit)
  IN (IF rest > unit \/ (rest = unit /\ down % 2 = 1) THEN down + 1 ELSE down) * 2 ^ cut

SumInOrder(s) ==
  LET sum[n \in 0 .. Len(s)] ==
        IF n = 0 THEN 0 ELSE Rounded(sum[n - 1] + Rounded(One, K + s[n]), 1)
  IN sum[Len(s)]

\* Mutant of Score: the ranks in the order of the lists.
ScoreInListOrder(s) == SumInOrder(s)

\* The ranks in ascending order: at place i the least one that has, with
\* those before it, i ranks.
AtMost(s, r) == Cardinality({i \in DOMAIN s : s[i] <= r})
Ascending(s) == [i \in DOMAIN s |-> Min({r \in {s[j] : j \in DOMAIN s} : AtMost(s, r) >= i})]

\* score: the ranks are sorted before they are summed.
Score(s) == SumInOrder(Ascending(s))

-----------------------------------------------------------------------------
Entry == input[list][index]

(* One entry of a list.  A skipped entry keeps its position.               *)
Visit ==
  /\ step = "scanning" /\ list <= Len(input) /\ index <= Len(input[list])
  /\ index' = index + 1
  /\ IF Entry.id = NoId \/ Entry.id \in seen
     THEN UNCHANGED <<seen, ranks, payload>>
     ELSE /\ seen' = seen \cup {Entry.id}
          /\ ranks' = [ranks EXCEPT ![Entry.id] = Append(@, index)]
          /\ payload' = [payload EXCEPT ![Entry.id] = IF @ = Nil THEN Entry.payload ELSE @]
  /\ UNCHANGED <<input, limit, list, results, step>>

(* The next list begins with nothing seen.                                 *)
NextList ==
  /\ step = "scanning" /\ list <= Len(input) /\ index > Len(input[list])
  /\ list' = list + 1 /\ index' = 1 /\ seen' = {}
  /\ UNCHANGED <<input, limit, ranks, payload, results, step>>

\* The order Fuse sorts by.
Before(a, b) == \/ Score(ranks[a]) > Score(ranks[b])
                \/ Score(ranks[a]) = Score(ranks[b]) /\ a < b

Candidates == {d \in Ids : ranks[d] # <<>>}
Orders(S) == {s \in [1 .. Cardinality(S) -> S] : \A i, j \in DOMAIN s : s[i] = s[j] => i = j}

(* The candidates in any order in which no pair is inverted, cut to limit. *)
Rank ==
  /\ step = "scanning" /\ list > Len(input)
  /\ step' = "done"
  /\ \E s \in Orders(Candidates) :
       /\ \A i, j \in DOMAIN s : i < j => ~Before(s[j], s[i])
       /\ results' = SubSeq(s, 1, IF Len(s) > limit THEN limit ELSE Len(s))
  /\ UNCHANGED <<input, limit, list, index, seen, ranks, payload>>

Next == Visit \/ NextList \/ Rank

Spec == Init /\ [][Next]_vars

-----------------------------------------------------------------------------
(* The reference: the rank of a document in a list is its first position,  *)
(* its score the exact sum of 1 / (K + rank), here over a common           *)
(* denominator.                                                            *)
Positions(d, l) == {i \in DOMAIN input[l] : input[l][i].id = d}
FirstPosition(d, l) == CHOOSE i \in Positions(d, l) : \A j \in Positions(d, l) : i <= j
ListsWith(d) == {l \in DOMAIN input : Positions(d, l) # {}}
Denominator == LET product[n \in 0 .. MaxRank] ==
                     IF n = 0 THEN 1 ELSE (K + n) * product[n - 1]
               IN product[MaxRank]
Exact(d) ==
  LET sum[l \in 0 .. Len(input)] ==
        IF l = 0 THEN 0
        ELSE sum[l - 1] + IF l \in ListsWith(d)
                          THEN Denominator \div (K + FirstPosition(d, l)) ELSE 0
  IN sum[Len(input)]

Found == {d \in Ids : ListsWith(d) # {}}

\* The same ranks, in whichever lists.
SamePlaces(a, b) ==
  \A n \in 1 .. MaxRank : Cardinality({l \in ListsWith(a) : FirstPosition(a, l) = n})
                         = Cardinality({l \in ListsWith(b) : FirstPosition(b, l) = n})

\* By more than what rounding each term and each sum can do to both.
ClearlyBetter(a, b) == LET error == Len(input) + 1 IN
  (2 ^ Precision - error) * Exact(a) > (2 ^ Precision + error) * Exact(b)

\* The payload of the first list that has one for the document.
FirstPayload(d) ==
  LET with == {l \in ListsWith(d) : input[l][FirstPosition(d, l)].payload # Nil}
  IN IF with = {} THEN Nil
     ELSE LET l == CHOOSE l \in with : \A m \in with : l <= m
          IN input[l][FirstPosition(d, l)].payload

(* Whatever order the map is walked in, the answer has as many documents  *)
(* of the lists as there are or limit allows, each once; nothing behind a  *)
(* document, or cut off, has a clearly better score, and nothing behind it *)
(* that has the same ranks has a smaller id (score, rrf.go:135-138: "in    *)
(* whichever lists").  Rounding is allowed no more: scores of different    *)
(* ranks that are equal, or nearly, may come in either order, as ranks     *)
(* 6 and 39 do with 12 and 28 for k = 60.  Each document carries the       *)
(* fields of the first list that has them, the keyword hit's before the    *)
(* vector hit's (Payload, rrf.go:56-59).                                   *)
FusedByDefinition ==
  step = "done" =>
    /\ Len(results) = IF Cardinality(Found) > limit THEN limit ELSE Cardinality(Found)
    /\ \A i \in DOMAIN results :
         /\ results[i] \in Found /\ payload[results[i]] = FirstPayload(results[i])
         /\ \A j \in 1 .. i - 1 : results[j] # results[i]
         /\ \A d \in Found \ {results[j] : j \in 1 .. i} :
              ~ClearlyBetter(d, results[i]) /\ (SamePlaces(d, results[i]) => results[i] < d)
=============================================================================
