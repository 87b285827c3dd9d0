-------------------------- MODULE SearchPageProofs --------------------------
(***************************************************************************)
(* Proofs about SearchPage and RankFusion, for every environment the API   *)
(* may be started in, every limit a request may ask for, stores of any     *)
(* (finite) size, and any lists Fuse may be called with.                   *)
(*                                                                         *)
(* The scan records, for the lists and entries it has passed, the first    *)
(* position of each document and the first payload.  The sort loses no     *)
(* candidate and invents none, whatever the scores are: an injection from  *)
(* as many places as there are candidates into the candidates is onto.     *)
(* So a page is short only when every candidate is on it, and then no list *)
(* was cut, for a cut list alone has enough candidates to fill the page.   *)
(* And since a score sums the ranks in ascending order, it depends on how  *)
(* many ranks of each value there are and on nothing else.                 *)
(***************************************************************************)
EXTENDS SearchPage, FiniteSetTheorems, FunctionTheorems, SequenceTheorems,
        WellFoundedInduction, TLAPS

(* What Fuse may be given: lists of ids, the empty one included, each with *)
(* a payload or none.                                                      *)
Entries == [id : Ids, payload : Nat]
Listings == [id : Ids \cup {NoId}, payload : Nat]
Given == input \in Seq(Seq(Listings)) /\ limit \in Nat \ {0}

(* The ranks a document has in the first lists, and in all of them: its    *)
(* first position in each list that has it.                                *)
RanksWith(before, d, l) ==
  IF l \in ListsWith(d) THEN Append(before, FirstPosition(d, l)) ELSE before
RanksUpTo(d) ==
  LET upTo[l \in 0 .. Len(input)] == IF l = 0 THEN <<>> ELSE RanksWith(upTo[l - 1], d, l)
  IN upTo
RanksOf(d) == RanksUpTo(d)[Len(input)]

(* Where the scan is, and which documents it has met in this list.         *)
Positioned ==
  /\ list \in 1 .. Len(input) + 1 /\ index \in Nat \ {0}
  /\ list <= Len(input) => index <= Len(input[list]) + 1
SeenHere ==
  /\ seen \subseteq Ids
  /\ \A d \in Ids : d \in seen <=>
       list \in DOMAIN input /\ \E i \in Positions(d, list) : i < index

(* The ranks recorded are those of the lists passed and of this one.       *)
RankedSoFar ==
  /\ ranks \in [Ids -> Seq(Nat)]
  /\ \A d \in Ids : ranks[d] =
       IF d \in seen THEN Append(RanksUpTo(d)[list - 1], FirstPosition(d, list))
       ELSE RanksUpTo(d)[list - 1]

(* The payload kept is that of the first list passed which had one.        *)
PayloadIn(d, l) == input[l][FirstPosition(d, l)].payload
ListsPassed(d) == {l \in ListsWith(d) : l < list \/ (l = list /\ d \in seen)}
PayloadFrom(d, from) ==
  IF payload[d] = Nil THEN \A l \in from : PayloadIn(d, l) = Nil
  ELSE \E l \in from : /\ payload[d] = PayloadIn(d, l)
                       /\ \A m \in from : PayloadIn(d, m) # Nil => l <= m
KeptSoFar == payload \in [Ids -> Nat] /\ \A d \in Ids : PayloadFrom(d, ListsPassed(d))

(* What Fuse answers: the candidates in the order of their scores.         *)
RanksByDefinition == step = "done" => \A d \in Ids : ranks[d] = RanksOf(d)
SortedAnswer ==
  \E s \in Orders(Candidates) :
    /\ \A i, j \in DOMAIN s : i < j => ~Before(s[j], s[i])
    /\ results = SubSeq(s, 1, IF Len(s) > limit THEN limit ELSE Len(s))
Answered ==
  /\ \A d \in Ids : ranks[d] = RanksOf(d) /\ PayloadFrom(d, ListsWith(d))
  /\ SortedAnswer

(* The limits of a service in use: what hybrid.New compared.               *)
LimitsAgree == cfg # NoService =>
  /\ cfg \in [default : Int, max : Int, candidates : Int]
  /\ 1 <= cfg.default /\ cfg.default <= cfg.max /\ cfg.max <= cfg.candidates

(* Before a search nothing has been scanned, and the service was made.     *)
Begun == /\ list = 1 /\ index = 1 /\ seen = {} /\ ranks = [d \in Ids |-> <<>>]
         /\ payload = [d \in Ids |-> Nil]
Idle == step \in {"starting", "serving"} =>
  /\ Begun
  /\ step = "starting" => environment \in DOMAIN Environments
  /\ step = "serving" => cfg # NoService

(* What a search gives Fuse is what the request and the stores gave.       *)
Page == IF asked = 0 THEN cfg.default ELSE asked
Called ==
  /\ matches \in [keyword : Rankings, vector : Rankings]
  /\ asked \in Int /\ 0 <= asked /\ asked <= cfg.max /\ limit = Page
  /\ input = <<Hits(matches.keyword, cfg.candidates, Document),
               Hits(matches.vector, cfg.candidates, PointPayload)>>

PageInv ==
  /\ LimitsAgree /\ Idle
  /\ step \in {"scanning", "done"} => Given /\ (cfg # NoService => Called)
  /\ step = "scanning" => Positioned /\ SeenHere /\ RankedSoFar /\ KeptSoFar
  /\ step = "done" => Answered

(* The part of FusedByDefinition that scores do not decide.                *)
KeptByDefinition ==
  step = "done" =>
    /\ Len(results) = IF Cardinality(Found) > limit THEN limit ELSE Cardinality(Found)
    /\ \A i, j \in DOMAIN results : results[i] = results[j] => i = j
    /\ \A i \in DOMAIN results :
         results[i] \in Found /\ payload[results[i]] = FirstPayload(results[i])

(* Two documents have the same ranks, in whichever lists.                  *)
SameRanks(s, t) == \E p \in Bijection(DOMAIN s, DOMAIN t) : \A i \in DOMAIN s : s[i] = t[p[i]]

(* Of two answers with the same ranks the smaller id comes first.          *)
TiesById ==
  step = "done" =>
    \A i, j \in DOMAIN results :
      i < j /\ SameRanks(RanksOf(results[i]), RanksOf(results[j])) => results[i] < results[j]

-----------------------------------------------------------------------------
(* A store ranks finitely many documents, each once.                       *)
LEMMA RankingsAreShort ==
  ASSUME NEW s \in Rankings
  PROVE  /\ s \in Seq(Ids)
         /\ \A i, j \in 1 .. Len(s) : s[i] = s[j] => i = j
<1>1. PICK S \in SUBSET Ids : s \in Orders(S)
  BY DEF Rankings
<1>2. Cardinality(S) \in Nat
  BY PageAssumption, FS_Subset, FS_CardinalityType
<1>3. s \in [1 .. Cardinality(S) -> S] /\ \A i, j \in DOMAIN s : s[i] = s[j] => i = j
  BY <1>1 DEF Orders
<1>4. s \in Seq(S) /\ Len(s) = Cardinality(S)
  BY <1>2, <1>3
<1> QED BY <1>3, <1>4

(* A store returns the first of what it has, and all of it unless it was   *)
(* asked for less.                                                         *)
LEMMA HitsAreTheFirst ==
  ASSUME NEW found \in Rankings, NEW n \in Nat, NEW kept \in Nat
  PROVE  /\ Hits(found, n, kept) \in Seq(Entries)
         /\ Len(Hits(found, n, kept)) <= Len(found)
         /\ Len(Hits(found, n, kept)) < n => Len(Hits(found, n, kept)) = Len(found)
         /\ \A i \in 1 .. Len(Hits(found, n, kept)) : Hits(found, n, kept)[i].id = found[i]
<1> DEFINE m == IF Len(found) < n THEN Len(found) ELSE n
           h == [i \in 1 .. m |-> [id |-> found[i], payload |-> kept]]
<1>1. found \in Seq(Ids) /\ Len(found) \in Nat
  BY RankingsAreShort
<1>2. m \in Nat /\ m <= Len(found) /\ (m < n => m = Len(found))
  BY <1>1
<1>3. \A i \in 1 .. m : found[i] \in Ids
  BY <1>1, <1>2
<1>4. Hits(found, n, kept) = h
  BY DEF Hits
<1> HIDE DEF m
<1>5. h \in Seq(Entries) /\ Len(h) = m
  BY <1>2, <1>3 DEF Entries
<1>6. \A i \in 1 .. m : h[i].id = found[i]
  OBVIOUS
<1> QED BY <1>2, <1>4, <1>5, <1>6

(* An order of the candidates has all of them, each at one place.          *)
LEMMA OrdersAreComplete ==
  ASSUME NEW S \in SUBSET Ids, NEW s \in Orders(S)
  PROVE  /\ Cardinality(S) \in Nat /\ s \in Seq(S) /\ Len(s) = Cardinality(S)
         /\ {s[i] : i \in DOMAIN s} = S
<1> DEFINE n == Cardinality(S)
<1>1. IsFiniteSet(S) /\ n \in Nat
  BY PageAssumption, FS_Subset, FS_CardinalityType
<1>2. s \in [1 .. n -> S] /\ \A i, j \in 1 .. n : s[i] = s[j] => i = j
  BY DEF Orders
<1>3. s \in Injection(1 .. n, S)
  BY <1>2, Fun_IsInj
<1>4. Cardinality(1 .. n) = n
  BY <1>1, FS_Interval
<1>5. s \in Surjection(1 .. n, S)
  BY <1>1, <1>3, <1>4, FS_Injection
<1>6. \A d \in S : \E i \in 1 .. n : s[i] = d
  BY <1>5 DEF Surjection
<1>7. s \in Seq(S) /\ Len(s) = n
  BY <1>1, <1>2
<1>8. {s[i] : i \in DOMAIN s} = S
  <2> HIDE DEF n
  <2>1. DOMAIN s = 1 .. n
    BY <1>2
  <2> QED BY <1>2, <1>6, <2>1
<1> QED BY <1>1, <1>7, <1>8

(* As many distinct documents as a list has, at least, are on it.          *)
LEMMA ListsHaveTheirLength ==
  ASSUME NEW s \in Rankings, NEW n \in Nat, n <= Len(s), NEW S \in SUBSET Ids,
         \A i \in 1 .. n : s[i] \in S
  PROVE  n <= Cardinality(S)
<1> DEFINE f == [i \in 1 .. n |-> s[i]]
<1>1. \A i, j \in 1 .. n : f[i] = f[j] => i = j
  BY RankingsAreShort
<1>2. f \in [1 .. n -> S]
  OBVIOUS
<1> HIDE DEF f
<1>3. f \in Injection(1 .. n, S)
  BY <1>1, <1>2, Fun_IsInj
<1>4. IsFiniteSet(S) /\ Cardinality(S) \in Nat
  BY PageAssumption, FS_Subset, FS_CardinalityType
<1>5. Cardinality(1 .. n) = n
  BY FS_Interval
<1> QED BY <1>3, <1>4, <1>5, FS_Injection

(* The limits Load returns are numbers.                                    *)
LEMMA LimitsAreNumbers ==
  ASSUME NEW name \in DOMAIN Environments,
         NEW k \in {"SEARCH_DEFAULT_LIMIT", "SEARCH_MAX_LIMIT", "SEARCH_CANDIDATE_LIMIT"}
  PROVE  Load(Environments[name]).values[k] \in Int
<1> DEFINE e == Environments[name]
           given == [j \in DOMAIN Defaults |-> Or(e[j], Defaults[j])]
<1>1. k \in DOMAIN Defaults /\ k # "QDRANT_VECTOR_SIZE" /\ Defaults[k] \in Int
  BY DEF Defaults
<1>2. k \in Numbers /\ k \in Keys
  BY <1>1 DEF Numbers, Keys
<1>3. e[k].n \in Int
  BY <1>2, PageAssumption
<1>4. Or(e[k], Defaults[k]) \in Int
  BY <1>1, <1>3 DEF Or
<1>5. Values(e)[k] = given[k]
  BY <1>1, <1>2 DEF Values
<1>6. given[k] = Or(e[k], Defaults[k])
  BY <1>1
<1> QED BY <1>4, <1>5, <1>6 DEF Load

(* The two lists Fuse scans, entry by entry.                               *)
LEMMA ListsAreHits ==
  ASSUME LimitsAgree, Called, cfg # NoService
  PROVE  /\ cfg.candidates \in Nat /\ Len(input) = 2
         /\ \A l \in 1 .. 2 : input[l] \in Seq(Entries)
         /\ matches.keyword \in Rankings /\ matches.vector \in Rankings
         /\ input[1] = Hits(matches.keyword, cfg.candidates, Document)
         /\ input[2] = Hits(matches.vector, cfg.candidates, PointPayload)
<1>1. cfg.candidates \in Nat
  BY DEF LimitsAgree
<1>2. matches.keyword \in Rankings /\ matches.vector \in Rankings
  BY DEF Called
<1>3. /\ Hits(matches.keyword, cfg.candidates, Document) \in Seq(Entries)
      /\ Hits(matches.vector, cfg.candidates, PointPayload) \in Seq(Entries)
  BY <1>1, <1>2, HitsAreTheFirst DEF Document, PointPayload
<1> QED BY <1>1, <1>2, <1>3 DEF Called

(* A list was not cut when all that was found is fewer than was asked for: *)
(* everything its store has is among what was found.                       *)
LEMMA NoListIsCut ==
  ASSUME NEW found \in Rankings, NEW n \in Nat, NEW kept \in Nat, NEW S \in SUBSET Ids,
         \A i \in 1 .. Len(Hits(found, n, kept)) : Hits(found, n, kept)[i].id \in S,
         Cardinality(S) < n
  PROVE  {found[i] : i \in DOMAIN found} =
           {Hits(found, n, kept)[i].id : i \in 1 .. Len(Hits(found, n, kept))}
<1> DEFINE h == Hits(found, n, kept)
<1>1. /\ h \in Seq(Entries) /\ Len(h) <= Len(found)
      /\ Len(h) < n => Len(h) = Len(found)
      /\ \A i \in 1 .. Len(h) : h[i].id = found[i]
  BY HitsAreTheFirst
<1>2. \A i \in 1 .. Len(h) : h[i].id \in S
  OBVIOUS
<1> HIDE DEF h
<1>3. found \in Seq(Ids) /\ Len(h) \in Nat /\ Len(found) \in Nat
  BY <1>1, RankingsAreShort
<1>4. Cardinality(S) \in Nat
  BY PageAssumption, FS_Subset, FS_CardinalityType
<1>5. Len(h) < n
  <2> SUFFICES ASSUME Len(h) >= n PROVE FALSE
    BY <1>3
  <2>1. n <= Len(found)
    BY <1>1, <1>3
  <2>2. \A i \in 1 .. n : found[i] \in S
    BY <1>1, <1>2, <1>3
  <2>3. n <= Cardinality(S)
    BY <2>1, <2>2, ListsHaveTheirLength
  <2> QED BY <1>4, <2>3
<1>6. DOMAIN found = 1 .. Len(h)
  BY <1>1, <1>3, <1>5
<1> QED BY <1>1, <1>6 DEF h

-----------------------------------------------------------------------------
(* A nonempty set of naturals has a least element: what stands for         *)
(* induction below, as a smallest counterexample.                          *)
LEMMA Least == ASSUME NEW T, T \subseteq Nat, T # {} PROVE \E x \in T : \A y \in T : x <= y
<1> DEFINE R == OpToRel(<, Nat)
<1>1. PICK x \in T : \A y \in T : ~ (<<y, x>> \in R)
  BY NatLessThanWellFounded, WFMin
<1>2. ASSUME NEW y \in T PROVE x <= y
  <2>1. x \in Nat /\ y \in Nat
    OBVIOUS
  <2>2. ~ (<<y, x>> \in R)
    BY <1>1
  <2>3. y < x => <<y, x>> \in R
    BY <2>1 DEF OpToRel
  <2> HIDE DEF R
  <2> QED BY <2>1, <2>2, <2>3
<1> QED BY <1>2

(* What is in S at 0 and stays in S from one number to the next is in S.   *)
LEMMA Steps ==
  ASSUME NEW S, NEW n \in Nat, NEW f, f[0] \in S,
         \A l \in 1 .. n : f[l - 1] \in S => f[l] \in S
  PROVE  \A l \in 0 .. n : f[l] \in S
<1> DEFINE Bad == {l \in 0 .. n : f[l] \notin S}
<1> SUFFICES ASSUME Bad # {} PROVE FALSE
  OBVIOUS
<1>1. PICK l \in Bad : \A m \in Bad : l <= m
  <2>1. Bad \subseteq Nat
    OBVIOUS
  <2> HIDE DEF Bad
  <2> QED BY <2>1, Least
<1>2. l \in 0 .. n /\ l # 0 /\ f[l] \notin S
  OBVIOUS
<1>3. l - 1 \in 0 .. n /\ ~(l <= l - 1) /\ l \in 1 .. n
  BY <1>2
<1>4. f[l - 1] \in S
  BY <1>1, <1>3
<1> QED BY <1>2, <1>3, <1>4

(* f begins with a and goes on as F says, n times, without leaving S.      *)
Follows(f, S, n, a, F) ==
  f \in [0 .. n -> S] /\ f[0] = a /\ \A l \in 1 .. n : f[l] = F[l][f[l - 1]]

(* There is such a function, so that a recursive definition has a value.   *)
LEMMA Recursion ==
  ASSUME NEW S, NEW n \in Nat, NEW a \in S, NEW F \in [1 .. n -> [S -> S]]
  PROVE  \E f : Follows(f, S, n, a, F)
<1> DEFINE Bad == {m \in 0 .. n : ~ \E f : Follows(f, S, m, a, F)}
<1> SUFFICES ASSUME Bad # {} PROVE FALSE
  <2>1. n \in 0 .. n
    OBVIOUS
  <2> QED BY <2>1
<1>1. PICK m \in Bad : \A k \in Bad : m <= k
  <2>1. Bad \subseteq Nat
    OBVIOUS
  <2> HIDE DEF Bad
  <2> QED BY <2>1, Least
<1>2. m \in 0 .. n /\ ~ \E f : Follows(f, S, m, a, F)
  OBVIOUS
<1>3. CASE m = 0
  <2> DEFINE h == [l \in 0 .. 0 |-> a]
  <2>1. Follows(h, S, m, a, F)
    BY <1>3 DEF Follows
  <2> QED BY <1>2, <2>1
<1>4. CASE m # 0
  <2>1. m - 1 \in 0 .. n /\ ~(m <= m - 1) /\ m \in 1 .. n
    BY <1>2, <1>4
  <2>2. PICK g : Follows(g, S, m - 1, a, F)
    BY <1>1, <2>1
  <2>3. g \in [0 .. m - 1 -> S] /\ g[0] = a /\ \A l \in 1 .. m - 1 : g[l] = F[l][g[l - 1]]
    BY <2>2 DEF Follows
  <2>4. g[m - 1] \in S
    <3>1. m - 1 \in 0 .. m - 1
      BY <2>1
    <3> QED BY <2>3, <3>1
  <2>5. PICK last \in S : last = F[m][g[m - 1]]
    BY <2>1, <2>4
  <2> DEFINE h == [l \in 0 .. m |-> IF l = m THEN last ELSE g[l]]
  <2>6. ASSUME NEW l \in 0 .. m PROVE h[l] \in S
    <3>1. CASE l = m
      BY <3>1
    <3>2. CASE l # m
      <4>1. l \in 0 .. m - 1
        BY <2>1, <3>2
      <4> QED BY <2>3, <3>2, <4>1
    <3> QED BY <3>1, <3>2
  <2>7. h \in [0 .. m -> S]
    BY <2>6
  <2>8. h[0] = a
    BY <1>4, <2>1, <2>3
  <2>9. ASSUME NEW l \in 1 .. m PROVE h[l] = F[l][h[l - 1]]
    <3>1. l - 1 \in 0 .. m /\ l \in 0 .. m /\ l - 1 # m
      BY <2>1
    <3>2. h[l - 1] = g[l - 1]
      BY <3>1
    <3>3. CASE l = m
      <4>1. h[l] = last
        BY <3>1, <3>3
      <4> HIDE DEF h
      <4> QED BY <2>5, <3>2, <3>3, <4>1
    <3>4. CASE l # m
      <4>1. h[l] = g[l] /\ l \in 1 .. m - 1
        BY <2>1, <3>1, <3>4
      <4> HIDE DEF h
      <4> QED BY <2>3, <3>2, <4>1
    <3> QED BY <3>3, <3>4
  <2> HIDE DEF h
  <2>10. Follows(h, S, m, a, F)
    BY <2>7, <2>8, <2>9 DEF Follows
  <2> QED BY <1>2, <2>10
<1> QED BY <1>3, <1>4

(* The lists of Fuse are sequences of entries.                             *)
LEMMA InputIsTyped ==
  ASSUME Given
  PROVE  /\ Len(input) \in Nat /\ DOMAIN input = 1 .. Len(input)
         /\ \A l \in DOMAIN input : /\ Len(input[l]) \in Nat
                                    /\ DOMAIN input[l] = 1 .. Len(input[l])
                                    /\ \A i \in DOMAIN input[l] : input[l][i] \in Listings
<1>1. input \in Seq(Seq(Listings))
  BY DEF Given
<1>2. \A l \in 1 .. Len(input) : input[l] \in Seq(Listings)
  BY <1>1
<1>3. Len(input) \in Nat /\ DOMAIN input = 1 .. Len(input)
  BY <1>1
<1> QED BY <1>2, <1>3

(* A document that is in a list has a first position there.                *)
LEMMA FirstPositions ==
  ASSUME Given, NEW d, NEW l \in ListsWith(d)
  PROVE  /\ l \in DOMAIN input /\ FirstPosition(d, l) \in Positions(d, l)
         /\ FirstPosition(d, l) \in Nat
         /\ \A j \in Positions(d, l) : FirstPosition(d, l) <= j
<1>1. l \in DOMAIN input /\ Positions(d, l) # {}
  BY DEF ListsWith
<1>2. Positions(d, l) \subseteq Nat
  BY <1>1, InputIsTyped DEF Positions
<1>3. \E i \in Positions(d, l) : \A j \in Positions(d, l) : i <= j
  BY <1>1, <1>2, Least
<1>4. /\ FirstPosition(d, l) \in Positions(d, l)
      /\ \A j \in Positions(d, l) : FirstPosition(d, l) <= j
  BY <1>3 DEF FirstPosition
<1> QED BY <1>1, <1>2, <1>4

(* The ranks of a document, list by list.                                  *)
LEMMA RanksUnfold ==
  ASSUME Given, NEW d
  PROVE  /\ RanksUpTo(d) \in [0 .. Len(input) -> Seq(Nat)] /\ RanksUpTo(d)[0] = <<>>
         /\ \A l \in 1 .. Len(input) : RanksUpTo(d)[l] = RanksWith(RanksUpTo(d)[l - 1], d, l)
<1>1. PICK n \in Nat : n = Len(input)
  BY InputIsTyped
<1>2. PICK none \in Seq(Nat) : none = <<>>
  BY EmptySeq
<1> DEFINE G == CHOOSE f : f = [l \in 0 .. n |->
                   IF l = 0 THEN none ELSE RanksWith(f[l - 1], d, l)]
<1>3. RanksUpTo(d) = G
  BY <1>1, <1>2 DEF RanksUpTo
<1>4. ASSUME NEW l \in 1 .. n, NEW s \in Seq(Nat)
      PROVE  RanksWith(s, d, l) \in Seq(Nat)
  <2>1. l \in ListsWith(d) => FirstPosition(d, l) \in Nat
    BY FirstPositions
  <2> QED BY <2>1 DEF RanksWith
<1>5. PICK F \in [1 .. n -> [Seq(Nat) -> Seq(Nat)]] :
        \A l \in 1 .. n, s \in Seq(Nat) : F[l][s] = RanksWith(s, d, l)
  <2> DEFINE F == [l \in 1 .. n |-> [s \in Seq(Nat) |-> RanksWith(s, d, l)]]
  <2>1. F \in [1 .. n -> [Seq(Nat) -> Seq(Nat)]]
    BY <1>4
  <2> QED BY <2>1
<1>6. PICK f \in [0 .. n -> Seq(Nat)] : f[0] = none /\ \A l \in 1 .. n : f[l] = F[l][f[l - 1]]
  <2>1. PICK S : S = Seq(Nat)
    OBVIOUS
  <2>2. none \in S /\ F \in [1 .. n -> [S -> S]]
    BY <2>1
  <2>3. PICK f : Follows(f, S, n, none, F)
    BY <2>2, Recursion
  <2> QED BY <2>1, <2>3 DEF Follows
<1>7. \A l \in 1 .. n : l - 1 \in 0 .. n /\ l \in 0 .. n /\ l # 0
  OBVIOUS
<1>8. ASSUME NEW l \in 1 .. n PROVE f[l] = RanksWith(f[l - 1], d, l)
  <2>1. f[l - 1] \in Seq(Nat)
    BY <1>7
  <2> QED BY <1>5, <1>6, <2>1
<1>9. f = [l \in 0 .. n |-> IF l = 0 THEN none ELSE RanksWith(f[l - 1], d, l)]
  <2>1. \A l \in 0 .. n : f[l] = IF l = 0 THEN none ELSE RanksWith(f[l - 1], d, l)
    <3>1. \A l \in 0 .. n : l # 0 => l \in 1 .. n
      OBVIOUS
    <3> QED BY <1>6, <1>8, <3>1
  <2> QED BY <2>1
<1>10. G = [l \in 0 .. n |-> IF l = 0 THEN none ELSE RanksWith(G[l - 1], d, l)]
  BY <1>9
<1> HIDE DEF G
<1>11. PICK g : g = G
  OBVIOUS
<1>12. g[0] = none /\ \A l \in 1 .. n : g[l] = RanksWith(g[l - 1], d, l)
  <2>1. 0 \in 0 .. n
    OBVIOUS
  <2> QED BY <1>7, <1>10, <1>11, <2>1
<1>13. \A l \in 1 .. n : g[l - 1] \in Seq(Nat) => g[l] \in Seq(Nat)
  BY <1>4, <1>12
<1>14. \A l \in 0 .. n : g[l] \in Seq(Nat)
  BY <1>12, <1>13, Steps
<1>15. g \in [0 .. n -> Seq(Nat)]
  BY <1>10, <1>11, <1>14
<1> QED BY <1>1, <1>2, <1>3, <1>11, <1>12, <1>15

-----------------------------------------------------------------------------
(* What is said of the lists stays while they do.                          *)
LEMMA ListsStay ==
  ASSUME UNCHANGED input, NEW d
  PROVE  /\ ListsWith(d)' = ListsWith(d) /\ RanksUpTo(d)' = RanksUpTo(d)
         /\ \A l : Positions(d, l)' = Positions(d, l)
         /\ \A l : FirstPosition(d, l)' = FirstPosition(d, l)
         /\ \A l : PayloadIn(d, l)' = PayloadIn(d, l)
<1>1. \A l : Positions(d, l)' = Positions(d, l)
  BY DEF Positions
<1>2. ListsWith(d)' = ListsWith(d)
  BY <1>1 DEF ListsWith
<1>3. \A l : FirstPosition(d, l)' = FirstPosition(d, l)
  BY DEF FirstPosition, Positions
<1>4. RanksUpTo(d)' = RanksUpTo(d)
  BY DEF RanksUpTo, RanksWith, ListsWith, FirstPosition, Positions
<1>5. \A l : PayloadIn(d, l)' = PayloadIn(d, l)
  BY <1>3 DEF PayloadIn
<1> QED BY <1>1, <1>2, <1>3, <1>4, <1>5

(* The entry the scan looks at.                                            *)
LEMMA EntryIsListed ==
  ASSUME Given, Positioned, Visit
  PROVE  /\ list \in DOMAIN input /\ index \in DOMAIN input[list] /\ index \in Nat
         /\ Entry = input[list][index] /\ Entry.payload \in Nat
         /\ Entry.id # NoId => Entry.id \in Ids
         /\ \A d \in Ids : index \in Positions(d, list) <=> d = Entry.id
<1>1. list <= Len(input) /\ index <= Len(input[list])
  BY DEF Visit
<1>2. list \in DOMAIN input
  BY <1>1, InputIsTyped DEF Positioned
<1>3. index \in DOMAIN input[list] /\ index \in Nat
  BY <1>1, <1>2, InputIsTyped DEF Positioned
<1>4. input[list][index] \in Listings
  BY <1>2, <1>3, InputIsTyped
<1>5. Entry = input[list][index]
  BY DEF Entry
<1>6. Entry.payload \in Nat /\ (Entry.id # NoId => Entry.id \in Ids)
  BY <1>4, <1>5 DEF Listings
<1>7. \A d \in Ids : index \in Positions(d, list) <=> d = Entry.id
  BY <1>3, <1>5 DEF Positions
<1> QED BY <1>2, <1>3, <1>5, <1>6, <1>7

(* After one entry, what this list has shown includes it.                  *)
LEMMA VisitSees ==
  ASSUME Given, Positioned, SeenHere, Visit
  PROVE  Positioned' /\ SeenHere'
<1>1. UNCHANGED <<input, list>> /\ index' = index + 1
  BY DEF Visit
<1>2. Positioned'
  BY <1>1, InputIsTyped DEF Positioned, Visit
<1>3. \A d \in Ids : (\E i \in Positions(d, list) : i < index + 1) <=>
        d = Entry.id \/ \E i \in Positions(d, list) : i < index
  <2> SUFFICES ASSUME NEW d \in Ids
               PROVE  (\E i \in Positions(d, list) : i < index + 1) <=>
                        d = Entry.id \/ \E i \in Positions(d, list) : i < index
    OBVIOUS
  <2>1. index \in Positions(d, list) <=> d = Entry.id
    BY EntryIsListed
  <2>2. \A i \in Positions(d, list) : i \in Nat
    BY EntryIsListed, InputIsTyped DEF Positions
  <2>3. \A i \in Positions(d, list) : i < index + 1 <=> i < index \/ i = index
    BY <2>2, EntryIsListed
  <2> QED BY <2>1, <2>3
<1>4. \A d \in Ids : d \in seen' <=> d \in seen \/ d = Entry.id
  BY FusionAssumption DEF Visit
<1>5. seen' \subseteq Ids
  BY EntryIsListed DEF Visit, SeenHere
<1>6. \A d \in Ids : Positions(d, list)' = Positions(d, list)
  BY <1>1, ListsStay
<1>7. \A d \in Ids : d \in seen' <=> \E i \in Positions(d, list) : i < index + 1
  BY <1>3, <1>4, EntryIsListed DEF SeenHere
<1>8. SeenHere'
  BY <1>1, <1>5, <1>6, <1>7, EntryIsListed DEF SeenHere
<1> QED BY <1>2, <1>8

(* A document met for the first time in this list is at its first position.*)
LEMMA NewIsFirst ==
  ASSUME Given, Positioned, SeenHere, Visit, Entry.id # NoId, Entry.id \notin seen
  PROVE  list \in ListsWith(Entry.id) /\ FirstPosition(Entry.id, list) = index
<1>1. PICK e \in Ids : e = Entry.id
  BY EntryIsListed
<1>2. index \in Positions(e, list) /\ list \in DOMAIN input /\ index \in Nat
  BY <1>1, EntryIsListed
<1>3. list \in ListsWith(e)
  BY <1>2 DEF ListsWith
<1>4. \A i \in Positions(e, list) : ~(i < index)
  BY <1>1, <1>2 DEF SeenHere
<1>5. FirstPosition(e, list) \in Positions(e, list) /\ FirstPosition(e, list) \in Nat
      /\ FirstPosition(e, list) <= index
  BY <1>2, <1>3, FirstPositions
<1>6. FirstPosition(e, list) = index
  BY <1>2, <1>4, <1>5
<1> QED BY <1>1, <1>3, <1>6

(* Its rank is recorded, and nothing else.                                 *)
LEMMA VisitRanks ==
  ASSUME Given, Positioned, SeenHere, RankedSoFar, Visit
  PROVE  RankedSoFar'
<1>1. UNCHANGED <<input, list>>
  BY DEF Visit
<1>2. \A d \in Ids : UNCHANGED <<RanksUpTo(d), FirstPosition(d, list)>>
  BY <1>1, ListsStay
<1>3. CASE Entry.id = NoId \/ Entry.id \in seen
  <2>1. UNCHANGED <<seen, ranks>>
    BY <1>3 DEF Visit
  <2> QED BY <1>1, <1>2, <2>1 DEF RankedSoFar
<1>4. CASE Entry.id # NoId /\ Entry.id \notin seen
  <2>1. PICK e \in Ids : e = Entry.id
    BY <1>4, EntryIsListed
  <2>2. seen' = seen \cup {e} /\ ranks' = [ranks EXCEPT ![e] = Append(ranks[e], index)]
    BY <1>4, <2>1 DEF Visit
  <2>3. FirstPosition(e, list) = index /\ index \in Nat
    BY <1>4, <2>1, NewIsFirst, EntryIsListed
  <2>4. ranks \in [Ids -> Seq(Nat)] /\ ranks[e] = RanksUpTo(e)[list - 1]
    BY <1>4, <2>1 DEF RankedSoFar
  <2>5. Append(ranks[e], index) \in Seq(Nat)
    BY <2>3, <2>4
  <2>6. ranks' \in [Ids -> Seq(Nat)]
    BY <2>2, <2>4, <2>5
  <2>7. ASSUME NEW d \in Ids
        PROVE  ranks'[d] = IF d \in seen' THEN Append(RanksUpTo(d)[list - 1], FirstPosition(d, list))
                           ELSE RanksUpTo(d)[list - 1]
    <3>1. CASE d = e
      <4>1. ranks'[d] = Append(ranks[e], index)
        BY <2>2, <2>4, <3>1
      <4> QED BY <2>2, <2>3, <2>4, <3>1, <4>1
    <3>2. CASE d # e
      <4>1. ranks'[d] = ranks[d] /\ (d \in seen' <=> d \in seen)
        BY <2>2, <2>4, <3>2
      <4> QED BY <4>1 DEF RankedSoFar
    <3> QED BY <3>1, <3>2
  <2> QED BY <1>1, <1>2, <2>6, <2>7 DEF RankedSoFar
<1> QED BY <1>3, <1>4

(* Its payload is kept unless an earlier list had one.                     *)
LEMMA VisitKeeps ==
  ASSUME Given, Positioned, SeenHere, KeptSoFar, Visit
  PROVE  KeptSoFar'
<1>1. UNCHANGED <<input, list>>
  BY DEF Visit
<1>2. \A d \in Ids : /\ ListsWith(d)' = ListsWith(d)
                     /\ \A l : PayloadIn(d, l)' = PayloadIn(d, l)
  BY <1>1, ListsStay
<1>3. CASE Entry.id = NoId \/ Entry.id \in seen
  <2>1. UNCHANGED <<seen, payload>>
    BY <1>3 DEF Visit
  <2>2. \A d \in Ids : ListsPassed(d)' = ListsPassed(d)
    BY <1>1, <1>2, <2>1 DEF ListsPassed
  <2>3. \A d \in Ids : PayloadFrom(d, ListsPassed(d))' <=> PayloadFrom(d, ListsPassed(d))
    BY <1>2, <2>1, <2>2 DEF PayloadFrom
  <2> QED BY <2>1, <2>3 DEF KeptSoFar
<1>4. CASE Entry.id # NoId /\ Entry.id \notin seen
  <2>1. PICK e \in Ids : e = Entry.id
    BY <1>4, EntryIsListed
  <2>2. PICK p \in Nat : p = Entry.payload
    BY EntryIsListed
  <2>3. /\ seen' = seen \cup {e}
        /\ payload' = [payload EXCEPT ![e] = IF payload[e] = Nil THEN p ELSE payload[e]]
    BY <1>4, <2>1, <2>2 DEF Visit
  <2>4. payload \in [Ids -> Nat] /\ \A d \in Ids : PayloadFrom(d, ListsPassed(d))
    BY DEF KeptSoFar
  <2>5. payload' \in [Ids -> Nat]
    BY <2>3, <2>4
  <2>6. list \in ListsWith(e) /\ PayloadIn(e, list) = p /\ list \in Nat
    BY <1>4, <2>1, <2>2, NewIsFirst, EntryIsListed DEF PayloadIn, Positioned
  <2>7. \A l \in ListsWith(e) : l \in Nat
    BY InputIsTyped DEF ListsWith
  <2>8. ASSUME NEW d \in Ids PROVE PayloadFrom(d, ListsPassed(d))'
    <3>1. CASE d # e
      <4>1. payload'[d] = payload[d] /\ (d \in seen' <=> d \in seen)
        BY <2>3, <2>4, <3>1
      <4>2. ListsPassed(d)' = ListsPassed(d)
        BY <1>1, <1>2, <4>1 DEF ListsPassed
      <4> QED BY <1>2, <2>4, <4>1, <4>2 DEF PayloadFrom
    <3>2. CASE d = e
      <4> DEFINE before == {l \in ListsWith(e) : l < list}
      <4>1. ListsPassed(e) = before
        BY <1>4, <2>1, <2>6, <2>7 DEF ListsPassed
      <4>2. ListsPassed(e)' = before \cup {list}
        BY <1>1, <1>2, <2>3, <2>6, <2>7 DEF ListsPassed
      <4>3. payload'[e] = IF payload[e] = Nil THEN p ELSE payload[e]
        BY <2>3, <2>4
      <4>4. PayloadFrom(e, before)
        BY <2>4, <4>1
      <4>5. \A l \in before : l \in Nat /\ l < list
        BY <2>7
      <4> HIDE DEF before
      <4>6. CASE payload[e] = Nil
        <5>1. \A l \in before : PayloadIn(e, l) = Nil
          BY <4>4, <4>6 DEF PayloadFrom
        <5>2. payload'[e] = p
          BY <4>3, <4>6
        <5> QED BY <1>2, <2>6, <3>2, <4>2, <5>1, <5>2 DEF PayloadFrom
      <4>7. CASE payload[e] # Nil
        <5>1. payload'[e] = payload[e]
          BY <4>3, <4>7
        <5>2. PICK l \in before : /\ payload[e] = PayloadIn(e, l)
                                  /\ \A m \in before : PayloadIn(e, m) # Nil => l <= m
          BY <4>4, <4>7 DEF PayloadFrom
        <5>3. \A m \in before \cup {list} : PayloadIn(e, m) # Nil => l <= m
          BY <2>6, <4>5, <5>2
        <5> QED BY <1>2, <3>2, <4>2, <4>7, <5>1, <5>2, <5>3 DEF PayloadFrom
      <4> QED BY <4>6, <4>7
    <3> QED BY <3>1, <3>2
  <2> QED BY <2>5, <2>8 DEF KeptSoFar
<1> QED BY <1>3, <1>4

(* At the end of a list, seen is what it has.                              *)
LEMMA SeenIsListed ==
  ASSUME Given, Positioned, SeenHere, NextList
  PROVE  list \in DOMAIN input /\ \A d \in Ids : d \in seen <=> list \in ListsWith(d)
<1>1. list <= Len(input) /\ index > Len(input[list])
  BY DEF NextList
<1>2. list \in DOMAIN input
  BY <1>1, InputIsTyped DEF Positioned
<1>3. \A d \in Ids : \A i \in Positions(d, list) : i < index
  <2>1. Len(input[list]) \in Nat /\ DOMAIN input[list] = 1 .. Len(input[list])
    BY <1>2, InputIsTyped
  <2>2. index \in Nat
    BY DEF Positioned
  <2> QED BY <1>1, <2>1, <2>2 DEF Positions
<1>4. \A d \in Ids : d \in seen <=> Positions(d, list) # {}
  BY <1>2, <1>3 DEF SeenHere
<1> QED BY <1>2, <1>4 DEF ListsWith

(* A finished list is one of those passed.                                 *)
LEMMA NextListFollows ==
  ASSUME Given, Positioned, SeenHere, RankedSoFar, KeptSoFar, NextList
  PROVE  Positioned' /\ SeenHere' /\ RankedSoFar' /\ KeptSoFar'
<1>1. list' = list + 1 /\ index' = 1 /\ seen' = {} /\ UNCHANGED <<input, ranks, payload>>
  BY DEF NextList
<1>2. list \in DOMAIN input /\ \A d \in Ids : d \in seen <=> list \in ListsWith(d)
  BY SeenIsListed
<1>3. list \in 1 .. Len(input) /\ Len(input) \in Nat /\ DOMAIN input = 1 .. Len(input)
  BY <1>2, InputIsTyped
<1>4. Positioned'
  <2>1. list + 1 <= Len(input) => Len(input[list + 1]) \in Nat
    BY <1>3, InputIsTyped
  <2> QED BY <1>1, <1>3, <2>1 DEF Positioned
<1>5. SeenHere'
  <2>1. \A d \in Ids : \A i \in Positions(d, list + 1) :
          list + 1 \in DOMAIN input => ~(i < 1)
    BY InputIsTyped DEF Positions
  <2>2. \A d \in Ids : Positions(d, list)' = Positions(d, list + 1)
    BY <1>1 DEF Positions
  <2> QED BY <1>1, <2>1, <2>2 DEF SeenHere
<1>6. RankedSoFar'
  <2>1. ASSUME NEW d \in Ids PROVE ranks'[d] = RanksUpTo(d)[list]
    <3>1. RanksUpTo(d)[list] = RanksWith(RanksUpTo(d)[list - 1], d, list)
      BY <1>3, RanksUnfold
    <3>2. ranks[d] = IF d \in seen THEN Append(RanksUpTo(d)[list - 1], FirstPosition(d, list))
                     ELSE RanksUpTo(d)[list - 1]
      BY DEF RankedSoFar
    <3> QED BY <1>1, <1>2, <3>1, <3>2 DEF RanksWith
  <2>2. \A d \in Ids : RanksUpTo(d)' = RanksUpTo(d)
    BY <1>1, ListsStay
  <2>3. list' - 1 = list /\ ranks' \in [Ids -> Seq(Nat)]
    BY <1>1, <1>3 DEF RankedSoFar
  <2> QED BY <1>1, <2>1, <2>2, <2>3 DEF RankedSoFar
<1>7. KeptSoFar'
  <2>1. \A d \in Ids : /\ ListsWith(d)' = ListsWith(d)
                       /\ \A l : PayloadIn(d, l)' = PayloadIn(d, l)
    BY <1>1, ListsStay
  <2>2. ASSUME NEW d \in Ids PROVE ListsPassed(d)' = ListsPassed(d)
    <3>1. \A l \in ListsWith(d) : l \in Nat
      BY InputIsTyped DEF ListsWith
    <3>2. \A l \in ListsWith(d) : l < list + 1 <=> l < list \/ (l = list /\ d \in seen)
      BY <1>2, <1>3, <3>1
    <3> QED BY <1>1, <2>1, <3>2 DEF ListsPassed
  <2>3. \A d \in Ids : PayloadFrom(d, ListsPassed(d))' <=> PayloadFrom(d, ListsPassed(d))
    BY <1>1, <2>1, <2>2 DEF PayloadFrom
  <2> QED BY <1>1, <2>3 DEF KeptSoFar
<1> QED BY <1>4, <1>5, <1>6, <1>7

(* When every list was passed, every candidate has its ranks and payload.  *)
LEMMA RankAnswers ==
  ASSUME Given, Positioned, SeenHere, RankedSoFar, KeptSoFar, Rank
  PROVE  Answered'
<1>1. UNCHANGED <<input, limit, ranks, payload>>
  BY DEF Rank
<1>2. list = Len(input) + 1 /\ Len(input) \in Nat /\ DOMAIN input = 1 .. Len(input)
  BY InputIsTyped DEF Positioned, Rank
<1>3. \A d \in Ids : d \notin seen
  BY <1>2 DEF SeenHere
<1>4. ASSUME NEW d \in Ids PROVE ranks'[d] = RanksOf(d)'
  <2>1. ranks[d] = RanksUpTo(d)[list - 1] /\ list - 1 = Len(input)
    BY <1>2, <1>3 DEF RankedSoFar
  <2>2. RanksUpTo(d)' = RanksUpTo(d)
    BY <1>1, ListsStay
  <2> QED BY <1>1, <2>1, <2>2 DEF RanksOf
<1>5. ASSUME NEW d \in Ids PROVE PayloadFrom(d, ListsWith(d))'
  <2>1. /\ ListsWith(d)' = ListsWith(d)
        /\ \A l : PayloadIn(d, l)' = PayloadIn(d, l)
    BY <1>1, ListsStay
  <2>2. ListsPassed(d) = ListsWith(d)
    BY <1>2 DEF ListsPassed, ListsWith
  <2>3. PayloadFrom(d, ListsPassed(d))
    BY DEF KeptSoFar
  <2> QED BY <1>1, <2>1, <2>2, <2>3 DEF PayloadFrom
<1>6. SortedAnswer'
  <2>1. Candidates' = Candidates
    BY <1>1 DEF Candidates
  <2>2. \A a, b : Before(a, b)' <=> Before(a, b)
    BY <1>1 DEF Before
  <2>3. \E s \in Orders(Candidates) :
          /\ \A i, j \in DOMAIN s : i < j => ~Before(s[j], s[i])
          /\ results' = SubSeq(s, 1, IF Len(s) > limit THEN limit ELSE Len(s))
    BY DEF Rank
  <2> QED BY <1>1, <2>1, <2>2, <2>3 DEF SortedAnswer
<1> QED BY <1>4, <1>5, <1>6 DEF Answered

-----------------------------------------------------------------------------
(* The candidates are what the lists have.                                 *)
LEMMA CandidatesAreFound ==
  ASSUME Given, \A d \in Ids : ranks[d] = RanksOf(d)
  PROVE  Candidates = Found
<1>1. PICK n \in Nat : n = Len(input) /\ DOMAIN input = 1 .. n
  BY InputIsTyped
<1>2. ASSUME NEW d \in Ids PROVE RanksOf(d) # <<>> <=> ListsWith(d) # {}
  <2>1. PICK f : f = RanksUpTo(d)
    OBVIOUS
  <2>2. /\ f \in [0 .. n -> Seq(Nat)] /\ f[0] = <<>> /\ f[n] = RanksOf(d)
        /\ \A l \in 1 .. n : f[l] = RanksWith(f[l - 1], d, l)
    BY <1>1, <2>1, RanksUnfold DEF RanksOf
  <2>3. \A l \in ListsWith(d) : l \in 1 .. n /\ FirstPosition(d, l) \in Nat
    BY <1>1, FirstPositions
  <2>4. ASSUME ListsWith(d) = {} PROVE RanksOf(d) = <<>>
    <3>1. PICK none : none = {<<>>}
      OBVIOUS
    <3>2. \A l \in 1 .. n : f[l - 1] \in none => f[l] \in none
      BY <2>2, <2>4 DEF RanksWith
    <3>3. f[0] \in none
      BY <2>2, <3>1
    <3>4. \A l \in 0 .. n : f[l] \in none
      BY <3>2, <3>3, Steps
    <3>5. n \in 0 .. n
      OBVIOUS
    <3> QED BY <2>2, <3>1, <3>4, <3>5
  <2>5. ASSUME NEW k \in ListsWith(d) PROVE RanksOf(d) # <<>>
    <3>1. PICK some : some = {s \in Seq(Nat) : s # <<>>}
      OBVIOUS
    <3>2. ASSUME NEW s \in Seq(Nat), NEW l \in ListsWith(d) PROVE RanksWith(s, d, l) \in some
      <4>1. Append(s, FirstPosition(d, l)) \in Seq(Nat)
        BY <2>3
      <4>2. Append(s, FirstPosition(d, l)) # <<>>
        BY <2>3
      <4> QED BY <3>1, <4>1, <4>2 DEF RanksWith
    <3>3. ASSUME NEW l \in 1 .. n, f[l - 1] \in some PROVE f[l] \in some
      <4>1. f[l - 1] \in Seq(Nat)
        BY <3>1, <3>3
      <4>2. CASE l \in ListsWith(d)
        BY <2>2, <3>2, <4>1, <4>2
      <4>3. CASE l \notin ListsWith(d)
        BY <2>2, <3>3, <4>3 DEF RanksWith
      <4> QED BY <4>2, <4>3
    <3>4. k \in 1 .. n /\ k - 1 \in 0 .. n
      BY <2>3
    <3>5. f[k] \in some
      <4>1. f[k - 1] \in Seq(Nat) /\ f[k] = RanksWith(f[k - 1], d, k)
        BY <2>2, <3>4
      <4> QED BY <3>2, <4>1
    <3> DEFINE g == [j \in 0 .. n - k |-> f[k + j]]
    <3>6. g[0] \in some /\ g[n - k] = f[n] /\ n - k \in Nat
      <4>1. n - k \in Nat /\ 0 \in 0 .. n - k /\ n - k \in 0 .. n - k /\ k + 0 = k
            /\ k + (n - k) = n
        BY <3>4
      <4> QED BY <3>5, <4>1
    <3>7. \A j \in 1 .. n - k : g[j - 1] \in some => g[j] \in some
      <4> SUFFICES ASSUME NEW j \in 1 .. n - k, g[j - 1] \in some PROVE g[j] \in some
        OBVIOUS
      <4>1. /\ k + j \in 1 .. n /\ k + (j - 1) = (k + j) - 1
            /\ j \in 0 .. n - k /\ j - 1 \in 0 .. n - k
        BY <3>4
      <4>2. g[j] = f[k + j] /\ g[j - 1] = f[(k + j) - 1]
        BY <4>1
      <4> HIDE DEF g
      <4> QED BY <3>3, <4>1, <4>2
    <3> HIDE DEF g
    <3>8. \A j \in 0 .. n - k : g[j] \in some
      BY <3>6, <3>7, Steps
    <3>9. f[n] \in some
      BY <3>6, <3>8
    <3> QED BY <2>2, <3>1, <3>9
  <2> QED BY <2>4, <2>5
<1> QED BY <1>2 DEF Candidates, Found

(* The payload a document keeps is the one the definition gives it.        *)
LEMMA PayloadIsFirst ==
  ASSUME Given, NEW d, PayloadFrom(d, ListsWith(d))
  PROVE  payload[d] = FirstPayload(d)
<1> DEFINE with == {l \in ListsWith(d) : input[l][FirstPosition(d, l)].payload # Nil}
           first == CHOOSE l \in with : \A m \in with : l <= m
<1>1. with = {l \in ListsWith(d) : PayloadIn(d, l) # Nil} /\ with \subseteq Nat
  BY InputIsTyped DEF PayloadIn, ListsWith
<1>2. FirstPayload(d) = IF with = {} THEN Nil ELSE PayloadIn(d, first)
  BY DEF FirstPayload, PayloadIn
<1>3. ASSUME NEW l \in with, \A m \in with : l <= m PROVE first = l
  <2>1. first \in with /\ \A m \in with : first <= m
    BY <1>3
  <2> HIDE DEF first, with
  <2>2. first \in Nat /\ l \in Nat /\ first <= l /\ l <= first
    BY <1>1, <1>3, <2>1
  <2> QED BY <2>2
<1> HIDE DEF first, with
<1>4. CASE payload[d] = Nil
  <2>1. with = {}
    BY <1>1, <1>4 DEF PayloadFrom
  <2> QED BY <1>2, <1>4, <2>1
<1>5. CASE payload[d] # Nil
  <2>1. PICK l \in ListsWith(d) : /\ payload[d] = PayloadIn(d, l)
                                  /\ \A m \in ListsWith(d) : PayloadIn(d, m) # Nil => l <= m
    BY <1>5 DEF PayloadFrom
  <2>2. l \in with /\ \A m \in with : l <= m
    BY <1>1, <1>5, <2>1
  <2>3. first = l
    BY <1>3, <2>2
  <2> QED BY <1>2, <2>1, <2>2, <2>3
<1> QED BY <1>4, <1>5

(* A sequence cut to a limit.                                              *)
LEMMA CutToLimit ==
  ASSUME NEW S, NEW s \in Seq(S), NEW n \in Nat, NEW r,
         r = SubSeq(s, 1, IF Len(s) > n THEN n ELSE Len(s))
  PROVE  /\ Len(r) = (IF Len(s) > n THEN n ELSE Len(s)) /\ DOMAIN r = 1 .. Len(r)
         /\ \A i \in 1 .. Len(r) : i \in 1 .. Len(s) /\ r[i] = s[i]
<1>1. Len(s) \in Nat
  BY LenProperties
<1>2. PICK m \in Nat : m = (IF Len(s) > n THEN n ELSE Len(s)) /\ m <= Len(s)
  BY <1>1
<1>3. r = SubSeq(s, 1, m)
  BY <1>2
<1>4. \A i \in 1 .. m : s[i] \in S /\ i \in 1 .. Len(s)
  BY <1>1, <1>2
<1>5. r = [i \in 1 .. m |-> s[i]]
  BY <1>2, <1>3
<1>6. r \in Seq(S) /\ Len(r) = m /\ DOMAIN r = 1 .. m /\ \A i \in 1 .. m : r[i] = s[i]
  BY <1>4, <1>5
<1> QED BY <1>2, <1>4, <1>6

(* An answer has the best of the candidates, each once, with its payload.  *)
LEMMA AnswersKeep ==
  ASSUME Given, Answered, step = "done"
  PROVE  KeptByDefinition
<1>1. Candidates = Found /\ Found \in SUBSET Ids
  BY CandidatesAreFound DEF Answered, Found
<1>2. PICK s \in Orders(Found) :
        results = SubSeq(s, 1, IF Len(s) > limit THEN limit ELSE Len(s))
  BY <1>1 DEF Answered, SortedAnswer
<1>3. /\ Cardinality(Found) \in Nat /\ s \in Seq(Found) /\ Len(s) = Cardinality(Found)
      /\ \A i, j \in 1 .. Len(s) : s[i] = s[j] => i = j
  BY <1>1, OrdersAreComplete DEF Orders
<1>4. limit \in Nat
  BY DEF Given
<1>5. /\ Len(results) = (IF Len(s) > limit THEN limit ELSE Len(s))
      /\ DOMAIN results = 1 .. Len(results)
      /\ \A i \in 1 .. Len(results) : i \in 1 .. Len(s) /\ results[i] = s[i]
  <2>1. s \in Seq(Found)
    BY <1>3
  <2> QED BY <1>2, <1>4, <2>1, CutToLimit
<1>6. Len(results) = IF Cardinality(Found) > limit THEN limit ELSE Cardinality(Found)
  BY <1>3, <1>5
<1>7. \A i, j \in 1 .. Len(results) : results[i] = results[j] => i = j
  BY <1>3, <1>5
<1>8. ASSUME NEW i \in 1 .. Len(results)
      PROVE  results[i] \in Found /\ payload[results[i]] = FirstPayload(results[i])
  <2>1. results[i] \in Found
    BY <1>3, <1>5
  <2>2. PayloadFrom(results[i], ListsWith(results[i]))
    BY <1>1, <2>1 DEF Answered
  <2> QED BY <2>1, <2>2, PayloadIsFirst
<1> QED BY <1>5, <1>6, <1>7, <1>8 DEF KeptByDefinition

(* The same ranks make the same sum, whatever order they were met in.      *)
LEMMA SameRanksSameScore ==
  ASSUME NEW s \in Seq(Nat), NEW t \in Seq(Nat), SameRanks(s, t)
  PROVE  Score(s) = Score(t)
<1>1. PICK m \in Nat, n \in Nat : DOMAIN s = 1 .. m /\ DOMAIN t = 1 .. n
  BY LenProperties
<1>2. PICK p \in Bijection(1 .. m, 1 .. n) : \A i \in 1 .. m : s[i] = t[p[i]]
  BY <1>1 DEF SameRanks
<1>3. /\ p \in [1 .. m -> 1 .. n] /\ p \in Injection(1 .. m, 1 .. n)
      /\ p \in Surjection(1 .. m, 1 .. n)
      /\ \A i, j \in 1 .. m : p[i] = p[j] => i = j
      /\ \A k \in 1 .. n : \E i \in 1 .. m : p[i] = k
  <2>1. PICK S, T : S = 1 .. m /\ T = 1 .. n
    OBVIOUS
  <2>2. p \in Bijection(S, T)
    BY <2>1
  <2>3. /\ p \in [S -> T] /\ p \in Injection(S, T) /\ p \in Surjection(S, T)
        /\ \A i, j \in S : p[i] = p[j] => i = j
        /\ \A k \in T : \E i \in S : p[i] = k
    BY <2>2, Fun_BijectionProperties
  <2> QED BY <2>1, <2>3
<1>4. /\ IsFiniteSet(1 .. m) /\ IsFiniteSet(1 .. n)
      /\ Cardinality(1 .. m) = m /\ Cardinality(1 .. n) = n
  BY FS_Interval
<1>5. m = n
  <2>1. Cardinality(1 .. n) = Cardinality(1 .. m) <=> p \in Injection(1 .. m, 1 .. n)
    BY <1>3, <1>4, FS_Surjection
  <2> QED BY <1>3, <1>4, <2>1
<1>6. {s[i] : i \in DOMAIN s} = {t[k] : k \in DOMAIN t}
  <2>1. \A i \in 1 .. m : p[i] \in 1 .. n /\ s[i] = t[p[i]]
    BY <1>2, <1>3
  <2>2. ASSUME NEW k \in 1 .. n PROVE \E i \in 1 .. m : s[i] = t[k]
    <3>1. PICK i \in 1 .. m : p[i] = k
      BY <1>3
    <3> QED BY <2>1, <3>1
  <2>3. ASSUME NEW i \in 1 .. m PROVE s[i] \in {t[k] : k \in 1 .. n}
    BY <2>1
  <2>4. ASSUME NEW k \in 1 .. n PROVE t[k] \in {s[i] : i \in 1 .. m}
    BY <2>2
  <2>5. {s[i] : i \in 1 .. m} = {t[k] : k \in 1 .. n}
    BY <2>3, <2>4
  <2> QED BY <1>1, <2>5
<1>7. ASSUME NEW r PROVE AtMost(s, r) = AtMost(t, r)
  <2> DEFINE A == {i \in 1 .. m : s[i] <= r}
             B == {k \in 1 .. n : t[k] <= r}
             f == [i \in A |-> p[i]]
  <2>1. AtMost(s, r) = Cardinality(A) /\ AtMost(t, r) = Cardinality(B)
    BY <1>1 DEF AtMost
  <2>2. IsFiniteSet(A)
    BY <1>4, FS_Subset
  <2>3. \A i \in A : i \in 1 .. m /\ p[i] \in B
    BY <1>2, <1>3
  <2>4. ASSUME NEW k \in B PROVE \E i \in A : p[i] = k
    <3>1. PICK i \in 1 .. m : p[i] = k
      BY <1>3
    <3>2. s[i] = t[k]
      BY <1>2, <3>1
    <3> QED BY <3>1, <3>2
  <2> HIDE DEF A, B
  <2>5. f \in [A -> B]
    BY <2>3
  <2>6. f \in Surjection(A, B)
    BY <2>4, <2>5 DEF Surjection
  <2>7. \A i, j \in A : f[i] = f[j] => i = j
    BY <1>3, <2>3
  <2> HIDE DEF f
  <2>8. f \in Injection(A, B)
    BY <2>5, <2>7, Fun_IsInj
  <2>9. Cardinality(A) = Cardinality(B)
    BY <2>2, <2>6, <2>8, FS_Surjection
  <2> QED BY <2>1, <2>9
<1>8. Ascending(s) = Ascending(t)
  <2> DEFINE least(u, i) == Min({r \in {u[j] : j \in DOMAIN u} : AtMost(u, r) >= i})
  <2>1. ASSUME NEW i PROVE least(s, i) = least(t, i)
    <3>1. {r \in {s[j] : j \in DOMAIN s} : AtMost(s, r) >= i}
            = {r \in {t[j] : j \in DOMAIN t} : AtMost(t, r) >= i}
      <4>1. PICK V : V = {s[j] : j \in DOMAIN s}
        OBVIOUS
      <4>2. {r \in V : AtMost(s, r) >= i} = {r \in V : AtMost(t, r) >= i}
        BY <1>7
      <4> QED BY <1>6, <4>1, <4>2
    <3> QED BY <3>1
  <2>2. /\ Ascending(s) = [i \in DOMAIN s |-> least(s, i)]
        /\ Ascending(t) = [i \in DOMAIN t |-> least(t, i)]
    BY DEF Ascending
  <2> HIDE DEF least
  <2>3. DOMAIN s = DOMAIN t
    BY <1>1, <1>5
  <2> QED BY <2>1, <2>2, <2>3
<1> QED BY <1>8 DEF Score

(* So of two answers with the same ranks the sort takes the smaller id.    *)
LEMMA TiesAreById ==
  ASSUME Given, Answered, step = "done"
  PROVE  TiesById
<1>1. Candidates = Found /\ Found \in SUBSET Ids
  BY CandidatesAreFound DEF Answered, Found
<1>2. PICK s \in Orders(Found) :
        /\ \A i, j \in DOMAIN s : i < j => ~Before(s[j], s[i])
        /\ results = SubSeq(s, 1, IF Len(s) > limit THEN limit ELSE Len(s))
  BY <1>1 DEF Answered, SortedAnswer
<1>3. s \in Seq(Found) /\ Len(s) \in Nat /\ DOMAIN s = 1 .. Len(s)
  BY <1>1, OrdersAreComplete
<1>4. \A i \in DOMAIN results : i \in DOMAIN s /\ results[i] = s[i]
  <2>1. s \in Seq(Found) /\ limit \in Nat
    BY <1>3 DEF Given
  <2> QED BY <1>2, <1>3, <2>1, CutToLimit
<1>5. SUFFICES ASSUME NEW i \in DOMAIN results, NEW j \in DOMAIN results, i < j,
                      SameRanks(RanksOf(results[i]), RanksOf(results[j]))
               PROVE  results[i] < results[j]
  BY DEF TiesById
<1>6. PICK a \in Ids, b \in Ids : a = results[i] /\ b = results[j]
  BY <1>1, <1>3, <1>4
<1>7. a \in Nat /\ b \in Nat /\ a # b
  <2>1. s[i] # s[j] /\ i \in DOMAIN s /\ j \in DOMAIN s
    <3>1. i \in 1 .. Len(s) /\ j \in 1 .. Len(s) /\ i # j
      BY <1>3, <1>4, <1>5
    <3>2. \A x, y \in DOMAIN s : s[x] = s[y] => x = y
      BY DEF Orders
    <3> QED BY <1>3, <3>1, <3>2
  <2> QED BY <1>4, <1>6, <2>1, FusionAssumption
<1>8. /\ ranks[a] = RanksOf(a) /\ ranks[b] = RanksOf(b)
      /\ RanksOf(a) \in Seq(Nat) /\ RanksOf(b) \in Seq(Nat)
  <2>1. Len(input) \in 0 .. Len(input)
    BY InputIsTyped
  <2>2. \A d : RanksOf(d) \in Seq(Nat)
    BY <2>1, RanksUnfold DEF RanksOf
  <2> QED BY <1>6, <2>2 DEF Answered
<1>9. Score(ranks[a]) = Score(ranks[b])
  BY <1>5, <1>6, <1>8, SameRanksSameScore
<1>10. ~Before(b, a)
  BY <1>2, <1>4, <1>5, <1>6
<1> QED BY <1>6, <1>7, <1>9, <1>10 DEF Before

(* The sort fills the page, or has nothing left to fill it with.           *)
LEMMA PageIsFull ==
  ASSUME LimitsAgree, Called, Given, Answered, cfg # NoService
  PROVE  FullPage
<1> DEFINE keyword == matches.keyword
           vector == matches.vector
           has(m) == {m[i] : i \in DOMAIN m}
<1>1. PICK s \in Orders(Candidates) :
        results = SubSeq(s, 1, IF Len(s) > limit THEN limit ELSE Len(s))
  BY DEF Answered, SortedAnswer
<1>2. Candidates \in SUBSET Ids
  BY DEF Candidates
<1>3. /\ Cardinality(Candidates) \in Nat /\ s \in Seq(Candidates)
      /\ Len(s) = Cardinality(Candidates) /\ has(s) = Candidates
  BY <1>2, OrdersAreComplete
<1>4. limit = Page /\ limit \in Nat /\ limit <= cfg.candidates
  BY DEF Called, LimitsAgree, Page
<1>5. Len(results) = IF Len(s) > limit THEN limit ELSE Len(s)
  BY <1>1, <1>3, <1>4
<1>6. Len(results) <= limit
  BY <1>3, <1>4, <1>5
<1>7. ASSUME Len(results) < limit
      PROVE  has(keyword) \cup has(vector) = has(results)
  <2>1. Len(s) < limit /\ results = SubSeq(s, 1, Len(s))
    BY <1>1, <1>3, <1>4, <1>5, <1>7
  <2>2. results = s
    BY <1>3, <2>1
  <2>3. Cardinality(Candidates) < cfg.candidates /\ cfg.candidates \in Nat
    BY <1>3, <1>4, <2>1, ListsAreHits
  <2>4. /\ keyword \in Rankings /\ vector \in Rankings
        /\ input[1] = Hits(keyword, cfg.candidates, Document)
        /\ input[2] = Hits(vector, cfg.candidates, PointPayload)
        /\ \A l \in 1 .. 2 : input[l] \in Seq(Entries)
    BY ListsAreHits
  <2>5. Candidates = {d \in Ids : \E l \in 1 .. 2 : \E i \in 1 .. Len(input[l]) :
                                                        input[l][i].id = d}
    <3>1. Candidates = Found
      BY CandidatesAreFound DEF Answered
    <3>2. DOMAIN input = 1 .. 2 /\ \A l \in 1 .. 2 : DOMAIN input[l] = 1 .. Len(input[l])
      BY ListsAreHits, InputIsTyped
    <3> QED BY <3>1, <3>2 DEF Found, ListsWith, Positions
  <2>6. \A l \in 1 .. 2 : \A i \in 1 .. Len(input[l]) : input[l][i].id \in Ids
    <3>1. \A l \in 1 .. 2 : \A i \in 1 .. Len(input[l]) : input[l][i] \in Entries
      BY <2>4
    <3> QED BY <3>1 DEF Entries
  <2>7. \A l \in 1 .. 2 : \A i \in 1 .. Len(input[l]) : input[l][i].id \in Candidates
    BY <2>5, <2>6
  <2>8. Document \in Nat /\ PointPayload \in Nat
    BY DEF Document, PointPayload
  <2> HIDE DEF keyword, vector
  <2> DEFINE listed(l) == {input[l][i].id : i \in 1 .. Len(input[l])}
  <2>9. has(keyword) = listed(1)
    <3>1. \A i \in 1 .. Len(input[1]) : input[1][i].id \in Candidates
      BY <2>7
    <3>2. \A i \in 1 .. Len(Hits(keyword, cfg.candidates, Document)) :
            Hits(keyword, cfg.candidates, Document)[i].id \in Candidates
      BY <2>4, <3>1, Zenon
    <3>3. has(keyword) = {Hits(keyword, cfg.candidates, Document)[i].id :
                            i \in 1 .. Len(Hits(keyword, cfg.candidates, Document))}
      <4>1. keyword \in Rankings
        BY <2>4
      <4> QED BY <1>2, <2>3, <2>8, <3>2, <4>1, NoListIsCut
    <3> QED BY <2>4, <3>3, Zenon
  <2>10. has(vector) = listed(2)
    <3>1. \A i \in 1 .. Len(input[2]) : input[2][i].id \in Candidates
      BY <2>7
    <3>2. \A i \in 1 .. Len(Hits(vector, cfg.candidates, PointPayload)) :
            Hits(vector, cfg.candidates, PointPayload)[i].id \in Candidates
      BY <2>4, <3>1, Zenon
    <3>3. has(vector) = {Hits(vector, cfg.candidates, PointPayload)[i].id :
                           i \in 1 .. Len(Hits(vector, cfg.candidates, PointPayload))}
      BY <1>2, <2>3, <2>4, <2>8, <3>2, NoListIsCut
    <3> QED BY <2>4, <3>3, Zenon
  <2>11. Candidates = listed(1) \cup listed(2)
    <3>1. \A d : d \in Candidates <=> \E l \in 1 .. 2 : d \in listed(l)
      BY <2>5, <2>6
    <3> HIDE DEF listed
    <3>2. \A d : d \in Candidates <=> d \in listed(1) \/ d \in listed(2)
      BY <3>1
    <3> QED BY <3>2
  <2>12. has(keyword) \cup has(vector) = Candidates
    BY <2>9, <2>10, <2>11, Zenon
  <2> QED BY <1>3, <2>2, <2>12
<1> QED BY <1>4, <1>6, <1>7 DEF FullPage, Page

-----------------------------------------------------------------------------
(* A scan begins as it goes on: nothing was passed, seen, recorded or kept.*)
LEMMA BeginningFollows ==
  Given /\ Begun => Positioned /\ SeenHere /\ RankedSoFar /\ KeptSoFar
<1> SUFFICES ASSUME Given, Begun
             PROVE  Positioned /\ SeenHere /\ RankedSoFar /\ KeptSoFar
  OBVIOUS
<1>1. list = 1 /\ index = 1 /\ seen = {}
  BY DEF Begun
<1>2. Positioned
  <2>1. 1 \in DOMAIN input => Len(input[1]) \in Nat
    BY InputIsTyped
  <2> QED BY <1>1, <2>1, InputIsTyped DEF Positioned
<1>3. SeenHere
  <2>1. ASSUME NEW d \in Ids, 1 \in DOMAIN input, NEW i \in Positions(d, 1) PROVE ~(i < 1)
    BY <2>1, InputIsTyped DEF Positions
  <2> QED BY <1>1, <2>1 DEF SeenHere
<1>4. RankedSoFar
  <2>1. PICK none \in Seq(Nat) : none = <<>>
    BY EmptySeq
  <2>2. ranks = [d \in Ids |-> none]
    BY <2>1 DEF Begun
  <2>3. \A d \in Ids : RanksUpTo(d)[0] = none /\ list - 1 = 0
    BY <1>1, <2>1, RanksUnfold
  <2> QED BY <1>1, <2>2, <2>3 DEF RankedSoFar
<1>5. KeptSoFar
  <2>1. payload \in [Ids -> Nat] /\ \A d \in Ids : payload[d] = Nil
    BY DEF Begun, Nil
  <2>2. \A d \in Ids : ListsPassed(d) = {}
    BY <1>1, InputIsTyped DEF ListsPassed, ListsWith
  <2> QED BY <2>1, <2>2 DEF KeptSoFar, PayloadFrom
<1> QED BY <1>2, <1>3, <1>4, <1>5

(* The service is made with limits that agree, or not at all.              *)
LEMMA StartServiceInv ==
  ASSUME PageInv, StartService
  PROVE  PageInv'
<1> DEFINE v == Load(Environments[environment]).values
           c == [default |-> v["SEARCH_DEFAULT_LIMIT"], max |-> v["SEARCH_MAX_LIMIT"],
                 candidates |-> v["SEARCH_CANDIDATE_LIMIT"]]
<1>1. environment \in DOMAIN Environments /\ Begun
  BY DEF PageInv, Idle, StartService
<1>2. c \in [default : Int, max : Int, candidates : Int]
  BY <1>1, LimitsAreNumbers
<1>3. \/ cfg' = c /\ step' = "serving" /\ AcceptedByService(c, v["RRF_K"])
      \/ cfg' = cfg /\ step' = "exited"
  BY DEF StartService
<1> HIDE DEF c, v
<1>4. LimitsAgree'
  BY <1>2, <1>3 DEF PageInv, LimitsAgree, AcceptedByService
<1>5. Idle'
  <2>1. AcceptedByService(c, v["RRF_K"]) => c # NoService
    BY DEF AcceptedByService, NoService
  <2>2. Begun'
    BY <1>1 DEF Begun, StartService, fusion
  <2> QED BY <1>3, <2>1, <2>2 DEF Idle
<1> QED BY <1>3, <1>4, <1>5 DEF PageInv

(* A search asks both stores for enough, and gives Fuse what they have.    *)
LEMMA SearchGives ==
  ASSUME PageInv, NEW n \in -1 .. MaxAsked, NEW k \in Rankings, NEW v \in Rankings,
         Search(n, [keyword |-> k, vector |-> v])
  PROVE  /\ step' \in {"refused", "scanning"} /\ LimitsAgree'
         /\ step' = "scanning" => Given' /\ Called' /\ Begun'
<1> DEFINE found == [keyword |-> k, vector |-> v]
<1>1. step = "serving" /\ cfg # NoService /\ Begun /\ LimitsAgree
  BY DEF Search, PageInv, Idle
<1>2. asked' = n /\ matches' = found /\ cfg' = cfg
  BY DEF Search
<1>3. Begun'
  BY <1>1 DEF Search, Begun
<1>4. step' \in {"refused", "scanning"} /\ LimitsAgree'
  BY <1>1, <1>2 DEF Search, LimitsAgree
<1>5. ASSUME step' = "scanning" PROVE Given' /\ Called'
  <2>1. n \in Int /\ n >= 0 /\ n <= cfg.max
    BY <1>1, <1>5, PageAssumption DEF Search, LimitsAgree
  <2>2. limit' = IF n = 0 THEN cfg.default ELSE n
    BY <1>5 DEF Search
  <2>3. limit' \in Nat \ {0}
    BY <1>1, <2>1, <2>2 DEF LimitsAgree
  <2>4. CandidateLimit \in Nat
    BY <1>1 DEF CandidateLimit, LimitsAgree
  <2>5. /\ Hits(k, CandidateLimit, Document) \in Seq(Entries)
        /\ Hits(v, CandidateLimit, PointPayload) \in Seq(Entries)
    BY <2>4, HitsAreTheFirst DEF Document, PointPayload
  <2>6. input' = <<Hits(k, CandidateLimit, Document), Hits(v, CandidateLimit, PointPayload)>>
    BY <1>5 DEF Search
  <2>7. Entries \subseteq Listings
    BY DEF Entries, Listings
  <2>8. /\ Hits(k, CandidateLimit, Document) \in Seq(Listings)
        /\ Hits(v, CandidateLimit, PointPayload) \in Seq(Listings)
    <3>1. ASSUME NEW s \in Seq(Entries) PROVE s \in Seq(Listings)
      BY <2>7
    <3> QED BY <2>5, <3>1
  <2>9. input' \in Seq(Seq(Listings))
    <3>1. PICK a, b : /\ a = Hits(k, CandidateLimit, Document)
                      /\ b = Hits(v, CandidateLimit, PointPayload)
      OBVIOUS
    <3>2. PICK L : L = Seq(Listings)
      OBVIOUS
    <3>3. input' = <<a, b>> /\ a \in L /\ b \in L
      BY <2>6, <2>8, <3>1, <3>2
    <3>4. <<a, b>> \in Seq(L)
      BY <3>3
    <3> QED BY <3>2, <3>3, <3>4
  <2>10. Called'
    <3>1. found \in [keyword : Rankings, vector : Rankings]
      OBVIOUS
    <3>2. input' = <<Hits(found.keyword, cfg.candidates, Document),
                     Hits(found.vector, cfg.candidates, PointPayload)>>
      BY <2>6 DEF CandidateLimit
    <3> QED BY <1>2, <2>1, <2>2, <3>1, <3>2 DEF Called, Page
  <2> QED BY <2>3, <2>9, <2>10 DEF Given
<1> QED BY <1>3, <1>4, <1>5

(* Fuse answers from the lists it was given.                               *)
LEMMA FuseInv ==
  ASSUME PageInv, Next, UNCHANGED search
  PROVE  PageInv'
<1>1. step = "scanning" /\ Given /\ Positioned /\ SeenHere /\ RankedSoFar /\ KeptSoFar
  BY DEF Next, Visit, NextList, Rank, PageInv
<1>2. UNCHANGED <<input, limit, environment, cfg, asked, matches>> /\ step' \in {"scanning", "done"}
  BY DEF Next, Visit, NextList, Rank, search
<1>3. LimitsAgree' /\ Idle' /\ Given'
  BY <1>1, <1>2 DEF PageInv, LimitsAgree, Idle, Given
<1>4. cfg' # NoService => Called'
  <2>1. cfg # NoService => Called
    BY <1>1 DEF PageInv
  <2> QED BY <1>2, <2>1 DEF Called, Page
<1>5. CASE Visit
  <2>1. Positioned' /\ SeenHere' /\ RankedSoFar' /\ KeptSoFar'
    BY <1>1, <1>5, VisitSees, VisitRanks, VisitKeeps
  <2> QED BY <1>1, <1>3, <1>4, <1>5, <2>1 DEF PageInv, Visit
<1>6. CASE NextList
  <2>1. Positioned' /\ SeenHere' /\ RankedSoFar' /\ KeptSoFar'
    BY <1>1, <1>6, NextListFollows
  <2> QED BY <1>1, <1>3, <1>4, <1>6, <2>1 DEF PageInv, NextList
<1>7. CASE Rank
  <2>1. Answered' /\ step' = "done"
    BY <1>1, <1>7, RankAnswers DEF Rank
  <2> QED BY <1>3, <1>4, <2>1 DEF PageInv
<1> QED BY <1>5, <1>6, <1>7 DEF Next

(* What does not change stays true.                                        *)
LEMMA StutterInv ==
  ASSUME PageInv, UNCHANGED pageVars
  PROVE  PageInv'
<1>1. UNCHANGED <<environment, cfg, asked, matches, input, limit, list, index, seen, ranks,
                payload, results, step>>
  BY DEF pageVars, search, vars
<1>2. Given' <=> Given
  BY <1>1 DEF Given
<1>3. (Idle' <=> Idle) /\ (LimitsAgree' <=> LimitsAgree) /\ (Called' <=> Called)
  BY <1>1 DEF Idle, Begun, LimitsAgree, Called, Page
<1>4. \A d : /\ ListsWith(d)' = ListsWith(d) /\ RanksUpTo(d)' = RanksUpTo(d)
             /\ \A l : Positions(d, l)' = Positions(d, l)
             /\ \A l : FirstPosition(d, l)' = FirstPosition(d, l)
             /\ \A l : PayloadIn(d, l)' = PayloadIn(d, l)
  BY <1>1, ListsStay
<1>5. Positioned' <=> Positioned
  BY <1>1 DEF Positioned
<1>6. SeenHere' <=> SeenHere
  BY <1>1 DEF SeenHere, Positions
<1>7. RankedSoFar' <=> RankedSoFar
  <2>1. \A d : FirstPosition(d, list)' = FirstPosition(d, list)
    BY <1>1, <1>4
  <2> QED BY <1>1, <1>4, <2>1 DEF RankedSoFar
<1>8. KeptSoFar' <=> KeptSoFar
  <2>1. \A d : ListsPassed(d)' = ListsPassed(d)
    BY <1>1, <1>4 DEF ListsPassed
  <2>2. \A d : PayloadFrom(d, ListsPassed(d))' <=> PayloadFrom(d, ListsPassed(d))
    BY <1>1, <1>4, <2>1 DEF PayloadFrom
  <2> QED BY <1>1, <2>2 DEF KeptSoFar
<1>9. Answered' <=> Answered
  <2>1. \A d : RanksOf(d)' = RanksOf(d)
    BY <1>1, <1>4 DEF RanksOf
  <2>2. \A d : PayloadFrom(d, ListsWith(d))' <=> PayloadFrom(d, ListsWith(d))
    BY <1>1, <1>4 DEF PayloadFrom
  <2>3. Candidates' = Candidates /\ \A a, b : Before(a, b)' <=> Before(a, b)
    BY <1>1 DEF Candidates, Before
  <2>4. SortedAnswer' <=> SortedAnswer
    BY <1>1, <2>3 DEF SortedAnswer
  <2> QED BY <1>1, <2>1, <2>2, <2>4 DEF Answered
<1> QED BY <1>1, <1>2, <1>3, <1>5, <1>6, <1>7, <1>8, <1>9 DEF PageInv

(* The invariant holds in every reachable state, of searches and of Fuse   *)
(* called on its own.                                                      *)
LEMMA PageInvHolds == PageSpec => []PageInv
<1>1. ServiceInit => PageInv
  BY DEF ServiceInit, NoSearch, PageInv, LimitsAgree, Idle, Begun
<1>2. Init /\ NoSearch => PageInv
  <2> SUFFICES ASSUME Init, NoSearch PROVE PageInv
    OBVIOUS
  <2>1. Given /\ Begun
    BY FusionAssumption DEF Init, Given, Begun, Listings
  <2>2. Positioned /\ SeenHere /\ RankedSoFar /\ KeptSoFar
    BY <2>1, BeginningFollows
  <2> QED BY <2>1, <2>2 DEF Init, NoSearch, PageInv, LimitsAgree, Idle
<1>3. (Given /\ Begun => Positioned /\ SeenHere /\ RankedSoFar /\ KeptSoFar)'
  BY BeginningFollows, PTL
<1>4. PageInv /\ [SearchNext]_pageVars => PageInv'
  <2> SUFFICES ASSUME PageInv, [SearchNext]_pageVars PROVE PageInv'
    OBVIOUS
  <2>1. CASE StartService
    BY <2>1, StartServiceInv
  <2>2. CASE \E n \in -1 .. MaxAsked, k, v \in Rankings : Search(n, [keyword |-> k, vector |-> v])
    <3>1. /\ step' \in {"refused", "scanning"} /\ LimitsAgree'
          /\ step' = "scanning" => Given' /\ Called' /\ Begun'
      BY <2>2, SearchGives
    <3> QED BY <1>3, <3>1 DEF PageInv, Idle
  <2>3. CASE Next /\ UNCHANGED search
    BY <2>3, FuseInv
  <2>4. CASE UNCHANGED pageVars
    BY <2>4, StutterInv
  <2> QED BY <2>1, <2>2, <2>3, <2>4 DEF SearchNext
<1> QED BY <1>1, <1>2, <1>4, PTL DEF PageSpec

(* No page comes up short while a store has more, and none is longer than  *)
(* what was asked for: a search returns every document both stores have,   *)
(* or as many as the request (or the default) says, whatever the limits of *)
(* the environment, the contents of the stores and the scores (Search in   *)
(* hybrid/service.go over Fuse).                                           *)
THEOREM PagesAreFull == PageSpec => []FullPage
<1>1. PageInv => FullPage
  <2> SUFFICES ASSUME PageInv, step = "done", cfg # NoService PROVE FullPage
    BY DEF FullPage
  <2> QED BY PageIsFull DEF PageInv
<1> QED BY <1>1, PageInvHolds, PTL

(* The ranks Fuse sums for a document are its first positions in the lists *)
(* that have it, in the order of the lists: an empty id or a repeated one  *)
(* keeps its place and counts for nothing.                                 *)
THEOREM RanksAreFirstPositions == PageSpec => []RanksByDefinition
<1>1. PageInv => RanksByDefinition
  BY DEF PageInv, Answered, RanksByDefinition
<1> QED BY <1>1, PageInvHolds, PTL

(* Whatever the scores are, and in whatever order the map is walked, Fuse  *)
(* answers with documents of its lists, each once, as many as there are or *)
(* the limit allows, and with the payload of the first list that has one.  *)
THEOREM AnswersByDefinition == PageSpec => []KeptByDefinition
<1>1. PageInv => KeptByDefinition
  <2> SUFFICES ASSUME PageInv, step = "done" PROVE KeptByDefinition
    BY DEF KeptByDefinition
  <2> QED BY AnswersKeep DEF PageInv
<1> QED BY <1>1, PageInvHolds, PTL

(* Two documents with the same ranks, in whichever lists, are answered in  *)
(* the order of their ids, however their sums are rounded (score sorts the *)
(* ranks first, rrf.go:136-138).                                           *)
THEOREM TiesFallToIds == PageSpec => []TiesById
<1>1. PageInv => TiesById
  <2> SUFFICES ASSUME PageInv, step = "done" PROVE TiesById
    BY DEF TiesById
  <2> QED BY TiesAreById DEF PageInv
<1> QED BY <1>1, PageInvHolds, PTL

=============================================================================
