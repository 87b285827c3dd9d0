----------------------------- MODULE SearchPage -----------------------------
(***************************************************************************)
(* How many results a search returns: the limits Load accepts              *)
(* (Configuration) and those hybrid.New accepts, the limit of the request, *)
(* the candidates each retriever returns, and the fusion of the two lists  *)
(* (RankFusion).  internal/search/hybrid/service.go with search.go of      *)
(* internal/search/opensearch and internal/search/qdrant.                  *)
(*                                                                         *)
(* Not covered: failures and cancellation (HybridSearch), the text of the  *)
(* query, the scores of the retrievers, points other programs wrote.       *)
(***************************************************************************)
EXTENDS RankFusion, Configuration

CONSTANTS
  Environments,             \* [name -> environment], those the API may be started in
  MaxSearchLimit,           \* the same for both retrievers
  MaxAsked                  \* bound: the largest limit a request asks for

\* RankFusion has one smoothing constant, whoever calls Fuse.  A setting has
\* a whole number, and a store finitely many documents.
ASSUME PageAssumption ==
  /\ MaxSearchLimit \in Nat \ {0} /\ MaxAsked \in Nat /\ IsFiniteSet(Ids)
  /\ \A name \in DOMAIN Environments, k \in Keys : Environments[name][k].n \in Int
  /\ \A name \in DOMAIN Environments : Values(Environments[name])["RRF_K"] = K

VARIABLES
  environment,              \* its name
  cfg,                      \* the limits of SearchConfig, once the service is made
  asked,                    \* limit of the request, 0 for none
  matches                   \* ids each store has for the query, best first

search == <<environment, cfg, asked, matches>>
fusion == <<input, limit, list, index, seen, ranks, payload, results>>
pageVars == <<search, vars>>

NoService == [default |-> 0, max |-> 0, candidates |-> 0]
NoMatches == [keyword |-> <<>>, vector |-> <<>>]

NoSearch == cfg = NoService /\ asked = 0 /\ matches = NoMatches

(* The API, before it has read its environment.                            *)
ServiceInit ==
  /\ environment \in DOMAIN Environments /\ NoSearch
  /\ input = <<>> /\ limit = 0 /\ list = 1 /\ index = 1 /\ seen = {}
  /\ ranks = [d \in Ids |-> <<>>] /\ payload = [d \in Ids |-> Nil]
  /\ results = <<>> /\ step = "starting"

\* hybrid.validateConfig.
AcceptedByService(c, k) ==
  /\ 1 <= c.default /\ c.default <= c.max /\ c.max <= c.candidates
  /\ c.candidates <= MaxSearchLimit
  /\ k >= 1

(* main loads the configuration and makes the service, or exits.           *)
StartService ==
  /\ step = "starting"
  /\ LET loaded == Load(Environments[environment])
         c == [default |-> loaded.values["SEARCH_DEFAULT_LIMIT"],
               max |-> loaded.values["SEARCH_MAX_LIMIT"],
               candidates |-> loaded.values["SEARCH_CANDIDATE_LIMIT"]]
     IN IF loaded.problems = {} /\ AcceptedByService(c, loaded.values["RRF_K"])
        THEN cfg' = c /\ step' = "serving"
        ELSE step' = "exited" /\ UNCHANGED cfg
  /\ UNCHANGED <<environment, asked, matches, fusion>>

\* The best n of what a store has, each with what Fuse is to keep of it: a
\* keyword hit its document, a vector hit its point's payload.
Hits(found, n, kept) ==
  [i \in 1 .. (IF Len(found) < n THEN Len(found) ELSE n) |-> [id |-> found[i], payload |-> kept]]
Document == 1
PointPayload == 2

\* Mutant of CandidateLimit: the retrievers are asked for a page of default size.
CandidateLimitIsDefault == cfg.default

\* What both retrievers are asked for, whatever the request asks.
CandidateLimit == cfg.candidates

(* A request is refused, or both retrievers are asked, and the keyword list*)
(* goes to Fuse before the vector list.                                    *)
Search(n, found) ==
  /\ step = "serving"
  /\ asked' = n /\ matches' = found
  /\ IF n < 0 \/ n > cfg.max
     THEN step' = "refused" /\ UNCHANGED <<input, limit>>
     ELSE /\ limit' = IF n = 0 THEN cfg.default ELSE n
          /\ input' = <<Hits(found.keyword, CandidateLimit, Document),
                        Hits(found.vector, CandidateLimit, PointPayload)>>
          /\ step' = "scanning"
  /\ UNCHANGED <<environment, cfg, list, index, seen, ranks, payload, results>>

\* What a store may have: a document once, wherever it ranks.
Rankings == UNION {Orders(S) : S \in SUBSET Ids}

SearchNext ==
  \/ StartService
  \/ \E n \in -1 .. MaxAsked, k, v \in Rankings : Search(n, [keyword |-> k, vector |-> v])
  \/ Next /\ UNCHANGED search

\* Fuse is called by a search, or on its own with any lists.
PageSpec == /\ ServiceInit \/ (Init /\ environment = "none" /\ NoSearch)
            /\ [][SearchNext]_pageVars

-----------------------------------------------------------------------------
(* No page comes up short, or long: a search returns as many documents as  *)
(* it was asked for (or by default), unless neither store has so many.     *)
(* The limits that could prevent it, those of the request, of two settings *)
(* and of both retrievers, were compared at start (config.go:403-404:      *)
(* "Each retriever must supply at least a full page").                     *)
FullPage ==
  step = "done" /\ cfg # NoService =>
    LET page == IF asked = 0 THEN cfg.default ELSE asked
    IN /\ Len(results) <= page
       /\ Len(results) < page =>
            {matches.keyword[i] : i \in DOMAIN matches.keyword}
              \cup {matches.vector[i] : i \in DOMAIN matches.vector}
            = {results[i] : i \in DOMAIN results}
=============================================================================
