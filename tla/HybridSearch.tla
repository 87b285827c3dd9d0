---------------------------- MODULE HybridSearch ----------------------------
(***************************************************************************)
(* One search request in the API: the handler (internal/api/handler.go,    *)
(* request.go) and hybrid.Service.Search (internal/search/hybrid/          *)
(* service.go) with its two goroutines in an errgroup, while the client    *)
(* may disconnect and the server's timeout may pass at any moment.         *)
(*                                                                         *)
(* Covered: validation, both retrievals, an error that cancels the other   *)
(* side, which error Search returns, what record reports of the search and *)
(* RecordSearch (internal/metrics/search.go) counts for each dependency,   *)
(* which status the handler answers.                                       *)
(* Not covered: the ranking (RankFusion); fusion errors, which need a k or *)
(* a limit that validateConfig and validate have refused; panics, the      *)
(* server and its shutdown (ApiServer).                                    *)
(***************************************************************************)
EXTENDS Integers

CONSTANTS
  MaxLimit, DefaultLimit,   \* config.SearchConfig
  Requests                  \* requests: records [wellFormed, query, limit]

ASSUME ConfigAssumption ==
  /\ DefaultLimit \in Nat \ {0} /\ MaxLimit \in Nat /\ DefaultLimit <= MaxLimit
  /\ \A r \in Requests : /\ r.wellFormed \in BOOLEAN
                         /\ r.query \in {"empty", "text", "long"}
                         /\ r.limit \in Int

VARIABLES
  request,                  \* the request being served
  step,                     \* "parsing", "searching", "returned", "recorded", "answered"
  disconnected,             \* the request's own context is cancelled
  ctxErr,                   \* ctx.Err() of the search: "none", "canceled", "deadline"
  keyword,                  \* keyword goroutine: "idle", "running", "ok", "failed"
  vector,                   \* vector goroutine: the same, "embedding" before
                            \*   "running", "unembedded" when that failed
  groupErr,                 \* first error of the group: "none" or its stage
  ownFailures,              \* history: stages that failed by themselves
  limit,                    \* effective limit of the search
  returned,                 \* what Search returned: "none", "results", a stage,
                            \*   "context" or "invalid"
  stats,                    \* SearchStats: [stage, cancelled, asked], the last the
                            \*   dependencies whose duration is not zero
  status                    \* HTTP status, 0 before there is one

ctx  == <<disconnected, ctxErr>>
both == <<keyword, vector, groupErr, ownFailures>>
vars == <<request, step, ctx, both, limit, returned, stats, status>>

Stages == {"keyword_search", "embedding", "vector_search"}
NoStats == [stage |-> "", cancelled |-> FALSE, asked |-> {}]

Init == /\ request \in Requests
        /\ step = "parsing"
        /\ disconnected = FALSE /\ ctxErr = "none"
        /\ keyword = "idle" /\ vector = "idle"
        /\ groupErr = "none" /\ ownFailures = {}
        /\ limit = 0 /\ returned = "none" /\ stats = NoStats /\ status = 0

-----------------------------------------------------------------------------
(* The contexts.                                                           *)

\* The search's context keeps the first reason it ended for.
Ends(reason) == ctxErr' = IF ctxErr = "none" THEN reason ELSE ctxErr

(* The client goes away.                                                   *)
Disconnect ==
  /\ step # "answered" /\ ~disconnected
  /\ disconnected' = TRUE /\ Ends("canceled")
  /\ UNCHANGED <<request, step, both, limit, returned, stats, status>>

\* Mutant of Timeout: the search has none.
NoTimeout == FALSE /\ UNCHANGED vars

(* The server's timeout passes.                                            *)
Timeout ==
  /\ step \notin {"parsing", "answered"} /\ ctxErr = "none"
  /\ Ends("deadline")
  /\ UNCHANGED <<request, step, disconnected, both, limit, returned, stats, status>>

\* The group's context ends with the search's, or with its first error.
GroupEnded == ctxErr # "none" \/ groupErr # "none"

-----------------------------------------------------------------------------
(* Handler and Search up to the goroutines.                                *)

(* parseSearchRequest refuses a request it cannot read.                    *)
Refuse ==
  /\ step = "parsing" /\ ~request.wellFormed
  /\ step' = "answered" /\ status' = 400
  /\ UNCHANGED <<request, ctx, both, limit, returned, stats>>

Valid(r) == r.query = "text" /\ 0 <= r.limit /\ r.limit <= MaxLimit

(* Search validates, and starts both goroutines for a valid request.       *)
Start ==
  /\ step = "parsing" /\ request.wellFormed
  /\ IF Valid(request)
     THEN /\ step' = "searching"
          /\ limit' = IF request.limit = 0 THEN DefaultLimit ELSE request.limit
          /\ keyword' = "running" /\ vector' = "embedding"
          /\ UNCHANGED returned
     ELSE /\ step' = "recorded" /\ returned' = "invalid"
          /\ UNCHANGED <<limit, keyword, vector>>
  /\ UNCHANGED <<request, ctx, groupErr, ownFailures, stats, status>>

-----------------------------------------------------------------------------
(* The goroutines.  A call under an ended context returns an error too.    *)

\* errgroup keeps the first error and cancels the group's context.
Report(stage) == groupErr' = IF groupErr = "none" THEN stage ELSE groupErr

\* A call of a stage fails: by itself, or because its context ended.
StageFails(stage) ==
  /\ \/ ownFailures' = ownFailures \cup {stage}
     \/ GroupEnded /\ UNCHANGED ownFailures
  /\ Report(stage)

KeywordReturns ==
  /\ keyword = "running"
  /\ keyword' = "ok"
  /\ UNCHANGED <<request, step, ctx, vector, groupErr, ownFailures, limit,
                 returned, stats, status>>

KeywordFails ==
  /\ keyword = "running"
  /\ keyword' = "failed" /\ StageFails("keyword_search")
  /\ UNCHANGED <<request, step, ctx, vector, limit, returned, stats, status>>

EmbedReturns ==
  /\ vector = "embedding"
  /\ vector' = "running"
  /\ UNCHANGED <<request, step, ctx, keyword, groupErr, ownFailures, limit,
                 returned, stats, status>>

VectorReturns ==
  /\ vector = "running"
  /\ vector' = "ok"
  /\ UNCHANGED <<request, step, ctx, keyword, groupErr, ownFailures, limit,
                 returned, stats, status>>

(* The embedder fails or returns no vector, or the vector search fails.    *)
VectorFails ==
  /\ \/ vector = "embedding" /\ vector' = "unembedded" /\ StageFails("embedding")
     \/ vector = "running" /\ vector' = "failed" /\ StageFails("vector_search")
  /\ UNCHANGED <<request, step, ctx, keyword, limit, returned, stats, status>>

-----------------------------------------------------------------------------
(* After the goroutines.                                                   *)

Finished == {"ok", "failed", "unembedded"}

\* Mutants of Wait: return with the first list; look at the error alone.
WaitForEither ==
  /\ step = "searching"
  /\ keyword \in Finished \/ vector \in Finished
  /\ step' = "returned"
  /\ returned' = IF ctxErr # "none" THEN "context"
                 ELSE IF groupErr # "none" THEN groupErr ELSE "results"
  /\ UNCHANGED <<request, ctx, both, limit, stats, status>>
WaitIgnoresContext ==
  /\ step = "searching"
  /\ keyword \in Finished /\ vector \in Finished
  /\ step' = "returned"
  /\ returned' = IF groupErr # "none" THEN groupErr ELSE "results"
  /\ UNCHANGED <<request, ctx, both, limit, stats, status>>

(* Wait returns when both have; an ended context is the reason, whichever  *)
(* call noticed first, then the group's error; else the lists are fused.   *)
Wait ==
  /\ step = "searching"
  /\ keyword \in Finished /\ vector \in Finished
  /\ step' = "returned"
  /\ returned' = CASE ctxErr # "none"                        -> "context"
                   [] ctxErr = "none" /\ groupErr # "none"   -> groupErr
                   [] ctxErr = "none" /\ groupErr = "none"   -> "results"
  /\ UNCHANGED <<request, ctx, both, limit, stats, status>>

\* The dependencies a search asked, each with a duration of its own.
Asked == {"opensearch", "embedder"}
           \cup (IF vector = "unembedded" THEN {} ELSE {"qdrant"})

(* record looks at the context again.                                      *)
Record ==
  /\ step = "returned"
  /\ step' = "recorded"
  /\ stats' = CASE returned = "results" -> [NoStats EXCEPT !.asked = Asked]
                [] returned # "results" /\ ctxErr # "none" ->
                     [NoStats EXCEPT !.asked = Asked, !.cancelled = TRUE]
                [] returned # "results" /\ ctxErr = "none" ->
                     [NoStats EXCEPT !.asked = Asked, !.stage = returned]
  /\ UNCHANGED <<request, ctx, both, limit, returned, status>>

\* RecordSearch counts a dependency that was asked as failed when the stage is
\* the one it names for it; two of its names are not the service's.
MetricStage == [opensearch |-> "keyword", embedder |-> "embedding", qdrant |-> "vector"]
Measured(d) == IF d \notin stats.asked THEN "none"
               ELSE IF stats.stage = MetricStage[d] THEN "error" ELSE "success"

\* Mutant of Answer: only the deadline is looked at.
AnswerDeadlineOnly ==
  /\ step = "recorded"
  /\ step' = "answered"
  /\ status' = CASE returned = "results" -> 200
                 [] returned = "invalid" -> 400
                 [] returned \notin {"results", "invalid"} ->
                      IF ctxErr = "deadline" THEN 504 ELSE 500
  /\ UNCHANGED <<request, ctx, both, limit, returned, stats>>

(* The handler answers; writeSearchError looks at both contexts.           *)
Answer ==
  /\ step = "recorded"
  /\ step' = "answered"
  /\ status' = CASE returned = "results" -> 200
                 [] returned = "invalid" -> 400
                 [] returned \notin {"results", "invalid"} ->
                      IF disconnected THEN 499
                      ELSE IF ctxErr = "deadline" THEN 504 ELSE 500
  /\ UNCHANGED <<request, ctx, both, limit, returned, stats>>

Local == Refuse \/ Start \/ Wait \/ Record \/ Answer
Next == \/ Disconnect \/ Timeout \/ Local
        \/ KeywordReturns \/ KeywordFails
        \/ EmbedReturns \/ VectorReturns \/ VectorFails

Spec == Init /\ [][Next]_vars

-----------------------------------------------------------------------------
(* Every variable has its type.                                            *)
TypeOK == /\ request \in Requests
          /\ step \in {"parsing", "searching", "returned", "recorded", "answered"}
          /\ disconnected \in BOOLEAN /\ ctxErr \in {"none", "canceled", "deadline"}
          /\ keyword \in {"idle", "running", "ok", "failed"}
          /\ vector \in {"idle", "embedding", "running"} \cup Finished
          /\ groupErr \in Stages \cup {"none"} /\ ownFailures \subseteq Stages
          /\ limit \in 0 .. MaxLimit
          /\ returned \in Stages \cup {"none", "results", "context", "invalid"}
          /\ stats.stage \in Stages \cup {""} /\ stats.cancelled \in BOOLEAN
          /\ stats.asked \subseteq DOMAIN MetricStage
          /\ status \in {0, 200, 400, 499, 500, 504}

(* An answer is never keyword-only or vector-only, and never given while a *)
(* goroutine still runs: 200 means both retrievers succeeded (the Search   *)
(* comment, service.go:140-146).                                           *)
NoPartialAnswer ==
  /\ status = 200 => keyword = "ok" /\ vector = "ok"
  /\ step \in {"returned", "recorded"} =>
       keyword # "running" /\ vector \notin {"embedding", "running"}

(* A stage is blamed for a search only when it failed by itself: an error  *)
(* that merely echoes a cancellation, by the caller or by the other side,  *)
(* is never what Search returns or record reports (search and record), nor *)
(* counted as the failure of a dependency (RecordSearch).                  *)
BlamedStageFailedItself ==
  /\ returned \in Stages => returned \in ownFailures
  /\ stats.stage \in Stages => stats.stage \in ownFailures
  /\ Measured("embedder") = "error" => "embedding" \in ownFailures

(* A caller that gave up gets no 500, and 504 is not said to a client that *)
(* was gone first: the status follows the reason the context ended         *)
(* (writeSearchError).                                                     *)
StatusFollowsContext ==
  step = "answered" /\ returned = "context" =>
    status \in {499, 504} /\ (ctxErr = "canceled" => status = 499)
=============================================================================
