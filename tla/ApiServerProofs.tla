-------------------------- MODULE ApiServerProofs --------------------------
(***************************************************************************)
(* Proofs about ApiServer and the search in it, HybridSearch, for every    *)
(* set of requests, every limit and any number of outages.                 *)
(*                                                                         *)
(* First what a search maintains by its own steps: while its context lives *)
(* the group's first error is of a stage that failed by itself, and what   *)
(* Search returned and record reported repeats it.  Then what the process  *)
(* adds around it: a probe's checks run only inside its handler, nothing   *)
(* is sent after a request was counted, and behind the cancellation every  *)
(* request that still runs has been told to stop.                          *)
(***************************************************************************)
EXTENDS ApiServer, TLAPS

(* How far the search has come: nothing is returned, reported or sent too  *)
(* early, and no goroutine outlives the search.                            *)
Unstarted == keyword = "idle" /\ vector = "idle" /\ groupErr = "none"
Silent == returned = "none" /\ stats.stage = "" /\ status = 0
GoroutinesEnded == keyword # "running" /\ vector \notin {"embedding", "running"}
Progressing ==
  /\ step \in {"parsing", "searching", "returned", "recorded", "answered"}
  /\ step = "parsing" => Unstarted /\ Silent
  /\ step = "searching" => /\ keyword \in {"running", "ok", "failed"}
                           /\ vector \in {"embedding", "running"} \cup Finished
                           /\ Silent
  /\ step = "returned" => stats.stage = "" /\ status = 0
  /\ step = "recorded" => status = 0
  /\ step \in {"returned", "recorded", "answered"} => GoroutinesEnded

(* Why the context ended.                                                  *)
Contexts ==
  /\ ctxErr \in {"none", "canceled", "deadline"}
  /\ ctxErr = "canceled" => disconnected
  /\ returned = "context" => ctxErr # "none"

(* Where the group's error comes from.                                     *)
Errors ==
  /\ keyword = "failed" \/ vector \in {"failed", "unembedded"} => groupErr # "none"
  /\ groupErr \in Stages \cup {"none"}
  /\ groupErr # "none" => groupErr \in ownFailures \/ ctxErr # "none"

(* What is returned, reported and sent.                                    *)
Reports ==
  /\ returned = "results" => keyword = "ok" /\ vector = "ok"
  /\ returned \in Stages => returned \in ownFailures
  /\ stats.stage \in Stages => stats.stage \in ownFailures
  /\ status = 200 => keyword = "ok" /\ vector = "ok"

SearchInv == Progressing /\ Contexts /\ Errors /\ Reports /\ StatusFollowsContext

-----------------------------------------------------------------------------
(* The search by itself.                                                   *)

(* A request not yet parsed has all that a search maintains.               *)
LEMMA SearchInit == Init => SearchInv
<1> SUFFICES ASSUME Init PROVE SearchInv
  OBVIOUS
<1>1. stats = NoStats
  BY DEF Init
<1>2. NoStats.stage = ""
  BY DEF NoStats
<1>3. stats.stage = ""
  BY <1>1, <1>2, Zenon
<1>4. Progressing
  BY <1>3 DEF Init, Progressing, Unstarted, Silent
<1>5. Contexts /\ Errors
  BY DEF Init, Contexts, Errors, Stages
<1>6. /\ returned = "none" /\ status = 0 /\ stats.stage \notin Stages
      /\ returned \notin Stages
  BY <1>3 DEF Init, Stages
<1>7. Reports
  BY <1>6 DEF Reports
<1>8. StatusFollowsContext
  BY DEF Init, StatusFollowsContext
<1> QED
  BY <1>4, <1>5, <1>7, <1>8 DEF SearchInv

(* record names a stage only when Search returned it under a live context. *)
LEMMA RecordNames ==
  Record => \/ stats'.stage = ""
            \/ stats'.stage = returned /\ returned # "results" /\ ctxErr = "none"
<1> SUFFICES ASSUME Record
             PROVE  \/ stats'.stage = ""
                    \/ stats'.stage = returned /\ returned # "results" /\ ctxErr = "none"
  OBVIOUS
<1>1. CASE returned = "results"
  BY Zenon, <1>1 DEF Record, NoStats
<1>2. CASE returned # "results" /\ ctxErr # "none"
  BY Zenon, <1>2 DEF Record, NoStats
<1>3. CASE returned # "results" /\ ctxErr = "none"
  BY Zenon, <1>3 DEF Record, NoStats
<1> QED
  BY <1>1, <1>2, <1>3, Zenon

(* A step of the search keeps what it maintains: an error reported while   *)
(* the group lives is the stage's own, and the context that a caller or    *)
(* the timeout ended stays ended for the same reason.                      *)
LEMMA SearchStep == SearchInv /\ Next => SearchInv'
<1> SUFFICES ASSUME SearchInv, Next PROVE SearchInv'
  OBVIOUS
<1> USE DEF ctx, both, Stages, Finished
<1>a. Progressing /\ Contexts /\ Errors /\ Reports /\ StatusFollowsContext
  BY DEF SearchInv
<1>1. CASE Disconnect
  <2>1. Progressing'
    BY <1>a, <1>1 DEF Disconnect, Ends, Progressing, Unstarted, Silent, GoroutinesEnded
  <2>2. Contexts'
    BY <1>a, <1>1 DEF Disconnect, Ends, Progressing, Silent, Contexts
  <2>3. Errors'
    BY <1>a, <1>1 DEF Disconnect, Ends, Progressing, Unstarted, Contexts, Errors
  <2>4. Reports'
    BY <1>a, <1>1 DEF Disconnect, Ends, Progressing, Silent, GoroutinesEnded, Errors, Reports
  <2>5. StatusFollowsContext'
    BY <1>a, <1>1 DEF Disconnect, Ends, Progressing, Silent, Contexts, StatusFollowsContext
  <2> QED
    BY <2>1, <2>2, <2>3, <2>4, <2>5 DEF SearchInv
<1>2. CASE Timeout
  <2>1. Progressing'
    BY <1>a, <1>2 DEF Timeout, Ends, Progressing, Unstarted, Silent, GoroutinesEnded
  <2>2. Contexts'
    BY <1>a, <1>2 DEF Timeout, Ends, Progressing, Silent, Contexts
  <2>3. Errors'
    BY <1>a, <1>2 DEF Timeout, Ends, Progressing, Unstarted, Contexts, Errors
  <2>4. Reports'
    BY <1>a, <1>2 DEF Timeout, Ends, Progressing, Silent, GoroutinesEnded, Errors, Reports
  <2>5. StatusFollowsContext'
    BY <1>a, <1>2 DEF Timeout, Ends, Progressing, Silent, Contexts, StatusFollowsContext
  <2> QED
    BY <2>1, <2>2, <2>3, <2>4, <2>5 DEF SearchInv
<1>3. CASE Refuse
  <2>1. Progressing'
    BY <1>a, <1>3 DEF Refuse, Progressing, Unstarted, Silent, GoroutinesEnded
  <2>2. Contexts'
    BY <1>a, <1>3 DEF Refuse, Progressing, Silent, Contexts
  <2>3. Errors'
    BY <1>a, <1>3 DEF Refuse, Progressing, Unstarted, Contexts, Errors
  <2>4. stats'.stage \notin Stages
    BY <1>a, <1>3 DEF Refuse, Progressing, Unstarted, Silent
  <2>5. status = 0
    BY <1>a, <1>3 DEF Refuse, Progressing, Unstarted, Silent
  <2>6. status' # 200
    BY <2>5, <1>3 DEF Refuse
  <2>7. returned' # "results" /\ returned' \notin Stages
    BY <1>a, <1>3 DEF Refuse, Progressing, Unstarted, Silent
  <2>8. Reports'
    BY <2>4, <2>6, <2>7, Zenon DEF Reports
  <2>9. StatusFollowsContext'
    BY <1>a, <1>3 DEF Refuse, Progressing, Silent, Contexts, StatusFollowsContext
  <2> QED
    BY <2>1, <2>2, <2>3, <2>8, <2>9 DEF SearchInv
<1>4. CASE Start
  <2>1. Progressing'
    BY <1>a, <1>4 DEF Start, Progressing, Unstarted, Silent, GoroutinesEnded
  <2>2. Contexts'
    BY <1>a, <1>4 DEF Start, Progressing, Silent, Contexts
  <2>3. Errors'
    BY <1>a, <1>4 DEF Start, Progressing, Unstarted, Contexts, Errors
  <2>4. stats'.stage \notin Stages
    BY <1>a, <1>4 DEF Start, Progressing, Unstarted, Silent
  <2>5. status = 0
    BY <1>a, <1>4 DEF Start, Progressing, Unstarted, Silent
  <2>6. status' # 200
    BY <2>5, <1>4 DEF Start
  <2>7. returned' # "results" /\ returned' \notin Stages
    BY <1>a, <1>4 DEF Start, Progressing, Unstarted, Silent
  <2>8. Reports'
    BY <2>4, <2>6, <2>7, Zenon DEF Reports
  <2>9. StatusFollowsContext'
    BY <1>a, <1>4 DEF Start, Progressing, Silent, Contexts, StatusFollowsContext
  <2> QED
    BY <2>1, <2>2, <2>3, <2>8, <2>9 DEF SearchInv
<1>5. CASE Wait
  <2>1. Progressing'
    BY <1>a, <1>5 DEF Wait, Progressing, Unstarted, Silent, GoroutinesEnded
  <2>2. Contexts'
    BY <1>a, <1>5 DEF Wait, Progressing, Silent, Contexts, Errors
  <2>3. Errors'
    BY <1>a, <1>5 DEF Wait, Progressing, Unstarted, Contexts, Errors
  <2>4. Reports'
    BY <1>a, <1>5 DEF Wait, Progressing, Silent, GoroutinesEnded, Errors, Reports
  <2>5. StatusFollowsContext'
    BY <1>a, <1>5 DEF Wait, Progressing, Silent, Contexts, StatusFollowsContext
  <2> QED
    BY <2>1, <2>2, <2>3, <2>4, <2>5 DEF SearchInv
<1>6. CASE Record
  <2>0. \/ stats'.stage = ""
        \/ stats'.stage = returned /\ returned # "results" /\ ctxErr = "none"
    BY <1>6, RecordNames
  <2>a. /\ step = "returned" /\ step' = "recorded"
        /\ UNCHANGED <<disconnected, ctxErr, keyword, vector, groupErr, ownFailures, returned, status>>
    BY <1>6 DEF Record
  <2>1. Progressing'
    BY <1>a, <2>0, <2>a DEF Progressing, Unstarted, Silent, GoroutinesEnded
  <2>2. Contexts'
    BY <1>a, <2>0, <2>a DEF Progressing, Silent, Contexts
  <2>3. Errors'
    BY <1>a, <2>0, <2>a DEF Progressing, Unstarted, Contexts, Errors
  <2>4. Reports'
    BY <1>a, <2>0, <2>a DEF Progressing, Silent, GoroutinesEnded, Errors, Reports
  <2>5. StatusFollowsContext'
    BY <1>a, <2>0, <2>a DEF Progressing, Silent, Contexts, StatusFollowsContext
  <2> QED
    BY <2>1, <2>2, <2>3, <2>4, <2>5 DEF SearchInv
<1>7. CASE Answer
  <2>1. Progressing'
    BY <1>a, <1>7 DEF Answer, Progressing, Unstarted, Silent, GoroutinesEnded
  <2>2. Contexts'
    BY <1>a, <1>7 DEF Answer, Progressing, Silent, Contexts
  <2>3. Errors'
    BY <1>a, <1>7 DEF Answer, Progressing, Unstarted, Contexts, Errors
  <2>4. Reports'
    BY <1>a, <1>7 DEF Answer, Progressing, Silent, GoroutinesEnded, Errors, Reports
  <2>5. StatusFollowsContext'
    BY <1>a, <1>7 DEF Answer, Progressing, Silent, Contexts, StatusFollowsContext
  <2> QED
    BY <2>1, <2>2, <2>3, <2>4, <2>5 DEF SearchInv
<1>8. CASE KeywordReturns
  <2>1. Progressing'
    BY <1>a, <1>8 DEF KeywordReturns, Progressing, Unstarted, Silent, GoroutinesEnded
  <2>2. Contexts'
    BY <1>a, <1>8 DEF KeywordReturns, Progressing, Silent, Contexts
  <2>3. Errors'
    BY <1>a, <1>8 DEF KeywordReturns, Progressing, Unstarted, Contexts, Errors
  <2>4. Reports'
    BY <1>a, <1>8 DEF KeywordReturns, Progressing, Silent, GoroutinesEnded, Errors, Reports
  <2>5. StatusFollowsContext'
    BY <1>a, <1>8 DEF KeywordReturns, Progressing, Silent, Contexts, StatusFollowsContext
  <2> QED
    BY <2>1, <2>2, <2>3, <2>4, <2>5 DEF SearchInv
<1>9. CASE KeywordFails
  <2>1. Progressing'
    BY <1>a, <1>9 DEF KeywordFails, StageFails, Report, GroupEnded, Progressing, Unstarted, Silent, GoroutinesEnded
  <2>2. Contexts'
    BY <1>a, <1>9 DEF KeywordFails, StageFails, Report, GroupEnded, Progressing, Silent, Contexts
  <2>3. Errors'
    BY <1>a, <1>9 DEF KeywordFails, StageFails, Report, GroupEnded, Progressing, Unstarted, Contexts, Errors
  <2>4. Reports'
    BY <1>a, <1>9 DEF KeywordFails, StageFails, Report, GroupEnded, Progressing, Silent, GoroutinesEnded, Errors, Reports
  <2>5. StatusFollowsContext'
    BY <1>a, <1>9 DEF KeywordFails, StageFails, Report, GroupEnded, Progressing, Silent, Contexts, StatusFollowsContext
  <2> QED
    BY <2>1, <2>2, <2>3, <2>4, <2>5 DEF SearchInv
<1>10. CASE EmbedReturns
  <2>1. Progressing'
    BY <1>a, <1>10 DEF EmbedReturns, Progressing, Unstarted, Silent, GoroutinesEnded
  <2>2. Contexts'
    BY <1>a, <1>10 DEF EmbedReturns, Progressing, Silent, Contexts
  <2>3. Errors'
    BY <1>a, <1>10 DEF EmbedReturns, Progressing, Unstarted, Contexts, Errors
  <2>4. Reports'
    BY <1>a, <1>10 DEF EmbedReturns, Progressing, Silent, GoroutinesEnded, Errors, Reports
  <2>5. StatusFollowsContext'
    BY <1>a, <1>10 DEF EmbedReturns, Progressing, Silent, Contexts, StatusFollowsContext
  <2> QED
    BY <2>1, <2>2, <2>3, <2>4, <2>5 DEF SearchInv
<1>11. CASE VectorReturns
  <2>1. Progressing'
    BY <1>a, <1>11 DEF VectorReturns, Progressing, Unstarted, Silent, GoroutinesEnded
  <2>2. Contexts'
    BY <1>a, <1>11 DEF VectorReturns, Progressing, Silent, Contexts
  <2>3. Errors'
    BY <1>a, <1>11 DEF VectorReturns, Progressing, Unstarted, Contexts, Errors
  <2>4. Reports'
    BY <1>a, <1>11 DEF VectorReturns, Progressing, Silent, GoroutinesEnded, Errors, Reports
  <2>5. StatusFollowsContext'
    BY <1>a, <1>11 DEF VectorReturns, Progressing, Silent, Contexts, StatusFollowsContext
  <2> QED
    BY <2>1, <2>2, <2>3, <2>4, <2>5 DEF SearchInv
<1>12. CASE VectorFails
  <2>1. Progressing'
    BY <1>a, <1>12 DEF VectorFails, StageFails, Report, GroupEnded, Progressing, Unstarted, Silent, GoroutinesEnded
  <2>2. Contexts'
    BY <1>a, <1>12 DEF VectorFails, StageFails, Report, GroupEnded, Progressing, Silent, Contexts
  <2>3. Errors'
    BY <1>a, <1>12 DEF VectorFails, StageFails, Report, GroupEnded, Progressing, Unstarted, Contexts, Errors
  <2>4. Reports'
    BY <1>a, <1>12 DEF VectorFails, StageFails, Report, GroupEnded, Progressing, Silent, GoroutinesEnded, Errors, Reports
  <2>5. StatusFollowsContext'
    BY <1>a, <1>12 DEF VectorFails, StageFails, Report, GroupEnded, Progressing, Silent, Contexts, StatusFollowsContext
  <2> QED
    BY <2>1, <2>2, <2>3, <2>4, <2>5 DEF SearchInv
<1> QED
  BY <1>1, <1>2, <1>3, <1>4, <1>5, <1>6, <1>7, <1>8, <1>9, <1>10, <1>11, <1>12 DEF Next, Local

(* What a search maintains makes its answer complete.                      *)
LEMMA SearchAnswers == SearchInv => NoPartialAnswer /\ BlamedStageFailedItself
<1> SUFFICES ASSUME SearchInv PROVE NoPartialAnswer /\ BlamedStageFailedItself
  OBVIOUS
<1>a. Progressing /\ Reports
  BY DEF SearchInv
<1>1. status = 200 => keyword = "ok" /\ vector = "ok"
  BY <1>a DEF Reports
<1>2. step \in {"returned", "recorded"} => GoroutinesEnded
  BY <1>a DEF Progressing
<1>3. NoPartialAnswer
  BY <1>1, <1>2 DEF NoPartialAnswer, GoroutinesEnded
<1>4. (returned \in Stages => returned \in ownFailures)
        /\ (stats.stage \in Stages => stats.stage \in ownFailures)
  BY <1>a DEF Reports
<1>5. Measured("embedder") = "error" => stats.stage = "embedding"
  <2>1. MetricStage["embedder"] = "embedding"
    BY DEF MetricStage
  <2>2. CASE "embedder" \notin stats.asked
    BY <2>2 DEF Measured
  <2>3. CASE "embedder" \in stats.asked /\ stats.stage = "embedding"
    BY <2>3
  <2>4. CASE "embedder" \in stats.asked /\ stats.stage # "embedding"
    BY <2>1, <2>4 DEF Measured
  <2> QED
    BY <2>2, <2>3, <2>4
<1>6. "embedding" \in Stages
  BY DEF Stages
<1> QED
  BY <1>3, <1>4, <1>5, <1>6 DEF BlamedStageFailedItself

-----------------------------------------------------------------------------
(* The process around it.                                                  *)

(* A probe's checks run only while its handler waits for them; a search    *)
(* has none.                                                               *)
Probing ==
  /\ check \in [Checkers -> [Stores -> {"idle", "asked", "ok", "error"}]]
  /\ route = "ready" => step \in {"parsing", "answered"}
  /\ \A s \in Stores : check["probe"][s] # "idle" =>
       place = "inside" /\ route = "ready" /\ step = "parsing"

(* What the metrics hold of the request.                                   *)
Measurement ==
  /\ place \in {"outside", "inside", "done"}
  /\ metrics => inFlight = IF place = "inside" THEN 1 ELSE 0
  /\ place # "done" => counted = 0
  /\ place = "done" => /\ step = "answered"
                       /\ metrics => counted = Sent \/ (counted = 0 /\ Sent = 500)

(* Once Shutdown's deadline has passed, what still runs has been told.     *)
ToldToStop ==
  server \in {"cancelled", "closed"} /\ place = "inside" => step = "answered" \/ disconnected

ServerInv == SearchInv /\ Probing /\ Measurement /\ ToldToStop

(* Nothing has arrived, nothing is checked, nothing measured.              *)
LEMMA ServerInitEstablishes == ServerInit => ServerInv
<1> SUFFICES ASSUME ServerInit PROVE ServerInv
  OBVIOUS
<1>1. SearchInv
  BY SearchInit DEF ServerInit
<1>2. Probing
  <2>1. step = "parsing"
    BY DEF ServerInit, Init
  <2>2. check = [c \in Checkers |-> [s \in Stores |-> "idle"]]
    BY DEF ServerInit
  <2> QED
    BY <2>1, <2>2 DEF Probing, Checkers, Stores
<1>3. Measurement
  BY DEF ServerInit, Measurement
<1>4. ToldToStop
  BY DEF ServerInit, ToldToStop
<1> QED
  BY <1>1, <1>2, <1>3, <1>4 DEF ServerInv

(* A step of the search never leaves an answered request, never forgets    *)
(* that the client is gone, and sends nothing but an answer.               *)
LEMMA SearchGoesOn ==
  SearchInv /\ Next => /\ step = "answered" => step' = "answered" /\ status' = status
                       /\ disconnected => disconnected'
<1> SUFFICES ASSUME SearchInv, Next
             PROVE  /\ step = "answered" => step' = "answered" /\ status' = status
                    /\ disconnected => disconnected'
  OBVIOUS
<1> USE DEF ctx, both
<1>a. step = "answered" => GoroutinesEnded
  BY DEF SearchInv, Progressing
<1>b. step = "answered" => keyword # "running" /\ vector \notin {"embedding", "running"}
  BY <1>a DEF GoroutinesEnded
<1>1. CASE Disconnect
  BY <1>b, <1>1 DEF Disconnect
<1>2. CASE Timeout
  BY <1>b, <1>2 DEF Timeout
<1>3. CASE Refuse
  BY <1>b, <1>3 DEF Refuse
<1>4. CASE Start
  BY <1>b, <1>4 DEF Start
<1>5. CASE Wait
  BY <1>b, <1>5 DEF Wait
<1>6. CASE Record
  BY <1>b, <1>6 DEF Record
<1>7. CASE Answer
  BY <1>b, <1>7 DEF Answer
<1>8. CASE KeywordReturns
  BY <1>b, <1>8 DEF KeywordReturns
<1>9. CASE KeywordFails
  BY <1>b, <1>9 DEF KeywordFails
<1>10. CASE EmbedReturns
  BY <1>b, <1>10 DEF EmbedReturns
<1>11. CASE VectorReturns
  BY <1>b, <1>11 DEF VectorReturns
<1>12. CASE VectorFails
  BY <1>b, <1>12 DEF VectorFails
<1> QED
  BY <1>1, <1>2, <1>3, <1>4, <1>5, <1>6, <1>7, <1>8, <1>9, <1>10, <1>11, <1>12 DEF Next, Local

(* A step that leaves the search alone keeps what it maintains.            *)
LEMMA SearchStutters == SearchInv /\ UNCHANGED vars => SearchInv'
<1> SUFFICES ASSUME SearchInv, UNCHANGED vars PROVE SearchInv'
  OBVIOUS
<1> USE DEF vars, ctx, both, Stages, Finished
<1>a. Progressing /\ Contexts /\ Errors /\ Reports /\ StatusFollowsContext
  BY DEF SearchInv
<1>1. Progressing'
  BY <1>a DEF Progressing, Unstarted, Silent, GoroutinesEnded
<1>2. Contexts'
  BY <1>a DEF Contexts
<1>3. Errors'
  BY <1>a DEF Errors
<1>4. Reports'
  BY <1>a DEF Reports
<1>5. StatusFollowsContext'
  BY <1>a DEF StatusFollowsContext
<1> QED
  BY <1>1, <1>2, <1>3, <1>4, <1>5 DEF SearchInv

(* A handler that ends without the search, by a panic or a probe's answer, *)
(* leaves what the search maintains: no goroutine of it runs.              *)
LEMMA HandlerEnds ==
  ASSUME SearchInv, GoroutinesEnded, step' = "answered",
         returned' \in {returned, "none"}, status' \in {status, 500},
         returned' = "context" => step = "answered",
         step = "answered" => status' = status,
         UNCHANGED <<ctx, both, stats>>
  PROVE  SearchInv'
<1> USE DEF ctx, both, Stages, Finished
<1>a. Progressing /\ Contexts /\ Errors /\ Reports /\ StatusFollowsContext
  BY DEF SearchInv
<1>1. Progressing'
  BY DEF Progressing, GoroutinesEnded
<1>2. Contexts'
  BY <1>a DEF Contexts
<1>3. Errors'
  BY <1>a DEF Errors
<1>4. Reports'
  BY <1>a DEF Reports
<1>5. StatusFollowsContext'
  BY <1>a DEF StatusFollowsContext
<1> QED
  BY <1>1, <1>2, <1>3, <1>4, <1>5 DEF SearchInv

(* A step of the process, of a check or of the request keeps all of it.    *)
LEMMA ServerStep == ServerInv /\ [ServerNext]_allVars => ServerInv'
<1> SUFFICES ASSUME ServerInv, [ServerNext]_allVars PROVE ServerInv'
  OBVIOUS
<1> USE DEF Inside, Alive, Checkers, Stores
<1>a. SearchInv /\ Probing /\ Measurement /\ ToldToStop
  BY DEF ServerInv
<1>1. CASE Arrive
  <2>1. SearchInv'
    BY <1>a, <1>1, SearchStutters DEF Arrive
  <2>a. /\ server = "serving" /\ place = "outside" /\ place' = "inside"
        /\ inFlight' = IF metrics THEN inFlight + 1 ELSE inFlight
        /\ UNCHANGED <<server, route, metrics, counted, check, step>>
    BY <1>1 DEF Arrive, vars, readiness
  <2>2. Probing'
    BY <1>a, <2>a DEF Probing
  <2>3. Measurement'
    BY <1>a, <2>a DEF Measurement
  <2>4. ToldToStop'
    BY <2>a DEF ToldToStop
  <2> QED
    BY <2>1, <2>2, <2>3, <2>4 DEF ServerInv
<1>2. ASSUME Inside, Next, UNCHANGED serverVars, route = "search" \/ UNCHANGED step
      PROVE  ServerInv'
  <2>1. SearchInv'
    BY <1>a, <1>2, SearchStep
  <2>a. /\ step = "answered" => step' = "answered" /\ status' = status
        /\ disconnected => disconnected'
    BY <1>a, <1>2, SearchGoesOn
  <2>b. UNCHANGED <<server, route, place, metrics, inFlight, counted, check, probed>>
    BY <1>2 DEF serverVars, readiness
  <2>2. Probing'
    BY <1>a, <1>2, <2>b DEF Probing
  <2>3. Measurement'
    BY <1>a, <1>2, <2>a, <2>b DEF Measurement, Sent
  <2>4. ToldToStop'
    BY <1>a, <2>a, <2>b DEF ToldToStop
  <2> QED
    BY <2>1, <2>2, <2>3, <2>4 DEF ServerInv
<1>3. CASE ClientLeaves
  <2>1. UNCHANGED step
    BY <1>3 DEF ClientLeaves, Disconnect
  <2> QED
    BY <1>2, <1>3, <2>1 DEF ClientLeaves, Next
<1>4. CASE Searches(Timeout) \/ Searches(Local) \/ Searches(KeywordReturns)
             \/ Searches(KeywordFails) \/ Searches(EmbedReturns)
             \/ Searches(VectorReturns) \/ Searches(VectorFails)
  BY <1>2, <1>4 DEF Searches, Next
<1>5. CASE Leave
  <2>1. SearchInv'
    BY <1>a, <1>5, SearchStutters DEF Leave
  <2>a. /\ place = "inside" /\ step = "answered" /\ place' = "done"
        /\ IF metrics THEN inFlight' = inFlight - 1 /\ counted' = Sent
                      ELSE UNCHANGED <<inFlight, counted>>
        /\ UNCHANGED <<server, route, metrics, check, probed, step, status>>
    BY <1>5 DEF Leave, vars, readiness
  <2>2. Probing'
    BY <1>a, <2>a DEF Probing
  <2>3. Measurement'
    BY <1>a, <2>a DEF Measurement, Sent
  <2>4. ToldToStop'
    BY <2>a DEF ToldToStop
  <2> QED
    BY <2>1, <2>2, <2>3, <2>4 DEF ServerInv
<1>6. CASE Panics
  <2>a. /\ place = "inside" /\ step # "answered" /\ ~Waiting
        /\ step' = "answered" /\ status' = 500 /\ returned' = "none"
        /\ place' = "done"
        /\ inFlight' = IF metrics THEN inFlight - 1 ELSE inFlight
        /\ UNCHANGED <<server, route, metrics, check, probed, counted>>
    BY <1>6 DEF Panics, readiness
  <2>1. SearchInv'
    <3>1. GoroutinesEnded
      BY <2>a DEF Waiting, GoroutinesEnded
    <3>2. UNCHANGED <<ctx, both, stats>>
      BY <1>6 DEF Panics
    <3> QED
      BY <1>a, <2>a, <3>1, <3>2, HandlerEnds
  <2>2. Probing'
    <3>1. \A s \in Stores : check["probe"][s] = "idle"
      BY <2>a DEF Waiting
    <3> QED
      BY <1>a, <2>a, <3>1 DEF Probing
  <2>3. Measurement'
    BY <1>a, <2>a DEF Measurement, Sent
  <2>4. ToldToStop'
    BY <2>a DEF ToldToStop
  <2> QED
    BY <2>1, <2>2, <2>3, <2>4 DEF ServerInv
<1>7. ASSUME NEW c \in Checkers, BeginCheck(c)
      PROVE  ServerInv'
  <2>1. SearchInv'
    BY <1>a, <1>7, SearchStutters DEF BeginCheck
  <2>a. /\ c = "probe" => place = "inside" /\ route = "ready" /\ step = "parsing"
        /\ check' = [check EXCEPT ![c] = [s \in Stores |-> "asked"]]
        /\ UNCHANGED <<server, route, place, metrics, inFlight, counted, probed, step,
                       status, disconnected>>
    BY <1>7 DEF BeginCheck, vars, ctx
  <2>2. Probing'
    BY <1>a, <2>a DEF Probing
  <2>3. Measurement'
    BY <1>a, <2>a DEF Measurement, Sent
  <2>4. ToldToStop'
    BY <1>a, <2>a DEF ToldToStop
  <2> QED
    BY <2>1, <2>2, <2>3, <2>4 DEF ServerInv
<1>8. ASSUME NEW c \in Checkers, NEW s \in Stores, CheckReturns(c, s)
      PROVE  ServerInv'
  <2>1. SearchInv'
    BY <1>a, <1>8, SearchStutters DEF CheckReturns
  <2>a. /\ check[c][s] = "asked"
        /\ check' \in {[check EXCEPT ![c][s] = "ok"], [check EXCEPT ![c][s] = "error"]}
        /\ UNCHANGED <<server, route, place, metrics, inFlight, counted, probed, step,
                       status, disconnected>>
    BY <1>8 DEF CheckReturns, vars, ctx
  <2>2. Probing'
    BY <1>a, <2>a DEF Probing
  <2>3. Measurement'
    BY <1>a, <2>a DEF Measurement, Sent
  <2>4. ToldToStop'
    BY <1>a, <2>a DEF ToldToStop
  <2> QED
    BY <2>1, <2>2, <2>3, <2>4 DEF ServerInv
<1>9. ASSUME NEW c \in Checkers, EndCheck(c)
      PROVE  ServerInv'
  <2>a. /\ \A s \in Stores : check[c][s] \in {"ok", "error"}
        /\ c = "probe" => step' = "answered"
        /\ c # "probe" => UNCHANGED <<step, probed>>
        /\ check' = [check EXCEPT ![c] = [s \in Stores |-> "idle"]]
        /\ UNCHANGED <<server, route, place, metrics, inFlight, counted, status, disconnected>>
    BY <1>9 DEF EndCheck, ctx
  <2>b. c = "probe" => place = "inside" /\ route = "ready" /\ step = "parsing"
    BY <1>a, <2>a DEF Probing
  <2>1. SearchInv'
    <3>1. UNCHANGED <<ctx, both, stats, returned, status>>
      BY <1>9 DEF EndCheck
    <3>2. CASE c = "probe"
      <4>1. GoroutinesEnded /\ returned = "none"
        BY <1>a, <2>b, <3>2 DEF SearchInv, Progressing, Unstarted, Silent, GoroutinesEnded
      <4> QED
        BY <1>a, <2>a, <2>b, <3>1, <3>2, <4>1, HandlerEnds
    <3>3. CASE c # "probe"
      BY <1>a, <1>9, <2>a, <3>1, <3>3, SearchStutters DEF EndCheck, vars
    <3> QED
      BY <3>2, <3>3
  <2>2. Probing'
    BY <1>a, <2>a, <2>b DEF Probing
  <2>3. Measurement'
    BY <1>a, <2>a, <2>b DEF Measurement, Sent
  <2>4. ToldToStop'
    BY <1>a, <2>a DEF ToldToStop
  <2> QED
    BY <2>1, <2>2, <2>3, <2>4 DEF ServerInv
<1>10. ASSUME UNCHANGED vars,
              UNCHANGED <<route, place, metrics, inFlight, counted, readiness>>,
              server' \in {"cancelled", "closed"} /\ place = "inside" =>
                server \in {"cancelled", "closed"}
       PROVE  ServerInv'
  <2>1. SearchInv'
    BY <1>a, <1>10, SearchStutters
  <2>a. UNCHANGED <<check, probed, step, status, disconnected>>
    BY <1>10 DEF vars, readiness, ctx
  <2>2. Probing'
    BY <1>a, <1>10, <2>a DEF Probing
  <2>3. Measurement'
    BY <1>a, <1>10, <2>a DEF Measurement, Sent
  <2>4. ToldToStop'
    BY <1>a, <1>10, <2>a DEF ToldToStop
  <2> QED
    BY <2>1, <2>2, <2>3, <2>4 DEF ServerInv
<1>11. CASE Outage
  BY <1>10, <1>11 DEF Outage
<1>12. CASE Signal \/ Drained \/ Close \/ ListenerFails \/ Exit
  BY <1>10, <1>12 DEF Signal, Drained, Close, ListenerFails, Exit, Server
<1>13. CASE GraceEnds
  <2>a. UNCHANGED <<route, place, metrics, inFlight, counted, readiness>>
    BY <1>13 DEF GraceEnds, Server
  <2>b. UNCHANGED <<step, status>>
    BY <1>13 DEF GraceEnds, Disconnect, vars
  <2>c. step = "answered" \/ disconnected'
    <3>1. CASE step # "answered" /\ ~disconnected
      BY <1>13, <3>1, Zenon DEF GraceEnds, Disconnect
    <3>2. CASE step = "answered"
      BY <3>2
    <3>3. CASE step # "answered" /\ disconnected
      <4>1. UNCHANGED vars
        BY <1>13, <3>3, Zenon DEF GraceEnds
      <4>2. UNCHANGED disconnected
        BY <4>1 DEF vars, ctx
      <4> QED
        BY <3>3, <4>2, Zenon
    <3> QED
      BY <3>1, <3>2, <3>3
  <2>1. SearchInv'
    BY <1>a, <1>13, SearchStep, SearchStutters DEF GraceEnds, Next
  <2>2. Probing'
    BY <1>a, <2>a, <2>b DEF Probing, readiness
  <2>3. Measurement'
    BY <1>a, <2>a, <2>b DEF Measurement, Sent, readiness
  <2>4. ToldToStop'
    BY <2>b, <2>c DEF ToldToStop
  <2> QED
    BY <2>1, <2>2, <2>3, <2>4 DEF ServerInv
<1>14. CASE UNCHANGED allVars
  BY <1>10, <1>14 DEF allVars, serverVars
<1> QED
  BY <1>1, <1>3, <1>4, <1>5, <1>6, <1>7, <1>8, <1>9, <1>11, <1>12, <1>13, <1>14 DEF ServerNext

(* Every behaviour keeps it.                                               *)
LEMMA ServerInvHolds == ServerSpec => []ServerInv
<1> QED
  BY ServerInitEstablishes, ServerStep, PTL DEF ServerSpec

-----------------------------------------------------------------------------
(* Types.  What Search returned is one of its own outcomes until record    *)
(* has looked at it.                                                       *)
Outcomes == /\ request \in Requests
            /\ step \in {"parsing", "searching", "returned", "recorded", "answered"}
            /\ limit \in 0 .. MaxLimit
            /\ returned \in Stages \cup {"none", "results", "context", "invalid"}
            /\ step = "returned" => returned \in Stages \cup {"results", "context"}
Reported == /\ stats.stage \in Stages \cup {""}
            /\ stats.asked \subseteq {"opensearch", "embedder", "qdrant"}
Answered == status \in {0, 200, 400, 499, 500, 504}
Goroutines == /\ ctxErr \in {"none", "canceled", "deadline"}
              /\ keyword \in {"idle", "running", "ok", "failed"}
              /\ vector \in {"idle", "embedding", "running"} \cup Finished
              /\ groupErr \in Stages \cup {"none"} /\ ownFailures \subseteq Stages
Flags == disconnected \in BOOLEAN /\ stats.cancelled \in BOOLEAN

Typed == Outcomes /\ Reported /\ Answered /\ Goroutines /\ Flags

(* What is reported and answered has its type as long as nobody touches it.*)
LEMMA AnswersKeepTypes ==
  /\ Reported /\ UNCHANGED stats => Reported'
  /\ Answered /\ UNCHANGED status => Answered'
  /\ Answered /\ status' \in {200, 400, 499, 500, 504} => Answered'
  /\ Flags /\ UNCHANGED <<disconnected, stats>> => Flags'
<1>1. Reported /\ UNCHANGED stats => Reported'
  BY DEF Reported, Stages
<1>2. Answered /\ status' \in {200, 400, 499, 500, 504} => Answered'
  BY DEF Answered
<1>3. Answered /\ UNCHANGED status => Answered'
  BY DEF Answered
<1>4. Flags /\ UNCHANGED <<disconnected, stats>> => Flags'
  BY Zenon DEF Flags
<1> QED
  BY <1>1, <1>2, <1>3, <1>4

(* The contexts and the goroutines of a search keep their types.           *)
LEMMA GoroutinesTyped ==
  ASSUME Typed,
         Disconnect \/ Timeout \/ KeywordReturns \/ KeywordFails
           \/ EmbedReturns \/ VectorReturns \/ VectorFails
  PROVE  Typed'
<1> USE DEF Disconnect, Timeout, KeywordReturns, KeywordFails, EmbedReturns, VectorReturns,
            VectorFails, both, ctx
<1>1. UNCHANGED <<request, step, limit, returned, stats, status>>
  OBVIOUS
<1>2. Goroutines'
  BY DEF Typed, Goroutines, StageFails, Report, Ends, Stages, Finished
<1>3. disconnected' = disconnected \/ disconnected' = TRUE
  BY Zenon
<1>4. Outcomes'
  BY <1>1 DEF Typed, Outcomes, Stages
<1>5. Flags'
  BY <1>1, <1>3, Zenon DEF Typed, Flags
<1>6. Reported' /\ Answered'
  BY <1>1, AnswersKeepTypes DEF Typed
<1> QED
  BY <1>2, <1>4, <1>5, <1>6 DEF Typed

(* So do what the handler and Search do before and after them.             *)
LEMMA LocalTyped ==
  ASSUME Typed, SearchInv, Local
  PROVE  Typed'
<1> USE DEF Typed, Outcomes, Goroutines, ctx, both, Stages, Finished
<1>1. CASE Refuse
  <2>1. Outcomes' /\ Goroutines' /\ UNCHANGED <<disconnected, stats>> /\ status' = 400
    BY <1>1 DEF Refuse
  <2> QED
    BY <2>1, AnswersKeepTypes
<1>2. CASE Start
  <2>1. request.limit \in Int
    BY ConfigAssumption
  <2>2. limit' \in 0 .. MaxLimit
    BY <1>2, <2>1, ConfigAssumption DEF Start, Valid
  <2>3. Outcomes' /\ Goroutines' /\ UNCHANGED <<disconnected, stats, status>>
    BY <1>2, <2>2 DEF Start
  <2> QED
    BY <2>3, AnswersKeepTypes
<1>3. CASE Wait
  <2>1. returned' \in Stages \cup {"results", "context"}
    BY <1>3 DEF Wait
  <2>2. Outcomes' /\ Goroutines' /\ UNCHANGED <<disconnected, stats, status>>
    BY <1>3, <2>1 DEF Wait
  <2> QED
    BY <2>2, AnswersKeepTypes
<1>4. CASE Record
  <2>1. step = "returned" /\ step' = "recorded"
        /\ UNCHANGED <<request, ctx, both, limit, returned, status>>
    BY <1>4 DEF Record
  <2>2. returned # "results" /\ ctxErr = "none" => returned \in Stages
    BY <2>1 DEF SearchInv, Contexts, Reports
  <2>3. Asked \subseteq {"opensearch", "embedder", "qdrant"}
    BY DEF Asked
  <2>4. \/ stats' = [NoStats EXCEPT !.asked = Asked]
        \/ stats' = [NoStats EXCEPT !.asked = Asked, !.cancelled = TRUE]
        \/ stats' = [NoStats EXCEPT !.asked = Asked, !.stage = returned] /\ returned \in Stages
    BY <1>4, <2>2 DEF Record
  <2>5. stats'.stage \in Stages \cup {""} /\ stats'.asked = Asked
    BY <2>4 DEF NoStats
  <2>6. stats'.cancelled = FALSE \/ stats'.cancelled = TRUE
    BY <2>4, Zenon DEF NoStats
  <2>7. Outcomes' /\ Goroutines' /\ UNCHANGED <<disconnected, status>>
    BY <2>1
  <2>8. Reported'
    BY <2>3, <2>5 DEF Reported
  <2>9. Flags'
    BY <2>6, <2>7, Zenon DEF Flags
  <2> QED
    BY <2>7, <2>8, <2>9, AnswersKeepTypes
<1>5. CASE Answer
  <2>1. status' \in {200, 400, 499, 500, 504}
    BY <1>5 DEF Answer
  <2>2. Outcomes' /\ Goroutines' /\ UNCHANGED <<disconnected, stats>>
    BY <1>5 DEF Answer
  <2> QED
    BY <2>1, <2>2, AnswersKeepTypes
<1> QED
  BY <1>1, <1>2, <1>3, <1>4, <1>5 DEF Local

(* A step of the process is one of the search's, ends the handler, or      *)
(* leaves the search alone.                                                *)
LEMMA TypedPreserved == Typed /\ SearchInv /\ [ServerNext]_allVars => Typed'
<1> SUFFICES ASSUME Typed, SearchInv, [ServerNext]_allVars PROVE Typed'
  OBVIOUS
<1>1. ASSUME UNCHANGED <<request, ctx, both, limit, stats>>,
             \/ UNCHANGED <<step, returned, status>>
             \/ /\ step' = "answered" /\ returned' \in {returned, "none"}
                /\ status' \in {status, 500}
      PROVE  Typed'
  <2>1. Outcomes' /\ Goroutines' /\ UNCHANGED <<disconnected, stats>>
    BY <1>1 DEF Typed, Outcomes, Goroutines, ctx, both, Stages, Finished
  <2>2. Answered'
    BY <1>1 DEF Typed, Answered
  <2> QED
    BY <2>1, <2>2, AnswersKeepTypes DEF Typed
<1>2. CASE UNCHANGED vars
  BY <1>1, <1>2 DEF vars
<1>3. CASE Panics
  BY <1>1, <1>3 DEF Panics
<1>4. ASSUME NEW c \in Checkers, EndCheck(c) PROVE Typed'
  BY <1>1, <1>4 DEF EndCheck
<1>5. CASE GraceEnds
  BY <1>2, <1>5, GoroutinesTyped, Zenon DEF GraceEnds
<1>6. CASE Arrive \/ Leave \/ Outage \/ Signal \/ Drained \/ Close \/ ListenerFails \/ Exit
           \/ \E c \in Checkers : BeginCheck(c) \/ \E s \in Stores : CheckReturns(c, s)
  <2>1. UNCHANGED vars
    BY <1>6 DEF Arrive, Leave, Outage, Signal, Drained, Close, ListenerFails, Exit,
                BeginCheck, CheckReturns
  <2> QED
    BY <1>2, <2>1
<1>7. CASE ClientLeaves \/ Searches(Timeout)
           \/ Searches(KeywordReturns) \/ Searches(KeywordFails)
           \/ Searches(EmbedReturns) \/ Searches(VectorReturns) \/ Searches(VectorFails)
  BY <1>7, GoroutinesTyped DEF ClientLeaves, Searches
<1>8. CASE Searches(Local)
  BY <1>8, LocalTyped DEF Searches
<1>9. CASE UNCHANGED allVars
  BY <1>2, <1>9 DEF allVars
<1> QED
  BY <1>3, <1>4, <1>5, <1>6, <1>7, <1>8, <1>9, Zenon DEF ServerNext

-----------------------------------------------------------------------------
(* What it is for.                                                         *)

(* Every variable of a search keeps its type through all that the process  *)
(* does around it.                                                         *)
THEOREM TypeCorrect == ServerSpec => []TypeOK
<1>1. ServerInit => Typed
  <2> SUFFICES ASSUME ServerInit PROVE Typed
    OBVIOUS
  <2>1. Init
    BY DEF ServerInit
  <2>2. NoStats.stage = "" /\ NoStats.asked = {}
    BY DEF NoStats
  <2>3. Outcomes /\ Goroutines
    <3>1. 0 \in 0 .. MaxLimit
      BY ConfigAssumption
    <3>2. /\ request \in Requests /\ step = "parsing" /\ limit = 0 /\ returned = "none"
          /\ ctxErr = "none" /\ keyword = "idle" /\ vector = "idle"
          /\ groupErr = "none" /\ ownFailures = {}
      BY <2>1, Zenon DEF Init
    <3> QED
      BY <3>1, <3>2 DEF Outcomes, Goroutines
  <2>4. disconnected = FALSE /\ stats.cancelled = FALSE /\ status = 0
    BY <2>1, Zenon DEF Init, NoStats
  <2>5. Flags /\ Answered
    BY <2>4, Zenon DEF Flags, Answered
  <2>6. Reported
    BY <2>1, <2>2 DEF Init, Reported
  <2> QED
    BY <2>3, <2>5, <2>6 DEF Typed
<1>2. ServerInv => SearchInv
  BY DEF ServerInv
<1>3. Typed => TypeOK
  <2>1. DOMAIN MetricStage = {"opensearch", "embedder", "qdrant"}
    BY DEF MetricStage
  <2> QED
    BY <2>1, Zenon DEF Typed, Outcomes, Reported, Answered, Goroutines, Flags, TypeOK
<1> QED
  BY <1>1, <1>2, <1>3, TypedPreserved, ServerInvHolds, PTL DEF ServerSpec

(* An answer is never keyword-only or vector-only, and none is given while *)
(* a goroutine of the search runs, whoever gives up meanwhile and whether  *)
(* or not the process shuts down (Search, service.go).                     *)
THEOREM AnswersAreComplete == ServerSpec => []NoPartialAnswer
<1>1. ServerInv => NoPartialAnswer
  BY SearchAnswers DEF ServerInv
<1> QED
  BY <1>1, ServerInvHolds, PTL

(* No stage is blamed for a cancellation: what Search returns, what record *)
(* reports and what the metrics count as an embedder's error is a failure  *)
(* of that stage's own (search, record, RecordSearch).                     *)
THEOREM BlameIsDeserved == ServerSpec => []BlamedStageFailedItself
<1>1. ServerInv => BlamedStageFailedItself
  BY SearchAnswers DEF ServerInv
<1> QED
  BY <1>1, ServerInvHolds, PTL

(* A search whose context ended is answered 499 or 504, and 499 when the   *)
(* client's leaving is what ended it (writeSearchError).                   *)
THEOREM StatusIsHonest == ServerSpec => []StatusFollowsContext
<1>1. ServerInv => StatusFollowsContext
  BY DEF ServerInv, SearchInv
<1> QED
  BY <1>1, ServerInvHolds, PTL

(* The clients and the pool close behind requests that were answered or    *)
(* told to stop, never under one that does not know (cmd/api/main.go).     *)
THEOREM ClientsCloseLast == ServerSpec => []ClientsOutliveRequests
<1>1. ServerInv => ClientsOutliveRequests
  BY DEF ServerInv, ToldToStop, ClientsOutliveRequests
<1> QED
  BY <1>1, ServerInvHolds, PTL

(* The in-flight gauge and the counted status follow the request, panic or *)
(* not (metrics/http.go, withRecovery).                                    *)
THEOREM MeasurementIsTrue == ServerSpec => []MeasuredAsAnswered
<1>1. ServerInv => MeasuredAsAnswered
  BY DEF ServerInv, Measurement, MeasuredAsAnswered
<1> QED
  BY <1>1, ServerInvHolds, PTL

=============================================================================
