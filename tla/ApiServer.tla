----------------------------- MODULE ApiServer -----------------------------
(***************************************************************************)
(* The API process while it serves and shuts down: run in cmd/api/main.go, *)
(* the router's middleware (internal/api/middleware.go and routes.go, the  *)
(* metrics' own in internal/metrics/http.go), the readiness checks and     *)
(* their sampler (internal/api/health.go), around one request that is a    *)
(* search, in all the detail of HybridSearch, or a readiness probe.        *)
(*                                                                         *)
(* Covered: arrival, disconnection, panics, measurement; signal, Shutdown  *)
(* and its deadline, cancellation of what still runs, closing of the       *)
(* clients; a listener that fails; stores that go and come back.           *)
(* Not covered: start-up, which follows startup.Retry (Startup); request   *)
(* IDs, access logs, unknown paths and methods, response bodies; a panic   *)
(* in a goroutine of its own, which ends the process.                      *)
(***************************************************************************)
EXTENDS HybridSearch

CONSTANTS
  MaxOutages                \* [route -> how often a store goes or comes back at most]

\* A search's calls fail at will, whatever is said to be up.
Routes == {"search", "ready"}

ASSUME OutagesAssumption == MaxOutages \in [Routes -> Nat]

Stores == {"opensearch", "qdrant"}
Checkers == {"probe", "sampler"}

VARIABLES
  server,                   \* "serving", "draining" in Shutdown, "cancelled",
                            \*   "closed", "failed" without Shutdown, "exited"
  route,                    \* endpoint of the request: "search" or "ready"
  place,                    \* the request: "outside", "inside" the handlers, "done"
  metrics,                  \* cfg.Metrics.Enabled
  inFlight, counted,        \* the metrics: requests now; status counted, 0 for none
  check,                    \* [checker -> [store -> "idle", "asked", "ok", "error"]]
  gauge,                    \* application_ready
  probed,                   \* status the probe was answered, 0 for none
  up,                       \* stores that answer
  outages

readiness == <<check, gauge, probed>>
world == <<up, outages>>
serverVars == <<server, route, place, metrics, inFlight, counted, readiness, world>>
allVars == <<vars, serverVars>>

ServerInit ==
  /\ Init
  /\ route \in Routes
  /\ route = "ready" => request = CHOOSE r \in Requests : TRUE
  /\ server = "serving" /\ place = "outside" /\ metrics \in BOOLEAN
  /\ inFlight = 0 /\ counted = 0
  /\ check = [c \in Checkers |-> [s \in Stores |-> "idle"]]
  /\ gauge = FALSE /\ probed = 0
  /\ up = Stores /\ outages = 0

Alive == server # "exited"
Inside == Alive /\ place = "inside"

-----------------------------------------------------------------------------
(* The request on its way through the handlers.                            *)

(* It arrives; no listener is open once Shutdown has begun.                *)
Arrive ==
  /\ server = "serving" /\ place = "outside"
  /\ place' = "inside"
  /\ inFlight' = IF metrics THEN inFlight + 1 ELSE inFlight
  /\ UNCHANGED <<vars, server, route, metrics, counted, readiness, world>>

(* A step of its search.                                                   *)
Searches(Step) == Inside /\ route = "search" /\ Step /\ UNCHANGED serverVars

(* Its client goes away.                                                   *)
ClientLeaves ==
  /\ Inside /\ Disconnect
  /\ UNCHANGED serverVars

\* The status its client was sent.
Sent == IF status # 0 THEN status ELSE probed

(* It has its answer, which the middleware counts on the way out.          *)
Leave ==
  /\ Inside /\ step = "answered"
  /\ place' = "done"
  /\ IF metrics THEN inFlight' = inFlight - 1 /\ counted' = Sent
                ELSE UNCHANGED <<inFlight, counted>>
  /\ UNCHANGED <<vars, server, route, metrics, readiness, world>>

\* The handler waits for goroutines of its own.
Waiting == \/ keyword = "running" \/ vector \in {"embedding", "running"}
           \/ \E s \in Stores : check["probe"][s] # "idle"

\* Mutant of Panics: the request in flight is not taken back.
PanicsInFlight ==
  /\ Inside /\ step # "answered" /\ ~Waiting
  /\ step' = "answered" /\ status' = 500 /\ returned' = "none"
  /\ place' = "done"
  /\ UNCHANGED <<request, ctx, both, limit, stats, server, route, metrics, inFlight,
                 counted, readiness, world>>

(* The handler panics: withRecovery answers, outside the measurement, of   *)
(* which only the deferred part has run.                                   *)
Panics ==
  /\ Inside /\ step # "answered" /\ ~Waiting
  /\ step' = "answered" /\ status' = 500 /\ returned' = "none"
  /\ place' = "done"
  /\ inFlight' = IF metrics THEN inFlight - 1 ELSE inFlight
  /\ UNCHANGED <<request, ctx, both, limit, stats, server, route, metrics, counted,
                 readiness, world>>

-----------------------------------------------------------------------------
(* Readiness.                                                              *)

\* The context of a round of checks has ended for another reason than time.
CheckEnded(c) == IF c = "probe" THEN disconnected ELSE server # "serving"

\* Mutant of BeginCheck: nothing samples in the background.
BeginCheckForProbe(c) ==
  /\ c = "probe" /\ Inside /\ route = "ready" /\ step = "parsing"
  /\ \A s \in Stores : check[c][s] = "idle"
  /\ check' = [check EXCEPT ![c] = [s \in Stores |-> "asked"]]
  /\ UNCHANGED <<vars, server, route, place, metrics, inFlight, counted, gauge,
                 probed, world>>

(* A round begins: for the probe, or at a tick of the sampler, which runs  *)
(* beside the metrics only and may see a tick before its end.              *)
BeginCheck(c) ==
  /\ \A s \in Stores : check[c][s] = "idle"
  /\ IF c = "probe" THEN Inside /\ route = "ready" /\ step = "parsing"
                    ELSE metrics /\ Alive
  /\ check' = [check EXCEPT ![c] = [s \in Stores |-> "asked"]]
  /\ UNCHANGED <<vars, server, route, place, metrics, inFlight, counted, gauge,
                 probed, world>>

(* One ping returns: a store that is down refuses it or lets it time out.  *)
CheckReturns(c, s) ==
  /\ Alive /\ check[c][s] = "asked"
  /\ \/ s \in up /\ check' = [check EXCEPT ![c][s] = "ok"]
     \/ /\ s \notin up \/ CheckEnded(c)
        /\ check' = [check EXCEPT ![c][s] = "error"]
  /\ UNCHANGED <<vars, server, route, place, metrics, inFlight, counted, gauge,
                 probed, world>>

(* All have: the gauge is set, and the probe answered.                     *)
EndCheck(c) ==
  /\ Alive /\ \A s \in Stores : check[c][s] \in {"ok", "error"}
  /\ LET ready == \A s \in Stores : check[c][s] = "ok"
     IN /\ gauge' = IF metrics THEN ready ELSE gauge
        /\ IF c = "probe"
           THEN step' = "answered" /\ probed' = IF ready THEN 200 ELSE 503
           ELSE UNCHANGED <<step, probed>>
  /\ check' = [check EXCEPT ![c] = [s \in Stores |-> "idle"]]
  /\ UNCHANGED <<request, ctx, both, limit, returned, stats, status, server, route,
                 place, metrics, inFlight, counted, world>>

(* A store goes, or comes back.                                            *)
Outage ==
  /\ Alive /\ outages < MaxOutages[route]
  /\ \E s \in Stores : up' = IF s \in up THEN up \ {s} ELSE up \cup {s}
  /\ outages' = outages + 1
  /\ UNCHANGED <<vars, server, route, place, metrics, inFlight, counted, readiness>>

-----------------------------------------------------------------------------
(* The process.                                                            *)

Server(from, to) ==
  /\ server = from /\ server' = to
  /\ UNCHANGED <<route, place, metrics, inFlight, counted, readiness, world>>

Signal == Server("serving", "draining") /\ UNCHANGED vars

(* Shutdown returns: no request is left.                                   *)
Drained == place # "inside" /\ Server("draining", "cancelled") /\ UNCHANGED vars

\* Mutant of GraceEnds: main returns Shutdown's error before it cancels.
GraceEndsUncancelled ==
  place = "inside" /\ Server("draining", "cancelled") /\ UNCHANGED vars

(* Shutdown's deadline passes: main cancels rootCtx, and with it the       *)
(* context of the request that still runs.                                 *)
GraceEnds ==
  /\ place = "inside" /\ Server("draining", "cancelled")
  /\ IF step # "answered" /\ ~disconnected THEN Disconnect ELSE UNCHANGED vars

(* Deferred closes: the clients and the pool.                              *)
Close == Server("cancelled", "closed") /\ UNCHANGED vars

(* The listener fails: run returns at once.                                *)
ListenerFails == Server("serving", "failed") /\ UNCHANGED vars

Exit == (Server("closed", "exited") \/ Server("failed", "exited")) /\ UNCHANGED vars

ServerNext ==
  \/ Arrive \/ ClientLeaves \/ Leave \/ Panics
  \/ Searches(Timeout) \/ Searches(Local)
  \/ Searches(KeywordReturns) \/ Searches(KeywordFails)
  \/ Searches(EmbedReturns) \/ Searches(VectorReturns) \/ Searches(VectorFails)
  \/ \E c \in Checkers : BeginCheck(c) \/ EndCheck(c) \/ \E s \in Stores : CheckReturns(c, s)
  \/ Outage
  \/ Signal \/ Drained \/ GraceEnds \/ Close \/ ListenerFails \/ Exit

ServerSpec == ServerInit /\ [][ServerNext]_allVars

\* The process's own code runs and its timers fire; a client library returns once
\* its context ended.  A ping is answered, refused or timed out, but a search's
\* store or provider may never answer.
FairServerSpec ==
  /\ ServerSpec
  /\ WF_allVars(Searches(Local)) /\ WF_allVars(Searches(Timeout))
  /\ WF_allVars(Searches(GroupEnded /\ KeywordFails))
  /\ WF_allVars(Searches(GroupEnded /\ VectorFails))
  /\ WF_allVars(Leave) /\ WF_allVars(BeginCheck("probe"))
  /\ WF_allVars(server = "serving" /\ BeginCheck("sampler"))
  /\ \A c \in Checkers : /\ WF_allVars(EndCheck(c))
                         /\ \A s \in Stores : WF_allVars(CheckReturns(c, s))
  /\ WF_allVars(Drained) /\ WF_allVars(GraceEnds) /\ WF_allVars(Close) /\ WF_allVars(Exit)

-----------------------------------------------------------------------------
(* Every request that arrived is answered or ends with the process, even   *)
(* if no store ever answers: the search's timeout and the probe's end it,  *)
(* and a shutdown waits for no longer than its deadline (Search in         *)
(* handler.go, Ready in health.go).                                        *)
EveryRequestAnswered == place = "inside" ~> (place = "done" \/ server = "exited")

(* After Shutdown the clients and the pool are closed only when every      *)
(* request was answered or has been told to stop ("Stop any requests still *)
(* running so they release their database connections before the deferred  *)
(* pool.Close waits on them", cmd/api/main.go).                            *)
ClientsOutliveRequests ==
  server = "closed" /\ place = "inside" => step = "answered" \/ disconnected

(* What the metrics say is what happened: a request counts as in flight    *)
(* while a handler has it, whatever became of it, and one whose handler    *)
(* returned is counted with the status its client was sent (Middleware,    *)
(* metrics/http.go:29-33; see the README on panics).                       *)
MeasuredAsAnswered ==
  metrics => /\ inFlight = IF place = "inside" THEN 1 ELSE 0
             /\ place = "done" /\ counted # Sent => counted = 0 /\ Sent = 500

(* The readiness gauge is not wrong for ever: when the stores no longer    *)
(* come and go it says whether they answer, although the probe and the     *)
(* sampler set it in the order they finish, which is not the order they    *)
(* asked in (sampleReadiness in cmd/api/main.go, Check in health.go).      *)
GaugeSettles ==
  <>[](~metrics \/ server # "serving" \/ gauge = (up = Stores))
=============================================================================
