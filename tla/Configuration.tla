--------------------------- MODULE Configuration ---------------------------
(***************************************************************************)
(* config.Load (internal/config/config.go) as a function of the            *)
(* environment: parsing with defaults, the three places where it may       *)
(* return an error, and the relations between settings it refuses.         *)
(*                                                                         *)
(* A setting is unset (or blank), malformed or a number; durations are in  *)
(* milliseconds, flags 0 or 1.  A malformed URL or path is one the later   *)
(* checks refuse.                                                          *)
(* Not covered: names and secrets that Load takes as they come, but for the*)
(* three main looks at later, and the parts of an address.                 *)
(***************************************************************************)
EXTENDS Integers

Unset == [form |-> "unset", n |-> 0]
Malformed == [form |-> "malformed", n |-> 0]
NotFinite == [form |-> "not finite", n |-> 0]     \* Inf or NaN
Value(n) == [form |-> "value", n |-> n]

Required == {"DATABASE_URL", "KAFKA_BROKERS", "KAFKA_TOPIC", "KAFKA_CONSUMER_GROUP",
             "OPENSEARCH_URL", "QDRANT_URL"}

\* Numbers and their defaults.
Defaults ==
  [APP_STARTUP_TIMEOUT |-> 60000, HTTP_READ_TIMEOUT |-> 10000, HTTP_WRITE_TIMEOUT |-> 10000,
   HTTP_IDLE_TIMEOUT |-> 60000, HTTP_SHUTDOWN_TIMEOUT |-> 10000,
   DATABASE_MAX_CONN_LIFETIME |-> 3600000, DATABASE_MAX_CONN_IDLE_TIME |-> 1800000,
   DATABASE_HEALTH_CHECK_PERIOD |-> 60000, DATABASE_CONNECT_TIMEOUT |-> 5000,
   EMBEDDING_TIMEOUT |-> 10000, SEARCH_TIMEOUT |-> 5000,
   KAFKA_RETRY_INITIAL_BACKOFF |-> 500, KAFKA_RETRY_MAX_BACKOFF |-> 30000,
   DATABASE_MAX_CONNS |-> 25, KAFKA_WORKERS |-> 10, INDEXING_WORKERS |-> 10,
   INDEXING_QUEUE_SIZE |-> 1000, INDEXING_BATCH_SIZE |-> 100, KAFKA_RETRY_MAX_ATTEMPTS |-> 5,
   EMBEDDING_DIMENSION |-> 768, SEARCH_DEFAULT_LIMIT |-> 10, SEARCH_MAX_LIMIT |-> 50,
   SEARCH_CANDIDATE_LIMIT |-> 50, RRF_K |-> 60,
   HTTP_PORT |-> 8080, DATABASE_MIN_CONNS |-> 2, KAFKA_RETRY_MULTIPLIER |-> 2,
   METRICS_ENABLED |-> 1, LOG_LEVEL |-> 0]

\* Settings that may be 0, or have a range of their own.
Unsigned == {"DATABASE_MIN_CONNS", "METRICS_ENABLED", "LOG_LEVEL"}
Positive == DOMAIN Defaults \ (Unsigned \cup {"HTTP_PORT", "KAFKA_RETRY_MULTIPLIER"})

\* Names that Load does not look into, and their defaults.
Names == [APP_ENV |-> "development", EMBEDDING_PROVIDER |-> "gemini", EMBEDDING_API_KEY |-> ""]

Numbers == DOMAIN Defaults \cup {"QDRANT_VECTOR_SIZE"}
Keys == Numbers \cup Required \cup DOMAIN Names \cup {"METRICS_PATH"}

Or(setting, fallback) == IF setting.form = "value" THEN setting.n ELSE fallback

Name(environment, k) == Or(environment[k], Names[k])

\* The collection's vectors have the length of the provider's unless told otherwise.
Values(environment) ==
  LET given == [k \in DOMAIN Defaults |-> Or(environment[k], Defaults[k])]
  IN [k \in Numbers |-> IF k = "QDRANT_VECTOR_SIZE"
                        THEN Or(environment[k], given["EMBEDDING_DIMENSION"]) ELSE given[k]]

\* What env collects: a required setting is missing, a number does not parse,
\* a list has no item.
Unparsed(environment) ==
  {k \in Required : environment[k] = Unset}
  \cup {k \in Numbers \cup {"KAFKA_BROKERS"} : environment[k] = Malformed}

\* checkURL and splitEndpoint.
BadURLs(environment, keys) == {k \in keys : environment[k] = Malformed}

\* validate: numbers out of their range, and values that only it looks into.
OutOfRange(environment, v) ==
  {k \in Positive \cup {"QDRANT_VECTOR_SIZE"} : v[k] <= 0}
  \cup {k \in {"DATABASE_MIN_CONNS"} : v[k] < 0}
  \cup {k \in {"HTTP_PORT"} : v[k] \notin 1 .. 65535}
  \cup {k \in {"KAFKA_RETRY_MULTIPLIER"} : v[k] < 1 \/ environment[k] = NotFinite}
  \cup {k \in {"METRICS_PATH"} : v["METRICS_ENABLED"] = 1 /\ environment[k] = Malformed}
  \cup BadURLs(environment, {"OPENSEARCH_URL"})

\* Settings that exceed, or differ from, what another allows.
Exceeding(v) ==
  {k \in {"DATABASE_MIN_CONNS"} : v[k] > v["DATABASE_MAX_CONNS"]}
  \cup {k \in {"SEARCH_DEFAULT_LIMIT"} : v[k] > v["SEARCH_MAX_LIMIT"]}
  \cup {k \in {"SEARCH_MAX_LIMIT"} : v[k] > v["SEARCH_CANDIDATE_LIMIT"]}
  \cup {k \in {"SEARCH_TIMEOUT"} : v[k] >= v["HTTP_WRITE_TIMEOUT"]}
  \cup {k \in {"KAFKA_RETRY_MAX_BACKOFF"} : v[k] > 0 /\ v[k] < v["KAFKA_RETRY_INITIAL_BACKOFF"]}

\* validate: settings that contradict each other, each by the one named first.
Contradictory(v) ==
  Exceeding(v) \cup {k \in {"QDRANT_VECTOR_SIZE"} : v[k] # v["EMBEDDING_DIMENSION"]}

\* The settings Load names in its error: those that do not parse, or else the
\* endpoint of Qdrant, or else those validate refuses.
Problems(environment) ==
  IF Unparsed(environment) # {} THEN Unparsed(environment)
  ELSE IF BadURLs(environment, {"QDRANT_URL"}) # {} THEN BadURLs(environment, {"QDRANT_URL"})
  ELSE OutOfRange(environment, Values(environment)) \cup Contradictory(Values(environment))

Load(environment) == [problems |-> Problems(environment), values |-> Values(environment)]
=============================================================================
