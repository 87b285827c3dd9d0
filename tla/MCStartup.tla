----------------------------- MODULE MCStartup -----------------------------
(* Startup for TLC: two consumers on stores without an index, in           *)
(* environments that agree, that differ, that Load refuses, and that only  *)
(* the check of the embedding provider does.                               *)
EXTENDS Startup, TLC

\* The order in cmd/consumer.
ConsumerStages == <<"index", "collection", "embedding", "kafka">>

\* Everything required is set, and the key of the default provider; everything
\* else is left to its default.
Plain == [k \in Keys |-> IF k \in Required THEN Value(1)
                         ELSE IF k = "EMBEDDING_API_KEY" THEN Value("key") ELSE Unset]

\* Only the provider's dimension is set; both are, to another size; the two
\* contradict each other; a duration does not parse; the fake provider is to run
\* in production, which is refused where a missing key is.
MCEnvironments ==
  [two |-> [EMBEDDING_DIMENSION |-> Value(2)] @@ Plain,
   three |-> [EMBEDDING_DIMENSION |-> Value(3), QDRANT_VECTOR_SIZE |-> Value(3)] @@ Plain,
   apart |-> [EMBEDDING_DIMENSION |-> Value(2), QDRANT_VECTOR_SIZE |-> Value(3)] @@ Plain,
   broken |-> [APP_STARTUP_TIMEOUT |-> Malformed] @@ Plain,
   fake |-> [EMBEDDING_DIMENSION |-> Value(3), EMBEDDING_PROVIDER |-> Value("fake"),
             APP_ENV |-> Value("production")] @@ Plain]
=============================================================================
