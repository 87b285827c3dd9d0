---------------------------- MODULE MCApiServer ----------------------------
(* ApiServer for TLC: one request of every kind at each limit boundary.    *)
EXTENDS ApiServer

MCRequests == [wellFormed : {TRUE}, query : {"text"}, limit : {-1, 0, MaxLimit, MaxLimit + 1}]
                \cup [wellFormed : {TRUE}, query : {"empty", "long"}, limit : {0}]
                \cup [wellFormed : {FALSE}, query : {"text"}, limit : {0}]

\* Often enough for a probe and two rounds of the sampler to disagree.
MCOutages == [r \in Routes |-> IF r = "ready" THEN 3 ELSE 0]
=============================================================================
