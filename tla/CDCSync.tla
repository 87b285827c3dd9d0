------------------------------ MODULE CDCSync ------------------------------
(***************************************************************************)
(* One row of the source table on its way into both search indexes:        *)
(* cdc.Service (internal/indexing/cdc/service.go), for rows with a version *)
(* and for rows without, and indexing.Indexer (internal/indexing/          *)
(* indexer.go), which reads the row itself, over the OpenSearch and Qdrant *)
(* clients, as the worker that owns the row's key runs them in each        *)
(* process of the consumer group.                                          *)
(*                                                                         *)
(* Covered: every store call as a step of its own, calls that fail before  *)
(* or after they took effect, the version conflict and the read that       *)
(* interprets it, retries, dead letters, crashes with redelivery from the  *)
(* committed offset, and a rebalance that leaves two processes applying    *)
(* the same row.                                                           *)
(* Not covered: other rows (no write names two), rows of which only some   *)
(* events have a version, commits (only that they never pass an unfinished *)
(* event, which OffsetTracker proves).                                     *)
(***************************************************************************)
EXTENDS Integers, Sequences

CONSTANTS
  Consumers,                \* processes of the group
  First,                    \* the process that owns the partition at first
  Histories,                \* [indexer, changes]: who indexes the row, and what
                            \* happens to it, a sequence of [op, version]
  FaultKinds,               \* what may go wrong: a subset of AllFaults
  MaxFaults,                \* bound on how often something goes wrong
  MaxRebalances             \* bound on ownership changes

AllFaults == {"crash", "load", "keyword", "read", "embed", "vector"}

\* cdc.Service with a version column, without one, and indexing.Indexer.
Indexers == {"cdc", "unversioned", "document"}

ASSUME SyncAssumption ==
  /\ First \in Consumers
  /\ FaultKinds \subseteq AllFaults
  /\ MaxFaults \in Nat /\ MaxRebalances \in Nat
  /\ \A h \in Histories :
       /\ h.indexer \in Indexers
       /\ h.changes \in Seq([op : {"upsert", "delete", "textless"}, version : Nat \ {0}])
       \* documents_stamp_change: the sequence gives every change a higher version
       /\ \A i, j \in 1 .. Len(h.changes) :
            i < j => h.changes[i].version < h.changes[j].version

VARIABLES
  indexer,                  \* which of Indexers applies the events
  events,                   \* the history of the row, an event for each change
  row,                      \* changes the row has gone through so far
  pc,                       \* [process -> step of Service.Process it is at]
  next,                     \* [process -> event it processes or will begin]
  loaded,                   \* [process -> change whose row it read, for Indexer]
  held,                     \* [process -> last event it fetched before it lost the partition]
  failed,                   \* [process -> the first delete of this attempt failed]
  owner,                    \* process that owns the partition
  committed,                \* first event a new owner is given
  document,                 \* version of the OpenSearch document, 0 for none
  remembered,               \* highest version OpenSearch has seen of it, 0 for none
  point,                    \* version in the payload of the Qdrant point, 0 for none
  dead,                     \* history: events sent to the dead-letter topic
  shared,                   \* history: a rebalance left a former owner with the row
  blind,                    \* history: a stored version was forgotten or not readable
  faults, rebalances

stores == <<document, remembered, point>>
source == <<indexer, events, row>>
group  == <<source, held, owner, committed, rebalances, shared>>
vars == <<pc, next, loaded, failed, group, stores, dead, blind, faults>>

Absent == 0
Last == Len(events)
ReadsRow == indexer = "document"

\* The change of the row that a process applies: the event's own, or the one
\* the Indexer found in the table.
Applied(c) == IF ReadsRow THEN events[loaded[c]] ELSE events[next[c]]
Version(c) == Applied(c).version

Init == /\ \E h \in Histories : indexer = h.indexer /\ events = h.changes
        \* for a service that never looks at the table, it may be at its end
        /\ row = IF ReadsRow THEN 0 ELSE Last
        /\ loaded = [c \in Consumers |-> 0]
        /\ pc = [c \in Consumers |-> "idle"]
        /\ next = [c \in Consumers |-> 1]
        /\ held = [c \in Consumers |-> 0]
        /\ failed = [c \in Consumers |-> FALSE]
        /\ owner = First /\ committed = 1
        /\ document = Absent /\ remembered = 0 /\ point = Absent
        /\ dead = {} /\ shared = FALSE /\ blind = FALSE
        /\ faults = 0 /\ rebalances = 0

Goto(c, step) == pc' = [pc EXCEPT ![c] = step]

Fault(kind) == kind \in FaultKinds /\ faults < MaxFaults /\ faults' = faults + 1

\* The event is finished: its worker turns to the next one of the key.
Finish(c) == Goto(c, "idle") /\ next' = [next EXCEPT ![c] = @ + 1]

-----------------------------------------------------------------------------
(* OpenSearch and Qdrant, as their clients use them.                       *)

\* Mutant of Accepted: a request without the version takes effect always.
AcceptedAlways(v) == v > 0

\* An index request with an external version: refused unless it is newer than
\* anything OpenSearch remembers of this id.  Without one it is never refused,
\* and nothing of it is remembered.
Accepted(v) == v > remembered

WriteDocument(v) ==
  IF Accepted(v) THEN document' = v /\ remembered' = IF indexer = "unversioned" THEN 0 ELSE v
                 ELSE UNCHANGED <<document, remembered>>

\* A delete names no version; OpenSearch goes on remembering the highest one.
RemoveDocument == document' = Absent /\ UNCHANGED remembered

\* OpenSearch forgets the version of a document deleted some time ago.
Forget ==
  /\ document = Absent /\ remembered > 0
  /\ remembered' = 0 /\ blind' = TRUE
  /\ UNCHANGED <<pc, next, loaded, failed, group, document, point, dead, faults>>

(* The row changes, and the event of it reaches the topic.                 *)
Change ==
  /\ row < Last /\ row' = row + 1
  /\ UNCHANGED <<pc, next, loaded, failed, indexer, events, held, owner, committed,
                 rebalances, shared, stores, dead, blind, faults>>

-----------------------------------------------------------------------------
(* Service.Process and Indexer.Index                                       *)

\* Where a row leads, up to the first write.  One without text fails before
\* it, for good.
FirstStep(change) ==
  CASE change.op = "upsert"   -> "keyword"
    [] change.op = "delete"   -> "deleteKeyword"
    [] change.op = "textless" -> "reject"

(* The worker begins the next event of the row.                            *)
Begin(c) ==
  /\ pc[c] = "idle"
  /\ next[c] <= IF owner = c THEN row ELSE held[c]
  /\ Goto(c, IF ReadsRow THEN "load" ELSE FirstStep(events[next[c]]))
  /\ failed' = [failed EXCEPT ![c] = FALSE]
  /\ UNCHANGED <<next, loaded, group, stores, dead, blind, faults>>

(* Indexer.Index reads the row as it is now; a row that is gone is deleted.*)
LoadRow(c) ==
  /\ pc[c] = "load"
  /\ \/ /\ loaded' = [loaded EXCEPT ![c] = row]
        /\ Goto(c, FirstStep(events[row]))
        /\ UNCHANGED faults
     \/ Fault("load") /\ Goto(c, "error") /\ UNCHANGED loaded
  /\ UNCHANGED <<next, failed, group, stores, dead, blind>>

(* Client.IndexDocument answers: applied, or a conflict to interpret.      *)
IndexDocument(c) ==
  /\ pc[c] = "keyword"
  /\ WriteDocument(Version(c))
  /\ Goto(c, IF Accepted(Version(c)) THEN "embed" ELSE "conflict")
  /\ UNCHANGED <<next, loaded, failed, group, point, dead, blind, faults>>

\* Mutant of IndexFails: the failure is ignored and the upsert goes on.
IndexFailsIgnored(c) ==
  /\ pc[c] = "keyword"
  /\ Fault("keyword")
  /\ WriteDocument(Version(c)) \/ UNCHANGED <<document, remembered>>
  /\ Goto(c, "embed")
  /\ UNCHANGED <<next, loaded, failed, group, point, dead, blind>>

(* The index request fails, before or after it took effect.                *)
IndexFails(c) ==
  /\ pc[c] = "keyword"
  /\ Fault("keyword")
  /\ WriteDocument(Version(c)) \/ UNCHANGED <<document, remembered>>
  /\ Goto(c, "error")
  /\ UNCHANGED <<next, loaded, failed, group, point, dead, blind>>

\* Mutants of ClassifyConflict: every conflict counts as stale; as a duplicate.
ConflictAlwaysStale(c) ==
  /\ pc[c] = "conflict"
  /\ Finish(c)
  /\ UNCHANGED <<loaded, failed, group, stores, dead, blind, faults>>
ConflictAlwaysDuplicate(c) ==
  /\ pc[c] = "conflict"
  /\ Goto(c, "embed")
  /\ UNCHANGED <<next, loaded, failed, group, stores, dead, blind, faults>>

(* classifyConflict reads the stored version: a newer one, or none, means  *)
(* the event is stale and the service stops; otherwise it is a duplicate   *)
(* and the service carries on.                                             *)
ClassifyConflict(c) ==
  /\ pc[c] = "conflict"
  /\ IF document = Absent \/ document > Version(c)
     THEN Finish(c)
     ELSE Goto(c, "embed") /\ UNCHANGED next
  /\ UNCHANGED <<loaded, failed, group, stores, dead, blind, faults>>

(* The version cannot be read: the conflict counts as a duplicate.         *)
ReadVersionFails(c) ==
  /\ pc[c] = "conflict"
  /\ Fault("read")
  /\ blind' = TRUE
  /\ Goto(c, "embed")
  /\ UNCHANGED <<next, loaded, failed, group, stores, dead>>

(* The embedder returns the vector of the row's text, or fails.            *)
Embed(c) ==
  /\ pc[c] = "embed"
  /\ \/ Goto(c, "vector") /\ UNCHANGED faults
     \/ Fault("embed") /\ Goto(c, "error")
  /\ UNCHANGED <<next, loaded, failed, group, stores, dead, blind>>

(* Client.Upsert of Qdrant replaces the point, whatever it held.           *)
Upsert(c) ==
  /\ pc[c] = "vector"
  /\ point' = Version(c)
  /\ Finish(c)
  /\ UNCHANGED <<loaded, failed, group, document, remembered, dead, blind, faults>>

(* The upsert fails, before or after it took effect.                       *)
UpsertFails(c) ==
  /\ pc[c] = "vector"
  /\ Fault("vector")
  /\ point' \in {point, Version(c)}
  /\ Goto(c, "error")
  /\ UNCHANGED <<next, loaded, failed, group, document, remembered, dead, blind>>

(* Both delete from the keyword index first.  After a failure the service  *)
(* keeps it and asks the vector index all the same; the Indexer stops.     *)
DeleteDocument(c) ==
  /\ pc[c] = "deleteKeyword"
  /\ \/ RemoveDocument /\ Goto(c, "deleteVector") /\ UNCHANGED <<failed, faults>>
     \/ /\ Fault("keyword")
        /\ RemoveDocument \/ UNCHANGED <<document, remembered>>
        /\ failed' = [failed EXCEPT ![c] = TRUE]
        /\ Goto(c, IF ReadsRow THEN "error" ELSE "deleteVector")
  /\ UNCHANGED <<next, loaded, group, point, dead, blind>>

\* Mutant of DeletePoint: the first delete's failure is forgotten.
DeletePointForgets(c) ==
  /\ pc[c] = "deleteVector"
  /\ \/ point' = Absent /\ Finish(c) /\ UNCHANGED faults
     \/ /\ Fault("vector") /\ point' \in {point, Absent}
        /\ Goto(c, "error") /\ UNCHANGED next
  /\ UNCHANGED <<loaded, failed, group, document, remembered, dead, blind>>

(* Then the vector index; the event is done when both deletes succeeded.   *)
DeletePoint(c) ==
  /\ pc[c] = "deleteVector"
  /\ \/ /\ point' = Absent /\ UNCHANGED faults
        /\ IF failed[c] THEN Goto(c, "error") /\ UNCHANGED next ELSE Finish(c)
     \/ /\ Fault("vector")
        /\ point' \in {point, Absent}
        /\ Goto(c, "error") /\ UNCHANGED next
  /\ UNCHANGED <<loaded, failed, group, document, remembered, dead, blind>>

(* The pipeline takes a failed attempt and tries the event again.          *)
Retry(c) ==
  /\ pc[c] = "error"
  /\ Goto(c, "idle")
  /\ UNCHANGED <<next, loaded, failed, group, stores, dead, blind, faults>>

(* The failure is permanent or the attempts are exhausted: the event goes  *)
(* to the dead-letter topic and is finished with.                          *)
DeadLetter(c) ==
  /\ pc[c] \in {"error", "reject"}
  /\ dead' = dead \cup {next[c]}
  /\ Finish(c)
  /\ UNCHANGED <<loaded, failed, group, stores, blind, faults>>

-----------------------------------------------------------------------------
(* The consumer group.                                                     *)

(* The owner's commit reaches the broker: at most what it has finished.    *)
Commit(c) ==
  /\ owner = c /\ committed < next[c]
  /\ committed' = next[c]
  /\ UNCHANGED <<pc, next, loaded, failed, source, held, owner, rebalances, shared,
                 stores, dead, blind, faults>>

(* A process dies, wherever it is.  The owner is given the partition again *)
(* from the committed offset; a former owner has nothing left.             *)
Crash(c) ==
  /\ Fault("crash")
  /\ Goto(c, "idle")
  /\ IF owner = c THEN next' = [next EXCEPT ![c] = committed] /\ UNCHANGED held
                  ELSE held' = [held EXCEPT ![c] = 0] /\ UNCHANGED next
  /\ UNCHANGED <<loaded, failed, source, owner, committed, rebalances, shared, stores, dead, blind>>

(* The partition moves to a process that holds no message of it; the old   *)
(* owner goes on with what it has fetched.                                 *)
Rebalance(c) ==
  /\ rebalances < MaxRebalances /\ rebalances' = rebalances + 1
  /\ owner # c /\ pc[c] = "idle" /\ next[c] > held[c]
  /\ owner' = c
  /\ next' = [next EXCEPT ![c] = committed]
  /\ \E last \in (IF pc[owner] = "idle" THEN next[owner] - 1 ELSE next[owner]) .. row :
       /\ held' = [held EXCEPT ![owner] = last, ![c] = 0]
       /\ shared' = (shared \/ last >= next[owner])
  /\ UNCHANGED <<pc, loaded, failed, source, committed, stores, dead, blind, faults>>

Attempt(c) == \/ Begin(c) \/ LoadRow(c) \/ IndexDocument(c) \/ IndexFails(c)
              \/ ClassifyConflict(c) \/ ReadVersionFails(c)
              \/ Embed(c) \/ Upsert(c) \/ UpsertFails(c)
              \/ DeleteDocument(c) \/ DeletePoint(c)
              \/ Retry(c) \/ DeadLetter(c)

Next == \/ \E c \in Consumers : Attempt(c) \/ Commit(c) \/ Crash(c) \/ Rebalance(c)
        \/ Forget \/ Change

Spec == Init /\ [][Next]_vars

\* A worker with a message goes on: the stores answer its calls, attempts are
\* bounded.  The row's history takes its course.
FairSpec == Spec /\ WF_vars(Change) /\ \A c \in Consumers : WF_vars(Attempt(c))

-----------------------------------------------------------------------------
(* Every variable has its type; a document present is the highest version  *)
(* OpenSearch remembers.                                                   *)
Versions == {events[i].version : i \in 1 .. Last} \cup {0}
Steps == {"idle", "load", "keyword", "conflict", "embed", "vector", "deleteKeyword",
          "deleteVector", "error", "reject"}

TypeOK == /\ \E h \in Histories : indexer = h.indexer /\ events = h.changes
          /\ row \in 0 .. Last
          /\ loaded \in [Consumers -> 0 .. Last]
          /\ pc \in [Consumers -> Steps]
          /\ next \in [Consumers -> 1 .. Last + 1]
          /\ held \in [Consumers -> 0 .. Last]
          /\ failed \in [Consumers -> BOOLEAN]
          /\ owner \in Consumers /\ committed \in 1 .. Last + 1
          /\ document \in Versions /\ remembered \in Versions /\ point \in Versions
          /\ document # Absent /\ indexer # "unversioned" => document = remembered
          /\ dead \subseteq 1 .. Last
          /\ shared \in BOOLEAN /\ blind \in BOOLEAN
          /\ faults \in 0 .. MaxFaults /\ rebalances \in 0 .. MaxRebalances

\* What both indexes should hold of the row when nothing is left to process.
FinalVersion == IF Last > 0 /\ events[Last].op = "upsert"
                THEN events[Last].version ELSE Absent
NeverDeleted == \A i \in 1 .. Last : events[i].op # "delete"

Settled == /\ row = Last
           /\ \A c \in Consumers :
                pc[c] = "idle" /\ next[c] > IF owner = c THEN Last ELSE held[c]

\* Rows without a version are written in the order events come, also again.
Versioned == indexer # "unversioned"

(* Whatever failed, was redelivered or was dead-lettered on the way, once  *)
(* nothing is left to process both indexes hold the row's newest state,    *)
(* unless that very event was dead-lettered (service.go:74-77 and the      *)
(* README on ordering: "the indexes still converge on the newest row") or  *)
(* a rebalance left two processes with the row.  It needs no version: what *)
(* is delivered again is delivered in order (document.go:143); and the     *)
(* Indexer may find any later change than its event's (indexer.go:21-22).  *)
Converged == Settled /\ Last \notin dead /\ ~shared =>
               document = FinalVersion /\ point = FinalVersion

(* The keyword half of that holds even while two processes apply the row,  *)
(* as long as it is not deleted: the version decides (IndexDocument,       *)
(* service.go:82-88).                                                      *)
KeywordConverged ==
  Versioned /\ NeverDeleted /\ Settled /\ Last \notin dead => document = FinalVersion

(* The partial state of a failed upsert is always the same one: for a row  *)
(* that is not deleted, the vector index never holds a version the keyword *)
(* index does not have yet, wherever a process fails (service.go:95-110,   *)
(* indexer.go:62-66).                                                      *)
VectorNeverAhead == Versioned /\ NeverDeleted => point <= document

(* An event that was overtaken does not reach the vector index: a point is *)
(* never replaced by an older one (the stale branch of upsert,             *)
(* service.go:258-265; README: "stale replay: refused by both indexes"),   *)
(* unless the stored version was forgotten or could not be read, or two    *)
(* processes share the row: Qdrant itself compares nothing.                *)
StaleNeverReachesVectors ==
  [][point' = Absent \/ point' >= point \/ blind \/ shared \/ ~Versioned]_point

(* Every delivered event is finished in the end and the indexes then agree *)
(* for good, when the last event was not dead-lettered and no former owner *)
(* interfered.                                                             *)
EventuallyConverged ==
  <>[](\/ Last \in dead \/ shared
       \/ document = FinalVersion /\ point = FinalVersion)
=============================================================================
