--------------------------- MODULE CDCSyncProofs ---------------------------
(***************************************************************************)
(* Proofs about CDCSync, for every number of processes, every history of   *)
(* the row and every bound on faults and rebalances.                       *)
(*                                                                         *)
(* Three arguments, each over the types and positions of the processes:    *)
(*   - a row that is never deleted: OpenSearch has what it remembers, so a *)
(*     version on its way to Qdrant is already there, whoever else writes; *)
(*   - a process alone with the row: what OpenSearch remembers bounds the  *)
(*     point, unless it forgot or the interpretation of a conflict failed; *)
(*   - alone with the row, the last event cannot be mistaken for a stale   *)
(*     one, for its version is remembered only while its document exists.  *)
(***************************************************************************)
EXTENDS CDCSync, SequenceTheorems, TLAPS

(* The history of the row, as SyncAssumption describes it.                 *)
Ordered ==
  /\ indexer \in Indexers /\ Last \in Nat
  /\ \A i \in 1 .. Last : /\ events[i].op \in {"upsert", "delete", "textless"}
                          /\ events[i].version \in Nat \ {0}
  /\ \A i, j \in 1 .. Last : i < j => events[i].version < events[j].version

(* The index of the change a process applies, in the steps that apply one. *)
At(c) == IF ReadsRow THEN loaded[c] ELSE next[c]
Writing == {"keyword", "conflict", "embed", "vector"}
Deleting == {"deleteKeyword", "deleteVector"}
Applies(c) == pc[c] \in Writing \cup Deleting \cup {"reject"}

(* Nobody is ahead of the table, an Indexer never applies an older change  *)
(* than its event's, and the step a process is at fits the change.         *)
Placed(c) ==
  /\ held[c] <= row /\ loaded[c] <= row
  /\ pc[c] # "idle" => next[c] <= row
  /\ pc[c] = "load" => ReadsRow
  /\ Applies(c) => At(c) \in 1 .. row /\ next[c] <= At(c)
  /\ pc[c] \in Writing => events[At(c)].op = "upsert"
  /\ pc[c] \in Deleting => events[At(c)].op = "delete"
  /\ pc[c] = "reject" => events[At(c)].op = "textless"

Positions == committed <= next[owner] /\ \A c \in Consumers : Placed(c)

-----------------------------------------------------------------------------
(* What SyncAssumption says holds of the history that was chosen.          *)
LEMMA HistoryIsOrdered == TypeOK => Ordered
<1> SUFFICES ASSUME TypeOK PROVE Ordered
  OBVIOUS
<1>1. PICK h \in Histories : indexer = h.indexer /\ events = h.changes
  BY DEF TypeOK
<1>2. /\ events \in Seq([op : {"upsert", "delete", "textless"}, version : Nat \ {0}])
      /\ indexer \in Indexers
      /\ \A i, j \in 1 .. Len(events) : i < j => events[i].version < events[j].version
  BY <1>1, SyncAssumption
<1>3. \A i \in 1 .. Len(events) :
        events[i] \in [op : {"upsert", "delete", "textless"}, version : Nat \ {0}]
  BY <1>2, ElementOfSeq
<1> QED
  BY <1>2, <1>3 DEF Ordered, Last

(* The version a process applies is one of the history.                    *)
LEMMA VersionInHistory ==
  ASSUME TypeOK, Positions, NEW c \in Consumers, Applies(c)
  PROVE  /\ At(c) \in 1 .. Last /\ Applied(c) = events[At(c)]
         /\ Version(c) = events[At(c)].version
         /\ Version(c) \in Versions /\ Version(c) \in Nat \ {0}
<1>1. At(c) \in 1 .. Last
  BY HistoryIsOrdered DEF TypeOK, Positions, Placed, Ordered
<1>2. Applied(c) = events[At(c)]
  BY DEF Applied, At
<1> QED
  BY <1>1, <1>2, HistoryIsOrdered DEF Version, Versions, Ordered

-----------------------------------------------------------------------------
(* Types.                                                                  *)

(* The types of what the processes do, of the stores and of the rest.      *)
ControlOK == /\ row \in 0 .. Last
             /\ loaded \in [Consumers -> 0 .. Last]
             /\ pc \in [Consumers -> Steps]
             /\ next \in [Consumers -> 1 .. Last + 1]
             /\ held \in [Consumers -> 0 .. Last]
             /\ failed \in [Consumers -> BOOLEAN]
             /\ owner \in Consumers /\ committed \in 1 .. Last + 1
StoresOK == /\ document \in Versions /\ remembered \in Versions /\ point \in Versions
            /\ document # Absent /\ indexer # "unversioned" => document = remembered
RestOK == /\ dead \subseteq 1 .. Last
          /\ shared \in BOOLEAN /\ blind \in BOOLEAN
          /\ faults \in 0 .. MaxFaults /\ rebalances \in 0 .. MaxRebalances

(* A step keeps every type; what a store is given is a version of the      *)
(* history, and it remembers the version of a document it has.             *)
LEMMA TypePreserved == TypeOK /\ Positions /\ Next => TypeOK'
<1> SUFFICES ASSUME TypeOK, Positions, Next PROVE TypeOK'
  OBVIOUS
<1> USE DEF Goto, Finish, Fault, stores, source, group
<1>a. UNCHANGED <<indexer, events>>
  BY Zenon DEF Next, Attempt, Begin, LoadRow, IndexDocument, IndexFails, ClassifyConflict,
    ReadVersionFails, Embed, Upsert, UpsertFails, DeleteDocument, DeletePoint, Retry,
    DeadLetter, Commit, Crash, Rebalance, Forget, Change
<1>b. UNCHANGED <<Last, Versions, ReadsRow>>
  BY <1>a DEF Last, Versions, ReadsRow
<1>c. 0 \in Versions /\ Last \in Nat
  BY HistoryIsOrdered DEF Versions, Ordered
<1>d. \A i \in 1 .. Last : events[i].op \in {"upsert", "delete", "textless"}
  BY HistoryIsOrdered DEF Ordered
<1>e. ASSUME NEW c \in Consumers, Applies(c)
      PROVE  Version(c) \in Versions /\ Version(c) \in Nat \ {0}
  BY <1>e, VersionInHistory
<1>f. ControlOK /\ StoresOK /\ RestOK
  BY DEF TypeOK, ControlOK, StoresOK, RestOK
<1>g. SUFFICES ControlOK' /\ StoresOK' /\ RestOK'
  <2>1. \E h \in Histories : indexer' = h.indexer /\ events' = h.changes
    BY <1>a DEF TypeOK
  <2> QED
    BY <2>1, <1>g DEF TypeOK, ControlOK, StoresOK, RestOK
<1>1. ASSUME NEW c \in Consumers, Begin(c) PROVE ControlOK' /\ StoresOK' /\ RestOK'
  <2>1. ControlOK'
    BY <1>b, <1>c, <1>d, <1>f, <1>1 DEF Begin, ControlOK, Positions, Placed, Steps, FirstStep, Applies
  <2>2. StoresOK'
    BY <1>a, <1>b, <1>c, <1>e, <1>f, <1>1 DEF Begin, StoresOK, Applies, Writing, Deleting, Absent, WriteDocument, RemoveDocument, Accepted
  <2>3. RestOK'
    BY SyncAssumption, <1>b, <1>c, <1>f, <1>1 DEF Begin, ControlOK, RestOK
  <2> QED
    BY <2>1, <2>2, <2>3
<1>2. ASSUME NEW c \in Consumers, LoadRow(c) PROVE ControlOK' /\ StoresOK' /\ RestOK'
  <2>1. ControlOK'
    BY <1>b, <1>c, <1>d, <1>f, <1>2 DEF LoadRow, ControlOK, Positions, Placed, Steps, FirstStep, Applies
  <2>2. StoresOK'
    BY <1>a, <1>b, <1>c, <1>e, <1>f, <1>2 DEF LoadRow, StoresOK, Applies, Writing, Deleting, Absent, WriteDocument, RemoveDocument, Accepted
  <2>3. RestOK'
    BY SyncAssumption, <1>b, <1>c, <1>f, <1>2 DEF LoadRow, ControlOK, RestOK
  <2> QED
    BY <2>1, <2>2, <2>3
<1>3. ASSUME NEW c \in Consumers, IndexDocument(c) PROVE ControlOK' /\ StoresOK' /\ RestOK'
  <2>1. ControlOK'
    BY <1>b, <1>c, <1>d, <1>f, <1>3 DEF IndexDocument, ControlOK, Positions, Placed, Steps, FirstStep, Applies
  <2>2. StoresOK'
    BY <1>a, <1>b, <1>c, <1>e, <1>f, <1>3 DEF IndexDocument, StoresOK, Applies, Writing, Deleting, Absent, WriteDocument, RemoveDocument, Accepted
  <2>3. RestOK'
    BY SyncAssumption, <1>b, <1>c, <1>f, <1>3 DEF IndexDocument, ControlOK, RestOK
  <2> QED
    BY <2>1, <2>2, <2>3
<1>4. ASSUME NEW c \in Consumers, IndexFails(c) PROVE ControlOK' /\ StoresOK' /\ RestOK'
  <2>1. ControlOK'
    BY <1>b, <1>c, <1>d, <1>f, <1>4 DEF IndexFails, ControlOK, Positions, Placed, Steps, FirstStep, Applies
  <2>2. StoresOK'
    BY <1>a, <1>b, <1>c, <1>e, <1>f, <1>4 DEF IndexFails, StoresOK, Applies, Writing, Deleting, Absent, WriteDocument, RemoveDocument, Accepted
  <2>3. RestOK'
    BY SyncAssumption, <1>b, <1>c, <1>f, <1>4 DEF IndexFails, ControlOK, RestOK
  <2> QED
    BY <2>1, <2>2, <2>3
<1>5. ASSUME NEW c \in Consumers, ClassifyConflict(c) PROVE ControlOK' /\ StoresOK' /\ RestOK'
  <2>1. ControlOK'
    BY <1>b, <1>c, <1>d, <1>f, <1>5 DEF ClassifyConflict, ControlOK, Positions, Placed, Steps, FirstStep, Applies
  <2>2. StoresOK'
    BY <1>a, <1>b, <1>c, <1>e, <1>f, <1>5 DEF ClassifyConflict, StoresOK, Applies, Writing, Deleting, Absent, WriteDocument, RemoveDocument, Accepted
  <2>3. RestOK'
    BY SyncAssumption, <1>b, <1>c, <1>f, <1>5 DEF ClassifyConflict, ControlOK, RestOK
  <2> QED
    BY <2>1, <2>2, <2>3
<1>6. ASSUME NEW c \in Consumers, ReadVersionFails(c) PROVE ControlOK' /\ StoresOK' /\ RestOK'
  <2>1. ControlOK'
    BY <1>b, <1>c, <1>d, <1>f, <1>6 DEF ReadVersionFails, ControlOK, Positions, Placed, Steps, FirstStep, Applies
  <2>2. StoresOK'
    BY <1>a, <1>b, <1>c, <1>e, <1>f, <1>6 DEF ReadVersionFails, StoresOK, Applies, Writing, Deleting, Absent, WriteDocument, RemoveDocument, Accepted
  <2>3. RestOK'
    BY SyncAssumption, <1>b, <1>c, <1>f, <1>6 DEF ReadVersionFails, ControlOK, RestOK
  <2> QED
    BY <2>1, <2>2, <2>3
<1>7. ASSUME NEW c \in Consumers, Embed(c) PROVE ControlOK' /\ StoresOK' /\ RestOK'
  <2>1. ControlOK'
    BY <1>b, <1>c, <1>d, <1>f, <1>7 DEF Embed, ControlOK, Positions, Placed, Steps, FirstStep, Applies
  <2>2. StoresOK'
    BY <1>a, <1>b, <1>c, <1>e, <1>f, <1>7 DEF Embed, StoresOK, Applies, Writing, Deleting, Absent, WriteDocument, RemoveDocument, Accepted
  <2>3. RestOK'
    BY SyncAssumption, <1>b, <1>c, <1>f, <1>7 DEF Embed, ControlOK, RestOK
  <2> QED
    BY <2>1, <2>2, <2>3
<1>8. ASSUME NEW c \in Consumers, Upsert(c) PROVE ControlOK' /\ StoresOK' /\ RestOK'
  <2>1. ControlOK'
    BY <1>b, <1>c, <1>d, <1>f, <1>8 DEF Upsert, ControlOK, Positions, Placed, Steps, FirstStep, Applies
  <2>2. StoresOK'
    BY <1>a, <1>b, <1>c, <1>e, <1>f, <1>8 DEF Upsert, StoresOK, Applies, Writing, Deleting, Absent, WriteDocument, RemoveDocument, Accepted
  <2>3. RestOK'
    BY SyncAssumption, <1>b, <1>c, <1>f, <1>8 DEF Upsert, ControlOK, RestOK
  <2> QED
    BY <2>1, <2>2, <2>3
<1>9. ASSUME NEW c \in Consumers, UpsertFails(c) PROVE ControlOK' /\ StoresOK' /\ RestOK'
  <2>1. ControlOK'
    BY <1>b, <1>c, <1>d, <1>f, <1>9 DEF UpsertFails, ControlOK, Positions, Placed, Steps, FirstStep, Applies
  <2>2. StoresOK'
    BY <1>a, <1>b, <1>c, <1>e, <1>f, <1>9 DEF UpsertFails, StoresOK, Applies, Writing, Deleting, Absent, WriteDocument, RemoveDocument, Accepted
  <2>3. RestOK'
    BY SyncAssumption, <1>b, <1>c, <1>f, <1>9 DEF UpsertFails, ControlOK, RestOK
  <2> QED
    BY <2>1, <2>2, <2>3
<1>10. ASSUME NEW c \in Consumers, DeleteDocument(c) PROVE ControlOK' /\ StoresOK' /\ RestOK'
  <2>1. ControlOK'
    BY <1>b, <1>c, <1>d, <1>f, <1>10 DEF DeleteDocument, ControlOK, Positions, Placed, Steps, FirstStep, Applies
  <2>2. StoresOK'
    BY <1>a, <1>b, <1>c, <1>e, <1>f, <1>10 DEF DeleteDocument, StoresOK, Applies, Writing, Deleting, Absent, WriteDocument, RemoveDocument, Accepted
  <2>3. RestOK'
    BY SyncAssumption, <1>b, <1>c, <1>f, <1>10 DEF DeleteDocument, ControlOK, RestOK
  <2> QED
    BY <2>1, <2>2, <2>3
<1>11. ASSUME NEW c \in Consumers, DeletePoint(c) PROVE ControlOK' /\ StoresOK' /\ RestOK'
  <2>1. ControlOK'
    BY <1>b, <1>c, <1>d, <1>f, <1>11 DEF DeletePoint, ControlOK, Positions, Placed, Steps, FirstStep, Applies
  <2>2. StoresOK'
    BY <1>a, <1>b, <1>c, <1>e, <1>f, <1>11 DEF DeletePoint, StoresOK, Applies, Writing, Deleting, Absent, WriteDocument, RemoveDocument, Accepted
  <2>3. RestOK'
    BY SyncAssumption, <1>b, <1>c, <1>f, <1>11 DEF DeletePoint, ControlOK, RestOK
  <2> QED
    BY <2>1, <2>2, <2>3
<1>12. ASSUME NEW c \in Consumers, Retry(c) PROVE ControlOK' /\ StoresOK' /\ RestOK'
  <2>1. ControlOK'
    BY <1>b, <1>c, <1>d, <1>f, <1>12 DEF Retry, ControlOK, Positions, Placed, Steps, FirstStep, Applies
  <2>2. StoresOK'
    BY <1>a, <1>b, <1>c, <1>e, <1>f, <1>12 DEF Retry, StoresOK, Applies, Writing, Deleting, Absent, WriteDocument, RemoveDocument, Accepted
  <2>3. RestOK'
    BY SyncAssumption, <1>b, <1>c, <1>f, <1>12 DEF Retry, ControlOK, RestOK
  <2> QED
    BY <2>1, <2>2, <2>3
<1>13. ASSUME NEW c \in Consumers, DeadLetter(c) PROVE ControlOK' /\ StoresOK' /\ RestOK'
  <2>1. ControlOK'
    BY <1>b, <1>c, <1>d, <1>f, <1>13 DEF DeadLetter, ControlOK, Positions, Placed, Steps, FirstStep, Applies
  <2>2. StoresOK'
    BY <1>a, <1>b, <1>c, <1>e, <1>f, <1>13 DEF DeadLetter, StoresOK, Applies, Writing, Deleting, Absent, WriteDocument, RemoveDocument, Accepted
  <2>a. next[c] \in 1 .. Last
    BY <1>c, <1>f, <1>13 DEF DeadLetter, ControlOK, Positions, Placed
  <2>3. RestOK'
    BY <2>a, SyncAssumption, <1>b, <1>c, <1>f, <1>13 DEF DeadLetter, ControlOK, RestOK
  <2> QED
    BY <2>1, <2>2, <2>3
<1>14. ASSUME NEW c \in Consumers, Commit(c) PROVE ControlOK' /\ StoresOK' /\ RestOK'
  <2>1. ControlOK'
    BY <1>b, <1>c, <1>d, <1>f, <1>14 DEF Commit, ControlOK, Positions, Placed, Steps, FirstStep, Applies
  <2>2. StoresOK'
    BY <1>a, <1>b, <1>c, <1>e, <1>f, <1>14 DEF Commit, StoresOK, Applies, Writing, Deleting, Absent, WriteDocument, RemoveDocument, Accepted
  <2>3. RestOK'
    BY SyncAssumption, <1>b, <1>c, <1>f, <1>14 DEF Commit, ControlOK, RestOK
  <2> QED
    BY <2>1, <2>2, <2>3
<1>15. ASSUME NEW c \in Consumers, Crash(c) PROVE ControlOK' /\ StoresOK' /\ RestOK'
  <2>1. ControlOK'
    BY <1>b, <1>c, <1>d, <1>f, <1>15 DEF Crash, ControlOK, Positions, Placed, Steps, FirstStep, Applies
  <2>2. StoresOK'
    BY <1>a, <1>b, <1>c, <1>e, <1>f, <1>15 DEF Crash, StoresOK, Applies, Writing, Deleting, Absent, WriteDocument, RemoveDocument, Accepted
  <2>3. RestOK'
    BY SyncAssumption, <1>b, <1>c, <1>f, <1>15 DEF Crash, ControlOK, RestOK
  <2> QED
    BY <2>1, <2>2, <2>3
<1>16. ASSUME NEW c \in Consumers, Rebalance(c) PROVE ControlOK' /\ StoresOK' /\ RestOK'
  <2>1. ControlOK'
    BY <1>b, <1>c, <1>d, <1>f, <1>16 DEF Rebalance, ControlOK, Positions, Placed, Steps, FirstStep, Applies
  <2>2. StoresOK'
    BY <1>a, <1>b, <1>c, <1>e, <1>f, <1>16 DEF Rebalance, StoresOK, Applies, Writing, Deleting, Absent, WriteDocument, RemoveDocument, Accepted
  <2>3. RestOK'
    BY SyncAssumption, <1>b, <1>c, <1>f, <1>16 DEF Rebalance, ControlOK, RestOK
  <2> QED
    BY <2>1, <2>2, <2>3
<1>17. CASE Forget
  <2>1. ControlOK'
    BY <1>b, <1>c, <1>d, <1>f, <1>17 DEF Forget, ControlOK, Positions, Placed, Steps, FirstStep, Applies
  <2>2. StoresOK'
    BY <1>a, <1>b, <1>c, <1>e, <1>f, <1>17 DEF Forget, StoresOK, Applies, Writing, Deleting, Absent, WriteDocument, RemoveDocument, Accepted
  <2>3. RestOK'
    BY SyncAssumption, <1>b, <1>c, <1>f, <1>17 DEF Forget, ControlOK, RestOK
  <2> QED
    BY <2>1, <2>2, <2>3
<1>18. CASE Change
  <2>1. ControlOK'
    BY <1>b, <1>c, <1>d, <1>f, <1>18 DEF Change, ControlOK, Positions, Placed, Steps, FirstStep, Applies
  <2>2. StoresOK'
    BY <1>a, <1>b, <1>c, <1>e, <1>f, <1>18 DEF Change, StoresOK, Applies, Writing, Deleting, Absent, WriteDocument, RemoveDocument, Accepted
  <2>3. RestOK'
    BY SyncAssumption, <1>b, <1>c, <1>f, <1>18 DEF Change, ControlOK, RestOK
  <2> QED
    BY <2>1, <2>2, <2>3
<1> QED
  BY <1>1, <1>2, <1>3, <1>4, <1>5, <1>6, <1>7, <1>8, <1>9, <1>10, <1>11, <1>12, <1>13, <1>14, <1>15, <1>16, <1>17, <1>18 DEF Next, Attempt

(* A step keeps the positions.                                             *)
LEMMA PositionsPreserved == TypeOK /\ Positions /\ Next => Positions'
<1> SUFFICES ASSUME TypeOK, Positions, Next PROVE Positions'
  OBVIOUS
<1> USE DEF Goto, Finish, Fault, stores, source, group
<1>a. /\ UNCHANGED <<indexer, events>> /\ UNCHANGED <<Last, ReadsRow>>
      /\ ControlOK /\ ControlOK' /\ Last \in Nat
      /\ \A i \in 1 .. Last : events[i].op \in {"upsert", "delete", "textless"}
  <2>1. UNCHANGED <<indexer, events>>
    BY Zenon DEF Next, Attempt, Begin, LoadRow, IndexDocument, IndexFails, ClassifyConflict,
      ReadVersionFails, Embed, Upsert, UpsertFails, DeleteDocument, DeletePoint, Retry,
      DeadLetter, Commit, Crash, Rebalance, Forget, Change
  <2>2. ControlOK /\ ControlOK'
    BY TypePreserved DEF TypeOK, ControlOK
  <2> QED
    BY <2>1, <2>2, HistoryIsOrdered DEF Last, ReadsRow, Ordered
<1>b. ASSUME NEW d \in Consumers, UNCHANGED <<pc[d], next[d], loaded[d], held[d]>>, row <= row'
      PROVE  Placed(d)'
  <2>1. Placed(d) /\ At(d)' = At(d) /\ (Applies(d)' <=> Applies(d))
    BY <1>a, <1>b DEF Positions, At, Applies
  <2>2. row \in Nat /\ row' \in Nat /\ held[d] \in Nat /\ loaded[d] \in Nat /\ next[d] \in Nat
    BY <1>a DEF ControlOK
  <2> QED
    BY <1>a, <1>b, <2>1, <2>2 DEF Placed
<1>1. ASSUME NEW c \in Consumers, Begin(c) PROVE Positions'
  <2>1. committed' <= next'[owner']
    BY <1>a, <1>1 DEF Begin, Positions, Placed, ControlOK
  <2>2. Placed(c)'
    BY <1>a, <1>1 DEF Begin, Positions, Placed, ControlOK, Applies, At, Applied, Writing, Deleting, FirstStep
  <2>3. ASSUME NEW d \in Consumers \ {c} PROVE Placed(d)'
    BY <1>a, <1>b, <1>1, <2>3 DEF Begin, ControlOK
  <2> QED
    BY <2>1, <2>2, <2>3 DEF Positions
<1>2. ASSUME NEW c \in Consumers, LoadRow(c) PROVE Positions'
  <2>1. committed' <= next'[owner']
    BY <1>a, <1>2 DEF LoadRow, Positions, Placed, ControlOK
  <2>2. Placed(c)'
    BY <1>a, <1>2 DEF LoadRow, Positions, Placed, ControlOK, Applies, At, Applied, Writing, Deleting, FirstStep
  <2>3. ASSUME NEW d \in Consumers \ {c} PROVE Placed(d)'
    BY <1>a, <1>b, <1>2, <2>3 DEF LoadRow, ControlOK
  <2> QED
    BY <2>1, <2>2, <2>3 DEF Positions
<1>3. ASSUME NEW c \in Consumers, IndexDocument(c) PROVE Positions'
  <2>1. committed' <= next'[owner']
    BY <1>a, <1>3 DEF IndexDocument, Positions, Placed, ControlOK
  <2>2. Placed(c)'
    BY <1>a, <1>3 DEF IndexDocument, Positions, Placed, ControlOK, Applies, At, Applied, Writing, Deleting, FirstStep
  <2>3. ASSUME NEW d \in Consumers \ {c} PROVE Placed(d)'
    BY <1>a, <1>b, <1>3, <2>3 DEF IndexDocument, ControlOK
  <2> QED
    BY <2>1, <2>2, <2>3 DEF Positions
<1>4. ASSUME NEW c \in Consumers, IndexFails(c) PROVE Positions'
  <2>1. committed' <= next'[owner']
    BY <1>a, <1>4 DEF IndexFails, Positions, Placed, ControlOK
  <2>2. Placed(c)'
    BY <1>a, <1>4 DEF IndexFails, Positions, Placed, ControlOK, Applies, At, Applied, Writing, Deleting, FirstStep
  <2>3. ASSUME NEW d \in Consumers \ {c} PROVE Placed(d)'
    BY <1>a, <1>b, <1>4, <2>3 DEF IndexFails, ControlOK
  <2> QED
    BY <2>1, <2>2, <2>3 DEF Positions
<1>5. ASSUME NEW c \in Consumers, ClassifyConflict(c) PROVE Positions'
  <2>1. committed' <= next'[owner']
    BY <1>a, <1>5 DEF ClassifyConflict, Positions, Placed, ControlOK
  <2>2. Placed(c)'
    BY <1>a, <1>5 DEF ClassifyConflict, Positions, Placed, ControlOK, Applies, At, Applied, Writing, Deleting, FirstStep
  <2>3. ASSUME NEW d \in Consumers \ {c} PROVE Placed(d)'
    BY <1>a, <1>b, <1>5, <2>3 DEF ClassifyConflict, ControlOK
  <2> QED
    BY <2>1, <2>2, <2>3 DEF Positions
<1>6. ASSUME NEW c \in Consumers, ReadVersionFails(c) PROVE Positions'
  <2>1. committed' <= next'[owner']
    BY <1>a, <1>6 DEF ReadVersionFails, Positions, Placed, ControlOK
  <2>2. Placed(c)'
    BY <1>a, <1>6 DEF ReadVersionFails, Positions, Placed, ControlOK, Applies, At, Applied, Writing, Deleting, FirstStep
  <2>3. ASSUME NEW d \in Consumers \ {c} PROVE Placed(d)'
    BY <1>a, <1>b, <1>6, <2>3 DEF ReadVersionFails, ControlOK
  <2> QED
    BY <2>1, <2>2, <2>3 DEF Positions
<1>7. ASSUME NEW c \in Consumers, Embed(c) PROVE Positions'
  <2>1. committed' <= next'[owner']
    BY <1>a, <1>7 DEF Embed, Positions, Placed, ControlOK
  <2>2. Placed(c)'
    BY <1>a, <1>7 DEF Embed, Positions, Placed, ControlOK, Applies, At, Applied, Writing, Deleting, FirstStep
  <2>3. ASSUME NEW d \in Consumers \ {c} PROVE Placed(d)'
    BY <1>a, <1>b, <1>7, <2>3 DEF Embed, ControlOK
  <2> QED
    BY <2>1, <2>2, <2>3 DEF Positions
<1>8. ASSUME NEW c \in Consumers, Upsert(c) PROVE Positions'
  <2>1. committed' <= next'[owner']
    BY <1>a, <1>8 DEF Upsert, Positions, Placed, ControlOK
  <2>2. Placed(c)'
    BY <1>a, <1>8 DEF Upsert, Positions, Placed, ControlOK, Applies, At, Applied, Writing, Deleting, FirstStep
  <2>3. ASSUME NEW d \in Consumers \ {c} PROVE Placed(d)'
    BY <1>a, <1>b, <1>8, <2>3 DEF Upsert, ControlOK
  <2> QED
    BY <2>1, <2>2, <2>3 DEF Positions
<1>9. ASSUME NEW c \in Consumers, UpsertFails(c) PROVE Positions'
  <2>1. committed' <= next'[owner']
    BY <1>a, <1>9 DEF UpsertFails, Positions, Placed, ControlOK
  <2>2. Placed(c)'
    BY <1>a, <1>9 DEF UpsertFails, Positions, Placed, ControlOK, Applies, At, Applied, Writing, Deleting, FirstStep
  <2>3. ASSUME NEW d \in Consumers \ {c} PROVE Placed(d)'
    BY <1>a, <1>b, <1>9, <2>3 DEF UpsertFails, ControlOK
  <2> QED
    BY <2>1, <2>2, <2>3 DEF Positions
<1>10. ASSUME NEW c \in Consumers, DeleteDocument(c) PROVE Positions'
  <2>1. committed' <= next'[owner']
    BY <1>a, <1>10 DEF DeleteDocument, Positions, Placed, ControlOK
  <2>2. Placed(c)'
    BY <1>a, <1>10 DEF DeleteDocument, Positions, Placed, ControlOK, Applies, At, Applied, Writing, Deleting, FirstStep
  <2>3. ASSUME NEW d \in Consumers \ {c} PROVE Placed(d)'
    BY <1>a, <1>b, <1>10, <2>3 DEF DeleteDocument, ControlOK
  <2> QED
    BY <2>1, <2>2, <2>3 DEF Positions
<1>11. ASSUME NEW c \in Consumers, DeletePoint(c) PROVE Positions'
  <2>1. committed' <= next'[owner']
    BY <1>a, <1>11 DEF DeletePoint, Positions, Placed, ControlOK
  <2>2. Placed(c)'
    BY <1>a, <1>11 DEF DeletePoint, Positions, Placed, ControlOK, Applies, At, Applied, Writing, Deleting, FirstStep
  <2>3. ASSUME NEW d \in Consumers \ {c} PROVE Placed(d)'
    BY <1>a, <1>b, <1>11, <2>3 DEF DeletePoint, ControlOK
  <2> QED
    BY <2>1, <2>2, <2>3 DEF Positions
<1>12. ASSUME NEW c \in Consumers, Retry(c) PROVE Positions'
  <2>1. committed' <= next'[owner']
    BY <1>a, <1>12 DEF Retry, Positions, Placed, ControlOK
  <2>2. Placed(c)'
    BY <1>a, <1>12 DEF Retry, Positions, Placed, ControlOK, Applies, At, Applied, Writing, Deleting, FirstStep
  <2>3. ASSUME NEW d \in Consumers \ {c} PROVE Placed(d)'
    BY <1>a, <1>b, <1>12, <2>3 DEF Retry, ControlOK
  <2> QED
    BY <2>1, <2>2, <2>3 DEF Positions
<1>13. ASSUME NEW c \in Consumers, DeadLetter(c) PROVE Positions'
  <2>1. committed' <= next'[owner']
    BY <1>a, <1>13 DEF DeadLetter, Positions, Placed, ControlOK
  <2>2. Placed(c)'
    BY <1>a, <1>13 DEF DeadLetter, Positions, Placed, ControlOK, Applies, At, Applied, Writing, Deleting, FirstStep
  <2>3. ASSUME NEW d \in Consumers \ {c} PROVE Placed(d)'
    BY <1>a, <1>b, <1>13, <2>3 DEF DeadLetter, ControlOK
  <2> QED
    BY <2>1, <2>2, <2>3 DEF Positions
<1>14. ASSUME NEW c \in Consumers, Commit(c) PROVE Positions'
  BY <1>a, <1>b, <1>14 DEF Commit, Positions, ControlOK
<1>15. ASSUME NEW c \in Consumers, Crash(c) PROVE Positions'
  <2>1. committed' <= next'[owner']
    BY <1>a, <1>15 DEF Crash, Positions, Placed, ControlOK
  <2>2. Placed(c)'
    BY <1>a, <1>15 DEF Crash, Positions, Placed, ControlOK, Applies, At, Applied, Writing, Deleting, FirstStep
  <2>3. ASSUME NEW d \in Consumers \ {c} PROVE Placed(d)'
    BY <1>a, <1>b, <1>15, <2>3 DEF Crash, ControlOK
  <2> QED
    BY <2>1, <2>2, <2>3 DEF Positions
<1>16. ASSUME NEW c \in Consumers, Rebalance(c) PROVE Positions'
  <2>1. committed' <= next'[owner']
    BY <1>a, <1>16 DEF Rebalance, Positions, ControlOK
  <2>2. ASSUME NEW d \in Consumers PROVE Placed(d)'
    BY <1>a, <1>16, <2>2 DEF Rebalance, Positions, Placed, ControlOK, Applies, At, Writing, Deleting
  <2> QED
    BY <2>1, <2>2 DEF Positions
<1>17. CASE Forget
  BY <1>a, <1>b, <1>17 DEF Forget, Positions, ControlOK
<1>18. CASE Change
  BY <1>a, <1>b, <1>18 DEF Change, Positions, ControlOK
<1> QED
  BY <1>1, <1>2, <1>3, <1>4, <1>5, <1>6, <1>7, <1>8, <1>9, <1>10, <1>11, <1>12, <1>13, <1>14, <1>15, <1>16, <1>17, <1>18 DEF Next, Attempt

(* Every consumer starts idle, at the first event.                         *)
LEMMA InitTyped == Init => TypeOK /\ Positions
<1> SUFFICES ASSUME Init PROVE TypeOK /\ Positions
  OBVIOUS
<1>1. PICK h \in Histories : indexer = h.indexer /\ events = h.changes
  BY DEF Init
<1>2. Last \in Nat
  BY <1>1, SyncAssumption, LenProperties DEF Last
<1>3. TypeOK
  <2>1. ControlOK
    BY <1>2, SyncAssumption DEF Init, ControlOK, Steps, ReadsRow
  <2>2. StoresOK
    BY DEF Init, StoresOK, Versions, Absent
  <2>3. RestOK
    <3>1. faults \in 0 .. MaxFaults /\ rebalances \in 0 .. MaxRebalances
      BY SyncAssumption DEF Init
    <3> QED
      BY Zenon, <3>1 DEF Init, RestOK
  <2> QED
    BY <1>1, <2>1, <2>2, <2>3 DEF TypeOK, ControlOK, StoresOK, RestOK
<1>4. Positions
  <2>1. committed <= next[owner] /\ row \in Nat
    BY <1>2, SyncAssumption DEF Init
  <2>2. ASSUME NEW c \in Consumers PROVE Placed(c)
    <3>1. pc[c] = "idle" /\ held[c] = 0 /\ loaded[c] = 0
      BY DEF Init
    <3> QED
      BY <2>1, <3>1 DEF Placed, Applies, Writing, Deleting
  <2> QED
    BY <2>1, <2>2 DEF Positions
<1> QED
  BY <1>3, <1>4

(* Every variable has its type in every reachable state, and a document    *)
(* that is there is the highest version OpenSearch remembers.              *)
THEOREM TypeCorrect == Spec => []TypeOK
<1>1. TypeOK /\ Positions /\ [Next]_vars => (TypeOK /\ Positions)'
  <2>1. CASE Next
    BY <2>1, TypePreserved, PositionsPreserved
  <2>2. CASE UNCHANGED vars
    <3>1. UNCHANGED <<indexer, events, row, pc, next, loaded, held, failed, owner, committed,
                      document, remembered, point, dead, shared, blind, faults, rebalances>>
      BY <2>2 DEF vars, group, source, stores
    <3>2. UNCHANGED <<Last, Versions, ReadsRow>>
      BY <3>1 DEF Last, Versions, ReadsRow
    <3>3. TypeOK => TypeOK'
      BY <3>1, <3>2 DEF TypeOK
    <3>4. Positions => Positions'
      BY <3>1, <3>2 DEF Positions, Placed, Applies, At
    <3> QED
      BY <3>3, <3>4
  <2> QED
    BY <2>1, <2>2
<1> QED
  BY <1>1, InitTyped, PTL DEF Spec

-----------------------------------------------------------------------------
(* What OpenSearch remembers is the version of a change that wrote a       *)
(* document, of a service that names versions.                             *)
Remembers ==
  /\ remembered = 0 \/ \E i \in 1 .. Last : events[i].op = "upsert" /\ remembered = events[i].version
  /\ ~Versioned => remembered = 0

(* While no former owner kept messages, only the owner has work.           *)
Alone == ~shared => \A c \in Consumers \ {owner} : pc[c] = "idle" /\ next[c] > held[c]

(* A row that is never deleted: the document is what OpenSearch remembers, *)
(* versions on their way to Qdrant are not newer, and whoever finished the *)
(* last event left its version behind.                                     *)
Leads(c) ==
  /\ pc[c] \in {"conflict", "embed", "vector"} => Version(c) <= document
  /\ Last > 0 /\ next[c] > Last /\ Last \notin dead =>
       events[Last].op = "upsert" /\ document = events[Last].version
DocumentLeads ==
  Versioned /\ NeverDeleted =>
    /\ document = remembered /\ point <= document
    /\ \A c \in Consumers : Leads(c)

(* Alone with the row, and nothing forgotten: what is remembered bounds    *)
(* the point, and it is what is on its way to Qdrant.                      *)
Bounded(c) == /\ pc[c] \in {"embed", "vector"} => Version(c) = remembered
              /\ pc[c] = "conflict" => Version(c) <= remembered
RememberedBounds ==
  Versioned /\ ~shared /\ ~blind =>
    point <= remembered /\ \A c \in Consumers : Bounded(c)

(* cdc.Service loses a row that is inserted again after a delete, when the *)
(* events are delivered again; a history of one ends with the row's        *)
(* updates, or with its delete.                                            *)
StaysDeleted(h) ==
  h.indexer = "cdc" =>
    \A i, j \in 1 .. Len(h.changes) :
      i < j /\ h.changes[i].op = "delete" => h.changes[j].op # "upsert"

(* Alone with the row: the last event's version is remembered only while   *)
(* its document exists, whoever applies the last change leaves the stores  *)
(* as they should be, and so they are when its event is finished.          *)
RemembersLast ==
  remembered = events[Last].version =>
    /\ document = remembered
    /\ ReadsRow => row = Last /\ (Applies(owner) => loaded[owner] = Last)
WritesLast ==
  Applies(owner) /\ At(owner) = Last =>
    /\ pc[owner] \in {"conflict", "embed", "vector"} => document = events[Last].version
    /\ pc[owner] = "deleteVector" /\ ~failed[owner] => document = Absent
FinishesLast ==
  next[owner] > Last /\ Last \notin dead => document = FinalVersion /\ point = FinalVersion

LastApplies == Last > 0 /\ ~shared => RemembersLast /\ WritesLast /\ FinishesLast

-----------------------------------------------------------------------------
(* What every step leaves alone, and the types its proof needs.            *)
LEMMA Frame ==
  TypeOK /\ Positions /\ Next =>
    /\ UNCHANGED <<indexer, events, Last, ReadsRow, Versioned, NeverDeleted, FinalVersion>>
    /\ ControlOK /\ ControlOK' /\ StoresOK /\ StoresOK' /\ Ordered
    /\ Versions \subseteq Nat /\ UNCHANGED Versions
    /\ Last > 0 => /\ events[Last].version \in Nat \ {0}
                   /\ \A v \in Versions : v <= events[Last].version
<1> SUFFICES ASSUME TypeOK, Positions, Next
             PROVE  /\ UNCHANGED <<indexer, events, Last, ReadsRow, Versioned, NeverDeleted, FinalVersion>>
                    /\ ControlOK /\ ControlOK' /\ StoresOK /\ StoresOK' /\ Ordered
                    /\ Versions \subseteq Nat /\ UNCHANGED Versions
                    /\ Last > 0 => /\ events[Last].version \in Nat \ {0}
                                   /\ \A v \in Versions : v <= events[Last].version
  OBVIOUS
<1>1. UNCHANGED <<indexer, events>>
  BY Zenon DEF Next, Attempt, Begin, LoadRow, IndexDocument, IndexFails, ClassifyConflict,
    ReadVersionFails, Embed, Upsert, UpsertFails, DeleteDocument, DeletePoint, Retry,
    DeadLetter, Commit, Crash, Rebalance, Forget, Change, group, source
<1>2. UNCHANGED <<Last, ReadsRow, Versioned, NeverDeleted, FinalVersion, Versions>>
  BY <1>1 DEF Last, ReadsRow, Versioned, NeverDeleted, FinalVersion, Versions
<1>3. ControlOK /\ ControlOK' /\ StoresOK /\ StoresOK' /\ Ordered
  BY TypePreserved, HistoryIsOrdered DEF TypeOK, ControlOK, StoresOK
<1>4. Versions \subseteq Nat
  BY <1>3 DEF Versions, Ordered
<1>5. ASSUME Last > 0 PROVE \A v \in Versions : v <= events[Last].version
  <2>1. Last \in 1 .. Last /\ events[Last].version \in Nat \ {0}
    BY <1>3, <1>5 DEF Ordered
  <2>2. ASSUME NEW i \in 1 .. Last PROVE events[i].version <= events[Last].version
    <3>1. CASE i = Last
      BY <2>1, <3>1
    <3>2. CASE i < Last
      BY <1>3, <2>1, <3>2 DEF Ordered
    <3> QED
      BY <1>3, <3>1, <3>2 DEF Ordered
  <2> QED
    BY <2>1, <2>2 DEF Versions
<1>6. Last > 0 => events[Last].version \in Nat \ {0}
  BY <1>3 DEF Ordered
<1> QED
  BY <1>1, <1>2, <1>3, <1>4, <1>5, <1>6

(* Only a document written makes OpenSearch remember another version.      *)
LEMMA RemembersPreserved == TypeOK /\ Positions /\ Remembers /\ Next => Remembers'
<1> SUFFICES ASSUME TypeOK, Positions, Remembers, Next PROVE Remembers'
  OBVIOUS
<1>a. UNCHANGED <<indexer, events, Last, Versioned>>
  BY Frame
<1>b. ASSUME UNCHANGED remembered \/ remembered' = 0 PROVE Remembers'
  BY <1>a, <1>b DEF Remembers
<1>c. ASSUME NEW c \in Consumers, pc[c] = "keyword", WriteDocument(Version(c)) PROVE Remembers'
  <2>1. At(c) \in 1 .. Last /\ Version(c) = events[At(c)].version /\ events[At(c)].op = "upsert"
    BY <1>c, VersionInHistory DEF Applies, Writing, Positions, Placed
  <2> QED
    BY <1>a, <1>c, <2>1 DEF WriteDocument, Remembers, Versioned
<1>1. ASSUME NEW c \in Consumers, Begin(c) PROVE Remembers'
  BY <1>b, <1>1 DEF Begin, stores, RemoveDocument
<1>2. ASSUME NEW c \in Consumers, LoadRow(c) PROVE Remembers'
  BY <1>b, <1>2 DEF LoadRow, stores, RemoveDocument
<1>3. ASSUME NEW c \in Consumers, IndexDocument(c) PROVE Remembers'
  BY <1>b, <1>c, <1>3 DEF IndexDocument
<1>4. ASSUME NEW c \in Consumers, IndexFails(c) PROVE Remembers'
  BY <1>b, <1>c, <1>4 DEF IndexFails
<1>5. ASSUME NEW c \in Consumers, ClassifyConflict(c) PROVE Remembers'
  BY <1>b, <1>5 DEF ClassifyConflict, stores, RemoveDocument
<1>6. ASSUME NEW c \in Consumers, ReadVersionFails(c) PROVE Remembers'
  BY <1>b, <1>6 DEF ReadVersionFails, stores, RemoveDocument
<1>7. ASSUME NEW c \in Consumers, Embed(c) PROVE Remembers'
  BY <1>b, <1>7 DEF Embed, stores, RemoveDocument
<1>8. ASSUME NEW c \in Consumers, Upsert(c) PROVE Remembers'
  BY <1>b, <1>8 DEF Upsert, stores, RemoveDocument
<1>9. ASSUME NEW c \in Consumers, UpsertFails(c) PROVE Remembers'
  BY <1>b, <1>9 DEF UpsertFails, stores, RemoveDocument
<1>10. ASSUME NEW c \in Consumers, DeleteDocument(c) PROVE Remembers'
  BY <1>b, <1>10 DEF DeleteDocument, stores, RemoveDocument
<1>11. ASSUME NEW c \in Consumers, DeletePoint(c) PROVE Remembers'
  BY <1>b, <1>11 DEF DeletePoint, stores, RemoveDocument
<1>12. ASSUME NEW c \in Consumers, Retry(c) PROVE Remembers'
  BY <1>b, <1>12 DEF Retry, stores, RemoveDocument
<1>13. ASSUME NEW c \in Consumers, DeadLetter(c) PROVE Remembers'
  BY <1>b, <1>13 DEF DeadLetter, stores, RemoveDocument
<1>14. ASSUME NEW c \in Consumers, Commit(c) PROVE Remembers'
  BY <1>b, <1>14 DEF Commit, stores, RemoveDocument
<1>15. ASSUME NEW c \in Consumers, Crash(c) PROVE Remembers'
  BY <1>b, <1>15 DEF Crash, stores, RemoveDocument
<1>16. ASSUME NEW c \in Consumers, Rebalance(c) PROVE Remembers'
  BY <1>b, <1>16 DEF Rebalance, stores, RemoveDocument
<1>17. CASE Forget
  BY <1>b, <1>17 DEF Forget, stores, RemoveDocument
<1>18. CASE Change
  BY <1>b, <1>18 DEF Change, stores, RemoveDocument
<1> QED
  BY <1>1, <1>2, <1>3, <1>4, <1>5, <1>6, <1>7, <1>8, <1>9, <1>10, <1>11, <1>12, <1>13, <1>14, <1>15, <1>16, <1>17, <1>18 DEF Next, Attempt

(* Alone with the row, it is the owner that works on it.                   *)
LEMMA OwnerWorks ==
  ASSUME TypeOK, Alone, ~shared, NEW c \in Consumers, Attempt(c)
  PROVE  c = owner
<1>1. c # owner => pc[c] = "idle" /\ next[c] > held[c]
  BY DEF Alone
<1>2. next[c] \in Nat /\ held[c] \in Nat
  BY HistoryIsOrdered DEF TypeOK, Ordered
<1>3. c # owner => ~Begin(c)
  BY <1>1, <1>2 DEF Begin
<1> QED
  BY <1>1, <1>3 DEF Attempt, LoadRow, IndexDocument, IndexFails, ClassifyConflict,
    ReadVersionFails, Embed, Upsert, UpsertFails, DeleteDocument, DeletePoint, Retry, DeadLetter

(* A rebalance either leaves nothing with the former owner or is recorded. *)
LEMMA AlonePreserved == TypeOK /\ Positions /\ Alone /\ Next => Alone'
<1> SUFFICES ASSUME TypeOK, Positions, Alone, Next, ~shared'
             PROVE  \A c \in Consumers \ {owner'} : pc'[c] = "idle" /\ next'[c] > held'[c]
  BY DEF Alone
<1> USE DEF Goto, Finish, stores, source, group
<1>a. ControlOK /\ Last \in Nat /\ shared \in BOOLEAN
  BY HistoryIsOrdered DEF TypeOK, ControlOK, Ordered
<1>b. ~shared
  BY Zenon, <1>a DEF Next, Attempt, Begin, LoadRow, IndexDocument, IndexFails, ClassifyConflict,
    ReadVersionFails, Embed, Upsert, UpsertFails, DeleteDocument, DeletePoint, Retry,
    DeadLetter, Commit, Crash, Rebalance, Forget, Change
<1>c. \A c \in Consumers \ {owner} : pc[c] = "idle" /\ next[c] > held[c]
  BY <1>b DEF Alone
<1>1. ASSUME NEW c \in Consumers, Attempt(c)
      PROVE  \A d \in Consumers \ {owner'} : pc'[d] = "idle" /\ next'[d] > held'[d]
  <2>1. c = owner
    BY <1>b, <1>1, OwnerWorks
  <2>2. UNCHANGED <<owner, held>> /\ \A d \in Consumers \ {c} : UNCHANGED <<pc[d], next[d]>>
    BY <1>1, <1>a DEF ControlOK, Attempt, Begin, LoadRow, IndexDocument, IndexFails,
      ClassifyConflict, ReadVersionFails, Embed, Upsert, UpsertFails, DeleteDocument, DeletePoint,
      Retry, DeadLetter
  <2> QED
    BY <1>c, <2>1, <2>2
<1>2. ASSUME NEW c \in Consumers, Commit(c) PROVE Alone'
  BY <1>c, <1>2 DEF Commit, Alone
<1>3. ASSUME NEW c \in Consumers, Crash(c) PROVE Alone'
  BY <1>a, <1>c, <1>3 DEF Crash, Alone, ControlOK
<1>4. ASSUME NEW c \in Consumers, Rebalance(c) PROVE Alone'
  <2>1. PICK last \in (IF pc[owner] = "idle" THEN next[owner] - 1 ELSE next[owner]) .. row :
          /\ held' = [held EXCEPT ![owner] = last, ![c] = 0]
          /\ shared' = (shared \/ last >= next[owner])
    BY <1>4 DEF Rebalance
  <2>a. ~(last >= next[owner])
    BY Zenon, <2>1
  <2>2. pc[owner] = "idle" /\ last < next[owner]
    BY <1>a, <2>1, <2>a DEF ControlOK
  <2>3. owner' = c /\ c # owner /\ next' = [next EXCEPT ![c] = committed] /\ UNCHANGED pc
    BY <1>4 DEF Rebalance
  <2> QED
    BY <1>a, <1>c, <2>1, <2>2, <2>3 DEF Alone, ControlOK
<1>5. CASE Forget \/ Change
  BY <1>c, <1>5 DEF Forget, Change, Alone
<1> QED
  BY <1>1, <1>2, <1>3, <1>4, <1>5 DEF Next, Alone

(* Nobody deletes a row that is never deleted; a document is written only  *)
(* over an older one, and what goes to Qdrant has been written before.     *)
LEMMA DocumentLeadsPreserved ==
  TypeOK /\ Positions /\ DocumentLeads /\ Next => DocumentLeads'
<1> SUFFICES ASSUME TypeOK, Positions, DocumentLeads, Next, Versioned', NeverDeleted'
             PROVE  document' = remembered' /\ point' <= document' /\ \A c \in Consumers : Leads(c)'
  BY DEF DocumentLeads
<1> USE DEF Goto, Finish, Fault, stores, source, group
<1>a. /\ UNCHANGED <<indexer, events, Last, ReadsRow>> /\ ControlOK /\ ControlOK'
      /\ Last \in Nat /\ Versions \subseteq Nat /\ UNCHANGED Versions
      /\ document \in Versions /\ document' \in Versions /\ document \in Nat /\ document' \in Nat
      /\ remembered \in Nat /\ point \in Nat
      /\ \A i \in 1 .. Last : events[i].op \in {"upsert", "delete", "textless"}
  BY Frame DEF Ordered, StoresOK
<1>b. Versioned /\ NeverDeleted /\ document = remembered /\ point <= document /\ \A c \in Consumers : Leads(c)
  BY Frame DEF DocumentLeads
<1>c. Last > 0 => /\ events[Last].version \in Nat \ {0}
                  /\ \A v \in Versions : v <= events[Last].version
  BY Frame
<1>d. ASSUME NEW c \in Consumers, Applies(c)
      PROVE  /\ At(c) \in 1 .. Last /\ next[c] \in 1 .. Last
             /\ Version(c) \in Nat \ {0} /\ next[c] <= At(c)
             /\ next[c] >= Last => At(c) = Last /\ Version(c) = events[Last].version
             /\ UNCHANGED <<next[c], loaded[c]>> => Version(c)' = Version(c)
  <2>1. At(c) \in 1 .. Last /\ Version(c) = events[At(c)].version /\ Version(c) \in Nat \ {0}
    BY <1>d, VersionInHistory
  <2>2. next[c] <= At(c) /\ next[c] \in 1 .. Last
    BY <1>a, <1>d, <2>1 DEF Positions, Placed, ControlOK
  <2>3. UNCHANGED <<next[c], loaded[c]>> => Version(c)' = Version(c)
    BY <1>a DEF Version, Applied
  <2> QED
    BY <1>a, <2>1, <2>2, <2>3
<1>e. ASSUME NEW c \in Consumers PROVE pc[c] \notin Deleting
  BY <1>b, <1>d, <1>e DEF Positions, Placed, Applies, NeverDeleted
<1>f. ASSUME NEW d \in Consumers, UNCHANGED <<pc[d], next[d], loaded[d]>>,
             document <= document', dead \subseteq dead'
      PROVE  Leads(d)'
  <2>1. pc[d] \in {"conflict", "embed", "vector"} => Version(d) \in Nat /\ Version(d)' = Version(d)
    BY <1>d, <1>f DEF Applies, Writing
  <2>2. pc'[d] \in {"conflict", "embed", "vector"} => Version(d)' <= document'
    BY <1>a, <1>b, <1>f, <2>1 DEF Leads
  <2>3. Last > 0 /\ document = events[Last].version => document' = events[Last].version
    BY <1>a, <1>c, <1>f
  <2> QED
    BY <1>a, <1>b, <1>f, <2>2, <2>3 DEF Leads
<1>1. ASSUME NEW c \in Consumers, Begin(c) PROVE document' = remembered' /\ point' <= document' /\ \A d \in Consumers : Leads(d)'
  <2>1. document' = remembered' /\ point' <= document' /\ document <= document'
    BY <1>a, <1>b, <1>1 DEF Begin
  <2>2. Leads(c)'
    <3>1. pc'[c] \in {"conflict", "embed", "vector"} => Version(c)' <= document'
      BY <1>a, <1>b, <1>d, <1>1, <2>1 DEF Begin, ControlOK, Applies, Writing, Leads, FirstStep, Positions, Placed
    <3>2. Last > 0 /\ next'[c] > Last /\ Last \notin dead' =>
            events[Last].op = "upsert" /\ document' = events[Last].version
      BY <1>a, <1>b, <1>c, <1>d, <1>1, <2>1 DEF Begin, ControlOK, Positions, Placed, Applies, Writing, Leads, Absent
    <3> QED
      BY <1>a, <3>1, <3>2 DEF Leads
  <2>3. ASSUME NEW d \in Consumers \ {c} PROVE Leads(d)'
    BY <1>a, <1>f, <1>1, <2>1, <2>3 DEF Begin, ControlOK
  <2> QED
    BY <2>1, <2>2, <2>3
<1>2. ASSUME NEW c \in Consumers, LoadRow(c) PROVE document' = remembered' /\ point' <= document' /\ \A d \in Consumers : Leads(d)'
  <2>1. document' = remembered' /\ point' <= document' /\ document <= document'
    BY <1>a, <1>b, <1>2 DEF LoadRow
  <2>2. Leads(c)'
    <3>1. pc'[c] \in {"conflict", "embed", "vector"} => Version(c)' <= document'
      BY <1>a, <1>b, <1>d, <1>2, <2>1 DEF LoadRow, ControlOK, Applies, Writing, Leads, FirstStep, Positions, Placed
    <3>2. Last > 0 /\ next'[c] > Last /\ Last \notin dead' =>
            events[Last].op = "upsert" /\ document' = events[Last].version
      BY <1>a, <1>b, <1>c, <1>d, <1>2, <2>1 DEF LoadRow, ControlOK, Positions, Placed, Applies, Writing, Leads, Absent
    <3> QED
      BY <1>a, <3>1, <3>2 DEF Leads
  <2>3. ASSUME NEW d \in Consumers \ {c} PROVE Leads(d)'
    BY <1>a, <1>f, <1>2, <2>1, <2>3 DEF LoadRow, ControlOK
  <2> QED
    BY <2>1, <2>2, <2>3
<1>3. ASSUME NEW c \in Consumers, IndexDocument(c) PROVE document' = remembered' /\ point' <= document' /\ \A d \in Consumers : Leads(d)'
  <2>1. document' = remembered' /\ point' <= document' /\ document <= document'
    BY <1>a, <1>b, <1>d, <1>3 DEF IndexDocument, Applies, Writing, WriteDocument, Accepted, Versioned
  <2>2. Leads(c)'
    <3>1. pc'[c] \in {"conflict", "embed", "vector"} => Version(c)' <= document'
      BY <1>a, <1>b, <1>d, <1>3, <2>1 DEF IndexDocument, ControlOK, Applies, Writing, Leads, FirstStep, WriteDocument, Accepted, Versioned
    <3>2. Last > 0 /\ next'[c] > Last /\ Last \notin dead' =>
            events[Last].op = "upsert" /\ document' = events[Last].version
      BY <1>a, <1>b, <1>c, <1>d, <1>3, <2>1 DEF IndexDocument, ControlOK, Positions, Placed, Applies, Writing, Leads, Absent
    <3> QED
      BY <1>a, <3>1, <3>2 DEF Leads
  <2>3. ASSUME NEW d \in Consumers \ {c} PROVE Leads(d)'
    BY <1>a, <1>f, <1>3, <2>1, <2>3 DEF IndexDocument, ControlOK
  <2> QED
    BY <2>1, <2>2, <2>3
<1>4. ASSUME NEW c \in Consumers, IndexFails(c) PROVE document' = remembered' /\ point' <= document' /\ \A d \in Consumers : Leads(d)'
  <2>1. document' = remembered' /\ point' <= document' /\ document <= document'
    BY <1>a, <1>b, <1>d, <1>4 DEF IndexFails, Applies, Writing, WriteDocument, Accepted, Versioned
  <2>2. Leads(c)'
    <3>1. pc'[c] \in {"conflict", "embed", "vector"} => Version(c)' <= document'
      BY <1>a, <1>b, <1>d, <1>4, <2>1 DEF IndexFails, ControlOK, Applies, Writing, Leads, FirstStep
    <3>2. Last > 0 /\ next'[c] > Last /\ Last \notin dead' =>
            events[Last].op = "upsert" /\ document' = events[Last].version
      BY <1>a, <1>b, <1>c, <1>d, <1>4, <2>1 DEF IndexFails, ControlOK, Positions, Placed, Applies, Writing, Leads, Absent
    <3> QED
      BY <1>a, <3>1, <3>2 DEF Leads
  <2>3. ASSUME NEW d \in Consumers \ {c} PROVE Leads(d)'
    BY <1>a, <1>f, <1>4, <2>1, <2>3 DEF IndexFails, ControlOK
  <2> QED
    BY <2>1, <2>2, <2>3
<1>5. ASSUME NEW c \in Consumers, ClassifyConflict(c) PROVE document' = remembered' /\ point' <= document' /\ \A d \in Consumers : Leads(d)'
  <2>1. document' = remembered' /\ point' <= document' /\ document <= document'
    BY <1>a, <1>b, <1>5 DEF ClassifyConflict
  <2>2. Leads(c)'
    <3>1. pc'[c] \in {"conflict", "embed", "vector"} => Version(c)' <= document'
      BY <1>a, <1>b, <1>d, <1>5, <2>1 DEF ClassifyConflict, ControlOK, Applies, Writing, Leads, FirstStep
    <3>2. Last > 0 /\ next'[c] > Last /\ Last \notin dead' =>
            events[Last].op = "upsert" /\ document' = events[Last].version
      BY <1>a, <1>b, <1>c, <1>d, <1>5, <2>1 DEF ClassifyConflict, ControlOK, Positions, Placed, Applies, Writing, Leads, Absent
    <3> QED
      BY <1>a, <3>1, <3>2 DEF Leads
  <2>3. ASSUME NEW d \in Consumers \ {c} PROVE Leads(d)'
    BY <1>a, <1>f, <1>5, <2>1, <2>3 DEF ClassifyConflict, ControlOK
  <2> QED
    BY <2>1, <2>2, <2>3
<1>6. ASSUME NEW c \in Consumers, ReadVersionFails(c) PROVE document' = remembered' /\ point' <= document' /\ \A d \in Consumers : Leads(d)'
  <2>1. document' = remembered' /\ point' <= document' /\ document <= document'
    BY <1>a, <1>b, <1>6 DEF ReadVersionFails
  <2>2. Leads(c)'
    <3>1. pc'[c] \in {"conflict", "embed", "vector"} => Version(c)' <= document'
      BY <1>a, <1>b, <1>d, <1>6, <2>1 DEF ReadVersionFails, ControlOK, Applies, Writing, Leads, FirstStep
    <3>2. Last > 0 /\ next'[c] > Last /\ Last \notin dead' =>
            events[Last].op = "upsert" /\ document' = events[Last].version
      BY <1>a, <1>b, <1>c, <1>d, <1>6, <2>1 DEF ReadVersionFails, ControlOK, Positions, Placed, Applies, Writing, Leads, Absent
    <3> QED
      BY <1>a, <3>1, <3>2 DEF Leads
  <2>3. ASSUME NEW d \in Consumers \ {c} PROVE Leads(d)'
    BY <1>a, <1>f, <1>6, <2>1, <2>3 DEF ReadVersionFails, ControlOK
  <2> QED
    BY <2>1, <2>2, <2>3
<1>7. ASSUME NEW c \in Consumers, Embed(c) PROVE document' = remembered' /\ point' <= document' /\ \A d \in Consumers : Leads(d)'
  <2>1. document' = remembered' /\ point' <= document' /\ document <= document'
    BY <1>a, <1>b, <1>7 DEF Embed
  <2>2. Leads(c)'
    <3>1. pc'[c] \in {"conflict", "embed", "vector"} => Version(c)' <= document'
      BY <1>a, <1>b, <1>d, <1>7, <2>1 DEF Embed, ControlOK, Applies, Writing, Leads, FirstStep
    <3>2. Last > 0 /\ next'[c] > Last /\ Last \notin dead' =>
            events[Last].op = "upsert" /\ document' = events[Last].version
      BY <1>a, <1>b, <1>c, <1>d, <1>7, <2>1 DEF Embed, ControlOK, Positions, Placed, Applies, Writing, Leads, Absent
    <3> QED
      BY <1>a, <3>1, <3>2 DEF Leads
  <2>3. ASSUME NEW d \in Consumers \ {c} PROVE Leads(d)'
    BY <1>a, <1>f, <1>7, <2>1, <2>3 DEF Embed, ControlOK
  <2> QED
    BY <2>1, <2>2, <2>3
<1>8. ASSUME NEW c \in Consumers, Upsert(c) PROVE document' = remembered' /\ point' <= document' /\ \A d \in Consumers : Leads(d)'
  <2>1. document' = remembered' /\ point' <= document' /\ document <= document'
    BY <1>a, <1>b, <1>8 DEF Upsert, Leads
  <2>2. Leads(c)'
    <3>1. pc'[c] \in {"conflict", "embed", "vector"} => Version(c)' <= document'
      BY <1>a, <1>b, <1>d, <1>8, <2>1 DEF Upsert, ControlOK, Applies, Writing, Leads, FirstStep
    <3>2. Last > 0 /\ next'[c] > Last /\ Last \notin dead' =>
            events[Last].op = "upsert" /\ document' = events[Last].version
      <4>1. Applies(c) /\ Version(c) <= document /\ next[c] \in Nat
        BY <1>a, <1>b, <1>8 DEF Upsert, Applies, Writing, Leads, ControlOK
      <4>2. events[At(c)].op = "upsert"
        BY <1>8 DEF Upsert, Positions, Placed, Writing
      <4>3. ASSUME Last > 0, next'[c] > Last
            PROVE  events[Last].op = "upsert" /\ document' = events[Last].version
        <5>1. next[c] >= Last
          BY <1>a, <1>8, <4>1, <4>3 DEF Upsert, ControlOK
        <5>2. At(c) = Last /\ Version(c) = events[Last].version
          BY <1>d, <4>1, <5>1
        <5>3. document <= events[Last].version /\ document' = document
          BY <1>a, <1>c, <1>8, <4>3 DEF Upsert
        <5> QED
          BY <1>a, <1>c, <4>1, <4>2, <4>3, <5>2, <5>3
      <4> QED
        BY <4>3
    <3> QED
      BY <1>a, <3>1, <3>2 DEF Leads
  <2>3. ASSUME NEW d \in Consumers \ {c} PROVE Leads(d)'
    BY <1>a, <1>f, <1>8, <2>1, <2>3 DEF Upsert, ControlOK
  <2> QED
    BY <2>1, <2>2, <2>3
<1>9. ASSUME NEW c \in Consumers, UpsertFails(c) PROVE document' = remembered' /\ point' <= document' /\ \A d \in Consumers : Leads(d)'
  <2>1. document' = remembered' /\ point' <= document' /\ document <= document'
    BY <1>a, <1>b, <1>9 DEF UpsertFails, Leads
  <2>2. Leads(c)'
    <3>1. pc'[c] \in {"conflict", "embed", "vector"} => Version(c)' <= document'
      BY <1>a, <1>b, <1>d, <1>9, <2>1 DEF UpsertFails, ControlOK, Applies, Writing, Leads, FirstStep
    <3>2. Last > 0 /\ next'[c] > Last /\ Last \notin dead' =>
            events[Last].op = "upsert" /\ document' = events[Last].version
      BY <1>a, <1>b, <1>c, <1>d, <1>9, <2>1 DEF UpsertFails, ControlOK, Positions, Placed, Applies, Writing, Leads, Absent
    <3> QED
      BY <1>a, <3>1, <3>2 DEF Leads
  <2>3. ASSUME NEW d \in Consumers \ {c} PROVE Leads(d)'
    BY <1>a, <1>f, <1>9, <2>1, <2>3 DEF UpsertFails, ControlOK
  <2> QED
    BY <2>1, <2>2, <2>3
<1>10. ASSUME NEW c \in Consumers, DeleteDocument(c) PROVE document' = remembered' /\ point' <= document' /\ \A d \in Consumers : Leads(d)'
  BY <1>e, <1>10 DEF DeleteDocument, Deleting
<1>11. ASSUME NEW c \in Consumers, DeletePoint(c) PROVE document' = remembered' /\ point' <= document' /\ \A d \in Consumers : Leads(d)'
  BY <1>e, <1>11 DEF DeletePoint, Deleting
<1>12. ASSUME NEW c \in Consumers, Retry(c) PROVE document' = remembered' /\ point' <= document' /\ \A d \in Consumers : Leads(d)'
  <2>1. document' = remembered' /\ point' <= document' /\ document <= document'
    BY <1>a, <1>b, <1>12 DEF Retry
  <2>2. Leads(c)'
    <3>1. pc'[c] \in {"conflict", "embed", "vector"} => Version(c)' <= document'
      BY <1>a, <1>b, <1>d, <1>12, <2>1 DEF Retry, ControlOK, Applies, Writing, Leads, FirstStep
    <3>2. Last > 0 /\ next'[c] > Last /\ Last \notin dead' =>
            events[Last].op = "upsert" /\ document' = events[Last].version
      BY <1>a, <1>b, <1>c, <1>d, <1>12, <2>1 DEF Retry, ControlOK, Positions, Placed, Applies, Writing, Leads, Absent
    <3> QED
      BY <1>a, <3>1, <3>2 DEF Leads
  <2>3. ASSUME NEW d \in Consumers \ {c} PROVE Leads(d)'
    BY <1>a, <1>f, <1>12, <2>1, <2>3 DEF Retry, ControlOK
  <2> QED
    BY <2>1, <2>2, <2>3
<1>13. ASSUME NEW c \in Consumers, DeadLetter(c) PROVE document' = remembered' /\ point' <= document' /\ \A d \in Consumers : Leads(d)'
  <2>1. document' = remembered' /\ point' <= document' /\ document <= document'
    BY <1>a, <1>b, <1>13 DEF DeadLetter
  <2>2. Leads(c)'
    <3>1. pc'[c] \in {"conflict", "embed", "vector"} => Version(c)' <= document'
      BY <1>a, <1>b, <1>d, <1>13, <2>1 DEF DeadLetter, ControlOK, Applies, Writing, Leads, FirstStep
    <3>2. Last > 0 /\ next'[c] > Last /\ Last \notin dead' =>
            events[Last].op = "upsert" /\ document' = events[Last].version
      BY <1>a, <1>b, <1>c, <1>d, <1>13, <2>1 DEF DeadLetter, ControlOK, Positions, Placed, Applies, Writing, Leads, Absent
    <3> QED
      BY <1>a, <3>1, <3>2 DEF Leads
  <2>3. ASSUME NEW d \in Consumers \ {c} PROVE Leads(d)'
    BY <1>a, <1>f, <1>13, <2>1, <2>3 DEF DeadLetter, ControlOK
  <2> QED
    BY <2>1, <2>2, <2>3
<1>14. ASSUME NEW c \in Consumers, Commit(c) PROVE document' = remembered' /\ point' <= document' /\ \A d \in Consumers : Leads(d)'
  BY <1>a, <1>b, <1>f, <1>14 DEF Commit
<1>15. ASSUME NEW c \in Consumers, Crash(c) PROVE document' = remembered' /\ point' <= document' /\ \A d \in Consumers : Leads(d)'
  <2>1. document' = remembered' /\ point' <= document' /\ document <= document'
    BY <1>a, <1>b, <1>15 DEF Crash
  <2>2. Leads(c)'
    <3>1. pc'[c] \in {"conflict", "embed", "vector"} => Version(c)' <= document'
      BY <1>a, <1>b, <1>d, <1>15, <2>1 DEF Crash, ControlOK, Applies, Writing, Leads, FirstStep
    <3>2. Last > 0 /\ next'[c] > Last /\ Last \notin dead' =>
            events[Last].op = "upsert" /\ document' = events[Last].version
      BY <1>a, <1>b, <1>c, <1>d, <1>15, <2>1 DEF Crash, ControlOK, Positions, Placed, Applies, Writing, Leads, Absent
    <3> QED
      BY <1>a, <3>1, <3>2 DEF Leads
  <2>3. ASSUME NEW d \in Consumers \ {c} PROVE Leads(d)'
    BY <1>a, <1>f, <1>15, <2>1, <2>3 DEF Crash, ControlOK
  <2> QED
    BY <2>1, <2>2, <2>3
<1>16. ASSUME NEW c \in Consumers, Rebalance(c) PROVE document' = remembered' /\ point' <= document' /\ \A d \in Consumers : Leads(d)'
  <2>1. document' = remembered' /\ point' <= document' /\ document <= document'
    BY <1>a, <1>b, <1>16 DEF Rebalance
  <2>2. Leads(c)'
    <3>1. pc'[c] \in {"conflict", "embed", "vector"} => Version(c)' <= document'
      BY <1>a, <1>b, <1>d, <1>16, <2>1 DEF Rebalance, ControlOK, Applies, Writing, Leads, FirstStep
    <3>2. Last > 0 /\ next'[c] > Last /\ Last \notin dead' =>
            events[Last].op = "upsert" /\ document' = events[Last].version
      BY <1>a, <1>b, <1>c, <1>d, <1>16, <2>1 DEF Rebalance, ControlOK, Positions, Placed, Applies, Writing, Leads, Absent
    <3> QED
      BY <1>a, <3>1, <3>2 DEF Leads
  <2>3. ASSUME NEW d \in Consumers \ {c} PROVE Leads(d)'
    BY <1>a, <1>f, <1>16, <2>1, <2>3 DEF Rebalance, ControlOK
  <2> QED
    BY <2>1, <2>2, <2>3
<1>17. CASE Forget
  BY <1>b, <1>17 DEF Forget, Absent
<1>18. CASE Change
  BY <1>a, <1>b, <1>f, <1>18 DEF Change
<1> QED
  BY <1>1, <1>2, <1>3, <1>4, <1>5, <1>6, <1>7, <1>8, <1>9, <1>10, <1>11, <1>12, <1>13, <1>14, <1>15, <1>16, <1>17, <1>18 DEF Next, Attempt

(* A stored version bounds what the owner writes next, until it is         *)
(* forgotten or cannot be read.                                            *)
LEMMA BoundsPreserved ==
  TypeOK /\ Positions /\ Alone /\ RememberedBounds /\ Next => RememberedBounds'
<1> SUFFICES ASSUME TypeOK, Positions, Alone, RememberedBounds, Next,
                    Versioned', ~shared', ~blind'
             PROVE  point' <= remembered' /\ \A c \in Consumers : Bounded(c)'
  BY DEF RememberedBounds
<1> USE DEF Goto, Finish, Fault, stores, source, group
<1>b. ~shared
  <2>1. shared \in BOOLEAN
    BY DEF TypeOK
  <2> QED
    BY Zenon, <2>1 DEF Next, Attempt, Begin, LoadRow, IndexDocument, IndexFails, ClassifyConflict,
      ReadVersionFails, Embed, Upsert, UpsertFails, DeleteDocument, DeletePoint, Retry,
      DeadLetter, Commit, Crash, Rebalance, Forget, Change
<1>c. ASSUME NEW c \in Consumers, Attempt(c) PROVE c = owner /\ UNCHANGED owner
  BY <1>b, <1>c, OwnerWorks DEF Attempt, Begin, LoadRow, IndexDocument, IndexFails, ClassifyConflict,
    ReadVersionFails, Embed, Upsert, UpsertFails, DeleteDocument, DeletePoint, Retry, DeadLetter
<1>d. ~blind
  <2>1. blind \in BOOLEAN
    BY DEF TypeOK
  <2> QED
    BY Zenon, <2>1 DEF Next, Attempt, Begin, LoadRow, IndexDocument, IndexFails, ClassifyConflict,
      ReadVersionFails, Embed, Upsert, UpsertFails, DeleteDocument, DeletePoint, Retry,
      DeadLetter, Commit, Crash, Rebalance, Forget, Change
<1>e. /\ UNCHANGED <<indexer, events, Last, ReadsRow>> /\ ControlOK /\ Versioned /\ StoresOK
      /\ document \in Nat /\ remembered \in Nat /\ point \in Nat /\ owner \in Consumers /\ Last \in Nat
      /\ \A i \in 1 .. Last : events[i].op \in {"upsert", "delete", "textless"}
  BY Frame DEF StoresOK, ControlOK, Ordered
<1>f. point <= remembered /\ \A c \in Consumers : Bounded(c)
  <2>1. Versioned
    BY <1>e
  <2> QED
    BY Zenon, <1>b, <1>d, <2>1 DEF RememberedBounds
<1>g. ASSUME NEW c \in Consumers
      PROVE  /\ Applies(c) => Version(c) \in Nat \ {0}
             /\ UNCHANGED <<next[c], loaded[c]>> => Version(c)' = Version(c)
  BY <1>e, VersionInHistory DEF Version, Applied
<1>h. \A d \in Consumers \ {owner} : pc[d] = "idle"
  BY <1>b DEF Alone
<1>i. ASSUME NEW d \in Consumers, pc'[d] = "idle" \/ UNCHANGED <<pc[d], next[d], loaded[d], remembered>>
      PROVE  Bounded(d)'
  BY <1>f, <1>g, <1>i DEF Bounded
<1>1. ASSUME NEW c \in Consumers, Begin(c)
      PROVE  point' <= remembered' /\ \A d \in Consumers : Bounded(d)'
  <2>1. c = owner
    BY <1>c, <1>1 DEF Attempt
  <2>2. point' <= remembered'
    BY <1>e, <1>f, <1>g, <1>1 DEF Begin, Applies, Writing, Positions, Placed, FirstStep
  <2>3. Bounded(c)'
    BY <1>d, <1>e, <1>f, <1>g, <1>1 DEF Begin, ControlOK, Applies, Writing, Deleting, Bounded, Positions, Placed, FirstStep
  <2>4. ASSUME NEW d \in Consumers \ {c} PROVE Bounded(d)'
    BY <1>e, <1>h, <1>i, <1>1, <2>1, <2>4 DEF Begin, ControlOK
  <2> QED
    BY <2>2, <2>3, <2>4
<1>2. ASSUME NEW c \in Consumers, LoadRow(c)
      PROVE  point' <= remembered' /\ \A d \in Consumers : Bounded(d)'
  <2>1. c = owner
    BY <1>c, <1>2 DEF Attempt
  <2>2. point' <= remembered'
    BY <1>e, <1>f, <1>g, <1>2 DEF LoadRow, Applies, Writing, Positions, Placed, FirstStep
  <2>3. Bounded(c)'
    BY <1>d, <1>e, <1>f, <1>g, <1>2 DEF LoadRow, ControlOK, Applies, Writing, Deleting, Bounded, Positions, Placed, FirstStep
  <2>4. ASSUME NEW d \in Consumers \ {c} PROVE Bounded(d)'
    BY <1>e, <1>h, <1>i, <1>2, <2>1, <2>4 DEF LoadRow, ControlOK
  <2> QED
    BY <2>2, <2>3, <2>4
<1>3. ASSUME NEW c \in Consumers, IndexDocument(c)
      PROVE  point' <= remembered' /\ \A d \in Consumers : Bounded(d)'
  <2>1. c = owner
    BY <1>c, <1>3 DEF Attempt
  <2>2. point' <= remembered'
    BY <1>e, <1>f, <1>g, <1>3 DEF IndexDocument, Applies, Writing, WriteDocument, Accepted, Versioned, StoresOK, Bounded
  <2>3. Bounded(c)'
    BY <1>d, <1>e, <1>f, <1>g, <1>3 DEF IndexDocument, ControlOK, Applies, Writing, Deleting, Bounded, WriteDocument, Accepted, Versioned, StoresOK
  <2>4. ASSUME NEW d \in Consumers \ {c} PROVE Bounded(d)'
    BY <1>e, <1>h, <1>i, <1>3, <2>1, <2>4 DEF IndexDocument, ControlOK
  <2> QED
    BY <2>2, <2>3, <2>4
<1>4. ASSUME NEW c \in Consumers, IndexFails(c)
      PROVE  point' <= remembered' /\ \A d \in Consumers : Bounded(d)'
  <2>1. c = owner
    BY <1>c, <1>4 DEF Attempt
  <2>2. point' <= remembered'
    BY <1>e, <1>f, <1>g, <1>4 DEF IndexFails, Applies, Writing, WriteDocument, Accepted, Versioned
  <2>3. Bounded(c)'
    BY <1>d, <1>e, <1>f, <1>g, <1>4 DEF IndexFails, ControlOK, Applies, Writing, Deleting, Bounded, WriteDocument, Accepted, Versioned
  <2>4. ASSUME NEW d \in Consumers \ {c} PROVE Bounded(d)'
    BY <1>e, <1>h, <1>i, <1>4, <2>1, <2>4 DEF IndexFails, ControlOK
  <2> QED
    BY <2>2, <2>3, <2>4
<1>5. ASSUME NEW c \in Consumers, ClassifyConflict(c)
      PROVE  point' <= remembered' /\ \A d \in Consumers : Bounded(d)'
  <2>1. c = owner
    BY <1>c, <1>5 DEF Attempt
  <2>2. point' <= remembered'
    BY <1>e, <1>f, <1>g, <1>5 DEF ClassifyConflict, Applies, Writing, StoresOK, Versioned, Bounded
  <2>3. Bounded(c)'
    BY <1>d, <1>e, <1>f, <1>g, <1>5 DEF ClassifyConflict, ControlOK, Applies, Writing, Deleting, Bounded, StoresOK, Versioned
  <2>4. ASSUME NEW d \in Consumers \ {c} PROVE Bounded(d)'
    BY <1>e, <1>h, <1>i, <1>5, <2>1, <2>4 DEF ClassifyConflict, ControlOK
  <2> QED
    BY <2>2, <2>3, <2>4
<1>6. ASSUME NEW c \in Consumers, ReadVersionFails(c)
      PROVE  point' <= remembered' /\ \A d \in Consumers : Bounded(d)'
  <2>1. c = owner
    BY <1>c, <1>6 DEF Attempt
  <2>2. point' <= remembered'
    BY <1>e, <1>f, <1>g, <1>6 DEF ReadVersionFails, Applies, Writing
  <2>3. Bounded(c)'
    BY <1>d, <1>e, <1>f, <1>g, <1>6 DEF ReadVersionFails, ControlOK, Applies, Writing, Deleting, Bounded
  <2>4. ASSUME NEW d \in Consumers \ {c} PROVE Bounded(d)'
    BY <1>e, <1>h, <1>i, <1>6, <2>1, <2>4 DEF ReadVersionFails, ControlOK
  <2> QED
    BY <2>2, <2>3, <2>4
<1>7. ASSUME NEW c \in Consumers, Embed(c)
      PROVE  point' <= remembered' /\ \A d \in Consumers : Bounded(d)'
  <2>1. c = owner
    BY <1>c, <1>7 DEF Attempt
  <2>2. point' <= remembered'
    BY <1>e, <1>f, <1>g, <1>7 DEF Embed, Applies, Writing, Bounded
  <2>3. Bounded(c)'
    BY <1>d, <1>e, <1>f, <1>g, <1>7 DEF Embed, ControlOK, Applies, Writing, Deleting, Bounded
  <2>4. ASSUME NEW d \in Consumers \ {c} PROVE Bounded(d)'
    BY <1>e, <1>h, <1>i, <1>7, <2>1, <2>4 DEF Embed, ControlOK
  <2> QED
    BY <2>2, <2>3, <2>4
<1>8. ASSUME NEW c \in Consumers, Upsert(c)
      PROVE  point' <= remembered' /\ \A d \in Consumers : Bounded(d)'
  <2>1. c = owner
    BY <1>c, <1>8 DEF Attempt
  <2>2. point' <= remembered'
    BY <1>e, <1>f, <1>g, <1>8 DEF Upsert, Applies, Writing, Bounded
  <2>3. Bounded(c)'
    BY <1>d, <1>e, <1>f, <1>g, <1>8 DEF Upsert, ControlOK, Applies, Writing, Deleting, Bounded
  <2>4. ASSUME NEW d \in Consumers \ {c} PROVE Bounded(d)'
    BY <1>e, <1>h, <1>i, <1>8, <2>1, <2>4 DEF Upsert, ControlOK
  <2> QED
    BY <2>2, <2>3, <2>4
<1>9. ASSUME NEW c \in Consumers, UpsertFails(c)
      PROVE  point' <= remembered' /\ \A d \in Consumers : Bounded(d)'
  <2>1. c = owner
    BY <1>c, <1>9 DEF Attempt
  <2>2. point' <= remembered'
    BY <1>e, <1>f, <1>g, <1>9 DEF UpsertFails, Applies, Writing, Bounded
  <2>3. Bounded(c)'
    BY <1>d, <1>e, <1>f, <1>g, <1>9 DEF UpsertFails, ControlOK, Applies, Writing, Deleting, Bounded
  <2>4. ASSUME NEW d \in Consumers \ {c} PROVE Bounded(d)'
    BY <1>e, <1>h, <1>i, <1>9, <2>1, <2>4 DEF UpsertFails, ControlOK
  <2> QED
    BY <2>2, <2>3, <2>4
<1>10. ASSUME NEW c \in Consumers, DeleteDocument(c)
      PROVE  point' <= remembered' /\ \A d \in Consumers : Bounded(d)'
  <2>1. c = owner
    BY <1>c, <1>10 DEF Attempt
  <2>2. point' <= remembered'
    BY <1>e, <1>f, <1>g, <1>10 DEF DeleteDocument, Applies, Writing, RemoveDocument
  <2>3. Bounded(c)'
    BY <1>d, <1>e, <1>f, <1>g, <1>10 DEF DeleteDocument, ControlOK, Applies, Writing, Deleting, Bounded, RemoveDocument
  <2>4. ASSUME NEW d \in Consumers \ {c} PROVE Bounded(d)'
    BY <1>e, <1>h, <1>i, <1>10, <2>1, <2>4 DEF DeleteDocument, ControlOK
  <2> QED
    BY <2>2, <2>3, <2>4
<1>11. ASSUME NEW c \in Consumers, DeletePoint(c)
      PROVE  point' <= remembered' /\ \A d \in Consumers : Bounded(d)'
  <2>1. c = owner
    BY <1>c, <1>11 DEF Attempt
  <2>2. point' <= remembered'
    BY <1>e, <1>f, <1>g, <1>11 DEF DeletePoint, Applies, Writing, Absent
  <2>3. Bounded(c)'
    BY <1>d, <1>e, <1>f, <1>g, <1>11 DEF DeletePoint, ControlOK, Applies, Writing, Deleting, Bounded, Absent
  <2>4. ASSUME NEW d \in Consumers \ {c} PROVE Bounded(d)'
    BY <1>e, <1>h, <1>i, <1>11, <2>1, <2>4 DEF DeletePoint, ControlOK
  <2> QED
    BY <2>2, <2>3, <2>4
<1>12. ASSUME NEW c \in Consumers, Retry(c)
      PROVE  point' <= remembered' /\ \A d \in Consumers : Bounded(d)'
  <2>1. c = owner
    BY <1>c, <1>12 DEF Attempt
  <2>2. point' <= remembered'
    BY <1>e, <1>f, <1>g, <1>12 DEF Retry, Applies, Writing
  <2>3. Bounded(c)'
    BY <1>d, <1>e, <1>f, <1>g, <1>12 DEF Retry, ControlOK, Applies, Writing, Deleting, Bounded
  <2>4. ASSUME NEW d \in Consumers \ {c} PROVE Bounded(d)'
    BY <1>e, <1>h, <1>i, <1>12, <2>1, <2>4 DEF Retry, ControlOK
  <2> QED
    BY <2>2, <2>3, <2>4
<1>13. ASSUME NEW c \in Consumers, DeadLetter(c)
      PROVE  point' <= remembered' /\ \A d \in Consumers : Bounded(d)'
  <2>1. c = owner
    BY <1>c, <1>13 DEF Attempt
  <2>2. point' <= remembered'
    BY <1>e, <1>f, <1>g, <1>13 DEF DeadLetter, Applies, Writing
  <2>3. Bounded(c)'
    BY <1>d, <1>e, <1>f, <1>g, <1>13 DEF DeadLetter, ControlOK, Applies, Writing, Deleting, Bounded
  <2>4. ASSUME NEW d \in Consumers \ {c} PROVE Bounded(d)'
    BY <1>e, <1>h, <1>i, <1>13, <2>1, <2>4 DEF DeadLetter, ControlOK
  <2> QED
    BY <2>2, <2>3, <2>4
<1>14. ASSUME NEW c \in Consumers, Commit(c)
      PROVE  point' <= remembered' /\ \A d \in Consumers : Bounded(d)'
  BY <1>e, <1>f, <1>i, <1>14 DEF Commit, ControlOK
<1>15. ASSUME NEW c \in Consumers, Crash(c)
      PROVE  point' <= remembered' /\ \A d \in Consumers : Bounded(d)'
  BY <1>e, <1>f, <1>i, <1>15 DEF Crash, ControlOK
<1>16. ASSUME NEW c \in Consumers, Rebalance(c)
      PROVE  point' <= remembered' /\ \A d \in Consumers : Bounded(d)'
  BY <1>e, <1>f, <1>i, <1>16 DEF Rebalance, ControlOK
<1>17. CASE Forget
  BY <1>d, <1>17 DEF Forget
<1>18. CASE Change
  BY <1>e, <1>f, <1>i, <1>18 DEF Change, ControlOK
<1> QED
  BY <1>1, <1>2, <1>3, <1>4, <1>5, <1>6, <1>7, <1>8, <1>9, <1>10, <1>11, <1>12, <1>13, <1>14, <1>15, <1>16, <1>17, <1>18 DEF Next, Attempt

(* The history of a row that cdc.Service may lose nothing of: it ends with *)
(* updates only if it has no delete.                                       *)
Ends == indexer = "cdc" /\ Last > 0 /\ events[Last].op = "upsert" => NeverDeleted

(* A history in which a deleted row stays deleted ends that way.           *)
LEMMA HistoriesEnd == (\A h \in Histories : StaysDeleted(h)) /\ TypeOK => Ends
<1> SUFFICES ASSUME \A h \in Histories : StaysDeleted(h), TypeOK, indexer = "cdc", Last > 0,
                    events[Last].op = "upsert", NEW i \in 1 .. Last, events[i].op = "delete"
             PROVE  FALSE
  BY DEF Ends, NeverDeleted
<1>1. PICK h \in Histories : indexer = h.indexer /\ events = h.changes
  BY DEF TypeOK
<1>2. Last \in Nat /\ Last = Len(h.changes)
  BY <1>1, HistoryIsOrdered DEF Ordered, Last
<1>3. i < Last
  BY <1>2
<1> QED
  BY <1>1, <1>2, <1>3 DEF StaysDeleted

(* Each step by which the last event is applied or finished.               *)
LEMMA LastAppliesPreserved ==
  TypeOK /\ Positions /\ Remembers /\ Alone /\ Ends /\ LastApplies /\ Next => LastApplies'
<1> SUFFICES ASSUME TypeOK, Positions, Remembers, Alone, Ends, LastApplies, Next,
                    Last' > 0, ~shared'
             PROVE  RemembersLast' /\ WritesLast' /\ FinishesLast'
  BY DEF LastApplies
<1> USE DEF Goto, Finish, Fault, stores, source, group
<1>b. ~shared
  <2>1. shared \in BOOLEAN
    BY DEF TypeOK
  <2> QED
    BY Zenon, <2>1 DEF Next, Attempt, Begin, LoadRow, IndexDocument, IndexFails, ClassifyConflict,
      ReadVersionFails, Embed, Upsert, UpsertFails, DeleteDocument, DeletePoint, Retry,
      DeadLetter, Commit, Crash, Rebalance, Forget, Change
<1>c. ASSUME NEW c \in Consumers, Attempt(c) PROVE c = owner /\ UNCHANGED owner
  BY <1>b, <1>c, OwnerWorks DEF Attempt, Begin, LoadRow, IndexDocument, IndexFails, ClassifyConflict,
    ReadVersionFails, Embed, Upsert, UpsertFails, DeleteDocument, DeletePoint, Retry, DeadLetter
<1>e. /\ UNCHANGED <<indexer, events, Last, ReadsRow, FinalVersion>> /\ ControlOK /\ ControlOK'
      /\ document \in Nat /\ remembered \in Nat /\ owner \in Consumers
      /\ Last \in Nat \ {0} /\ events[Last].version \in Nat \ {0}
      /\ remembered <= events[Last].version
      /\ \A i \in 1 .. Last : events[i].op \in {"upsert", "delete", "textless"}
  BY Frame DEF StoresOK, ControlOK, Ordered
<1>f. RemembersLast /\ WritesLast /\ FinishesLast
  BY <1>b, <1>e DEF LastApplies
<1>g. ASSUME NEW c \in Consumers, Applies(c)
      PROVE  /\ At(c) \in 1 .. row /\ At(c) \in 1 .. Last /\ next[c] \in 1 .. Last /\ next[c] <= At(c)
             /\ Version(c) = events[At(c)].version /\ Version(c) \in Nat \ {0}
             /\ (Version(c) = events[Last].version) <=> (At(c) = Last)
             /\ next[c] + 1 > Last => At(c) = Last
  <2>1. /\ At(c) \in 1 .. Last /\ Version(c) = events[At(c)].version
        /\ Version(c) \in Nat \ {0}
    BY <1>g, VersionInHistory
  <2>2. At(c) \in 1 .. row /\ next[c] <= At(c) /\ next[c] \in 1 .. Last
    BY <1>e, <1>g, <2>1 DEF Positions, Placed, ControlOK
  <2>3. (Version(c) = events[Last].version) => (At(c) = Last)
    <3>1. At(c) < Last => events[At(c)].version < events[Last].version
      BY <1>e, <2>1, HistoryIsOrdered DEF Ordered
    <3> QED
      BY <1>e, <2>1, <3>1
  <2> QED
    BY <1>e, <2>1, <2>2, <2>3
<1>h. ASSUME NEW c \in Consumers, UNCHANGED <<next[c], loaded[c]>>
      PROVE  At(c)' = At(c)
  BY <1>e, <1>h DEF At
<1>i. remembered = events[Last].version => Versioned /\ events[Last].op = "upsert"
  <2>1. ASSUME remembered = events[Last].version PROVE events[Last].op = "upsert"
    <3>1. PICK i \in 1 .. Last : events[i].op = "upsert" /\ remembered = events[i].version
      BY <1>e, <2>1 DEF Remembers
    <3>2. i < Last => events[i].version < events[Last].version
      BY <1>e, HistoryIsOrdered DEF Ordered
    <3> QED
      BY <1>e, <2>1, <3>1, <3>2
  <2> QED
    BY <1>e, <2>1 DEF Remembers
<1>1. ASSUME NEW c \in Consumers, Begin(c) PROVE RemembersLast' /\ WritesLast' /\ FinishesLast'
  <2>1. c = owner /\ owner' = owner
    BY <1>c, <1>1 DEF Attempt
  <2>2. RemembersLast'
    BY <1>e, <1>f, <1>g, <1>h, <1>1, <2>1 DEF Begin, RemembersLast, ControlOK, Applies, Writing, Deleting
  <2>3. WritesLast'
    BY <1>e, <1>f, <1>g, <1>h, <1>1, <2>1 DEF Begin, WritesLast, ControlOK, Applies, Writing, Deleting, FirstStep, Positions, Placed
  <2>4. FinishesLast'
    BY <1>e, <1>f, <1>g, <1>1, <2>1 DEF Begin, FinishesLast, ControlOK, Applies, Writing, Deleting
  <2> QED
    BY <2>2, <2>3, <2>4
<1>2. ASSUME NEW c \in Consumers, LoadRow(c) PROVE RemembersLast' /\ WritesLast' /\ FinishesLast'
  <2>1. c = owner /\ owner' = owner
    BY <1>c, <1>2 DEF Attempt
  <2>2. RemembersLast'
    BY <1>e, <1>f, <1>g, <1>h, <1>2, <2>1 DEF LoadRow, RemembersLast, ControlOK, Applies, Writing, Deleting, FirstStep, Placed, Positions, At
  <2>3. WritesLast'
    BY <1>e, <1>f, <1>g, <1>h, <1>2, <2>1 DEF LoadRow, WritesLast, ControlOK, Applies, Writing, Deleting, FirstStep, Positions, Placed
  <2>4. FinishesLast'
    BY <1>e, <1>f, <1>g, <1>2, <2>1 DEF LoadRow, FinishesLast, ControlOK, Applies, Writing, Deleting
  <2> QED
    BY <2>2, <2>3, <2>4
<1>3. ASSUME NEW c \in Consumers, IndexDocument(c) PROVE RemembersLast' /\ WritesLast' /\ FinishesLast'
  <2>1. c = owner /\ owner' = owner
    BY <1>c, <1>3 DEF Attempt
  <2>2. RemembersLast'
    <3>1. Applies(c) /\ Applies(c)'
      BY <1>e, <1>3 DEF IndexDocument, Applies, Writing, ControlOK
    <3>2. CASE Accepted(Version(c))
      <4>1. document' = Version(c) /\ (remembered' = Version(c) \/ remembered' = 0) /\ UNCHANGED <<row, loaded>>
        BY <1>3, <3>2 DEF IndexDocument, WriteDocument
      <4>2. ASSUME remembered' = events[Last].version PROVE document' = remembered' /\ At(c) = Last
        BY <1>e, <1>g, <3>1, <4>1, <4>2
      <4>3. At(c) = Last /\ ReadsRow => row = Last /\ loaded[c] = Last
        BY <1>e, <1>g, <3>1 DEF At, ControlOK
      <4> QED
        BY <1>e, <2>1, <4>1, <4>2, <4>3 DEF RemembersLast
    <3>3. CASE ~Accepted(Version(c))
      BY <1>e, <1>f, <1>3, <2>1, <3>1, <3>3 DEF IndexDocument, WriteDocument, RemembersLast
    <3> QED
      BY <3>2, <3>3
  <2>3. WritesLast'
    <3>1. Applies(c) /\ At(c)' = At(c) /\ pc'[c] \in {"embed", "conflict"}
      BY <1>e, <1>h, <1>3 DEF IndexDocument, Applies, Writing, ControlOK
    <3>2. ASSUME At(c) = Last PROVE document' = events[Last].version
      <4>1. Version(c) = events[Last].version
        BY <1>g, <3>1, <3>2
      <4>2. CASE Accepted(Version(c))
        BY <1>3, <4>1, <4>2 DEF IndexDocument, WriteDocument
      <4>3. CASE ~Accepted(Version(c))
        BY <1>e, <1>f, <1>3, <4>1, <4>3 DEF IndexDocument, WriteDocument, Accepted, RemembersLast
      <4> QED
        BY <4>2, <4>3
    <3> QED
      BY <1>e, <2>1, <3>1, <3>2 DEF WritesLast
  <2>4. FinishesLast'
    BY <1>e, <1>f, <1>g, <1>3, <2>1 DEF IndexDocument, FinishesLast, ControlOK, Applies, Writing, Deleting
  <2> QED
    BY <2>2, <2>3, <2>4
<1>4. ASSUME NEW c \in Consumers, IndexFails(c) PROVE RemembersLast' /\ WritesLast' /\ FinishesLast'
  <2>1. c = owner /\ owner' = owner
    BY <1>c, <1>4 DEF Attempt
  <2>2. RemembersLast'
    BY <1>e, <1>f, <1>g, <1>h, <1>4, <2>1 DEF IndexFails, RemembersLast, ControlOK, Applies, Writing, Deleting, WriteDocument, Accepted, At
  <2>3. WritesLast'
    BY <1>e, <1>f, <1>g, <1>h, <1>4, <2>1 DEF IndexFails, WritesLast, ControlOK, Applies, Writing, Deleting
  <2>4. FinishesLast'
    BY <1>e, <1>f, <1>g, <1>4, <2>1 DEF IndexFails, FinishesLast, ControlOK, Applies, Writing, Deleting
  <2> QED
    BY <2>2, <2>3, <2>4
<1>5. ASSUME NEW c \in Consumers, ClassifyConflict(c) PROVE RemembersLast' /\ WritesLast' /\ FinishesLast'
  <2>1. c = owner /\ owner' = owner
    BY <1>c, <1>5 DEF Attempt
  <2>2. RemembersLast'
    BY <1>e, <1>f, <1>g, <1>h, <1>5, <2>1 DEF ClassifyConflict, RemembersLast, ControlOK, Applies, Writing, Deleting
  <2>3. WritesLast'
    BY <1>e, <1>f, <1>g, <1>h, <1>5, <2>1 DEF ClassifyConflict, WritesLast, ControlOK, Applies, Writing, Deleting
  <2>4. FinishesLast'
    BY <1>e, <1>f, <1>g, <1>5, <2>1 DEF ClassifyConflict, FinishesLast, ControlOK, Applies, Writing, Deleting, WritesLast, Absent
  <2> QED
    BY <2>2, <2>3, <2>4
<1>6. ASSUME NEW c \in Consumers, ReadVersionFails(c) PROVE RemembersLast' /\ WritesLast' /\ FinishesLast'
  <2>1. c = owner /\ owner' = owner
    BY <1>c, <1>6 DEF Attempt
  <2>2. RemembersLast'
    BY <1>e, <1>f, <1>g, <1>h, <1>6, <2>1 DEF ReadVersionFails, RemembersLast, ControlOK, Applies, Writing, Deleting
  <2>3. WritesLast'
    BY <1>e, <1>f, <1>g, <1>h, <1>6, <2>1 DEF ReadVersionFails, WritesLast, ControlOK, Applies, Writing, Deleting
  <2>4. FinishesLast'
    BY <1>e, <1>f, <1>g, <1>6, <2>1 DEF ReadVersionFails, FinishesLast, ControlOK, Applies, Writing, Deleting
  <2> QED
    BY <2>2, <2>3, <2>4
<1>7. ASSUME NEW c \in Consumers, Embed(c) PROVE RemembersLast' /\ WritesLast' /\ FinishesLast'
  <2>1. c = owner /\ owner' = owner
    BY <1>c, <1>7 DEF Attempt
  <2>2. RemembersLast'
    BY <1>e, <1>f, <1>g, <1>h, <1>7, <2>1 DEF Embed, RemembersLast, ControlOK, Applies, Writing, Deleting
  <2>3. WritesLast'
    BY <1>e, <1>f, <1>g, <1>h, <1>7, <2>1 DEF Embed, WritesLast, ControlOK, Applies, Writing, Deleting
  <2>4. FinishesLast'
    BY <1>e, <1>f, <1>g, <1>7, <2>1 DEF Embed, FinishesLast, ControlOK, Applies, Writing, Deleting
  <2> QED
    BY <2>2, <2>3, <2>4
<1>8. ASSUME NEW c \in Consumers, Upsert(c) PROVE RemembersLast' /\ WritesLast' /\ FinishesLast'
  <2>1. c = owner /\ owner' = owner
    BY <1>c, <1>8 DEF Attempt
  <2>2. RemembersLast'
    BY <1>e, <1>f, <1>g, <1>h, <1>8, <2>1 DEF Upsert, RemembersLast, ControlOK, Applies, Writing, Deleting
  <2>3. WritesLast'
    BY <1>e, <1>f, <1>g, <1>h, <1>8, <2>1 DEF Upsert, WritesLast, ControlOK, Applies, Writing, Deleting
  <2>4. FinishesLast'
    BY <1>e, <1>f, <1>g, <1>8, <2>1 DEF Upsert, FinishesLast, ControlOK, Applies, Writing, Deleting, FinalVersion, WritesLast, Positions, Placed
  <2> QED
    BY <2>2, <2>3, <2>4
<1>9. ASSUME NEW c \in Consumers, UpsertFails(c) PROVE RemembersLast' /\ WritesLast' /\ FinishesLast'
  <2>1. c = owner /\ owner' = owner
    BY <1>c, <1>9 DEF Attempt
  <2>2. RemembersLast'
    BY <1>e, <1>f, <1>g, <1>h, <1>9, <2>1 DEF UpsertFails, RemembersLast, ControlOK, Applies, Writing, Deleting
  <2>3. WritesLast'
    BY <1>e, <1>f, <1>g, <1>h, <1>9, <2>1 DEF UpsertFails, WritesLast, ControlOK, Applies, Writing, Deleting
  <2>4. FinishesLast'
    BY <1>e, <1>f, <1>g, <1>9, <2>1 DEF UpsertFails, FinishesLast, ControlOK, Applies, Writing, Deleting
  <2> QED
    BY <2>2, <2>3, <2>4
<1>10. ASSUME NEW c \in Consumers, DeleteDocument(c) PROVE RemembersLast' /\ WritesLast' /\ FinishesLast'
  <2>1. c = owner /\ owner' = owner
    BY <1>c, <1>10 DEF Attempt
  <2>2. remembered # events[Last].version
    <3>1. Applies(c) /\ events[At(c)].op = "delete"
      BY <1>10 DEF DeleteDocument, Applies, Deleting, Positions, Placed
    <3>2. indexer # "cdc" \/ events[Last].op # "upsert"
      BY <1>e, <1>g, <3>1 DEF Ends, NeverDeleted
    <3> QED
      BY <1>e, <1>f, <1>i, <2>1, <3>1, <3>2, HistoryIsOrdered DEF RemembersLast, At, ReadsRow, Versioned, Ordered, Indexers
  <2>3. RemembersLast'
    BY <1>e, <1>10, <2>2 DEF DeleteDocument, RemembersLast, RemoveDocument
  <2>4. WritesLast'
    BY <1>e, <1>f, <1>g, <1>h, <1>10, <2>1 DEF DeleteDocument, WritesLast, ControlOK, Applies, Writing, Deleting, RemoveDocument
  <2>5. FinishesLast'
    BY <1>e, <1>f, <1>g, <1>10, <2>1 DEF DeleteDocument, FinishesLast, ControlOK, Applies, Writing, Deleting
  <2> QED
    BY <2>3, <2>4, <2>5
<1>11. ASSUME NEW c \in Consumers, DeletePoint(c) PROVE RemembersLast' /\ WritesLast' /\ FinishesLast'
  <2>1. c = owner /\ owner' = owner
    BY <1>c, <1>11 DEF Attempt
  <2>2. RemembersLast'
    BY <1>e, <1>f, <1>g, <1>h, <1>11, <2>1 DEF DeletePoint, RemembersLast, ControlOK, Applies, Writing, Deleting
  <2>3. WritesLast'
    BY <1>e, <1>f, <1>g, <1>h, <1>11, <2>1 DEF DeletePoint, WritesLast, ControlOK, Applies, Writing, Deleting
  <2>4. FinishesLast'
    BY <1>e, <1>f, <1>g, <1>11, <2>1 DEF DeletePoint, FinishesLast, ControlOK, Applies, Writing, Deleting, FinalVersion, WritesLast, Positions, Placed
  <2> QED
    BY <2>2, <2>3, <2>4
<1>12. ASSUME NEW c \in Consumers, Retry(c) PROVE RemembersLast' /\ WritesLast' /\ FinishesLast'
  <2>1. c = owner /\ owner' = owner
    BY <1>c, <1>12 DEF Attempt
  <2>2. RemembersLast'
    BY <1>e, <1>f, <1>g, <1>h, <1>12, <2>1 DEF Retry, RemembersLast, ControlOK, Applies, Writing, Deleting
  <2>3. WritesLast'
    BY <1>e, <1>f, <1>g, <1>h, <1>12, <2>1 DEF Retry, WritesLast, ControlOK, Applies, Writing, Deleting
  <2>4. FinishesLast'
    BY <1>e, <1>f, <1>g, <1>12, <2>1 DEF Retry, FinishesLast, ControlOK, Applies, Writing, Deleting
  <2> QED
    BY <2>2, <2>3, <2>4
<1>13. ASSUME NEW c \in Consumers, DeadLetter(c) PROVE RemembersLast' /\ WritesLast' /\ FinishesLast'
  <2>1. c = owner /\ owner' = owner
    BY <1>c, <1>13 DEF Attempt
  <2>2. RemembersLast'
    BY <1>e, <1>f, <1>g, <1>h, <1>13, <2>1 DEF DeadLetter, RemembersLast, ControlOK, Applies, Writing, Deleting
  <2>3. WritesLast'
    BY <1>e, <1>f, <1>g, <1>h, <1>13, <2>1 DEF DeadLetter, WritesLast, ControlOK, Applies, Writing, Deleting
  <2>4. FinishesLast'
    BY <1>e, <1>f, <1>g, <1>13, <2>1 DEF DeadLetter, FinishesLast, ControlOK, Applies, Writing, Deleting
  <2> QED
    BY <2>2, <2>3, <2>4
<1>14. ASSUME NEW c \in Consumers, Commit(c) PROVE RemembersLast' /\ WritesLast' /\ FinishesLast'
  <2>1. RemembersLast'
    BY <1>e, <1>f, <1>14 DEF Commit, ControlOK, Applies, Writing, Deleting, RemembersLast
  <2>2. WritesLast'
    BY <1>e, <1>f, <1>14 DEF Commit, ControlOK, Applies, Writing, Deleting, WritesLast, At
  <2>3. FinishesLast'
    BY <1>e, <1>f, <1>14 DEF Commit, ControlOK, Applies, Writing, Deleting, FinishesLast, Positions
  <2> QED
    BY <2>1, <2>2, <2>3
<1>15. ASSUME NEW c \in Consumers, Crash(c) PROVE RemembersLast' /\ WritesLast' /\ FinishesLast'
  <2>1. RemembersLast'
    BY <1>e, <1>f, <1>15 DEF Crash, ControlOK, Applies, Writing, Deleting, RemembersLast
  <2>2. WritesLast'
    BY <1>e, <1>f, <1>15 DEF Crash, ControlOK, Applies, Writing, Deleting, WritesLast, At
  <2>3. FinishesLast'
    BY <1>e, <1>f, <1>15 DEF Crash, ControlOK, Applies, Writing, Deleting, FinishesLast, Positions
  <2> QED
    BY <2>1, <2>2, <2>3
<1>16. ASSUME NEW c \in Consumers, Rebalance(c) PROVE RemembersLast' /\ WritesLast' /\ FinishesLast'
  <2>1. RemembersLast'
    BY <1>e, <1>f, <1>16 DEF Rebalance, ControlOK, Applies, Writing, Deleting, RemembersLast
  <2>2. WritesLast'
    BY <1>e, <1>f, <1>16 DEF Rebalance, ControlOK, Applies, Writing, Deleting, WritesLast, At
  <2>3. FinishesLast'
    BY <1>e, <1>f, <1>16 DEF Rebalance, ControlOK, Applies, Writing, Deleting, FinishesLast, Positions
  <2> QED
    BY <2>1, <2>2, <2>3
<1>17. CASE Forget
  <2>1. RemembersLast'
    BY <1>e, <1>f, <1>17 DEF Forget, ControlOK, Applies, Writing, Deleting, RemembersLast
  <2>2. WritesLast'
    BY <1>e, <1>f, <1>17 DEF Forget, ControlOK, Applies, Writing, Deleting, WritesLast, At
  <2>3. FinishesLast'
    BY <1>e, <1>f, <1>17 DEF Forget, ControlOK, Applies, Writing, Deleting, FinishesLast, Positions
  <2> QED
    BY <2>1, <2>2, <2>3
<1>18. CASE Change
  <2>1. RemembersLast'
    BY <1>e, <1>f, <1>18 DEF Change, ControlOK, Applies, Writing, Deleting, RemembersLast
  <2>2. WritesLast'
    BY <1>e, <1>f, <1>18 DEF Change, ControlOK, Applies, Writing, Deleting, WritesLast, At
  <2>3. FinishesLast'
    BY <1>e, <1>f, <1>18 DEF Change, ControlOK, Applies, Writing, Deleting, FinishesLast, Positions
  <2> QED
    BY <2>1, <2>2, <2>3
<1> QED
  BY <1>1, <1>2, <1>3, <1>4, <1>5, <1>6, <1>7, <1>8, <1>9, <1>10, <1>11, <1>12, <1>13, <1>14, <1>15, <1>16, <1>17, <1>18 DEF Next, Attempt

-----------------------------------------------------------------------------
(* The theorems.                                                           *)

Common == TypeOK /\ Positions /\ Remembers /\ Alone
IndInv == Common /\ DocumentLeads /\ RememberedBounds

(* Nothing has been consumed: the invariants hold of the empty stores.     *)
LEMMA InitEstablishes == Init => IndInv /\ (Ends => LastApplies)
<1> SUFFICES ASSUME Init PROVE IndInv /\ LastApplies
  OBVIOUS
<1>1. TypeOK /\ Positions /\ Ordered
  BY InitTyped, HistoryIsOrdered
<1>2. /\ document = 0 /\ remembered = 0 /\ point = 0 /\ owner = First /\ First \in Consumers
      /\ \A c \in Consumers : pc[c] = "idle" /\ next[c] = 1 /\ held[c] = 0
  BY SyncAssumption DEF Init, Absent
<1>3. Remembers /\ Alone
  BY <1>2 DEF Remembers, Alone
<1>4. ASSUME NEW c \in Consumers PROVE Leads(c) /\ Bounded(c)
  BY <1>1, <1>2 DEF Leads, Bounded, Ordered
<1>5. DocumentLeads /\ RememberedBounds
  BY <1>2, <1>4 DEF DocumentLeads, RememberedBounds
<1>6. LastApplies
  <2>1. ASSUME Last > 0 PROVE events[Last].version # 0 /\ ~(1 > Last)
    BY <1>1, <2>1 DEF Ordered
  <2>2. ~Applies(owner)
    BY <1>2 DEF Applies, Writing, Deleting
  <2> QED
    BY <1>2, <2>1, <2>2 DEF LastApplies, RemembersLast, WritesLast, FinishesLast
<1> QED
  BY <1>1, <1>3, <1>5, <1>6 DEF IndInv, Common

(* A step of another part of the system leaves every part of it alone.     *)
LEMMA Stutters ==
  UNCHANGED vars => /\ UNCHANGED <<IndInv, LastApplies, Ends>>
                    /\ UNCHANGED point
<1> SUFFICES ASSUME UNCHANGED vars
             PROVE  UNCHANGED <<IndInv, LastApplies, Ends>> /\ UNCHANGED point
  OBVIOUS
<1>1. UNCHANGED <<indexer, events, row, pc, next, loaded, held, failed, owner, committed,
                  document, remembered, point, dead, shared, blind, faults, rebalances>>
  BY DEF vars, group, source, stores
<1>2. UNCHANGED <<Last, Versions, ReadsRow, Versioned, NeverDeleted, FinalVersion, Ends>>
  BY <1>1 DEF Last, Versions, ReadsRow, Versioned, NeverDeleted, FinalVersion, Ends
<1>3. TypeOK' <=> TypeOK
  BY <1>1, <1>2 DEF TypeOK
<1>4. Positions' <=> Positions
  BY <1>1, <1>2 DEF Positions, Placed, Applies, At
<1>5. (Remembers' <=> Remembers) /\ (Alone' <=> Alone)
  BY <1>1, <1>2 DEF Remembers, Alone
<1>6. DocumentLeads' <=> DocumentLeads
  BY <1>1, <1>2 DEF DocumentLeads, Leads, Version, Applied
<1>7. RememberedBounds' <=> RememberedBounds
  BY <1>1, <1>2 DEF RememberedBounds, Bounded, Version, Applied
<1>8. LastApplies' <=> LastApplies
  BY <1>1, <1>2 DEF LastApplies, RemembersLast, WritesLast, FinishesLast, Applies, At
<1> QED
  BY <1>1, <1>2, <1>3, <1>4, <1>5, <1>6, <1>7, <1>8 DEF IndInv, Common

(* The inductive invariant, without a hypothesis on the history.           *)
LEMMA IndInvHolds == Spec => []IndInv
<1>1. IndInv /\ Next => IndInv'
  BY TypePreserved, PositionsPreserved, RemembersPreserved, AlonePreserved,
     DocumentLeadsPreserved, BoundsPreserved DEF IndInv, Common
<1>2. IndInv /\ UNCHANGED vars => IndInv'
  BY Stutters
<1> QED
  BY <1>1, <1>2, InitEstablishes, PTL DEF Spec

(* While a row is not deleted, no failure, retry, crash or second process  *)
(* ever leaves the vector index with a version the keyword index does not  *)
(* have (service.go:95-110).                                               *)
THEOREM VectorFollows == Spec => []VectorNeverAhead
<1>1. IndInv => VectorNeverAhead
  BY DEF IndInv, DocumentLeads, VectorNeverAhead
<1> QED
  BY <1>1, IndInvHolds, PTL

(* And the keyword index ends with its newest state, also when two         *)
(* processes applied it, unless its last event was dead-lettered.          *)
THEOREM KeywordConverges == Spec => []KeywordConverged
<1>1. IndInv => KeywordConverged
  <2> SUFFICES ASSUME IndInv, Versioned, NeverDeleted, Settled, Last \notin dead
               PROVE  document = FinalVersion
    BY DEF KeywordConverged
  <2>1. owner \in Consumers /\ Last \in Nat /\ next[owner] \in Nat /\ document \in Versions
    BY HistoryIsOrdered DEF IndInv, Common, TypeOK, Ordered
  <2>2. next[owner] > Last /\ Leads(owner)
    BY <2>1 DEF Settled, IndInv, DocumentLeads
  <2>3. CASE Last = 0
    BY <2>1, <2>3 DEF Versions, FinalVersion, Absent
  <2>4. CASE Last > 0
    BY <2>1, <2>2, <2>4 DEF Leads, FinalVersion
  <2> QED
    BY <2>1, <2>3, <2>4
<1> QED
  BY <1>1, IndInvHolds, PTL

(* A point is never replaced by an older version, whatever is delivered    *)
(* again: an event that was overtaken stops before the vector index, while *)
(* OpenSearch remembers and the row has one process at a time.             *)
THEOREM StaleStopsAtVectors == Spec => StaleNeverReachesVectors
<1>1. ASSUME IndInv, Next
      PROVE  point' = Absent \/ point' >= point \/ blind \/ shared \/ ~Versioned
  <2> SUFFICES ASSUME Versioned, ~blind, ~shared PROVE point' = Absent \/ point' >= point
    OBVIOUS
  <2>1. point \in Nat /\ remembered \in Nat /\ point <= remembered
    BY <1>1, Frame DEF IndInv, Common, RememberedBounds, StoresOK
  <2>2. ASSUME NEW c \in Consumers, pc[c] = "vector" PROVE Version(c) = remembered
    BY <1>1, <2>2 DEF IndInv, RememberedBounds, Bounded
  <2>3. ASSUME UNCHANGED point PROVE point' >= point
    BY <2>1, <2>3
  <2>4. ASSUME NEW c \in Consumers, Upsert(c) \/ UpsertFails(c) PROVE point' >= point
    BY <2>1, <2>2, <2>4 DEF Upsert, UpsertFails
  <2>5. ASSUME NEW c \in Consumers, DeletePoint(c) PROVE point' = Absent \/ UNCHANGED point
    BY <2>5 DEF DeletePoint
  <2>6. ASSUME NEW c \in Consumers, Attempt(c) PROVE point' = Absent \/ point' >= point
    BY <2>3, <2>4, <2>5, <2>6 DEF Attempt, Begin, LoadRow, IndexDocument, IndexFails,
      ClassifyConflict, ReadVersionFails, Embed, DeleteDocument, Retry, DeadLetter, stores
  <2> QED
    BY <1>1, <2>3, <2>6 DEF Next, Commit, Crash, Rebalance, Forget, Change, stores
<1>2. IndInv /\ [Next]_vars =>
        [point' = Absent \/ point' >= point \/ blind \/ shared \/ ~Versioned]_point
  BY <1>1, Stutters
<1> QED
  BY <1>2, IndInvHolds, PTL DEF Spec, StaleNeverReachesVectors

(* Both indexes hold the newest state of a row when nothing is left to     *)
(* process, for every service and history but the one case cdc.Service     *)
(* loses: a row inserted again after its delete (see StaysDeleted).        *)
THEOREM IndexesConverge ==
  ASSUME \A h \in Histories : StaysDeleted(h)
  PROVE  Spec => []Converged
<1>1. IndInv => Ends
  BY HistoriesEnd DEF IndInv, Common
<1>2. Init => LastApplies
  BY <1>1, InitEstablishes
<1>3. IndInv /\ LastApplies /\ [Next]_vars => LastApplies'
  BY <1>1, Stutters, LastAppliesPreserved DEF IndInv, Common
<1>4. IndInv /\ LastApplies => Converged
  <2> SUFFICES ASSUME IndInv, LastApplies, Settled, Last \notin dead, ~shared
               PROVE  document = FinalVersion /\ point = FinalVersion
    BY DEF Converged
  <2>1. owner \in Consumers /\ Last \in Nat /\ document \in Versions /\ point \in Versions
    BY HistoryIsOrdered DEF IndInv, Common, TypeOK, Ordered
  <2>2. next[owner] > Last
    BY <2>1 DEF Settled
  <2>3. CASE Last = 0
    BY <2>1, <2>3 DEF Versions, FinalVersion, Absent
  <2>4. CASE Last > 0
    BY <2>2, <2>4 DEF LastApplies, FinishesLast
  <2> QED
    BY <2>1, <2>3, <2>4
<1> QED
  BY <1>2, <1>3, <1>4, IndInvHolds, PTL DEF Spec
=============================================================================
