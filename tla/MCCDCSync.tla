------------------------------ MODULE MCCDCSync ------------------------------
(* CDCSync for TLC: short histories of one row.                            *)
EXTENDS CDCSync

CONSTANTS c1, c2

Step(o, v) == [op |-> o, version |-> v]

\* A row inserted, changed and deleted, with a change that has no text.
Deleted == <<Step("upsert", 1), Step("textless", 2), Step("upsert", 3), Step("delete", 4)>>
\* A row inserted and changed twice.
Updated == <<Step("upsert", 1), Step("upsert", 2), Step("upsert", 3)>>
\* A row inserted, deleted and inserted again.
Back == <<Step("upsert", 1), Step("delete", 2), Step("upsert", 3)>>
\* A row inserted and deleted.
Gone == <<Step("upsert", 1), Step("delete", 2)>>

Indexed(indexers, changes) == [indexer : indexers, changes : changes]

Ordinary == Indexed({"cdc"}, {Deleted, Updated}) \cup Indexed({"unversioned"}, {Gone, Updated})
              \cup Indexed({"document"}, {Back, SubSeq(Updated, 1, 2)})

\* Indexer finds its way through this one, cdc.Service does not.
Reinserted == Indexed({"cdc"}, {Back})
=============================================================================
