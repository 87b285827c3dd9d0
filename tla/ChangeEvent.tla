---------------------------- MODULE ChangeEvent ----------------------------
(***************************************************************************)
(* From a Kafka message value to a change event: Parser.Parse              *)
(* (internal/indexing/cdc/parser.go), the tombstone rule of                *)
(* decodeChangeEvent (cdc_pipeline.go) and the field mapping of            *)
(* document.go, for two messages one after the other, so that what one row *)
(* becomes can be compared with what another does.                         *)
(*                                                                         *)
(* Covered: bare and wrapped envelopes, operations, the row an operation   *)
(* reads, composite keys character by character (their separator and their *)
(* trimming are what the properties are about), unreadable columns.        *)
(* Not covered: JSON syntax, timestamps and positions, which only label an *)
(* event, and the text that is embedded.                                   *)
(***************************************************************************)
EXTENDS Integers, Sequences, FiniteSetsExt, SequencesExt

CONSTANTS
  NumKeys,                  \* columns of the primary key: Parser.KeyFields
  Messages                  \* pairs of message values

\* A message value is null, not an envelope, an envelope, a wrapped one, or a
\* wrapper around null.
Shapes == {"null", "garbage", "bare", "wrapped", "wrapped null"}
Operations == {"c", "u", "r", "d", "t", "m", "", "other"}
NoRow == [key |-> <<>>, columns |-> "null", version |-> 0]

Separator == "|"
Space == " "

\* A row: its key values, character by character (JSON writes a number without
\* space), and whether its other columns can be read and hold text.
IsRow(r) == /\ r.columns \in {"text", "no text", "unreadable"}
            /\ r.version \in Nat
            /\ DOMAIN r.key = 1 .. NumKeys
            /\ \A i \in 1 .. NumKeys :
                 /\ r.key[i].kind \in {"string", "number", "other", "null"}
                 /\ r.key[i].text \in Seq(STRING)
                 /\ r.key[i].kind = "number" => Space \notin ToSet(r.key[i].text)

ASSUME MessagesAssumption ==
  /\ NumKeys \in Nat \ {0}
  /\ \A pair \in Messages : \A m \in {pair[1], pair[2]} :
       /\ m.shape \in Shapes /\ m.op \in Operations
       /\ m.before = NoRow \/ IsRow(m.before)
       /\ m.after = NoRow \/ IsRow(m.after)

VARIABLES
  messages,                 \* the two message values
  current,                  \* which of them is parsed
  step,                     \* "envelope", "row", "key", "columns", "done"
  row, id,                  \* what was read of it so far
  outcomes                  \* what the messages became: [kind, id, version]

vars == <<messages, current, step, row, id, outcomes>>

Init == /\ messages \in Messages
        /\ current = 1 /\ step = "envelope"
        /\ row = NoRow /\ id = <<>> /\ outcomes = <<>>

Message == messages[current]

-----------------------------------------------------------------------------
(* Keys.                                                                   *)

\* strings.TrimSpace.
Trimmed(s) == LET ink == {i \in DOMAIN s : s[i] # Space}
              IN IF ink = {} THEN <<>> ELSE SubSeq(s, Min(ink), Max(ink))

\* keyString: a number keeps the digits it was written with.
KeyString(v) == IF v.kind = "string" THEN Trimmed(v.text) ELSE v.text

\* Mutant of Usable: the separator is allowed.
UsableWithSeparator(v) == v.kind \in {"string", "number"} /\ KeyString(v) # <<>>

\* A value that may identify a row: a scalar, not empty, without the separator
\* when there is more than one.
Usable(v) == /\ v.kind \in {"string", "number"}
             /\ KeyString(v) # <<>>
             /\ NumKeys > 1 => \A i \in DOMAIN KeyString(v) : KeyString(v)[i] # Separator

\* documentID of usable key values: their strings, joined.
DocumentID(r) ==
  FlattenSeq([i \in 1 .. NumKeys |->
    (IF i = 1 THEN <<>> ELSE <<Separator>>) \o KeyString(r.key[i])])

-----------------------------------------------------------------------------
(* Parsing.                                                                *)

Outcome(kind, i, v) == [kind |-> kind, id |-> i, version |-> v]

\* The message has become something: the next one's turn.
Becomes(outcome) ==
  /\ outcomes' = Append(outcomes, outcome)
  /\ current' = current + 1
  /\ step' = IF current = 2 THEN "done" ELSE "envelope"
  /\ row' = NoRow /\ id' = <<>>
  /\ UNCHANGED messages

Goes(to) == step' = to /\ UNCHANGED <<messages, current, outcomes>>

\* A message the pipeline dead-letters, since it will not parse next time either.
DeadLetter(reason) == Becomes(Outcome(reason, <<>>, 0))

\* Mutant of IsNullValue: a wrapper around null is one too.
IsNullAnywhere(m) == m.shape \in {"null", "wrapped null"}
IsNullValue(m) == m.shape = "null"

(* A null value is a tombstone, which decodeChangeEvent skips.             *)
Tombstone ==
  /\ step = "envelope" /\ IsNullValue(Message)
  /\ Becomes(Outcome("skipped", <<>>, 0))

(* decodeEnvelope and parseOperation: garbage, a wrapper around nothing    *)
(* and an operation that is missing, unknown or not about a row.           *)
RejectEnvelope ==
  /\ step = "envelope" /\ ~IsNullValue(Message)
  /\ \/ Message.shape \in {"garbage", "wrapped null"}
     \/ Message.op \notin {"c", "u", "r", "d"}
  /\ DeadLetter("malformed")

\* Mutant of ReadEnvelope: the row is always the new one.
ReadEnvelopeAfter ==
  /\ step = "envelope" /\ Message.shape \in {"bare", "wrapped"}
  /\ Message.op \in {"c", "u", "r", "d"}
  /\ row' = Message.after
  /\ Goes("row") /\ UNCHANGED id

(* The row is the old one for a delete and the new one otherwise.          *)
ReadEnvelope ==
  /\ step = "envelope" /\ Message.shape \in {"bare", "wrapped"}
  /\ Message.op \in {"c", "u", "r", "d"}
  /\ row' = IF Message.op = "d" THEN Message.before ELSE Message.after
  /\ Goes("row") /\ UNCHANGED id

(* decodeRow and documentID: no row, or one that cannot be identified.     *)
RejectRow ==
  /\ step = "row"
  /\ \/ row = NoRow
     \/ row # NoRow /\ \E i \in 1 .. NumKeys : ~Usable(row.key[i])
  /\ DeadLetter("malformed")

ReadKey ==
  /\ step = "row" /\ row # NoRow /\ \A i \in 1 .. NumKeys : Usable(row.key[i])
  /\ id' = DocumentID(row)
  /\ Goes("columns") /\ UNCHANGED row

(* A delete needs nothing but the document ID.                             *)
ApplyDelete ==
  /\ step = "columns" /\ Message.op = "d"
  /\ Becomes(Outcome("delete", id, 0))

(* FieldMapping.Document and BuildEmbeddingText: a column of the wrong     *)
(* type, or neither title nor content.                                     *)
RejectColumns ==
  /\ step = "columns" /\ Message.op # "d" /\ row.columns # "text"
  /\ DeadLetter(IF row.columns = "unreadable" THEN "malformed" ELSE "no text")

ApplyUpsert ==
  /\ step = "columns" /\ Message.op # "d" /\ row.columns = "text"
  /\ Becomes(Outcome("upsert", id, row.version))

Next == \/ Tombstone \/ RejectEnvelope \/ ReadEnvelope
        \/ RejectRow \/ ReadKey
        \/ ApplyDelete \/ RejectColumns \/ ApplyUpsert

Spec == Init /\ [][Next]_vars

-----------------------------------------------------------------------------
Applied(i) == i \in DOMAIN outcomes /\ outcomes[i].kind \in {"upsert", "delete"}

\* The row a message is about, as a database would say.
Subject(m) == IF m.op = "d" THEN m.before ELSE m.after

\* Something can be made of the message: an operation on a row whose key has
\* ink in every column, and no separator where there are several, and which for
\* an upsert can be read and holds text.
Understandable(m) ==
  /\ m.shape \in {"bare", "wrapped"} /\ m.op \in {"c", "u", "r", "d"} /\ Subject(m) # NoRow
  /\ \A k \in 1 .. NumKeys : LET v == Subject(m).key[k] IN
       /\ v.kind \in {"string", "number"} /\ ToSet(v.text) \ {Space} # {}
       /\ NumKeys > 1 => Separator \notin ToSet(v.text)
  /\ m.op # "d" => Subject(m).columns = "text"

(* Every message is accounted for: a tombstone is skipped and nothing else *)
(* is; of what can be understood the row is upserted in its version, or    *)
(* deleted; and all the rest, wherever on the way it is found wanting,     *)
(* becomes a dead letter instead of being committed silently               *)
(* (decodeChangeEvent, and the comment on parseOperation).                 *)
MessagesAreAccountedFor ==
  \A i \in DOMAIN outcomes : LET m == messages[i] IN
    IF m.shape = "null" THEN outcomes[i].kind = "skipped"
    ELSE IF Understandable(m)
    THEN /\ outcomes[i].kind = IF m.op = "d" THEN "delete" ELSE "upsert"
         /\ outcomes[i].version = IF m.op = "d" THEN 0 ELSE Subject(m).version
    ELSE outcomes[i].kind \in {"malformed", "no text"}

(* One row, one document: every change of a row addresses the same ID, also*)
(* the delete that only has the old row, in either envelope, and two rows  *)
(* whose key values differ by more than surrounding space never share one, *)
(* however separators and digits are placed (documentID, parser.go:105-109 *)
(* and 129-134; keyString; a column holds values of one type).             *)
Strings(r) == [k \in 1 .. NumKeys |-> Trimmed(r.key[k].text)]
OneDocumentPerRow ==
  Applied(1) /\ Applied(2) =>
    (outcomes[1].id = outcomes[2].id
       <=> Strings(Subject(messages[1])) = Strings(Subject(messages[2])))

(* What was indexed can be removed: when an upsert of a row was accepted,  *)
(* a delete that carries the same key is accepted too, whatever its other  *)
(* columns hold by then (process and delete, service.go:223-236).          *)
DeletesFollowUpserts ==
  /\ Len(outcomes) = 2 /\ outcomes[1].kind = "upsert"
  /\ messages[2].shape \in {"bare", "wrapped"} /\ messages[2].op = "d"
  /\ messages[2].before # NoRow
  /\ messages[2].before.key = messages[1].after.key
  => outcomes[2] = Outcome("delete", outcomes[1].id, 0)
=============================================================================
