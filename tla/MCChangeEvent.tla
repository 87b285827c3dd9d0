--------------------------- MODULE MCChangeEvent ---------------------------
(* ChangeEvent for TLC: composite keys of two columns.                     *)
EXTENDS ChangeEvent

Text(s)   == [kind |-> "string", text |-> s]
Number(s) == [kind |-> "number", text |-> s]

\* Columns that only their separators, their space or their last digit tell apart.
Keys == {Text(<<>>), Text(<<"a">>), Text(<<" ", "a">>), Text(<<"a", "|">>),
         Text(<<"|", "a">>), Text(<<"a", "|", "a">>), Text(<<" ">>),
         Number(<<"9", "1">>), Number(<<"9", "2">>)}
BadKeys == {[kind |-> "other", text |-> <<>>], [kind |-> "null", text |-> <<>>]}

Row(k, c, v) == [key |-> k, columns |-> c, version |-> v]
Value(s, o, b, a) == [shape |-> s, op |-> o, before |-> b, after |-> a]

\* Every pair of keys, inserted and deleted.
Upserts(keys) == {Value("bare", "c", NoRow, Row(k, "text", 1)) : k \in keys}
Deletes(keys) == {Value("wrapped", "d", Row(k, "no text", 2), NoRow) : k \in keys}
Pairs == LET keys == Keys \X Keys
         IN Upserts(keys) \X (Upserts(keys) \cup Deletes(keys))

\* One readable key, and everything else that may be in a message.
Plain == <<Text(<<"a">>), Number(<<"9", "1">>)>>
Rows == {NoRow} \cup {Row(k, c, v) : k \in {Plain} \cup (BadKeys \X {Text(<<"a">>)}),
                      c \in {"text", "no text", "unreadable"}, v \in {0, 2}}
Others == UNION {Upserts({Plain}) \X {Value(s, o, b, a) : s \in Shapes, o \in Operations}
                   : b, a \in Rows}

MCMessages == Pairs \cup Others
=============================================================================
