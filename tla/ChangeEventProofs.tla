------------------------- MODULE ChangeEventProofs -------------------------
(***************************************************************************)
(* Proofs about ChangeEvent, for every primary key and every pair of       *)
(* messages.                                                               *)
(*                                                                         *)
(* Parsing looks at nothing but the message: what a message becomes is a   *)
(* function of it, Verdict, whatever came before.  The state machine is    *)
(* shown to compute that function; the properties are facts about it.      *)
(* That no two rows share an ID rests on the joined key values being       *)
(* readable from their last separator, one column after the other.         *)
(***************************************************************************)
EXTENDS ChangeEvent, SequenceTheorems, WellFoundedInduction, TLAPS

(* What a message becomes, read off the message alone.                     *)
Readable(m) == m.shape \in {"bare", "wrapped"} /\ m.op \in {"c", "u", "r", "d"}
Identifiable(r) == r # NoRow /\ \A i \in 1 .. NumKeys : Usable(r.key[i])
Dead(reason) == Outcome(reason, <<>>, 0)
Verdict(m) ==
  CASE m.shape = "null"                                  -> Outcome("skipped", <<>>, 0)
    [] m.shape # "null" /\ ~Readable(m)                  -> Dead("malformed")
    [] Readable(m) /\ ~Identifiable(Subject(m))          -> Dead("malformed")
    [] Readable(m) /\ Identifiable(Subject(m)) /\ m.op = "d" ->
         Outcome("delete", DocumentID(Subject(m)), 0)
    [] Readable(m) /\ Identifiable(Subject(m)) /\ m.op # "d" /\ Subject(m).columns = "text" ->
         Outcome("upsert", DocumentID(Subject(m)), Subject(m).version)
    [] Readable(m) /\ Identifiable(Subject(m)) /\ m.op # "d" /\ Subject(m).columns # "text" ->
         Dead(IF Subject(m).columns = "unreadable" THEN "malformed" ELSE "no text")

(* How far the current message is.                                         *)
Verdicts == {Verdict(messages[i]) : i \in 1 .. 2}
Turn == /\ outcomes \in Seq(Verdicts)
        /\ current \in 1 .. 3 /\ Len(outcomes) = current - 1
        /\ step \in {"envelope", "row", "columns"} => current \in 1 .. 2
        /\ step \in {"envelope", "row", "columns", "done"}
Parsing ==
  /\ step \in {"row", "columns"} => Readable(Message) /\ row = Subject(Message)
  /\ step = "columns" => Identifiable(row) /\ id = DocumentID(row)

(* Every message so far became what its verdict says.                      *)
EachByItself == \A i \in DOMAIN outcomes : outcomes[i] = Verdict(messages[i])

IndInv == Turn /\ Parsing /\ EachByItself

-----------------------------------------------------------------------------
(* Before the first message there are no outcomes.                         *)
LEMMA InitEstablishes == Init => IndInv
<1> SUFFICES ASSUME Init PROVE IndInv
  OBVIOUS
<1>1. Turn
  BY EmptySeq DEF Init, Turn
<1>2. Parsing /\ EachByItself
  BY DEF Init, Parsing, EachByItself
<1> QED
  BY <1>1, <1>2 DEF IndInv

(* A message that becomes what its verdict says is followed by the next.   *)
LEMMA TurnPasses ==
  ASSUME IndInv, step # "done", Becomes(Verdict(Message))
  PROVE  IndInv'
<1>a. Turn /\ EachByItself
  BY DEF IndInv
<1>b. /\ outcomes' = Append(outcomes, Verdict(Message)) /\ current' = current + 1
      /\ step' = (IF current = 2 THEN "done" ELSE "envelope") /\ messages' = messages
  BY DEF Becomes
<1>c. current \in 1 .. 2 /\ Len(outcomes) = current - 1 /\ outcomes \in Seq(Verdicts)
  BY <1>a DEF Turn
<1>d. Verdict(Message) \in Verdicts
  BY <1>c DEF Verdicts, Message
<1>e. Verdicts' = Verdicts
  BY <1>b DEF Verdicts
<1>1. Turn'
  BY <1>b, <1>c, <1>d, <1>e, AppendProperties DEF Turn
<1>2. Parsing'
  BY <1>b DEF Parsing
<1>3. EachByItself'
  <2> SUFFICES ASSUME NEW i \in DOMAIN outcomes' PROVE outcomes'[i] = Verdict(messages'[i])
    BY DEF EachByItself
  <2>1. i \in 1 .. current
    BY <1>b, <1>c, <1>d, AppendProperties
  <2>2. CASE i = current
    BY <1>b, <1>c, <1>d, <2>2, AppendProperties DEF Message
  <2>3. CASE i # current
    <3>1. outcomes'[i] = outcomes[i] /\ i \in DOMAIN outcomes
      BY <1>b, <1>c, <1>d, <2>1, <2>3, AppendProperties
    <3> QED
      BY <1>a, <1>b, <3>1 DEF EachByItself
  <2> QED
    BY <2>2, <2>3
<1> QED
  BY <1>1, <1>2, <1>3 DEF IndInv

(* So does one that is not finished yet.                                   *)
LEMMA TurnStays ==
  ASSUME IndInv, NEW s \in {"row", "columns"}, Goes(s), step # "done",
         (Readable(Message) /\ row = Subject(Message))',
         s = "columns" => (Identifiable(row) /\ id = DocumentID(row))'
  PROVE  IndInv'
<1>1. UNCHANGED <<messages, current, outcomes>> /\ step' = s
  BY DEF Goes
<1>2. Turn'
  BY <1>1 DEF IndInv, Turn, Verdicts
<1>3. Parsing'
  BY <1>1 DEF Parsing
<1>4. EachByItself'
  BY <1>1 DEF IndInv, EachByItself
<1> QED
  BY <1>2, <1>3, <1>4 DEF IndInv

(* Each action does what the verdict on its message says.                  *)
LEMMA StepJudges == IndInv /\ [Next]_vars => IndInv'
<1> SUFFICES ASSUME IndInv, [Next]_vars PROVE IndInv'
  OBVIOUS
<1>a. Parsing
  BY DEF IndInv
<1>1. CASE Tombstone
  <2>1. Message.shape = "null" /\ step # "done"
    BY <1>1 DEF Tombstone, IsNullValue
  <2>2. Verdict(Message) = Outcome("skipped", <<>>, 0)
    BY <2>1 DEF Verdict, Readable
  <2> QED
    BY <1>1, <2>1, <2>2, TurnPasses DEF Tombstone
<1>2. CASE RejectEnvelope
  <2>1. Message.shape # "null" /\ ~Readable(Message) /\ step # "done"
    BY <1>2 DEF RejectEnvelope, IsNullValue, Readable
  <2>2. Verdict(Message) = Dead("malformed")
    BY <2>1 DEF Verdict
  <2> QED
    BY <1>2, <2>1, <2>2, TurnPasses DEF RejectEnvelope, DeadLetter, Dead
<1>3. CASE ReadEnvelope
  <2>1. Goes("row") /\ step # "done"
    BY <1>3 DEF ReadEnvelope
  <2>2. Readable(Message) /\ row' = Subject(Message)
    BY <1>3 DEF ReadEnvelope, Readable, Subject
  <2>3. UNCHANGED <<messages, current>>
    BY <2>1 DEF Goes
  <2>4. (Readable(Message) /\ row = Subject(Message))'
    BY <2>2, <2>3 DEF Message, Readable, Subject
  <2> QED
    BY <2>1, <2>4, TurnStays
<1>4. CASE RejectRow
  <2>1. Readable(Message) /\ row = Subject(Message) /\ step # "done"
    BY <1>a, <1>4 DEF RejectRow, Parsing
  <2>2. ~Identifiable(Subject(Message))
    BY <1>4, <2>1 DEF RejectRow, Identifiable
  <2>3. Message.shape # "null"
    BY <2>1 DEF Readable
  <2>4. Verdict(Message) = Dead("malformed")
    BY <2>1, <2>2, <2>3 DEF Verdict
  <2> QED
    BY <1>4, <2>1, <2>4, TurnPasses DEF RejectRow, DeadLetter, Dead
<1>5. CASE ReadKey
  <2>1. /\ Goes("columns") /\ step # "done" /\ UNCHANGED row
        /\ Identifiable(row) /\ id' = DocumentID(row)
    BY <1>5 DEF ReadKey, Identifiable
  <2>2. Readable(Message) /\ row = Subject(Message)
    BY <1>a, <1>5 DEF ReadKey, Parsing
  <2>3. UNCHANGED <<messages, current>>
    BY <2>1 DEF Goes
  <2>4. (Readable(Message) /\ row = Subject(Message))'
    BY <2>1, <2>2, <2>3 DEF Message, Readable, Subject
  <2>5. (Identifiable(row) /\ id = DocumentID(row))'
    BY <2>1
  <2> QED
    BY <2>1, <2>4, <2>5, TurnStays
<1>b. ASSUME step = "columns"
      PROVE  /\ Readable(Message) /\ row = Subject(Message) /\ Message.shape # "null"
             /\ Identifiable(Subject(Message)) /\ id = DocumentID(Subject(Message))
  BY <1>a, <1>b DEF Parsing, Readable
<1>6. CASE ApplyDelete
  <2>1. step = "columns" /\ Message.op = "d"
    BY <1>6 DEF ApplyDelete
  <2>2. Verdict(Message) = Outcome("delete", id, 0)
    BY <1>b, <2>1 DEF Verdict
  <2> QED
    BY <1>6, <2>1, <2>2, TurnPasses DEF ApplyDelete
<1>7. CASE RejectColumns
  <2>1. step = "columns" /\ Message.op # "d" /\ row.columns # "text"
    BY <1>7 DEF RejectColumns
  <2>2. Verdict(Message) = Dead(IF row.columns = "unreadable" THEN "malformed" ELSE "no text")
    BY <1>b, <2>1 DEF Verdict
  <2> QED
    BY <1>7, <2>1, <2>2, TurnPasses DEF RejectColumns, DeadLetter, Dead
<1>8. CASE ApplyUpsert
  <2>1. step = "columns" /\ Message.op # "d" /\ row.columns = "text"
    BY <1>8 DEF ApplyUpsert
  <2>2. Subject(Message).columns = "text"
    BY <1>b, <2>1
  <2>3. Verdict(Message)
          = Outcome("upsert", DocumentID(Subject(Message)), Subject(Message).version)
    BY <1>b, <2>1, <2>2 DEF Verdict
  <2>4. Verdict(Message) = Outcome("upsert", id, row.version)
    BY <1>b, <2>1, <2>3
  <2> QED
    BY <1>8, <2>1, <2>4, TurnPasses DEF ApplyUpsert
<1>9. CASE UNCHANGED vars
  <2>1. Turn'
    BY <1>9 DEF vars, IndInv, Turn, Verdicts
  <2>2. Parsing'
    BY <1>9 DEF vars, IndInv, Parsing, Message
  <2>3. EachByItself'
    BY <1>9 DEF vars, IndInv, EachByItself
  <2> QED
    BY <2>1, <2>2, <2>3 DEF IndInv
<1> QED
  BY <1>1, <1>2, <1>3, <1>4, <1>5, <1>6, <1>7, <1>8, <1>9 DEF Next

(* Every behaviour judges each message by itself.                          *)
LEMMA IndInvHolds == Spec => []IndInv
<1> QED
  BY InitEstablishes, StepJudges, PTL DEF Spec

-----------------------------------------------------------------------------
(* What it is for.                                                         *)

(* What a message becomes depends on that message alone: a redelivery, or  *)
(* a message after others, is parsed into the same event or the same dead  *)
(* letter (Parser keeps no state between messages, parser.go).             *)
THEOREM ParsingForgets == Spec => []EachByItself
<1>1. IndInv => EachByItself
  BY DEF IndInv
<1> QED
  BY <1>1, IndInvHolds, PTL

(* What an upsert put under an ID, a delete with the same key removes: it  *)
(* is accepted, and addresses the same ID (documentID, service.go).        *)
THEOREM DeletesAreAccepted == Spec => []DeletesFollowUpserts
<1>1. ASSUME NEW m, NEW n, Verdict(m).kind = "upsert",
             n.shape \in {"bare", "wrapped"}, n.op = "d", n.before # NoRow,
             n.before.key = m.after.key
      PROVE  Verdict(n) = Outcome("delete", Verdict(m).id, 0)
  <2>1. \A k, i, v : Outcome(k, i, v).kind = k /\ Outcome(k, i, v).id = i
    BY DEF Outcome
  <2>2. \A r : Dead(r).kind = r
    BY <2>1 DEF Dead
  <2>3. m.shape # "null"
    <3> SUFFICES ASSUME m.shape = "null" PROVE FALSE
      OBVIOUS
    <3>1. Verdict(m) = Outcome("skipped", <<>>, 0)
      BY DEF Verdict, Readable
    <3> QED
      BY <1>1, <2>1, <3>1
  <2>4. Readable(m)
    BY <1>1, <2>2, <2>3 DEF Verdict
  <2>5. Identifiable(Subject(m))
    BY <1>1, <2>2, <2>3, <2>4 DEF Verdict, Readable
  <2>6. m.op # "d"
    BY <1>1, <2>1, <2>3, <2>4, <2>5 DEF Verdict
  <2>7. Subject(m).columns = "text"
    BY <1>1, <2>2, <2>3, <2>4, <2>5, <2>6 DEF Verdict
  <2>8. Verdict(m).id = DocumentID(m.after)
    <3>1. Verdict(m) = Outcome("upsert", DocumentID(Subject(m)), Subject(m).version)
      BY <2>3, <2>4, <2>5, <2>6, <2>7 DEF Verdict
    <3> QED
      BY <2>1, <2>6, <3>1 DEF Subject
  <2>9. Readable(n) /\ n.shape # "null" /\ Subject(n) = n.before
    BY <1>1 DEF Readable, Subject
  <2>10. Identifiable(n.before)
    BY <1>1, <2>5, <2>6 DEF Identifiable, Subject
  <2>11. DocumentID(n.before) = DocumentID(m.after)
    BY <1>1 DEF DocumentID
  <2> QED
    BY <1>1, <2>8, <2>9, <2>10, <2>11 DEF Verdict
<1>2. ASSUME IndInv, Len(outcomes) = 2, outcomes[1].kind = "upsert"
      PROVE  outcomes[1] = Verdict(messages[1]) /\ outcomes[2] = Verdict(messages[2])
  <2>1. DOMAIN outcomes = 1 .. 2
    BY <1>2, LenProperties DEF IndInv, Turn
  <2> QED
    BY <1>2, <2>1 DEF IndInv, EachByItself
<1>3. IndInv => DeletesFollowUpserts
  BY <1>1, <1>2 DEF DeletesFollowUpserts
<1> QED
  BY <1>3, IndInvHolds, PTL

-----------------------------------------------------------------------------
(* Document IDs: the key strings can be read back from their join.         *)

(* A sequence without the separator, and one after another.                *)
FreeOf(sep, s) == \A i \in DOMAIN s : s[i] # sep
Following(sep, x, y) == x \o (<<sep>> \o y)

(* What is at which place of one sequence after another.                   *)
Parts(w, sep, x, y) ==
  /\ Len(w) = Len(x) + 1 + Len(y)
  /\ \A i \in 1 .. Len(x) : w[i] = x[i]
  /\ w[Len(x) + 1] = sep
  /\ \A i \in 1 .. Len(y) : w[Len(x) + 1 + i] = y[i]

(* Joining two sequences keeps what is at their places.                    *)
LEMMA Parted ==
  ASSUME NEW S, NEW sep \in S, NEW x \in Seq(S), NEW y \in Seq(S)
  PROVE  Parts(Following(sep, x, y), sep, x, y)
<1> DEFINE p == <<sep>> \o y
           w == x \o p
<1>0. w = Following(sep, x, y)
  BY DEF Following
<1>1. p \in Seq(S) /\ Len(p) = 1 + Len(y) /\ p[1] = sep /\ \A i \in 1 .. Len(y) : p[i + 1] = y[i]
  BY ConcatProperties
<1>2. Len(x) \in Nat /\ Len(y) \in Nat
  BY LenProperties
<1> HIDE DEF p
<1>3. p \in Seq(S)
  BY <1>1
<1>4. /\ Len(w) = Len(x) + Len(p)
      /\ \A i \in 1 .. Len(x) + Len(p) : w[i] = IF i <= Len(x) THEN x[i] ELSE p[i - Len(x)]
  BY <1>3, ConcatProperties
<1> HIDE DEF w
<1>5. Len(w) = Len(x) + 1 + Len(y) /\ \A i \in 1 .. Len(x) : w[i] = x[i]
  BY <1>1, <1>2, <1>4
<1>6. ASSUME NEW k \in 1 .. 1 + Len(y) PROVE w[Len(x) + k] = p[k]
  <2>1. Len(x) + k \in 1 .. Len(x) + Len(p) /\ ~(Len(x) + k <= Len(x)) /\ Len(x) + k - Len(x) = k
    BY <1>1, <1>2
  <2> QED
    BY <1>4, <2>1
<1>7. w[Len(x) + 1] = sep
  BY <1>1, <1>2, <1>6
<1>8. ASSUME NEW i \in 1 .. Len(y) PROVE w[Len(x) + 1 + i] = y[i]
  <2>1. i + 1 \in 1 .. 1 + Len(y) /\ Len(x) + (i + 1) = Len(x) + 1 + i
    BY <1>2
  <2> QED
    BY <1>1, <1>6, <2>1
<1> QED
  BY <1>0, <1>5, <1>7, <1>8 DEF Parts

(* The last separator tells where the last piece starts.                   *)
LEMMA LastSeparator ==
  ASSUME NEW S, NEW sep \in S,
         NEW x \in Seq(S), NEW y \in Seq(S), NEW u \in Seq(S), NEW v \in Seq(S),
         FreeOf(sep, y), FreeOf(sep, v), Following(sep, x, y) = Following(sep, u, v)
  PROVE  x = u /\ y = v
<1>0. Len(x) \in Nat /\ Len(u) \in Nat /\ Len(y) \in Nat /\ Len(v) \in Nat
  BY LenProperties
<1>d. (\A i \in 1 .. Len(y) : y[i] # sep) /\ \A i \in 1 .. Len(v) : v[i] # sep
  BY LenProperties DEF FreeOf
<1>w. PICK w : w = Following(sep, x, y)
  OBVIOUS
<1>2. Parts(w, sep, x, y) /\ Parts(w, sep, u, v)
  BY <1>w, Parted
<1>3. /\ Len(w) = Len(x) + 1 + Len(y)
      /\ \A i \in 1 .. Len(x) : w[i] = x[i]
      /\ w[Len(x) + 1] = sep
      /\ \A i \in 1 .. Len(y) : w[Len(x) + 1 + i] = y[i]
  BY <1>2 DEF Parts
<1>4. /\ Len(w) = Len(u) + 1 + Len(v)
      /\ \A i \in 1 .. Len(u) : w[i] = u[i]
      /\ w[Len(u) + 1] = sep
      /\ \A i \in 1 .. Len(v) : w[Len(u) + 1 + i] = v[i]
  BY <1>2 DEF Parts
<1>5. Len(x) = Len(u)
  <2>1. ASSUME Len(x) < Len(u) PROVE FALSE
    <3> DEFINE i == Len(u) - Len(x)
    <3>1. i \in 1 .. Len(y) /\ Len(x) + 1 + i = Len(u) + 1
      BY <1>0, <1>3, <1>4, <2>1
    <3>2. y[i] = sep
      BY <1>3, <1>4, <3>1
    <3> QED
      BY <1>d, <3>1, <3>2
  <2>2. ASSUME Len(u) < Len(x) PROVE FALSE
    <3> DEFINE i == Len(x) - Len(u)
    <3>1. i \in 1 .. Len(v) /\ Len(u) + 1 + i = Len(x) + 1
      BY <1>0, <1>3, <1>4, <2>2
    <3>2. v[i] = sep
      BY <1>3, <1>4, <3>1
    <3> QED
      BY <1>d, <3>1, <3>2
  <2> QED
    BY <1>0, <2>1, <2>2
<1>6. Len(y) = Len(v)
  BY <1>0, <1>3, <1>4, <1>5
<1>7. x = u
  BY <1>3, <1>4, <1>5, SeqEqual
<1>8. y = v
  BY <1>3, <1>4, <1>5, <1>6, SeqEqual
<1> QED
  BY <1>7, <1>8

(* A nonempty set of naturals has a least element: what stands for         *)
(* induction below, as a smallest counterexample.                          *)
LEMMA Least == ASSUME NEW T, T \subseteq Nat, T # {} PROVE \E x \in T : \A y \in T : x <= y
<1> DEFINE R == OpToRel(<, Nat)
<1>1. PICK x \in T : \A y \in T : ~ (<<y, x>> \in R)
  BY NatLessThanWellFounded, WFMin
<1>2. ASSUME NEW y \in T PROVE x <= y
  <2>1. x \in Nat /\ y \in Nat
    OBVIOUS
  <2>2. ~ (<<y, x>> \in R)
    BY <1>1
  <2>3. y < x => <<y, x>> \in R
    BY <2>1 DEF OpToRel
  <2> HIDE DEF R
  <2> QED
    BY <2>1, <2>2, <2>3
<1> QED
  BY <1>2

(* The prefixes FlattenSeq joins, one piece more at a time.                *)
IsFlattening(f, s, n) == f = [i \in 1 .. n |-> IF i = 1 THEN s[i] ELSE f[i - 1] \o s[i]]

(* They exist, so FlattenSeq's CHOOSE finds them.                          *)
LEMMA FlatteningExists == ASSUME NEW s, NEW N \in Nat \ {0} PROVE \E f : IsFlattening(f, s, N)
<1> DEFINE Bad == {n \in Nat : n # 0 /\ ~ \E f : IsFlattening(f, s, n)}
<1> SUFFICES ASSUME Bad # {} PROVE FALSE
  OBVIOUS
<1>1. PICK n \in Bad : \A m \in Bad : n <= m
  BY Least
<1>2. n \in Nat \ {0}
  OBVIOUS
<1>3. CASE n = 1
  <2> DEFINE h == [i \in 1 .. 1 |-> s[i]]
  <2>1. h = [i \in 1 .. 1 |-> IF i = 1 THEN s[i] ELSE h[i - 1] \o s[i]]
    <3>1. \A i \in 1 .. 1 : s[i] = IF i = 1 THEN s[i] ELSE h[i - 1] \o s[i]
      OBVIOUS
    <3> QED
      BY <3>1
  <2>2. IsFlattening(h, s, n)
    BY <1>3, <2>1 DEF IsFlattening
  <2> QED
    BY <2>2
<1>4. CASE n # 1
  <2>1. n - 1 \in Nat \ {0}
    BY <1>2, <1>4
  <2>2. PICK g : IsFlattening(g, s, n - 1)
    BY <1>1, <2>1
  <2>l. PICK last : last = g[n - 1] \o s[n]
    OBVIOUS
  <2> DEFINE h == [i \in 1 .. n |-> IF i = n THEN last ELSE g[i]]
  <2>3. g = [i \in 1 .. n - 1 |-> IF i = 1 THEN s[i] ELSE g[i - 1] \o s[i]]
    BY <2>2 DEF IsFlattening
  <2>4. ASSUME NEW i \in 1 .. n PROVE h[i] = IF i = 1 THEN s[i] ELSE h[i - 1] \o s[i]
    <3>1. CASE i = n
      <4>1. n - 1 \in 1 .. n /\ n - 1 # n
        BY <1>2, <1>4
      <4>2. h[n - 1] = g[n - 1] /\ h[n] = last
        BY <1>2, <4>1
      <4> HIDE DEF h
      <4> QED
        BY <1>4, <2>l, <3>1, <4>2
    <3>2. CASE i # n
      <4>1. i \in 1 .. n - 1 /\ h[i] = g[i]
        BY <1>2, <3>2
      <4>2. i # 1 => i - 1 \in 1 .. n - 1 /\ h[i - 1] = g[i - 1]
        BY <1>2, <3>2
      <4>3. g[i] = IF i = 1 THEN s[i] ELSE g[i - 1] \o s[i]
        BY <2>3, <4>1
      <4> QED
        BY <4>1, <4>2, <4>3
    <3> QED
      BY <3>1, <3>2
  <2>5. h = [i \in 1 .. n |-> h[i]]
    OBVIOUS
  <2>6. IsFlattening(h, s, n)
    <3> HIDE DEF h
    <3> QED
      BY <2>4, <2>5 DEF IsFlattening
  <2> QED
    BY <2>6
<1> QED
  BY <1>3, <1>4

(* FlattenSeq is the last of them.                                         *)
LEMMA FlattenUnfolds ==
  ASSUME NEW s, Len(s) \in Nat \ {0}
  PROVE  \E f : IsFlattening(f, s, Len(s)) /\ FlattenSeq(s) = f[Len(s)]
<1> DEFINE f == CHOOSE g : g = [i \in 1 .. Len(s) |-> IF i = 1 THEN s[i] ELSE g[i - 1] \o s[i]]
<1>1. \E g : g = [i \in 1 .. Len(s) |-> IF i = 1 THEN s[i] ELSE g[i - 1] \o s[i]]
  BY FlatteningExists DEF IsFlattening
<1>2. f = [i \in 1 .. Len(s) |-> IF i = 1 THEN s[i] ELSE f[i - 1] \o s[i]]
  BY <1>1
<1>3. FlattenSeq(s) = f[Len(s)]
  BY DEF FlattenSeq
<1> HIDE DEF f
<1> QED
  BY <1>2, <1>3 DEF IsFlattening

(* A function over 1 .. n is a sequence of length n.                       *)
LEMMA SeqOfFunction ==
  ASSUME NEW S, NEW n \in Nat, NEW f \in [1 .. n -> S]
  PROVE  f \in Seq(S) /\ Len(f) = n
OBVIOUS

(* What is joined can be told apart: strings after the first that hold no  *)
(* separator are the same when they join to the same.                      *)
LEMMA JoinInjective ==
  ASSUME NEW S, NEW sep \in S, NEW N \in Nat \ {0},
         NEW a \in [1 .. N -> Seq(S)], NEW b \in [1 .. N -> Seq(S)],
         \A k \in 2 .. N : FreeOf(sep, a[k]) /\ FreeOf(sep, b[k]),
         FlattenSeq([k \in 1 .. N |-> (IF k = 1 THEN <<>> ELSE <<sep>>) \o a[k]])
           = FlattenSeq([k \in 1 .. N |-> (IF k = 1 THEN <<>> ELSE <<sep>>) \o b[k]])
  PROVE  a = b
<1> DEFINE Pieces(c) == [k \in 1 .. N |-> (IF k = 1 THEN <<>> ELSE <<sep>>) \o c[k]]
<1>1. ASSUME NEW c \in [1 .. N -> Seq(S)]
      PROVE  /\ Len(Pieces(c)) = N /\ Pieces(c)[1] = c[1]
             /\ \A k \in 2 .. N : Pieces(c)[k] = <<sep>> \o c[k]
  <2>0. <<>> \in Seq(S) /\ <<sep>> \in Seq(S)
    OBVIOUS
  <2>1. \A k \in 1 .. N : (IF k = 1 THEN <<>> ELSE <<sep>>) \o c[k] \in Seq(S)
    BY <2>0, ConcatProperties
  <2>2. Pieces(c) \in [1 .. N -> Seq(S)]
    BY <2>1
  <2>3. Len(Pieces(c)) = N
    <3> HIDE DEF Pieces
    <3> QED
      BY <2>2, SeqOfFunction
  <2>4. Pieces(c)[1] = c[1]
    BY ConcatEmptySeq
  <2>5. ASSUME NEW k \in 2 .. N PROVE Pieces(c)[k] = <<sep>> \o c[k]
    <3>1. k \in 1 .. N /\ k # 1
      OBVIOUS
    <3>2. Pieces(c)[k] = (IF k = 1 THEN <<>> ELSE <<sep>>) \o c[k]
      BY <3>1
    <3> HIDE DEF Pieces
    <3> QED
      BY <3>1, <3>2
  <2> HIDE DEF Pieces
  <2> QED
    BY <2>3, <2>4, <2>5
<1>p. Len(Pieces(a)) = N /\ Len(Pieces(b)) = N
  <2> HIDE DEF Pieces
  <2> QED
    BY <1>1
<1>e. FlattenSeq(Pieces(a)) = FlattenSeq(Pieces(b))
  OBVIOUS
<1> HIDE DEF Pieces
<1>2. PICK f : IsFlattening(f, Pieces(a), N) /\ FlattenSeq(Pieces(a)) = f[N]
  BY <1>p, FlattenUnfolds
<1>3. PICK g : IsFlattening(g, Pieces(b), N) /\ FlattenSeq(Pieces(b)) = g[N]
  BY <1>p, FlattenUnfolds
<1>4. f[N] = g[N]
  BY <1>2, <1>3, <1>e
<1>5. /\ f[1] = a[1] /\ \A k \in 2 .. N : f[k] = f[k - 1] \o (<<sep>> \o a[k])
      /\ g[1] = b[1] /\ \A k \in 2 .. N : g[k] = g[k - 1] \o (<<sep>> \o b[k])
  <2>1. ASSUME NEW k \in 1 .. N
        PROVE  /\ f[k] = IF k = 1 THEN Pieces(a)[k] ELSE f[k - 1] \o Pieces(a)[k]
               /\ g[k] = IF k = 1 THEN Pieces(b)[k] ELSE g[k - 1] \o Pieces(b)[k]
    <3>1. f = [i \in 1 .. N |-> IF i = 1 THEN Pieces(a)[i] ELSE f[i - 1] \o Pieces(a)[i]]
      BY <1>2 DEF IsFlattening
    <3>2. g = [i \in 1 .. N |-> IF i = 1 THEN Pieces(b)[i] ELSE g[i - 1] \o Pieces(b)[i]]
      BY <1>3 DEF IsFlattening
    <3>3. f[k] = IF k = 1 THEN Pieces(a)[k] ELSE f[k - 1] \o Pieces(a)[k]
      BY <3>1
    <3>4. g[k] = IF k = 1 THEN Pieces(b)[k] ELSE g[k - 1] \o Pieces(b)[k]
      BY <3>2
    <3> QED
      BY <3>3, <3>4
  <2>2. 1 \in 1 .. N /\ \A k \in 2 .. N : k \in 1 .. N /\ k # 1
    OBVIOUS
  <2>3. f[1] = a[1] /\ g[1] = b[1]
    BY <1>1, <2>1, <2>2
  <2>4. ASSUME NEW k \in 2 .. N
        PROVE  f[k] = f[k - 1] \o (<<sep>> \o a[k]) /\ g[k] = g[k - 1] \o (<<sep>> \o b[k])
    <3>1. f[k] = f[k - 1] \o Pieces(a)[k] /\ g[k] = g[k - 1] \o Pieces(b)[k]
      BY <2>1, <2>2
    <3> QED
      BY <1>1, <3>1
  <2> QED
    BY <2>3, <2>4
<1>6. \A k \in 1 .. N : f[k] \in Seq(S) /\ g[k] \in Seq(S)
  <2> DEFINE Bad == {k \in 1 .. N : ~ (f[k] \in Seq(S) /\ g[k] \in Seq(S))}
  <2> SUFFICES ASSUME Bad # {} PROVE FALSE
    OBVIOUS
  <2>0. Bad \subseteq Nat
    OBVIOUS
  <2>1. PICK k \in Bad : \A m \in Bad : k <= m
    <3> HIDE DEF Bad
    <3> QED
      BY <2>0, Least
  <2>2. k # 1
    BY <1>5
  <2>3. k - 1 \in 1 .. N /\ k \in 2 .. N
    BY <2>2
  <2>4. f[k - 1] \in Seq(S) /\ g[k - 1] \in Seq(S)
    BY <2>1, <2>3
  <2>5. <<sep>> \o a[k] \in Seq(S) /\ <<sep>> \o b[k] \in Seq(S)
    BY ConcatProperties
  <2>6. f[k] \in Seq(S) /\ g[k] \in Seq(S)
    <3>1. f[k] = f[k - 1] \o (<<sep>> \o a[k]) /\ g[k] = g[k - 1] \o (<<sep>> \o b[k])
      BY <1>5, <2>3
    <3> QED
      BY <2>4, <2>5, <3>1, ConcatProperties
  <2> QED
    BY <2>6
<1>7. \A n \in 1 .. N : f[n] = g[n] => \A k \in 1 .. n : a[k] = b[k]
  <2> DEFINE Bad == {n \in 1 .. N : f[n] = g[n] /\ \E k \in 1 .. n : a[k] # b[k]}
  <2> SUFFICES ASSUME Bad # {} PROVE FALSE
    OBVIOUS
  <2>0. Bad \subseteq Nat
    OBVIOUS
  <2>1. PICK n \in Bad : \A m \in Bad : n <= m
    <3> HIDE DEF Bad
    <3> QED
      BY <2>0, Least
  <2>2. n # 1
    BY <1>5
  <2>3. n - 1 \in 1 .. N /\ n \in 2 .. N
    BY <2>2
  <2>4. f[n - 1] = g[n - 1] /\ a[n] = b[n]
    <3>1. Following(sep, f[n - 1], a[n]) = Following(sep, g[n - 1], b[n])
      <4>1. f[n] = f[n - 1] \o (<<sep>> \o a[n]) /\ g[n] = g[n - 1] \o (<<sep>> \o b[n])
        BY <1>5, <2>3
      <4>2. f[n] = g[n]
        OBVIOUS
      <4> QED
        BY <4>1, <4>2 DEF Following
    <3>2. f[n - 1] \in Seq(S) /\ g[n - 1] \in Seq(S)
      BY <1>6, <2>3
    <3>3. a[n] \in Seq(S) /\ b[n] \in Seq(S)
      BY <2>3
    <3>4. FreeOf(sep, a[n]) /\ FreeOf(sep, b[n])
      BY <2>3
    <3> HIDE DEF Bad
    <3> QED
      BY <3>1, <3>2, <3>3, <3>4, LastSeparator
  <2>5. \A k \in 1 .. n - 1 : a[k] = b[k]
    <3>1. n - 1 \notin Bad
      <4>1. ~(n <= n - 1)
        BY <2>3
      <4> HIDE DEF Bad
      <4> QED
        BY <2>1, <4>1
    <3> QED
      BY <2>3, <2>4, <3>1
  <2>6. \A k \in 1 .. n : a[k] = b[k]
    <3>1. \A k \in 1 .. n : k = n \/ k \in 1 .. n - 1
      BY <2>3
    <3> HIDE DEF Bad
    <3> QED
      BY <2>4, <2>5, <3>1
  <2> QED
    BY <2>6
<1>8. \A k \in 1 .. N : a[k] = b[k]
  BY <1>4, <1>7
<1> QED
  BY <1>8

(* A nonempty bounded set of naturals has a greatest element.              *)
LEMMA Greatest ==
  ASSUME NEW T, T \subseteq Nat, T # {}, NEW n \in Nat, \A x \in T : x <= n
  PROVE \E x \in T : \A y \in T : x >= y
<1> DEFINE Rest == {n - x : x \in T}
<1>1. Rest \subseteq Nat /\ Rest # {}
  <2>1. \A x \in T : x \in Nat /\ x <= n /\ n - x \in Nat
    OBVIOUS
  <2>2. PICK x : x \in T
    OBVIOUS
  <2>3. n - x \in Rest
    BY <2>2
  <2> QED
    BY <2>1, <2>3
<1>2. PICK r \in Rest : \A q \in Rest : r <= q
  <2> HIDE DEF Rest
  <2> QED
    BY <1>1, Least
<1>3. PICK x \in T : r = n - x
  OBVIOUS
<1>4. ASSUME NEW y \in T PROVE x >= y
  <2>1. r <= n - y
    BY <1>2
  <2> QED
    BY <1>3, <2>1
<1> QED
  BY <1>4

(* Trimming gives a string, and changes none that has no space.            *)
LEMMA TrimmedOf ==
  ASSUME NEW S, NEW s \in Seq(S)
  PROVE  Trimmed(s) \in Seq(S) /\ (Space \notin ToSet(s) => Trimmed(s) = s)
<1> DEFINE ink == {i \in DOMAIN s : s[i] # Space}
<1>0. Len(s) \in Nat /\ DOMAIN s = 1 .. Len(s) /\ \A i \in 1 .. Len(s) : s[i] \in S
  BY LenProperties, ElementOfSeq
<1>1. Trimmed(s) = IF ink = {} THEN <<>> ELSE SubSeq(s, Min(ink), Max(ink))
  BY DEF Trimmed
<1>2. ink \subseteq 1 .. Len(s)
  BY <1>0
<1>3. ASSUME Space \notin ToSet(s) PROVE ink = 1 .. Len(s)
  BY <1>0, <1>3 DEF ToSet
<1> HIDE DEF ink
<1>4. CASE ink = {}
  <2>1. Trimmed(s) = <<>>
    BY <1>1, <1>4
  <2>2. Len(s) = 0 => s = <<>>
    BY EmptySeq
  <2>3. Space \notin ToSet(s) => Len(s) = 0
    BY <1>0, <1>3, <1>4
  <2> QED
    BY <2>1, <2>2, <2>3, EmptySeq
<1>5. CASE ink # {}
  <2>0. ink \subseteq Nat /\ \A x \in ink : x <= Len(s)
    BY <1>0, <1>2
  <2>1. Min(ink) \in ink /\ \A y \in ink : Min(ink) <= y
    <3>1. \E x \in ink : \A y \in ink : x <= y
      BY <1>5, <2>0, Least
    <3> QED
      BY <3>1 DEF Min
  <2>2. Max(ink) \in ink /\ \A y \in ink : Max(ink) >= y
    <3>1. \E x \in ink : \A y \in ink : x >= y
      BY <1>0, <1>5, <2>0, Greatest
    <3> QED
      BY <3>1 DEF Max
  <2>3. PICK m, n : m = Min(ink) /\ n = Max(ink)
    OBVIOUS
  <2>i. m \in ink /\ n \in ink /\ \A y \in ink : m <= y /\ n >= y
    BY <2>1, <2>2, <2>3
  <2>4. m \in 1 .. Len(s) /\ n \in 1 .. Len(s) /\ \A i \in m .. n : s[i] \in S
    BY <1>0, <1>2, <2>i
  <2>5. /\ SubSeq(s, m, n) \in Seq(S)
        /\ Len(SubSeq(s, m, n)) = IF m <= n THEN n - m + 1 ELSE 0
        /\ \A i \in 1 .. n - m + 1 : SubSeq(s, m, n)[i] = s[m + i - 1]
    BY <1>0, <2>4, SubSeqProperties
  <2>6. Trimmed(s) = SubSeq(s, m, n)
    BY <1>1, <1>5, <2>3
  <2>7. ASSUME Space \notin ToSet(s) PROVE SubSeq(s, m, n) = s
    <3>1. m = 1 /\ n = Len(s)
      <4>0. ink = 1 .. Len(s)
        BY <1>3, <2>7
      <4>1. 1 \in ink /\ Len(s) \in ink
        BY <1>0, <2>4, <4>0
      <4>2. m <= 1 /\ n >= Len(s)
        BY <2>i, <4>1
      <4>3. Len(s) \in Nat /\ m \in 1 .. Len(s) /\ n \in 1 .. Len(s)
        BY <1>0, <2>4
      <4>4. m = 1
        BY <4>2, <4>3
      <4>5. n = Len(s)
        BY <4>2, <4>3
      <4> QED
        BY <4>4, <4>5
    <3>2. Len(SubSeq(s, m, n)) = Len(s)
      BY <1>0, <2>4, <2>5, <3>1
    <3>3. \A i \in 1 .. Len(s) : SubSeq(s, m, n)[i] = s[i]
      BY <1>0, <2>5, <3>1
    <3> QED
      BY <2>5, <3>2, <3>3, SeqEqual
  <2> QED
    BY <2>5, <2>6, <2>7
<1> QED
  BY <1>4, <1>5

(* A sequence over a set is one over a larger set.                         *)
LEMMA MoreSequences ==
  ASSUME NEW S, NEW T, S \subseteq T, NEW s \in Seq(S)
  PROVE  s \in Seq(T)
OBVIOUS

(* What keys are written with.                                             *)
Characters == STRING \cup {Separator}

(* The key strings of a row that can be identified: what their text trims  *)
(* to, and after the first without the separator.                          *)
LEMMA KeyStrings ==
  ASSUME NEW r, r # NoRow, IsRow(r), Identifiable(r)
  PROVE  /\ Strings(r) \in [1 .. NumKeys -> Seq(Characters)]
         /\ \A k \in 1 .. NumKeys : KeyString(r.key[k]) = Strings(r)[k]
         /\ \A k \in 2 .. NumKeys : FreeOf(Separator, Strings(r)[k])
<1>0. NumKeys \in Nat \ {0}
  BY MessagesAssumption
<1>1. ASSUME NEW k \in 1 .. NumKeys
      PROVE  /\ Trimmed(r.key[k].text) \in Seq(Characters)
             /\ KeyString(r.key[k]) = Trimmed(r.key[k].text)
             /\ NumKeys > 1 => FreeOf(Separator, KeyString(r.key[k]))
  <2>1. /\ r.key[k].text \in Seq(STRING)
        /\ r.key[k].kind = "number" => Space \notin ToSet(r.key[k].text)
    BY DEF IsRow
  <2>2. PICK t : t = r.key[k].text
    OBVIOUS
  <2>3. t \in Seq(Characters)
    <3>1. t \in Seq(STRING) /\ STRING \subseteq Characters
      BY <2>1, <2>2 DEF Characters
    <3> QED
      BY <3>1, MoreSequences
  <2>4. Trimmed(t) \in Seq(Characters) /\ (Space \notin ToSet(t) => Trimmed(t) = t)
    BY <2>3, TrimmedOf
  <2>5. Usable(r.key[k])
    BY DEF Identifiable
  <2>6. r.key[k].kind \in {"string", "number"}
    BY <2>5 DEF Usable
  <2>7. KeyString(r.key[k]) = Trimmed(r.key[k].text)
    BY <2>1, <2>2, <2>4, <2>6 DEF KeyString
  <2>8. NumKeys > 1 => FreeOf(Separator, KeyString(r.key[k]))
    BY <2>5 DEF Usable, FreeOf
  <2> QED
    BY <2>2, <2>4, <2>7, <2>8
<1>2. Strings(r) \in [1 .. NumKeys -> Seq(Characters)]
  BY <1>1 DEF Strings
<1>3. \A k \in 1 .. NumKeys : Strings(r)[k] = Trimmed(r.key[k].text)
  BY DEF Strings
<1>4. \A k \in 2 .. NumKeys : k \in 1 .. NumKeys /\ NumKeys > 1
  BY <1>0
<1> QED
  BY <1>1, <1>2, <1>3, <1>4

(* Two rows share a document ID exactly when they share their key.         *)
LEMMA IDsTellRowsApart ==
  ASSUME NEW r, r # NoRow, IsRow(r), Identifiable(r),
         NEW q, q # NoRow, IsRow(q), Identifiable(q)
  PROVE  DocumentID(r) = DocumentID(q) <=> Strings(r) = Strings(q)
<1> DEFINE Join(a) == FlattenSeq([k \in 1 .. NumKeys |->
                        (IF k = 1 THEN <<>> ELSE <<Separator>>) \o a[k]])
<1>0. NumKeys \in Nat \ {0}
  BY MessagesAssumption
<1>1. ASSUME NEW x, x # NoRow, IsRow(x), Identifiable(x) PROVE DocumentID(x) = Join(Strings(x))
  <2>1. \A k \in 1 .. NumKeys : KeyString(x.key[k]) = Strings(x)[k]
    BY <1>1, KeyStrings
  <2> QED
    BY <2>1 DEF DocumentID
<1>2. DocumentID(r) = Join(Strings(r)) /\ DocumentID(q) = Join(Strings(q))
  <2> HIDE DEF Join
  <2> QED
    BY <1>1
<1>3. ASSUME Join(Strings(r)) = Join(Strings(q)) PROVE Strings(r) = Strings(q)
  <2>1. Separator \in Characters
    BY DEF Characters
  <2>2. Strings(r) \in [1 .. NumKeys -> Seq(Characters)] /\ Strings(q) \in [1 .. NumKeys -> Seq(Characters)]
    BY KeyStrings
  <2>3. \A k \in 2 .. NumKeys : FreeOf(Separator, Strings(r)[k]) /\ FreeOf(Separator, Strings(q)[k])
    BY KeyStrings
  <2> QED
    BY <1>0, <1>3, <2>1, <2>2, <2>3, JoinInjective
<1> HIDE DEF Join
<1> QED
  BY <1>2, <1>3

(* The messages stay what they are.                                        *)
LEMMA MessagesStay == Spec => [](messages \in Messages)
<1>1. Init => messages \in Messages
  BY DEF Init
<1>2. messages \in Messages /\ [Next]_vars => (messages \in Messages)'
  BY DEF Next, Tombstone, RejectEnvelope, ReadEnvelope, RejectRow, ReadKey, ApplyDelete,
         RejectColumns, ApplyUpsert, DeadLetter, Becomes, Goes, vars
<1> QED
  BY <1>1, <1>2, PTL DEF Spec

(* Trimming leaves what is not space: nothing if there is nothing, and     *)
(* every separator.                                                        *)
LEMMA TrimmedKeepsInk ==
  ASSUME NEW S, NEW s \in Seq(S)
  PROVE  /\ Trimmed(s) # <<>> <=> ToSet(s) \ {Space} # {}
         /\ Separator \in ToSet(Trimmed(s)) <=> Separator \in ToSet(s)
<1> DEFINE ink == {i \in DOMAIN s : s[i] # Space}
<1>0. Len(s) \in Nat /\ DOMAIN s = 1 .. Len(s) /\ \A i \in 1 .. Len(s) : s[i] \in S
  BY LenProperties, ElementOfSeq
<1>1. Trimmed(s) = IF ink = {} THEN <<>> ELSE SubSeq(s, Min(ink), Max(ink))
  BY DEF Trimmed
<1>2. ink # {} <=> ToSet(s) \ {Space} # {}
  BY DEF ToSet
<1>3. ink \subseteq 1 .. Len(s) /\ \A i \in 1 .. Len(s) : s[i] = Separator => i \in ink
  <2>1. Separator # Space
    BY DEF Separator, Space
  <2> QED
    BY <1>0, <2>1
<1> HIDE DEF ink
<1>4. CASE ink = {}
  <2>1. Trimmed(s) = <<>> /\ ToSet(<<>>) = {}
    BY <1>1, <1>4 DEF ToSet
  <2>2. Separator \notin ToSet(s)
    BY <1>0, <1>3, <1>4 DEF ToSet
  <2> QED
    BY <1>2, <1>4, <2>1, <2>2
<1>5. CASE ink # {}
  <2>0. ink \subseteq Nat /\ \A x \in ink : x <= Len(s)
    BY <1>0, <1>3
  <2>1. Min(ink) \in ink /\ \A y \in ink : Min(ink) <= y
    <3>1. \E x \in ink : \A y \in ink : x <= y
      BY <1>5, <2>0, Least
    <3> QED
      BY <3>1 DEF Min
  <2>2. Max(ink) \in ink /\ \A y \in ink : Max(ink) >= y
    <3>1. \E x \in ink : \A y \in ink : x >= y
      BY <1>0, <1>5, <2>0, Greatest
    <3> QED
      BY <3>1 DEF Max
  <2>3. PICK m, n : m = Min(ink) /\ n = Max(ink)
    OBVIOUS
  <2>4. m \in 1 .. Len(s) /\ n \in 1 .. Len(s) /\ m <= n
        /\ (\A y \in ink : m <= y /\ n >= y) /\ \A i \in m .. n : s[i] \in S
    <3>1. m \in ink /\ n \in ink /\ \A y \in ink : m <= y /\ n >= y
      BY <2>1, <2>2, <2>3
    <3>2. m \in 1 .. Len(s) /\ n \in 1 .. Len(s) /\ m <= n
      BY <1>3, <3>1
    <3> QED
      BY <1>0, <3>1, <3>2
  <2>5. PICK t : t = Trimmed(s)
    OBVIOUS
  <2>6. t = SubSeq(s, m, n)
    BY <1>1, <1>5, <2>3, <2>5
  <2>7. t \in Seq(S) /\ Len(t) = n - m + 1 /\ \A i \in 1 .. n - m + 1 : t[i] = s[m + i - 1]
    BY <1>0, <2>4, <2>6, SubSeqProperties
  <2>8. DOMAIN t = 1 .. n - m + 1 /\ t # <<>>
    BY <2>4, <2>7
  <2>9. ASSUME Separator \in ToSet(s) PROVE Separator \in ToSet(t)
    <3>1. PICK i \in 1 .. Len(s) : s[i] = Separator
      BY <1>0, <2>9 DEF ToSet
    <3>2. m <= i /\ i <= n
      BY <1>3, <2>4, <3>1
    <3>3. PICK k : k = i - m + 1
      OBVIOUS
    <3>4. k \in 1 .. n - m + 1 /\ m + k - 1 = i
      BY <2>4, <3>2, <3>3
    <3> QED
      BY <2>7, <2>8, <3>1, <3>4 DEF ToSet
  <2>10. ASSUME Separator \in ToSet(t) PROVE Separator \in ToSet(s)
    <3>1. PICK k \in 1 .. n - m + 1 : t[k] = Separator
      BY <2>8, <2>10 DEF ToSet
    <3>2. m + k - 1 \in 1 .. Len(s) /\ s[m + k - 1] = Separator
      BY <1>0, <2>4, <2>7, <3>1
    <3> QED
      BY <1>0, <3>2 DEF ToSet
  <2> QED
    BY <1>2, <1>5, <2>5, <2>8, <2>9, <2>10
<1> QED
  BY <1>4, <1>5

(* A key value is usable when its text has ink and no separator that would *)
(* be taken for the one between two columns.                               *)
LEMMA UsableText ==
  ASSUME NEW r, IsRow(r), NEW k \in 1 .. NumKeys
  PROVE  Usable(r.key[k]) <=>
           /\ r.key[k].kind \in {"string", "number"} /\ ToSet(r.key[k].text) \ {Space} # {}
           /\ NumKeys > 1 => Separator \notin ToSet(r.key[k].text)
<1>1. PICK v : v = r.key[k]
  OBVIOUS
<1>2. v.text \in Seq(STRING) /\ (v.kind = "number" => Space \notin ToSet(v.text))
  BY <1>1 DEF IsRow
<1>3. PICK t \in Seq(STRING) : t = v.text
  BY <1>2
<1>4. v.kind \in {"string", "number"} => KeyString(v) = Trimmed(t)
  BY <1>2, <1>3, TrimmedOf DEF KeyString
<1>5. /\ Trimmed(t) # <<>> <=> ToSet(t) \ {Space} # {}
      /\ Separator \in ToSet(Trimmed(t)) <=> Separator \in ToSet(t)
  BY TrimmedKeepsInk
<1>6. \A s : Separator \notin ToSet(s) <=> \A i \in DOMAIN s : s[i] # Separator
  BY DEF ToSet
<1> QED
  BY <1>1, <1>3, <1>4, <1>5, <1>6 DEF Usable

(* A message is understood exactly when something can be made of it.       *)
LEMMA UnderstandableMeans ==
  ASSUME NEW m, Subject(m) # NoRow => IsRow(Subject(m))
  PROVE  Understandable(m) <=> /\ Readable(m) /\ Identifiable(Subject(m))
                               /\ m.op # "d" => Subject(m).columns = "text"
<1>1. CASE Subject(m) = NoRow
  BY <1>1 DEF Understandable, Identifiable
<1>2. CASE Subject(m) # NoRow
  <2>1. \A k \in 1 .. NumKeys : Usable(Subject(m).key[k]) <=>
           /\ Subject(m).key[k].kind \in {"string", "number"}
           /\ ToSet(Subject(m).key[k].text) \ {Space} # {}
           /\ NumKeys > 1 => Separator \notin ToSet(Subject(m).key[k].text)
    BY <1>2, UsableText
  <2> QED
    BY <1>2, <2>1 DEF Understandable, Identifiable, Readable
<1> QED
  BY <1>1, <1>2

(* Every message is accounted for, for every primary key and whatever its  *)
(* columns hold: tombstones are skipped, what can be understood is applied *)
(* in its version, and everything else is stored as a dead letter          *)
(* (decodeChangeEvent, Parse, process).                                    *)
THEOREM NothingElseDisappears == Spec => []MessagesAreAccountedFor
<1>1. ASSUME messages \in Messages, NEW i \in 1 .. 2, Subject(messages[i]) # NoRow
      PROVE  IsRow(Subject(messages[i]))
  BY <1>1, MessagesAssumption DEF Subject
<1>2. ASSUME messages \in Messages, IndInv, NEW i \in DOMAIN outcomes
      PROVE  LET m == messages[i] IN
             IF m.shape = "null" THEN outcomes[i].kind = "skipped"
             ELSE IF Understandable(m)
             THEN /\ outcomes[i].kind = IF m.op = "d" THEN "delete" ELSE "upsert"
                  /\ outcomes[i].version = IF m.op = "d" THEN 0 ELSE Subject(m).version
             ELSE outcomes[i].kind \in {"malformed", "no text"}
  <2>1. PICK m : m = messages[i]
    OBVIOUS
  <2>2. i \in 1 .. 2
    BY <1>2 DEF IndInv, Turn
  <2>3. outcomes[i] = Verdict(m)
    BY <1>2, <2>1 DEF IndInv, EachByItself
  <2>4. Understandable(m) <=> /\ Readable(m) /\ Identifiable(Subject(m))
                              /\ m.op # "d" => Subject(m).columns = "text"
    BY <1>1, <1>2, <2>1, <2>2, UnderstandableMeans
  <2>5. \A k, d, v : Outcome(k, d, v).kind = k /\ Outcome(k, d, v).version = v
    BY DEF Outcome
  <2>6. \A r : Dead(r).kind = r
    BY <2>5 DEF Dead
  <2>7. Readable(m) => m.shape # "null"
    BY DEF Readable
  <2>8. CASE m.shape = "null"
    <3>1. Verdict(m) = Outcome("skipped", <<>>, 0)
      BY <2>7, <2>8 DEF Verdict
    <3> QED
      BY <2>1, <2>3, <2>5, <2>8, <3>1
  <2>9. CASE m.shape # "null" /\ Understandable(m) /\ m.op = "d"
    <3>1. Verdict(m) = Outcome("delete", DocumentID(Subject(m)), 0)
      BY <2>4, <2>9 DEF Verdict
    <3> QED
      BY <2>1, <2>3, <2>5, <2>9, <3>1
  <2>10. CASE m.shape # "null" /\ Understandable(m) /\ m.op # "d"
    <3>1. Verdict(m) = Outcome("upsert", DocumentID(Subject(m)), Subject(m).version)
      BY <2>4, <2>10 DEF Verdict
    <3> QED
      BY <2>1, <2>3, <2>5, <2>10, <3>1
  <2>11. CASE m.shape # "null" /\ ~Understandable(m)
    <3>1. CASE ~Readable(m) \/ ~Identifiable(Subject(m))
      <4>1. Verdict(m) = Dead("malformed")
        BY <2>11, <3>1 DEF Verdict
      <4> QED
        BY <2>1, <2>3, <2>6, <2>11, <4>1
    <3>2. CASE Readable(m) /\ Identifiable(Subject(m)) /\ m.op # "d" /\ Subject(m).columns # "text"
      <4>1. Verdict(m) = Dead(IF Subject(m).columns = "unreadable" THEN "malformed" ELSE "no text")
        BY <2>11, <3>2 DEF Verdict
      <4> QED
        BY <2>1, <2>3, <2>6, <2>11, <4>1
    <3> QED
      BY <2>4, <2>11, <3>1, <3>2
  <2> QED
    BY <2>8, <2>9, <2>10, <2>11
<1>3. messages \in Messages /\ IndInv => MessagesAreAccountedFor
  BY <1>2 DEF MessagesAreAccountedFor
<1> QED
  BY <1>3, MessagesStay, IndInvHolds, PTL

(* One row, one document: for every primary key and every text in it, the  *)
(* changes of a row address one document ID, and rows whose keys differ by *)
(* more than surrounding space never share one (documentID, parser.go).    *)
THEOREM RowsKeepTheirDocument == Spec => []OneDocumentPerRow
<1>1. ASSUME NEW m, Verdict(m).kind \in {"upsert", "delete"}
      PROVE  Identifiable(Subject(m)) /\ Verdict(m).id = DocumentID(Subject(m))
  <2>1. \A k, i, v : Outcome(k, i, v).kind = k /\ Outcome(k, i, v).id = i
    BY DEF Outcome
  <2>2. \A r : Dead(r).kind = r
    BY <2>1 DEF Dead
  <2>3. m.shape # "null"
    <3> SUFFICES ASSUME m.shape = "null" PROVE FALSE
      OBVIOUS
    <3>1. Verdict(m) = Outcome("skipped", <<>>, 0)
      BY DEF Verdict, Readable
    <3> QED
      BY <1>1, <2>1, <3>1
  <2>4. Readable(m)
    BY <1>1, <2>2, <2>3 DEF Verdict
  <2>5. Identifiable(Subject(m))
    BY <1>1, <2>2, <2>3, <2>4 DEF Verdict, Readable
  <2>6. CASE m.op = "d"
    BY <2>1, <2>3, <2>4, <2>5, <2>6 DEF Verdict
  <2>7. CASE m.op # "d" /\ Subject(m).columns = "text"
    BY <2>1, <2>3, <2>4, <2>5, <2>7 DEF Verdict
  <2>8. CASE m.op # "d" /\ Subject(m).columns # "text"
    <3>1. Verdict(m) = Dead(IF Subject(m).columns = "unreadable" THEN "malformed" ELSE "no text")
      BY <2>3, <2>4, <2>5, <2>8 DEF Verdict
    <3> QED
      BY <1>1, <2>2, <3>1
  <2> QED
    BY <2>5, <2>6, <2>7, <2>8
<1>2. ASSUME messages \in Messages, NEW i \in 1 .. 2, Identifiable(Subject(messages[i]))
      PROVE  Subject(messages[i]) # NoRow /\ IsRow(Subject(messages[i]))
  BY <1>2, MessagesAssumption DEF Subject, Identifiable
<1>3. ASSUME messages \in Messages, IndInv, Applied(1), Applied(2)
      PROVE  outcomes[1].id = outcomes[2].id
               <=> Strings(Subject(messages[1])) = Strings(Subject(messages[2]))
  <2>1. outcomes[1] = Verdict(messages[1]) /\ outcomes[2] = Verdict(messages[2])
    BY <1>3 DEF IndInv, EachByItself, Applied
  <2>2. Verdict(messages[1]).kind \in {"upsert", "delete"} /\ Verdict(messages[2]).kind \in {"upsert", "delete"}
    BY <1>3, <2>1 DEF Applied
  <2>3. PICK r, q : r = Subject(messages[1]) /\ q = Subject(messages[2])
    OBVIOUS
  <2>4. Identifiable(r) /\ Identifiable(q) /\ outcomes[1].id = DocumentID(r) /\ outcomes[2].id = DocumentID(q)
    BY <1>1, <2>1, <2>2, <2>3
  <2>5. r # NoRow /\ IsRow(r) /\ q # NoRow /\ IsRow(q)
    BY <1>2, <1>3, <2>3, <2>4
  <2>6. DocumentID(r) = DocumentID(q) <=> Strings(r) = Strings(q)
    BY <2>4, <2>5, IDsTellRowsApart
  <2> QED
    BY <2>3, <2>4, <2>6
<1>4. messages \in Messages /\ IndInv => OneDocumentPerRow
  BY <1>3 DEF OneDocumentPerRow
<1> QED
  BY <1>4, MessagesStay, IndInvHolds, PTL

=============================================================================
