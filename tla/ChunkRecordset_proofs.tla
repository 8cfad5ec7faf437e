------------------------- MODULE ChunkRecordset_proofs -------------------------
(***************************************************************************)
(* Theorems about ChunkRecordset, for rows of any sizes, chunks of any size *)
(* and any number of queries and lost connections.                          *)
(***************************************************************************)
EXTENDS ChunkRecordset, SequenceTheorems, TLAPS

-----------------------------------------------------------------------------
(* The invariants.                                                          *)

DriverTypes ==
  /\ cpc \in {"idle", "drain", "wait", "check"}
  /\ query \in 0..MaxQueries /\ attempt \in 0..2
  /\ cpc # "idle" => query # 0 /\ attempt # 0
  /\ conn \in Conns /\ connected \in BOOLEAN /\ serial \in Nat
  /\ signal_returns \in [Serials -> {0} \cup Queries]
  /\ res \in [Queries -> Seq(Row)]
  /\ outcome \in [Queries -> {"none", "return", "error", "failed"}]
  /\ reran \in [Queries -> BOOLEAN] /\ answer \in [Queries -> 0..MaxRows]
BusTypes == calls \in Seq(Call) /\ inbox \in Seq(Msg)
DaemonTypes ==
  /\ dpc \in {"idle", "connect", "rows"} /\ numtries \in 0..1
  /\ dpc # "idle" => call \in Call
  /\ total \in 0..MaxRows /\ read \in 0..total
  /\ rows \in Seq(Row) /\ cursize \in Nat
  /\ executed \in [Queries -> Nat]

\* part is the rows of q that follow the first n.
Piece(part, q, n) ==
  part = [i \in 1..Len(part) |-> [query |-> q, row |-> n + i]]

\* What the daemon has read and not sent: the last rows, and their size.
Sent == read - Len(rows)
UnsentInv ==
  /\ dpc = "rows" => /\ Len(rows) <= read /\ Piece(rows, call.query, Sent)
                     /\ cursize = SizeUpTo[read] - SizeUpTo[Sent]
                     /\ cursize < ChunkSize
  /\ dpc # "rows" => rows = <<>> /\ cursize = 0

\* What has come is for the driver's connection and cut where it must be.
Sized(m) ==
  /\ IF m.kind = "chunk"
     THEN Size(m.rows) >= ChunkSize /\ Size(Front(m.rows)) < ChunkSize
     ELSE Size(m.rows) < ChunkSize
  /\ m.kind = "error" => m.rows = <<>>
InboxInv ==
  /\ \A i \in DOMAIN inbox : inbox[i].conn = conn /\ Sized(inbox[i])
  /\ ~connected => inbox = <<>>

\* Nothing but the query that waits is registered, under the last serial.
DriverInv ==
  /\ ~connected => conn < MaxDrops
  /\ serial <= query
  /\ cpc = "drain" => serial < query
  /\ cpc = "wait" => serial >= 1
  /\ \A s \in Serials :
       signal_returns[s] = IF cpc = "wait" /\ s = serial THEN query ELSE 0
  /\ \A q \in Queries : q > query => res[q] = <<>> /\ outcome[q] = "none" /\ ~reran[q]
  /\ cpc # "idle" /\ attempt = 1 => ~reran[query]
  /\ cpc \in {"drain", "wait"} /\ attempt = 1 => outcome[query] = "none"

\* The last call is the last of the queue, unless the daemon has taken it.
LastCall(x, c, n) == x.conn = c /\ x.serial = n
Pending == \E i \in DOMAIN calls : LastCall(calls[i], conn, serial)
Working == dpc # "idle" /\ LastCall(call, conn, serial)
Past(x, c, n) == x.conn < c \/ (x.conn = c /\ x.serial <= n)
CallsInv ==
  /\ \A i \in DOMAIN calls :
       /\ Past(calls[i], conn, serial)
       /\ LastCall(calls[i], conn, serial) =>
            i = Len(calls) /\ ~Working /\ (cpc = "wait" => calls[i].query = query)
  /\ dpc # "idle" => Past(call, conn, serial)
  /\ Working /\ cpc = "wait" => call.query = query

\* Of the call n on connection c for query q, the messages in s take the result
\* from row a to row z; pos[i] is where it is after the i-th.
Carries(m, c, n) == m.conn = c /\ m.serial = n /\ m.kind # "error"
Links(s, c, n, q, pos) ==
  /\ pos \in [0..Len(s) -> 0..MaxRows]
  /\ \A i \in 1..Len(s) :
       IF Carries(s[i], c, n)
       THEN /\ Piece(s[i].rows, q, pos[i - 1])
            /\ pos[i] = pos[i - 1] + Len(s[i].rows)
            /\ s[i].kind = "return" => s[i].total = pos[i]
       ELSE pos[i] = pos[i - 1]
Chain(s, c, n, q, a, z) ==
  \E pos : Links(s, c, n, q, pos) /\ pos[0] = a /\ pos[Len(s)] = z

\* Where the daemon goes on with the last call.
Stage(z) ==
  /\ Pending \/ (Working /\ dpc = "connect") => z = 0
  /\ Working /\ dpc = "rows" => z = Sent

\* The result of the query: k rows of a first run and j of this one.
Result(k, j) ==
  /\ res[query] = RowsOf(query, k) \o RowsOf(query, j)
  /\ k > 0 => reran[query] /\ attempt = 2
  /\ cpc = "drain" => j = 0
  /\ cpc = "check" /\ outcome[query] = "none" => j = 0
  /\ cpc = "check" /\ outcome[query] = "return" => j = answer[query]
  /\ cpc = "wait" /\ connected =>
       \E z \in 0..MaxRows : Chain(inbox, conn, serial, query, j, z) /\ Stage(z)
ResultInv == cpc # "idle" => \E k, j \in 0..MaxRows : Result(k, j)

\* How often the statement of a query may have begun by now; due[i] counts
\* those that have begun, the one that is to begin, and the first i calls.
Allowed(q) ==
  IF q > query THEN 0
  ELSE IF q = query /\ cpc # "idle"
       THEN (IF reran[q] THEN 1 ELSE 0)
            + (IF cpc = "wait" \/ (cpc = "check" /\ (attempt = 2 \/ outcome[q] # "none"))
               THEN 1 ELSE 0)
       ELSE IF reran[q] THEN 2 ELSE 1
Starting(q) == IF dpc = "connect" /\ call.query = q THEN 1 ELSE 0
Counts(s, q, due) ==
  /\ due \in [0..Len(s) -> Nat]
  /\ \A i \in 1..Len(s) : due[i - 1] + (IF s[i].query = q THEN 1 ELSE 0) <= due[i]
Within(s, q, a, z) ==
  \E due : Counts(s, q, due) /\ a <= due[0] /\ \A i \in 0..Len(s) : due[i] <= z
RunsInv == \A q \in Queries : Within(calls, q, executed[q] + Starting(q), Allowed(q))

DriverAll == DriverTypes /\ DriverInv
BusAll == BusTypes /\ InboxInv /\ CallsInv
DaemonAll == DaemonTypes /\ UnsentInv

-----------------------------------------------------------------------------
(* Rows that follow each other.                                             *)

LEMMA Limits ==
  /\ MaxRows \in Nat /\ MaxQueries \in Nat /\ MaxDrops \in Nat /\ ChunkSize \in Nat
  /\ ChunkSize >= 1 /\ Queries = 1..MaxQueries
  /\ \A n \in 0..MaxRows : SizeUpTo[n] \in Nat
  /\ \A n \in 1..MaxRows : SizeUpTo[n - 1] <= SizeUpTo[n]
  BY SizesAssumption, LimitsAssumption DEF Queries

LEMMA RowsOfRows ==
  ASSUME NEW q \in Queries, NEW n \in 0..MaxRows
  PROVE  RowsOf(q, n) \in Seq(Row) /\ Len(RowsOf(q, n)) = n
<1>1. n \in Nat
  BY Limits
<1>2. RowsOf(q, n) \in [1..n -> Row]
  BY Limits DEF RowsOf, Row
<1> QED BY <1>1, <1>2, IsASeq, LenProperties

LEMMA RowsAssociate ==
  ASSUME NEW s \in Seq(Row), NEW t \in Seq(Row), NEW u \in Seq(Row)
  PROVE  (s \o t) \o u = s \o (t \o u)
  BY ConcatAssociative

LEMMA PieceJoins ==
  ASSUME NEW q \in Queries, NEW k \in 0..MaxRows, NEW j \in 0..MaxRows,
         NEW part \in Seq(Row), Piece(part, q, j), j + Len(part) <= MaxRows
  PROVE  (RowsOf(q, k) \o RowsOf(q, j)) \o part
           = RowsOf(q, k) \o RowsOf(q, j + Len(part))
<1>1. PICK m \in Nat : m = Len(part)
  BY LenProperties
<1>2. j + m \in 0..MaxRows /\ j \in Nat
  BY <1>1, Limits
<1>3. /\ RowsOf(q, k) \in Seq(Row)
      /\ RowsOf(q, j) \in Seq(Row) /\ Len(RowsOf(q, j)) = j
      /\ RowsOf(q, j + m) \in Seq(Row) /\ Len(RowsOf(q, j + m)) = j + m
  BY <1>2, RowsOfRows
<1>4. RowsOf(q, j) \o part = RowsOf(q, j + m)
  <2> DEFINE s == RowsOf(q, j) \o part
             t == RowsOf(q, j + m)
  <2>1. s \in Seq(Row) /\ Len(s) = j + m
    BY <1>1, <1>3, ConcatProperties
  <2>2. \A i \in 1..j + m : s[i] = IF i <= j THEN RowsOf(q, j)[i] ELSE part[i - j]
    <3>1. \A i \in 1..Len(RowsOf(q, j)) + Len(part) :
            s[i] = IF i <= Len(RowsOf(q, j)) THEN RowsOf(q, j)[i]
                   ELSE part[i - Len(RowsOf(q, j))]
      BY <1>3, ConcatProperties
    <3> HIDE DEF s
    <3> QED BY <1>1, <1>3, <3>1
  <2>3. \A i \in 1..m : part[i] = [query |-> q, row |-> j + i]
    BY <1>1 DEF Piece
  <2>4. ASSUME NEW i \in 1..j + m PROVE s[i] = t[i]
    <3>1. t[i] = [query |-> q, row |-> i]
      BY DEF RowsOf
    <3>2. CASE i <= j
      <4>1. RowsOf(q, j)[i] = [query |-> q, row |-> i]
        BY <1>2, <3>2 DEF RowsOf
      <4> QED BY <2>2, <3>1, <3>2, <4>1
    <3>3. CASE ~(i <= j)
      <4>1. i - j \in 1..m /\ j + (i - j) = i
        BY <1>2, <3>3
      <4> QED BY <2>2, <2>3, <3>1, <3>3, <4>1
    <3> QED BY <3>2, <3>3
  <2> HIDE DEF s, t
  <2>5. t \in Seq(Row) /\ Len(t) = j + m
    BY <1>3 DEF t
  <2>6. s = t
    BY <2>1, <2>4, <2>5, SeqEqual
  <2> QED BY <2>6 DEF s, t
<1>5. RowsOf(q, k) \in Seq(Row) /\ RowsOf(q, j) \in Seq(Row)
  BY <1>3
<1>6. (RowsOf(q, k) \o RowsOf(q, j)) \o part = RowsOf(q, k) \o (RowsOf(q, j) \o part)
  BY <1>5, RowsAssociate
<1> QED BY <1>1, <1>4, <1>6

LEMMA PieceGrows ==
  ASSUME NEW q \in Queries, NEW n \in Nat, NEW part \in Seq(Row), Piece(part, q, n),
         n + (Len(part) + 1) <= MaxRows
  PROVE  LET x == [query |-> q, row |-> n + (Len(part) + 1)]
         IN /\ x \in Row /\ Append(part, x) \in Seq(Row)
            /\ Len(Append(part, x)) = Len(part) + 1
            /\ Piece(Append(part, x), q, n)
<1> DEFINE x == [query |-> q, row |-> n + (Len(part) + 1)]
<1>1. PICK m \in Nat : m = Len(part)
  BY LenProperties
<1>2. x \in Row
  BY <1>1, Limits DEF Row
<1> HIDE DEF x
<1>3. Append(part, x) \in Seq(Row) /\ Len(Append(part, x)) = m + 1
      /\ Append(part, x)[m + 1] = x /\ \A i \in 1..m : Append(part, x)[i] = part[i]
  BY <1>1, <1>2, AppendProperties
<1>4. \A i \in 1..m + 1 : Append(part, x)[i] = [query |-> q, row |-> n + i]
  <2> SUFFICES ASSUME NEW i \in 1..m + 1 PROVE Append(part, x)[i] = [query |-> q, row |-> n + i]
    OBVIOUS
  <2>1. CASE i = m + 1
    <3>1. x = [query |-> q, row |-> n + (m + 1)]
      BY <1>1 DEF x
    <3> QED BY <1>3, <2>1, <3>1
  <2>2. CASE i \in 1..m
    <3>1. part[i] = [query |-> q, row |-> n + i]
      BY <1>1, <2>2 DEF Piece
    <3> QED BY <1>3, <2>2, <3>1
  <2>3. i = m + 1 \/ i \in 1..m
    OBVIOUS
  <2> QED BY <2>1, <2>2, <2>3
<1>5. Append(part, x) \in [1..m + 1 -> Row]
  BY <1>3, LenProperties
<1>6. Append(part, x) = [i \in 1..m + 1 |-> [query |-> q, row |-> n + i]]
  BY <1>4, <1>5
<1>7. Piece(Append(part, x), q, n)
  BY <1>3, <1>6 DEF Piece
<1> QED BY <1>1, <1>2, <1>3, <1>7 DEF x

LEMMA PieceSize ==
  ASSUME NEW q \in Queries, NEW n \in Nat, NEW part \in Seq(Row), Piece(part, q, n),
         n + Len(part) <= MaxRows
  PROVE  Size(part) = SizeUpTo[n + Len(part)] - SizeUpTo[n]
<1>1. PICK m \in Nat : m = Len(part)
  BY LenProperties
<1>2. SizeUpTo[n] \in Nat /\ SizeUpTo[n + m] \in Nat
  BY <1>1, Limits
<1>3. CASE part = <<>>
  <2>1. m = 0
    BY <1>1, <1>3
  <2> QED BY <1>1, <1>2, <1>3, <2>1 DEF Size
<1>4. CASE part # <<>>
  <2>1. m >= 1
    BY <1>1, <1>4, EmptySeq
  <2>2. part[1] = [query |-> q, row |-> n + 1] /\ part[m] = [query |-> q, row |-> n + m]
    BY <1>1, <2>1 DEF Piece
  <2>3. part[1].row - 1 = n /\ part[m].row = n + m
    BY <2>2
  <2> QED BY <1>1, <1>4, <2>3 DEF Size
<1> QED BY <1>3, <1>4

LEMMA FrontOfAppend ==
  ASSUME NEW T, NEW s \in Seq(T), NEW x \in T
  PROVE  Front(Append(s, x)) = s
<1>1. PICK n \in Nat : n = Len(s)
  BY LenProperties
<1> DEFINE t == Append(s, x)
<1>2. t \in Seq(T) /\ Len(t) = n + 1 /\ \A i \in 1..n : t[i] = s[i]
  BY <1>1, AppendProperties
<1> HIDE DEF t
<1>3. Front(t) = SubSeq(t, 1, n)
  BY <1>1, <1>2 DEF Front
<1>4. SubSeq(t, 1, n) \in Seq(T) /\ Len(SubSeq(t, 1, n)) = n
      /\ \A i \in 1..n : SubSeq(t, 1, n)[i] = t[i]
  BY <1>2, SubSeqProperties
<1>5. SubSeq(t, 1, n) = s
  BY <1>1, <1>2, <1>4, SeqEqual
<1> QED BY <1>3, <1>5 DEF t

-----------------------------------------------------------------------------
(* Messages on their way.                                                   *)

LEMMA ChainNone ==
  ASSUME NEW c, NEW n, NEW q, NEW a \in 0..MaxRows
  PROVE  Chain(<<>>, c, n, q, a, a)
<1> DEFINE pos == [i \in 0..0 |-> a]
<1>1. Len(<<>>) = 0
  BY EmptySeq
<1>2. pos \in [0..0 -> 0..MaxRows] /\ pos[0] = a
  OBVIOUS
<1> HIDE DEF pos
<1>3. Links(<<>>, c, n, q, pos) /\ pos[Len(<<>>)] = a
  BY <1>1, <1>2 DEF Links
<1> QED BY <1>2, <1>3 DEF Chain

\* The first message is read.
LEMMA ChainRead ==
  ASSUME NEW s \in Seq(Msg), s # <<>>, NEW c, NEW n, NEW q, NEW a, NEW z,
         Chain(s, c, n, q, a, z)
  PROVE  LET m == Head(s)
         IN /\ ~Carries(m, c, n) => Chain(Tail(s), c, n, q, a, z)
            /\ Carries(m, c, n) =>
                 /\ Piece(m.rows, q, a) /\ a + Len(m.rows) \in 0..MaxRows
                 /\ m.kind = "return" => m.total = a + Len(m.rows)
                 /\ Chain(Tail(s), c, n, q, a + Len(m.rows), z)
<1>1. PICK pos : Links(s, c, n, q, pos) /\ pos[0] = a /\ pos[Len(s)] = z
  BY DEF Chain
<1>2. PICK l \in Nat : l = Len(s) /\ l >= 1
  BY EmptySeq, LenProperties
<1>3. /\ Tail(s) \in Seq(Msg) /\ Len(Tail(s)) = l - 1 /\ Head(s) = s[1]
      /\ \A i \in 1..l - 1 : Tail(s)[i] = s[i + 1]
  BY <1>2, HeadTailProperties
<1> DEFINE next == [i \in 0..l - 1 |-> pos[i + 1]]
<1>4. pos \in [0..l -> 0..MaxRows]
  BY <1>1, <1>2 DEF Links
<1>5. \A i \in 1..l :
        IF Carries(s[i], c, n)
        THEN /\ Piece(s[i].rows, q, pos[i - 1])
             /\ pos[i] = pos[i - 1] + Len(s[i].rows)
             /\ s[i].kind = "return" => s[i].total = pos[i]
        ELSE pos[i] = pos[i - 1]
  BY <1>1, <1>2 DEF Links
<1>6. next \in [0..l - 1 -> 0..MaxRows] /\ \A i \in 0..l - 1 : next[i] = pos[i + 1]
  BY <1>2, <1>4
<1> HIDE DEF next
<1>7. ASSUME NEW i \in 1..l - 1
      PROVE  IF Carries(Tail(s)[i], c, n)
             THEN /\ Piece(Tail(s)[i].rows, q, next[i - 1])
                  /\ next[i] = next[i - 1] + Len(Tail(s)[i].rows)
                  /\ Tail(s)[i].kind = "return" => Tail(s)[i].total = next[i]
             ELSE next[i] = next[i - 1]
  <2>1. i + 1 \in 1..l /\ (i + 1) - 1 = i
    OBVIOUS
  <2>2. Tail(s)[i] = s[i + 1] /\ next[i] = pos[i + 1] /\ next[i - 1] = pos[i]
    BY <1>3, <1>6
  <2> QED BY <1>5, <2>1, <2>2
<1>8. Links(Tail(s), c, n, q, next)
  BY <1>3, <1>6, <1>7 DEF Links
<1>9. next[0] = pos[1] /\ next[Len(Tail(s))] = z
  BY <1>1, <1>2, <1>3, <1>6
<1>10. Chain(Tail(s), c, n, q, pos[1], z)
  BY <1>8, <1>9 DEF Chain
<1>11. 1 \in 1..l /\ 1 - 1 = 0 /\ pos[1] \in 0..MaxRows
  BY <1>2, <1>4
<1>12. IF Carries(s[1], c, n)
       THEN /\ Piece(s[1].rows, q, a) /\ pos[1] = a + Len(s[1].rows)
            /\ s[1].kind = "return" => s[1].total = pos[1]
       ELSE pos[1] = a
  BY <1>1, <1>5, <1>11
<1> QED BY <1>3, <1>10, <1>11, <1>12

\* Another message comes.
LEMMA ChainComes ==
  ASSUME NEW s \in Seq(Msg), NEW m \in Msg, NEW c, NEW n, NEW q, NEW a, NEW z, NEW y \in 0..MaxRows,
         Chain(s, c, n, q, a, z),
         IF Carries(m, c, n)
         THEN /\ Piece(m.rows, q, z) /\ y = z + Len(m.rows)
              /\ m.kind = "return" => m.total = y
         ELSE y = z
  PROVE  Chain(Append(s, m), c, n, q, a, y)
<1>1. PICK pos : Links(s, c, n, q, pos) /\ pos[0] = a /\ pos[Len(s)] = z
  BY DEF Chain
<1>2. PICK l \in Nat : l = Len(s)
  BY LenProperties
<1> DEFINE t == Append(s, m)
<1>3. Len(t) = l + 1 /\ t[l + 1] = m /\ \A i \in 1..l : t[i] = s[i]
  BY <1>2, AppendProperties
<1> HIDE DEF t
<1> DEFINE next == [i \in 0..l + 1 |-> IF i = l + 1 THEN y ELSE pos[i]]
<1>4. pos \in [0..l -> 0..MaxRows]
  BY <1>1, <1>2 DEF Links
<1>5. \A i \in 1..l :
        IF Carries(s[i], c, n)
        THEN /\ Piece(s[i].rows, q, pos[i - 1])
             /\ pos[i] = pos[i - 1] + Len(s[i].rows)
             /\ s[i].kind = "return" => s[i].total = pos[i]
        ELSE pos[i] = pos[i - 1]
  BY <1>1, <1>2 DEF Links
<1>6. next \in [0..l + 1 -> 0..MaxRows] /\ next[l + 1] = y /\ \A i \in 0..l : next[i] = pos[i]
  BY <1>2, <1>4
<1> HIDE DEF next
<1>7. ASSUME NEW i \in 1..l + 1
      PROVE  IF Carries(t[i], c, n)
             THEN /\ Piece(t[i].rows, q, next[i - 1])
                  /\ next[i] = next[i - 1] + Len(t[i].rows)
                  /\ t[i].kind = "return" => t[i].total = next[i]
             ELSE next[i] = next[i - 1]
  <2>1. CASE i \in 1..l
    <3>1. t[i] = s[i] /\ next[i] = pos[i] /\ next[i - 1] = pos[i - 1]
      BY <1>3, <1>6, <2>1
    <3> QED BY <1>5, <2>1, <3>1
  <2>2. CASE i = l + 1
    <3>1. t[i] = m /\ next[i] = y /\ next[i - 1] = z
      BY <1>1, <1>2, <1>3, <1>6, <2>2
    <3> QED BY <3>1
  <2> QED BY <2>1, <2>2
<1>8. Links(t, c, n, q, next)
  BY <1>3, <1>6, <1>7 DEF Links
<1>9. next[0] = a /\ next[Len(t)] = y
  BY <1>1, <1>2, <1>3, <1>6
<1> QED BY <1>8, <1>9 DEF Chain, t

-----------------------------------------------------------------------------
(* Calls that count.                                                        *)

LEMMA WithinMore ==
  ASSUME NEW s, NEW q, NEW a \in Nat, NEW z \in Nat, NEW b \in Nat, NEW y \in Nat,
         Within(s, q, a, z), b <= a, z <= y, s \in Seq(Call)
  PROVE  Within(s, q, b, y)
<1>1. PICK due : Counts(s, q, due) /\ a <= due[0] /\ \A i \in 0..Len(s) : due[i] <= z
  BY DEF Within
<1>2. Len(s) \in Nat /\ due \in [0..Len(s) -> Nat]
  BY <1>1, LenProperties DEF Counts
<1>3. b <= due[0] /\ \A i \in 0..Len(s) : due[i] <= y
  BY <1>1, <1>2
<1> QED BY <1>1, <1>3 DEF Within

LEMMA WithinBounds ==
  ASSUME NEW s \in Seq(Call), NEW q, NEW a \in Nat, NEW z \in Nat, Within(s, q, a, z)
  PROVE  a <= z
<1>1. PICK due : Counts(s, q, due) /\ a <= due[0] /\ \A i \in 0..Len(s) : due[i] <= z
  BY DEF Within
<1>2. 0 \in 0..Len(s) /\ due[0] \in Nat
  BY <1>1, LenProperties DEF Counts
<1> QED BY <1>1, <1>2

LEMMA WithinNone ==
  ASSUME NEW q, NEW a \in Nat PROVE Within(<<>>, q, a, a)
<1> DEFINE due == [i \in 0..0 |-> a]
<1>1. Len(<<>>) = 0
  BY EmptySeq
<1>2. due \in [0..0 -> Nat] /\ due[0] = a
  OBVIOUS
<1> HIDE DEF due
<1>3. Counts(<<>>, q, due) /\ \A i \in 0..Len(<<>>) : due[i] <= a
  BY <1>1, <1>2 DEF Counts
<1> QED BY <1>2, <1>3 DEF Within

LEMMA WithinTaken ==
  ASSUME NEW s \in Seq(Call), s # <<>>, NEW q, NEW a \in Nat, NEW z \in Nat, Within(s, q, a, z)
  PROVE  Within(Tail(s), q, a + (IF Head(s).query = q THEN 1 ELSE 0), z)
<1>1. PICK due : Counts(s, q, due) /\ a <= due[0] /\ \A i \in 0..Len(s) : due[i] <= z
  BY DEF Within
<1>2. PICK l \in Nat : l = Len(s) /\ l >= 1
  BY EmptySeq, LenProperties
<1>3. /\ Len(Tail(s)) = l - 1 /\ Head(s) = s[1]
      /\ \A i \in 1..l - 1 : Tail(s)[i] = s[i + 1]
  BY <1>2, HeadTailProperties
<1> DEFINE next == [i \in 0..l - 1 |-> due[i + 1]]
<1>4. due \in [0..l -> Nat]
      /\ \A i \in 1..l : due[i - 1] + (IF s[i].query = q THEN 1 ELSE 0) <= due[i]
  BY <1>1, <1>2 DEF Counts
<1>5. next \in [0..l - 1 -> Nat] /\ \A i \in 0..l - 1 : next[i] = due[i + 1]
  BY <1>2, <1>4
<1> HIDE DEF next
<1>6. \A i \in 1..l - 1 :
        next[i - 1] + (IF Tail(s)[i].query = q THEN 1 ELSE 0) <= next[i]
  <2> SUFFICES ASSUME NEW i \in 1..l - 1
               PROVE next[i - 1] + (IF Tail(s)[i].query = q THEN 1 ELSE 0) <= next[i]
    OBVIOUS
  <2>1. i + 1 \in 1..l /\ (i + 1) - 1 = i
    OBVIOUS
  <2>2. Tail(s)[i] = s[i + 1] /\ next[i] = due[i + 1] /\ next[i - 1] = due[i]
    BY <1>3, <1>5
  <2> QED BY <1>4, <2>1, <2>2
<1>7. Counts(Tail(s), q, next)
  BY <1>3, <1>5, <1>6 DEF Counts
<1>8. a + (IF Head(s).query = q THEN 1 ELSE 0) <= next[0]
  <2>1. due[0] + (IF s[1].query = q THEN 1 ELSE 0) <= due[1] /\ next[0] = due[1]
        /\ due[0] \in Nat /\ due[1] \in Nat
    BY <1>2, <1>4, <1>5
  <2> QED BY <1>1, <1>3, <2>1
<1>9. \A i \in 0..Len(Tail(s)) : next[i] <= z
  BY <1>1, <1>2, <1>3, <1>5
<1> QED BY <1>7, <1>8, <1>9 DEF Within

LEMMA WithinCut ==
  ASSUME NEW s \in Seq(Call), NEW n \in 0..Len(s), NEW q, NEW a \in Nat, NEW z \in Nat,
         Within(s, q, a, z)
  PROVE  Within(SubSeq(s, 1, n), q, a, z)
<1>1. PICK due : Counts(s, q, due) /\ a <= due[0] /\ \A i \in 0..Len(s) : due[i] <= z
  BY DEF Within
<1>2. Len(s) \in Nat /\ n \in Nat /\ n <= Len(s)
  BY LenProperties
<1>3. Len(SubSeq(s, 1, n)) = n /\ \A i \in 1..n : SubSeq(s, 1, n)[i] = s[i]
  BY SubSeqProperties
<1> DEFINE next == [i \in 0..n |-> due[i]]
<1>4. due \in [0..Len(s) -> Nat]
      /\ \A i \in 1..Len(s) : due[i - 1] + (IF s[i].query = q THEN 1 ELSE 0) <= due[i]
  BY <1>1 DEF Counts
<1>5. next \in [0..n -> Nat] /\ \A i \in 0..n : next[i] = due[i]
  BY <1>2, <1>4
<1> HIDE DEF next
<1>6. \A i \in 1..n : next[i - 1] + (IF SubSeq(s, 1, n)[i].query = q THEN 1 ELSE 0) <= next[i]
  BY <1>2, <1>3, <1>4, <1>5
<1>7. Counts(SubSeq(s, 1, n), q, next)
  BY <1>3, <1>5, <1>6 DEF Counts
<1>8. a <= next[0] /\ \A i \in 0..n : next[i] <= z
  BY <1>1, <1>2, <1>5
<1> QED BY <1>3, <1>7, <1>8 DEF Within

LEMMA WithinSent ==
  ASSUME NEW s \in Seq(Call), NEW x \in Call, NEW q, NEW a \in Nat, NEW z \in Nat, NEW y \in Nat,
         Within(s, q, a, z), z + (IF x.query = q THEN 1 ELSE 0) <= y
  PROVE  Within(Append(s, x), q, a, y)
<1>1. PICK due : Counts(s, q, due) /\ a <= due[0] /\ \A i \in 0..Len(s) : due[i] <= z
  BY DEF Within
<1>2. PICK l \in Nat : l = Len(s)
  BY LenProperties
<1> DEFINE t == Append(s, x)
<1>3. Len(t) = l + 1 /\ t[l + 1] = x /\ \A i \in 1..l : t[i] = s[i]
  BY <1>2, AppendProperties
<1> HIDE DEF t
<1> DEFINE next == [i \in 0..l + 1 |-> IF i = l + 1 THEN y ELSE due[i]]
<1>4. due \in [0..l -> Nat] /\ (\A i \in 0..l : due[i] <= z)
      /\ \A i \in 1..l : due[i - 1] + (IF s[i].query = q THEN 1 ELSE 0) <= due[i]
  BY <1>1, <1>2 DEF Counts
<1>5. next \in [0..l + 1 -> Nat] /\ next[l + 1] = y /\ \A i \in 0..l : next[i] = due[i]
  BY <1>2, <1>4
<1> HIDE DEF next
<1>6. ASSUME NEW i \in 1..l + 1
      PROVE  next[i - 1] + (IF t[i].query = q THEN 1 ELSE 0) <= next[i]
  <2>1. CASE i \in 1..l
    <3>1. i \in 0..l /\ i - 1 \in 0..l
      BY <2>1
    <3>2. t[i] = s[i]
      BY <1>3, <2>1
    <3>3. next[i] = due[i] /\ next[i - 1] = due[i - 1]
      BY <1>5, <3>1
    <3> QED BY <1>4, <2>1, <3>2, <3>3
  <2>2. CASE i = l + 1
    <3>1. t[i] = x /\ next[i] = y /\ next[i - 1] = due[l] /\ due[l] \in Nat /\ due[l] <= z
      BY <1>3, <1>4, <1>5, <2>2
    <3> QED BY <3>1
  <2> QED BY <2>1, <2>2
<1>7. Counts(t, q, next)
  BY <1>3, <1>5, <1>6 DEF Counts
<1>8. a <= next[0]
  BY <1>1, <1>5
<1>9. \A i \in 0..Len(t) : next[i] <= y
  <2> SUFFICES ASSUME NEW i \in 0..l + 1 PROVE next[i] <= y
    BY <1>3
  <2>1. CASE i = l + 1
    BY <1>5, <2>1
  <2>2. CASE i \in 0..l
    BY <1>4, <1>5, <2>2
  <2> QED BY <2>1, <2>2
<1> QED BY <1>7, <1>8, <1>9 DEF Within, t

-----------------------------------------------------------------------------
(* The driver.                                                              *)

LEMMA DriverKeeps == ASSUME DriverAll, UNCHANGED driver PROVE DriverAll'
<1>1. UNCHANGED <<cpc, query, attempt, conn, connected, serial, signal_returns, res,
                  outcome, reran, answer>>
  BY DEF driver, link, result, history
<1>2. DriverTypes'
  BY <1>1 DEF DriverAll, DriverTypes
<1>3. DriverInv'
  BY <1>1 DEF DriverAll, DriverInv
<1> QED BY <1>2, <1>3 DEF DriverAll

LEMMA Busy ==
  ASSUME DriverAll, cpc # "idle"
  PROVE  query \in Queries /\ query \in Nat /\ query >= 1 /\ attempt \in 1..2
         /\ query <= MaxQueries
  BY Limits DEF DriverAll, DriverTypes

\* Rows are appended to the query that waits, and to no other.
LEMMA SortedOwn ==
  ASSUME DriverAll, NEW m \in Msg
  PROVE  Sorted(m) = IF m.kind = "chunk" /\ cpc = "wait" /\ m.serial = serial
                     THEN [res EXCEPT ![query] = @ \o m.rows] ELSE res
<1>1. m.serial \in Serials
  BY DEF Msg
<1>2. signal_returns[m.serial] = IF cpc = "wait" /\ m.serial = serial THEN query ELSE 0
  BY <1>1 DEF DriverAll, DriverInv
<1>3. cpc = "wait" => query # 0
  BY DEF DriverAll, DriverTypes
<1> QED BY <1>2, <1>3 DEF Sorted

LEMMA InboxHead ==
  ASSUME BusAll, inbox # <<>>
  PROVE  /\ Head(inbox) \in Msg /\ Head(inbox) = inbox[1] /\ Tail(inbox) \in Seq(Msg)
         /\ Head(inbox).conn = conn /\ Sized(Head(inbox))
         /\ Head(inbox).rows \in Seq(Row) /\ Head(inbox).total \in 0..MaxRows
         /\ Head(inbox).kind \in {"chunk", "return", "error"}
<1>1. inbox \in Seq(Msg)
  BY DEF BusAll, BusTypes
<1>2. Head(inbox) \in Msg /\ Tail(inbox) \in Seq(Msg) /\ Head(inbox) = inbox[1]
  BY <1>1, HeadTailProperties
<1>3. 1 \in DOMAIN inbox
  BY <1>1, EmptySeq, LenProperties
<1>4. inbox[1].conn = conn /\ Sized(inbox[1])
  BY <1>3 DEF BusAll, InboxInv
<1> QED BY <1>2, <1>4 DEF Msg

LEMMA ResultGrows ==
  ASSUME DriverAll, cpc # "idle", NEW part \in Seq(Row)
  PROVE  LET r == [res EXCEPT ![query] = @ \o part]
         IN /\ r \in [Queries -> Seq(Row)] /\ r[query] = res[query] \o part
            /\ \A q \in Queries : q # query => r[q] = res[q]
<1>1. res \in [Queries -> Seq(Row)] /\ query \in Queries
  BY Busy DEF DriverAll, DriverTypes
<1>2. res[query] \o part \in Seq(Row)
  BY <1>1, ConcatProperties
<1> QED BY <1>1, <1>2

LEMMA ErasedAll ==
  ASSUME DriverAll, cpc = "wait"
  PROVE  Erased \in [Serials -> {0} \cup Queries] /\ \A s \in Serials : Erased[s] = 0
<1>1. signal_returns \in [Serials -> {0} \cup Queries]
  BY DEF DriverAll, DriverTypes
<1>2. \A s \in Serials : s # serial => signal_returns[s] = 0
  BY DEF DriverAll, DriverInv
<1>3. \A s \in Serials : Erased[s] = IF s = serial THEN 0 ELSE signal_returns[s]
  BY <1>1 DEF Erased
<1>4. Erased \in [Serials -> {0} \cup Queries]
  BY <1>1 DEF Erased
<1> QED BY <1>2, <1>3, <1>4

\* send_and_wait returns.
LEMMA DriverReturned ==
  ASSUME DriverAll, cpc = "wait", NEW how \in {"return", "error", "failed"},
         NEW n \in 0..MaxRows, Returned(how, n),
         UNCHANGED <<query, attempt, conn, connected, serial, reran>>,
         res' \in [Queries -> Seq(Row)],
         \A q \in Queries : q # query => res'[q] = res[q]
  PROVE  DriverAll'
<1>1. /\ cpc' = "check" /\ signal_returns' = Erased
      /\ outcome' = [outcome EXCEPT ![query] = how] /\ answer' = [answer EXCEPT ![query] = n]
  BY DEF Returned
<1>2. query \in Queries /\ query # 0 /\ attempt # 0
  BY Busy
<1>3. signal_returns' \in [Serials -> {0} \cup Queries] /\ \A s \in Serials : signal_returns'[s] = 0
  BY <1>1, ErasedAll
<1>4. outcome' \in [Queries -> {"none", "return", "error", "failed"}]
      /\ \A q \in Queries : q # query => outcome'[q] = outcome[q]
  BY <1>1 DEF DriverAll, DriverTypes
<1>5. answer' \in [Queries -> 0..MaxRows]
  BY <1>1 DEF DriverAll, DriverTypes
<1>6. DriverTypes'
  BY <1>1, <1>2, <1>3, <1>4, <1>5 DEF DriverAll, DriverTypes
<1>7. \A q \in Queries : q > query => q # query
  BY <1>2, Limits
<1>8. DriverInv'
  BY <1>1, <1>3, <1>4, <1>7 DEF DriverAll, DriverInv
<1> QED BY <1>6, <1>8 DEF DriverAll

LEMMA DriverSend == ASSUME DriverAll, Send PROVE DriverAll' /\ serial' \in Serials /\ serial' = serial + 1
<1>1. /\ cpc = "drain" /\ serial' = serial + 1 /\ cpc' = "wait"
      /\ signal_returns' = [signal_returns EXCEPT ![serial'] = query]
      /\ UNCHANGED <<query, attempt, conn, connected, res, outcome, reran, answer>>
  BY DEF Send, history
<1>2. query \in Queries /\ query \in Nat /\ query <= MaxQueries /\ query # 0 /\ attempt # 0
  BY <1>1, Busy
<1>3. serial \in Nat /\ serial < query
  BY <1>1 DEF DriverAll, DriverTypes, DriverInv
<1>4. serial' \in Serials /\ serial' \in Nat /\ serial' >= 1 /\ serial' <= query
  BY <1>1, <1>2, <1>3, Limits DEF Serials
<1>5. \A s \in Serials : signal_returns[s] = 0
  BY <1>1 DEF DriverAll, DriverInv
<1>6. signal_returns' \in [Serials -> {0} \cup Queries]
      /\ \A s \in Serials : signal_returns'[s] = IF s = serial' THEN query ELSE 0
  BY <1>1, <1>2, <1>5 DEF DriverAll, DriverTypes
<1>7. DriverTypes'
  BY <1>1, <1>2, <1>4, <1>6 DEF DriverAll, DriverTypes
<1>8. DriverInv'
  BY <1>1, <1>4, <1>6 DEF DriverAll, DriverInv
<1> QED BY <1>1, <1>4, <1>7, <1>8 DEF DriverAll

LEMMA DriverReconnect == ASSUME DriverAll, Reconnect PROVE DriverAll'
<1>1. /\ cpc = "check" /\ ~connected /\ attempt = 1 /\ attempt' = 2
      /\ conn' = conn + 1 /\ connected' = TRUE /\ serial' = 0 /\ cpc' = "drain"
      /\ reran' = [reran EXCEPT ![query] = outcome[query] # "none"]
      /\ UNCHANGED <<query, signal_returns, res, outcome, answer>>
  BY DEF Reconnect, result
<1>2. query \in Queries /\ query \in Nat /\ query >= 1
  BY <1>1, Busy
<1>3. conn' \in Conns
  BY <1>1, Limits DEF DriverAll, DriverTypes, DriverInv, Conns
<1>4. reran \in [Queries -> BOOLEAN]
  BY DEF DriverAll, DriverTypes
<1>5. reran' \in [Queries -> BOOLEAN] /\ \A q \in Queries : q # query => reran'[q] = reran[q]
  <2> DEFINE again == outcome[query] # "none"
  <2>1. again \in BOOLEAN
    OBVIOUS
  <2>2. reran' = [reran EXCEPT ![query] = again]
    BY <1>1
  <2> HIDE DEF again
  <2> QED BY <1>4, <2>1, <2>2
<1>6. DriverTypes'
  BY <1>1, <1>2, <1>3, <1>5 DEF DriverAll, DriverTypes
<1>7. \A q \in Queries : q > query => q # query
  BY <1>2, Limits
<1>8. DriverInv'
  BY <1>1, <1>2, <1>5, <1>7 DEF DriverAll, DriverInv
<1> QED BY <1>6, <1>8 DEF DriverAll

LEMMA DriverRunQuery == ASSUME DriverAll, RunQuery PROVE DriverAll'
<1>1. /\ cpc = "idle" /\ query < MaxQueries /\ query' = query + 1 /\ attempt' = 1
      /\ cpc' \in {"drain", "check"}
      /\ UNCHANGED <<conn, connected, serial, signal_returns, res, outcome, reran, answer>>
  BY DEF RunQuery, link, result, history
<1>2. query \in Nat /\ query' \in 0..MaxQueries /\ query' # 0 /\ query' \in Queries
  BY <1>1, Limits DEF DriverAll, DriverTypes
<1>3. DriverTypes'
  BY <1>1, <1>2 DEF DriverAll, DriverTypes
<1>4. serial \in Nat /\ serial <= query
  BY DEF DriverAll, DriverTypes, DriverInv
<1>5. \A q \in Queries : q > query' => q > query
  BY <1>1, <1>2, Limits
<1>6. query' > query
  BY <1>1, <1>2
<1>7. DriverInv'
  BY <1>1, <1>2, <1>4, <1>5, <1>6 DEF DriverAll, DriverInv
<1> QED BY <1>3, <1>7 DEF DriverAll

LEMMA DriverReceive ==
  ASSUME DriverAll, BusAll, Receive
  PROVE  /\ DriverAll' /\ UNCHANGED <<query, attempt, conn, connected, serial, reran>>
         /\ res' = IF Head(inbox).serial = serial
                   THEN [res EXCEPT ![query] = @ \o Head(inbox).rows] ELSE res
<1> DEFINE m == Head(inbox)
<1>1. /\ cpc = "wait" /\ connected /\ inbox # <<>> /\ inbox' = Tail(inbox)
      /\ UNCHANGED <<query, attempt, conn, connected, serial, reran>>
      /\ IF m.kind # "chunk" /\ m.serial = serial
         THEN /\ Returned(m.kind, m.total)
              /\ res' = [res EXCEPT ![query] = @ \o m.rows]
         ELSE /\ res' = Sorted(m)
              /\ UNCHANGED <<cpc, signal_returns, outcome, answer>>
  BY DEF Receive, link
<1>2. m \in Msg /\ m.rows \in Seq(Row) /\ m.total \in 0..MaxRows
      /\ m.kind \in {"chunk", "return", "error"}
  BY <1>1, InboxHead
<1> HIDE DEF m
<1>3. Sorted(m) = IF m.kind = "chunk" /\ m.serial = serial
                  THEN [res EXCEPT ![query] = @ \o m.rows] ELSE res
  BY <1>1, <1>2, SortedOwn
<1>4. res' = IF m.serial = serial THEN [res EXCEPT ![query] = @ \o m.rows] ELSE res
  BY <1>1, <1>3
<1>5. query \in Queries /\ query \in Nat /\ res \in [Queries -> Seq(Row)]
  BY <1>1, Busy DEF DriverAll, DriverTypes
<1>6. res' \in [Queries -> Seq(Row)] /\ \A q \in Queries : q # query => res'[q] = res[q]
  BY <1>1, <1>2, <1>4, <1>5, ResultGrows
<1>7. CASE m.kind # "chunk" /\ m.serial = serial
  <2>1. DriverAll'
    BY <1>1, <1>2, <1>6, <1>7, DriverReturned
  <2> QED BY <1>1, <1>4, <2>1 DEF m
<1>8. CASE ~(m.kind # "chunk" /\ m.serial = serial)
  <2>1. DriverTypes'
    BY <1>1, <1>6, <1>8 DEF DriverAll, DriverTypes
  <2>2. \A q \in Queries : q > query => q # query
    BY <1>5, Limits
  <2>3. DriverInv'
    BY <1>1, <1>6, <1>8, <2>2 DEF DriverAll, DriverInv
  <2> QED BY <1>1, <1>4, <2>1, <2>3 DEF DriverAll, m
<1> QED BY <1>7, <1>8

LEMMA DriverDrain == ASSUME DriverAll, BusAll, Drain PROVE DriverAll' /\ UNCHANGED driver
<1>1. /\ cpc = "drain" /\ inbox # <<>> /\ res' = Sorted(Head(inbox))
      /\ UNCHANGED <<cpc, query, attempt, link, signal_returns, history>>
  BY DEF Drain
<1>2. Sorted(Head(inbox)) = res
  BY <1>1, InboxHead, SortedOwn
<1>3. UNCHANGED driver
  BY <1>1, <1>2 DEF driver, result
<1> QED BY <1>3, DriverKeeps

LEMMA DriverFifty ==
  ASSUME DriverAll, Fifty
  PROVE  DriverAll' /\ UNCHANGED <<query, attempt, conn, connected, serial, res, reran>>
<1>1. /\ cpc = "wait" /\ Returned("failed", 0)
      /\ UNCHANGED <<query, attempt, conn, connected, serial, res, reran>>
  BY DEF Fifty, link
<1>2. 0 \in 0..MaxRows /\ res' \in [Queries -> Seq(Row)]
      /\ \A q \in Queries : q # query => res'[q] = res[q]
  BY <1>1, Limits DEF DriverAll, DriverTypes
<1> QED BY <1>1, <1>2, DriverReturned

LEMMA DriverDone == ASSUME DriverAll, Done PROVE DriverAll'
<1>1. /\ cpc = "check" /\ cpc' = "idle"
      /\ UNCHANGED <<query, attempt, conn, connected, serial, signal_returns, res, outcome,
                     reran, answer>>
  BY DEF Done, link, result, history
<1>2. DriverTypes'
  BY <1>1 DEF DriverAll, DriverTypes
<1>3. DriverInv'
  BY <1>1 DEF DriverAll, DriverInv
<1> QED BY <1>2, <1>3 DEF DriverAll

LEMMA DriverDrop == ASSUME DriverAll, Drop PROVE DriverAll'
<1>1. /\ conn < MaxDrops /\ connected' = FALSE
      /\ UNCHANGED <<cpc, query, attempt, conn, serial, signal_returns, res, outcome,
                     reran, answer>>
  BY DEF Drop, result, history
<1>2. DriverTypes'
  BY <1>1 DEF DriverAll, DriverTypes
<1>3. DriverInv'
  BY <1>1 DEF DriverAll, DriverInv
<1> QED BY <1>2, <1>3 DEF DriverAll

\* The daemon's steps, and a step that changes nothing.
Apart == Daemon \/ UNCHANGED vars

LEMMA ApartKeeps == ASSUME Apart PROVE UNCHANGED driver
<1>1. CASE Daemon
  BY <1>1 DEF Daemon, Take, Refuse, ConnectAgain, Select, ReadRow, Fail, Reply
<1>2. CASE UNCHANGED vars
  BY <1>2 DEF vars
<1> QED BY <1>1, <1>2 DEF Apart

LEMMA Cases ==
  ASSUME [Next]_vars
  PROVE  \/ RunQuery \/ Drain \/ Send \/ Receive \/ Fifty \/ Reconnect \/ Done
         \/ Drop \/ Apart
  BY DEF Next, Driver, Rest, Apart

LEMMA DriverStep == ASSUME DriverAll, BusAll, [Next]_vars PROVE DriverAll'
<1>1. CASE Apart
  BY <1>1, ApartKeeps, DriverKeeps
<1> QED BY <1>1, Cases, DriverRunQuery, DriverDrain, DriverSend, DriverReceive, DriverFifty,
           DriverReconnect, DriverDone, DriverDrop

-----------------------------------------------------------------------------
(* The daemon.                                                              *)

LEMMA DaemonKeeps == ASSUME DaemonAll, UNCHANGED daemon PROVE DaemonAll'
<1>1. UNCHANGED <<dpc, call, numtries, total, read, rows, cursize, executed>>
  BY DEF daemon
<1>2. DaemonTypes'
  BY <1>1 DEF DaemonAll, DaemonTypes
<1>3. UnsentInv'
  BY <1>1 DEF DaemonAll, UnsentInv, Sent
<1> QED BY <1>2, <1>3 DEF DaemonAll

LEMMA AtWork ==
  ASSUME DaemonAll, dpc # "idle"
  PROVE  /\ call \in Call /\ call.conn \in Conns /\ call.serial \in Serials
         /\ call.query \in Queries /\ read \in 0..MaxRows /\ read \in Nat
         /\ rows \in Seq(Row) /\ Len(rows) \in Nat
<1>1. call \in Call /\ total \in 0..MaxRows /\ read \in 0..total /\ rows \in Seq(Row)
  BY DEF DaemonAll, DaemonTypes
<1> QED BY <1>1, Limits, LenProperties DEF Call

LEMMA MessageTyped ==
  ASSUME DaemonAll, dpc # "idle", NEW kind \in {"chunk", "return", "error"},
         NEW part \in Seq(Row)
  PROVE  LET m == Message(kind, part)
         IN /\ m \in Msg /\ m.conn = call.conn /\ m.serial = call.serial
            /\ m.kind = kind /\ m.rows = part /\ m.total = read
  BY AtWork DEF Message, Msg

\* What is kept for the next signal, or the reply.
LEMMA Kept ==
  ASSUME DaemonAll, dpc = "rows"
  PROVE  /\ Sent \in Nat /\ Sent + Len(rows) = read /\ Piece(rows, call.query, Sent)
         /\ Size(rows) = cursize /\ cursize \in Nat /\ cursize < ChunkSize
<1>1. read \in 0..MaxRows /\ read \in Nat /\ call.query \in Queries
      /\ rows \in Seq(Row) /\ Len(rows) \in Nat
  BY AtWork
<1>2. Len(rows) <= read /\ Piece(rows, call.query, Sent) /\ cursize < ChunkSize
      /\ cursize = SizeUpTo[read] - SizeUpTo[Sent] /\ cursize \in Nat
  BY DEF DaemonAll, UnsentInv, DaemonTypes
<1>3. Sent \in Nat /\ Sent + Len(rows) = read
  BY <1>1, <1>2 DEF Sent
<1>4. Size(rows) = SizeUpTo[Sent + Len(rows)] - SizeUpTo[Sent]
  BY <1>1, <1>2, <1>3, Limits, PieceSize
<1> QED BY <1>2, <1>3, <1>4

LEMMA RowRead ==
  ASSUME DaemonAll, dpc = "rows", read < total
  PROVE  LET part == Append(rows, NextRow)
         IN /\ part \in Seq(Row) /\ Len(part) = Len(rows) + 1
            /\ Piece(part, call.query, Sent) /\ Sent + Len(part) = read + 1
            /\ Size(part) = cursize + RowSize(read + 1) /\ Front(part) = rows
            /\ Size(part) = SizeUpTo[read + 1] - SizeUpTo[Sent] /\ Size(part) \in Nat
            /\ read + 1 \in 0..total /\ read + 1 \in 0..MaxRows
<1> DEFINE part == Append(rows, NextRow)
<1>1. call.query \in Queries /\ rows \in Seq(Row) /\ Len(rows) \in Nat /\ read \in Nat
      /\ read \in 0..MaxRows
  BY AtWork
<1>2. PICK a \in Nat : a = Sent
  BY Kept
<1>3. a + Len(rows) = read /\ Piece(rows, call.query, a) /\ Size(rows) = cursize
      /\ cursize \in Nat
  BY <1>2, Kept
<1>4. read + 1 \in 0..total /\ read + 1 \in 0..MaxRows /\ read + 1 \in 1..MaxRows
  BY <1>1, Limits DEF DaemonAll, DaemonTypes
<1>5. NextRow = [query |-> call.query, row |-> a + (Len(rows) + 1)]
  <2>1. a + (Len(rows) + 1) = read + 1
    BY <1>1, <1>3
  <2> QED BY <2>1 DEF NextRow
<1>6. a + (Len(rows) + 1) <= MaxRows
  BY <1>1, <1>3, <1>4, Limits
<1>7. /\ NextRow \in Row /\ part \in Seq(Row) /\ Len(part) = Len(rows) + 1
      /\ Piece(part, call.query, a)
  BY <1>1, <1>3, <1>5, <1>6, PieceGrows
<1>8. Front(part) = rows
  BY <1>1, <1>7, FrontOfAppend
<1> HIDE DEF part
<1>9. a + Len(part) = read + 1 /\ a + Len(part) <= MaxRows
  BY <1>1, <1>3, <1>6, <1>7
<1>10. Size(part) = SizeUpTo[read + 1] - SizeUpTo[a]
  BY <1>1, <1>7, <1>9, PieceSize
<1>11. cursize = SizeUpTo[read] - SizeUpTo[a]
  BY <1>2 DEF DaemonAll, UnsentInv
<1>12. /\ SizeUpTo[read] \in Nat /\ SizeUpTo[a] \in Nat /\ SizeUpTo[read + 1] \in Nat
       /\ SizeUpTo[read] <= SizeUpTo[read + 1]
  <2>1. a \in 0..MaxRows
    BY <1>1, <1>3, Limits
  <2>2. (read + 1) - 1 = read
    BY <1>1
  <2>3. SizeUpTo[(read + 1) - 1] <= SizeUpTo[read + 1]
    BY <1>4, Limits
  <2> QED BY <1>1, <1>4, <2>1, <2>2, <2>3, Limits
<1>13. RowSize(read + 1) = SizeUpTo[read + 1] - SizeUpTo[read]
  <2>1. (read + 1) - 1 = read
    BY <1>1
  <2> QED BY <2>1 DEF RowSize
<1>14. Size(part) = cursize + RowSize(read + 1) /\ Size(part) \in Nat
  BY <1>3, <1>10, <1>11, <1>12, <1>13
<1> QED BY <1>2, <1>4, <1>7, <1>8, <1>9, <1>10, <1>14 DEF part

LEMMA EmptyRows == <<>> \in Seq(Row) /\ Len(<<>>) = 0 /\ Size(<<>>) = 0
  BY EmptySeq DEF Size

LEMMA DaemonStep == ASSUME DaemonAll, BusAll, [Next]_vars PROVE DaemonAll'
<1>0. /\ total \in 0..MaxRows /\ read \in 0..total /\ rows \in Seq(Row) /\ cursize \in Nat
      /\ numtries \in 0..1 /\ executed \in [Queries -> Nat]
  BY DEF DaemonAll, DaemonTypes
<1>1. CASE UNCHANGED daemon
  BY <1>1, DaemonKeeps
<1>2. CASE Take
  <2>1. /\ dpc = "idle" /\ calls # <<>> /\ call' = Head(calls) /\ dpc' = "connect"
        /\ numtries' = 0 /\ UNCHANGED <<total, read, rows, cursize, executed>>
    BY <1>2 DEF Take
  <2>2. call' \in Call
    BY <2>1, HeadTailProperties DEF BusAll, BusTypes
  <2>3. DaemonTypes'
    BY <1>0, <2>1, <2>2 DEF DaemonTypes
  <2>4. UnsentInv'
    BY <2>1 DEF DaemonAll, UnsentInv
  <2> QED BY <2>3, <2>4 DEF DaemonAll
<1>3. CASE Refuse \/ Fail \/ Reply
  <2>1. /\ dpc' = "idle" /\ rows' = <<>> /\ cursize' = 0
        /\ UNCHANGED <<call, numtries, total, read, executed>>
    BY <1>3 DEF Refuse, Fail, Reply, Throw
  <2>2. DaemonTypes'
    BY <1>0, <2>1, EmptyRows DEF DaemonTypes
  <2>3. UnsentInv'
    BY <2>1 DEF UnsentInv
  <2> QED BY <2>2, <2>3 DEF DaemonAll
<1>4. CASE ConnectAgain
  <2>1. numtries' = 1 /\ UNCHANGED <<dpc, call, total, read, rows, cursize, executed>>
    BY <1>4 DEF ConnectAgain
  <2>2. DaemonTypes'
    BY <2>1 DEF DaemonAll, DaemonTypes
  <2>3. UnsentInv'
    BY <2>1 DEF DaemonAll, UnsentInv, Sent
  <2> QED BY <2>2, <2>3 DEF DaemonAll
<1>5. CASE Select
  <2>1. /\ dpc = "connect" /\ dpc' = "rows" /\ total' \in 0..MaxRows /\ read' = 0
        /\ rows' = <<>> /\ cursize' = 0
        /\ executed' = [executed EXCEPT ![call.query] = @ + 1]
        /\ UNCHANGED <<call, numtries>>
    BY <1>5 DEF Select
  <2>2. call' \in Call
    BY <2>1, AtWork
  <2>3. executed' \in [Queries -> Nat]
    BY <1>0, <2>1, AtWork
  <2>4. read' \in 0..total'
    BY <2>1, Limits
  <2>5. DaemonTypes'
    BY <1>0, <2>1, <2>2, <2>3, <2>4, EmptyRows DEF DaemonTypes
  <2>6. Sent' = 0 /\ 0 \in 0..MaxRows
    <3>1. read' = 0 /\ Len(rows') = 0
      BY <2>1, EmptyRows
    <3> QED BY <3>1, Limits DEF Sent
  <2>7. Piece(rows', call'.query, Sent')
    <3>1. <<>> = [i \in 1..0 |-> [query |-> call'.query, row |-> Sent' + i]]
      OBVIOUS
    <3> QED BY <2>1, <3>1, EmptyRows DEF Piece
  <2>8. UnsentInv'
    BY <2>1, <2>6, <2>7, EmptyRows, Limits DEF UnsentInv
  <2> QED BY <2>5, <2>8 DEF DaemonAll
<1>6. CASE ReadRow
  <2> DEFINE part == Append(rows, NextRow)
  <2>1. /\ dpc = "rows" /\ read < total /\ read' = read + 1
        /\ IF cursize + RowSize(read + 1) >= ChunkSize
           THEN rows' = <<>> /\ cursize' = 0
           ELSE rows' = part /\ cursize' = cursize + RowSize(read + 1)
        /\ UNCHANGED <<dpc, call, numtries, total, executed>>
    BY <1>6 DEF ReadRow, Full
  <2>2. PICK a \in Nat : a = Sent
    BY <2>1, Kept
  <2>3. /\ part \in Seq(Row) /\ Len(part) = Len(rows) + 1
        /\ Piece(part, call.query, a) /\ a + Len(part) = read + 1
        /\ Size(part) = cursize + RowSize(read + 1)
        /\ Size(part) = SizeUpTo[read + 1] - SizeUpTo[a] /\ Size(part) \in Nat
        /\ read + 1 \in 0..total /\ read + 1 \in 0..MaxRows
    BY <2>1, <2>2, RowRead
  <2>4. Len(rows) \in Nat /\ read \in Nat /\ call \in Call
    BY <2>1, AtWork
  <2> HIDE DEF part
  <2>5. CASE rows' = <<>> /\ cursize' = 0
    <3>1. DaemonTypes'
      BY <1>0, <2>1, <2>3, <2>4, <2>5, EmptyRows DEF DaemonTypes
    <3>2. Sent' = read' /\ SizeUpTo[read'] \in Nat /\ Len(rows') <= read'
      BY <2>1, <2>3, <2>4, <2>5, EmptyRows, Limits DEF Sent
    <3>3. Piece(rows', call'.query, Sent')
      <4>1. <<>> = [i \in 1..0 |-> [query |-> call'.query, row |-> Sent' + i]]
        OBVIOUS
      <4> QED BY <2>5, <4>1, EmptyRows DEF Piece
    <3>4. UnsentInv'
      BY <2>1, <2>5, <3>2, <3>3, Limits DEF UnsentInv
    <3> QED BY <3>1, <3>4 DEF DaemonAll
  <2>6. CASE rows' = part /\ cursize' = Size(part) /\ Size(part) < ChunkSize
    <3>1. DaemonTypes'
      BY <1>0, <2>1, <2>3, <2>4, <2>6 DEF DaemonTypes
    <3>2. Sent' = a /\ Len(rows') <= read'
      BY <2>1, <2>3, <2>4, <2>6 DEF Sent
    <3>3. UnsentInv'
      BY <2>1, <2>3, <2>6, <3>2 DEF UnsentInv
    <3> QED BY <3>1, <3>3 DEF DaemonAll
  <2>7. ~(Size(part) >= ChunkSize) => Size(part) < ChunkSize
    BY <2>3, Limits
  <2> QED BY <2>1, <2>3, <2>5, <2>6, <2>7
<1> QED
  <2>1. CASE RunQuery \/ Drain \/ Send \/ Receive \/ Fifty \/ Reconnect \/ Done \/ Drop
    <3>1. UNCHANGED daemon
      BY <2>1 DEF RunQuery, Drain, Send, Receive, Fifty, Reconnect, Done, Drop
    <3> QED BY <1>1, <3>1
  <2>2. CASE UNCHANGED vars
    BY <1>1, <2>2 DEF vars
  <2>3. CASE Daemon
    BY <1>2, <1>3, <1>4, <1>5, <1>6, <2>3 DEF Daemon
  <2> QED BY <2>1, <2>2, <2>3, Cases DEF Apart

\* What the daemon sends to the driver, and where it stands then.
LEMMA Sending ==
  ASSUME DaemonAll, Daemon
  PROVE  \/ UNCHANGED inbox
         \/ /\ dpc # "idle"
            /\ \E m \in Msg : inbox' = Deliver(m) /\ Sized(m) /\ m.conn = call.conn
                              /\ m.serial = call.serial
<1>1. CASE Take \/ ConnectAgain \/ Select
  BY <1>1 DEF Take, ConnectAgain, Select
<1>2. CASE Refuse \/ Fail
  <2> DEFINE m == Message("error", <<>>)
  <2>1. dpc # "idle" /\ inbox' = Deliver(m)
    BY <1>2 DEF Refuse, Fail, Throw
  <2>2. m \in Msg /\ m.conn = call.conn /\ m.serial = call.serial
        /\ m.kind = "error" /\ m.rows = <<>>
    BY <2>1, EmptyRows, MessageTyped
  <2> HIDE DEF m
  <2>3. Sized(m)
    BY <2>2, EmptyRows, Limits DEF Sized
  <2> QED BY <2>1, <2>2, <2>3
<1>3. CASE Reply
  <2> DEFINE m == Message("return", rows)
  <2>1. dpc = "rows" /\ inbox' = Deliver(m)
    BY <1>3 DEF Reply
  <2>2. m \in Msg /\ m.conn = call.conn /\ m.serial = call.serial
        /\ m.kind = "return" /\ m.rows = rows
    BY <2>1, AtWork, MessageTyped
  <2> HIDE DEF m
  <2>3. Sized(m)
    BY <2>1, <2>2, Kept DEF Sized
  <2> QED BY <2>1, <2>2, <2>3
<1>4. CASE ReadRow /\ inbox' # inbox
  <2> DEFINE part == Append(rows, NextRow)
             m == Message("chunk", part)
  <2>1. dpc = "rows" /\ read < total /\ cursize + RowSize(read + 1) >= ChunkSize
        /\ inbox' = Deliver(m)
    BY <1>4 DEF ReadRow, Full
  <2>2. part \in Seq(Row) /\ Size(part) = cursize + RowSize(read + 1) /\ Front(part) = rows
    BY <2>1, RowRead
  <2>3. m \in Msg /\ m.conn = call.conn /\ m.serial = call.serial
        /\ m.kind = "chunk" /\ m.rows = part
    BY <2>1, <2>2, MessageTyped
  <2> HIDE DEF m, part
  <2>4. Sized(m)
    BY <2>1, <2>2, <2>3, Kept DEF Sized
  <2> QED BY <2>1, <2>3, <2>4
<1> QED BY <1>1, <1>2, <1>3, <1>4 DEF Daemon

-----------------------------------------------------------------------------
(* The bus.                                                                 *)

LEMMA InboxKeeps ==
  ASSUME BusAll, UNCHANGED <<inbox, conn>>, connected => connected'
  PROVE  inbox' \in Seq(Msg) /\ InboxInv'
  BY DEF BusAll, BusTypes, InboxInv

LEMMA InboxTaken ==
  ASSUME BusAll, inbox # <<>>, inbox' = Tail(inbox), UNCHANGED <<conn, connected>>
  PROVE  inbox' \in Seq(Msg) /\ InboxInv'
<1>1. inbox \in Seq(Msg) /\ DOMAIN inbox = 1..Len(inbox) /\ Len(inbox) \in Nat
  BY LenProperties DEF BusAll, BusTypes
<1>2. /\ inbox' \in Seq(Msg) /\ Len(inbox') = Len(inbox) - 1
      /\ \A i \in 1..Len(inbox') : inbox'[i] = inbox[i + 1]
  BY <1>1, HeadTailProperties
<1>3. DOMAIN inbox' = 1..Len(inbox')
  BY <1>2, LenProperties
<1>4. \A i \in DOMAIN inbox' : inbox'[i].conn = conn' /\ Sized(inbox'[i])
  <2> SUFFICES ASSUME NEW i \in DOMAIN inbox' PROVE inbox'[i].conn = conn /\ Sized(inbox'[i])
    OBVIOUS
  <2>1. i + 1 \in DOMAIN inbox /\ inbox'[i] = inbox[i + 1]
    BY <1>1, <1>2, <1>3
  <2> QED BY <2>1 DEF BusAll, InboxInv
<1>5. connected
  BY DEF BusAll, InboxInv
<1> QED BY <1>2, <1>4, <1>5 DEF InboxInv

LEMMA InboxGrows ==
  ASSUME BusAll, NEW m \in Msg, Sized(m), inbox' = Deliver(m), UNCHANGED <<conn, connected>>
  PROVE  inbox' \in Seq(Msg) /\ InboxInv'
<1>1. CASE inbox' = inbox
  BY <1>1, InboxKeeps
<1>2. CASE connected /\ m.conn = conn /\ inbox' = Append(inbox, m)
  <2>1. inbox \in Seq(Msg) /\ DOMAIN inbox = 1..Len(inbox) /\ Len(inbox) \in Nat
    BY LenProperties DEF BusAll, BusTypes
  <2>2. /\ inbox' \in Seq(Msg) /\ Len(inbox') = Len(inbox) + 1
        /\ inbox'[Len(inbox) + 1] = m /\ \A i \in 1..Len(inbox) : inbox'[i] = inbox[i]
    BY <1>2, <2>1, AppendProperties
  <2>3. DOMAIN inbox' = 1..Len(inbox')
    BY <2>2, LenProperties
  <2>4. \A i \in DOMAIN inbox' : inbox'[i].conn = conn' /\ Sized(inbox'[i])
    <3> SUFFICES ASSUME NEW i \in DOMAIN inbox' PROVE inbox'[i].conn = conn /\ Sized(inbox'[i])
      OBVIOUS
    <3>1. i \in 1..Len(inbox) \/ i = Len(inbox) + 1
      BY <2>1, <2>2, <2>3
    <3>2. CASE i = Len(inbox) + 1
      BY <1>2, <2>2, <3>2
    <3>3. CASE i \in 1..Len(inbox)
      BY <2>1, <2>2, <3>3 DEF BusAll, InboxInv
    <3> QED BY <3>1, <3>2, <3>3
  <2> QED BY <1>2, <2>2, <2>4 DEF InboxInv
<1> QED BY <1>1, <1>2 DEF Deliver

LEMMA InboxStep ==
  ASSUME DriverAll, BusAll, DaemonAll, [Next]_vars
  PROVE  inbox' \in Seq(Msg) /\ InboxInv'
<1>1. CASE RunQuery \/ Send \/ Fifty \/ Done
  <2>1. UNCHANGED <<inbox, conn, connected>>
    BY <1>1 DEF RunQuery, Send, Fifty, Done, link
  <2> QED BY <2>1, InboxKeeps
<1>2. CASE Reconnect
  <2>1. ~connected /\ UNCHANGED inbox
    BY <1>2 DEF Reconnect
  <2>2. inbox' = <<>> /\ inbox' \in Seq(Msg)
    BY <2>1, EmptySeq DEF BusAll, InboxInv
  <2>3. DOMAIN inbox' = {}
    BY <2>2
  <2> QED BY <2>2, <2>3 DEF InboxInv
<1>3. CASE Drain \/ Receive
  <2>1. inbox # <<>> /\ inbox' = Tail(inbox) /\ UNCHANGED <<conn, connected>>
    BY <1>3 DEF Drain, Receive, link
  <2> QED BY <2>1, InboxTaken
<1>4. CASE Drop
  <2>1. inbox' = <<>> /\ inbox' \in Seq(Msg) /\ DOMAIN inbox' = {}
    BY <1>4, EmptySeq DEF Drop
  <2> QED BY <2>1 DEF InboxInv
<1>5. CASE Daemon
  <2>1. UNCHANGED <<conn, connected>>
    BY <1>5, ApartKeeps DEF Apart, driver, link
  <2> QED BY <1>5, <2>1, Sending, InboxKeeps, InboxGrows
<1>6. CASE UNCHANGED vars
  BY <1>6, InboxKeeps DEF vars, driver, link
<1> QED BY <1>1, <1>2, <1>3, <1>4, <1>5, <1>6, Cases DEF Apart

LEMMA CallsDomain ==
  ASSUME BusAll
  PROVE  calls \in Seq(Call) /\ Len(calls) \in Nat /\ DOMAIN calls = 1..Len(calls)
  BY LenProperties DEF BusAll, BusTypes

LEMMA CallNumbers == \A x \in Call : x.conn \in Nat /\ x.serial \in Nat
  BY Limits DEF Call, Conns, Serials

\* Neither the queue, the daemon's call nor the last call changes, and no query begins
\* to wait.
LEMMA CallsKeep ==
  ASSUME BusAll, UNCHANGED <<calls, conn, serial>>,
         dpc' # "idle" => dpc # "idle" /\ UNCHANGED call,
         cpc' = "wait" => cpc = "wait" /\ UNCHANGED query
  PROVE  calls' \in Seq(Call) /\ CallsInv'
<1>1. calls' \in Seq(Call)
  BY CallsDomain
<1>3. Working' => Working
  BY DEF Working, LastCall
<1>4. \A i \in DOMAIN calls :
        /\ Past(calls[i], conn, serial)
        /\ LastCall(calls[i], conn, serial) =>
             i = Len(calls) /\ ~Working /\ (cpc = "wait" => calls[i].query = query)
  BY DEF BusAll, CallsInv
<1>5. \A i \in DOMAIN calls' :
        /\ Past(calls'[i], conn', serial')
        /\ LastCall(calls'[i], conn', serial') =>
             i = Len(calls') /\ ~Working' /\ (cpc' = "wait" => calls'[i].query = query')
  BY <1>3, <1>4 DEF Past, LastCall
<1>6. dpc' # "idle" => Past(call', conn', serial')
  BY DEF BusAll, CallsInv, Past
<1>7. Working' /\ cpc' = "wait" => call'.query = query'
  BY <1>3 DEF BusAll, CallsInv, Working
<1> QED BY <1>1, <1>5, <1>6, <1>7 DEF CallsInv

LEMMA CallsSend == ASSUME DriverAll, BusAll, DaemonAll, Send PROVE calls' \in Seq(Call) /\ CallsInv'
<1>1. /\ cpc = "drain" /\ cpc' = "wait" /\ serial' = serial + 1 /\ UNCHANGED <<query, conn>>
      /\ UNCHANGED <<dpc, call>>
      /\ calls' = IF connected
                  THEN Append(calls, [conn |-> conn, serial |-> serial', query |-> query])
                  ELSE calls
  BY DEF Send, daemon
<1>2. serial \in Nat /\ conn \in Nat /\ conn \in Conns
  BY Limits DEF DriverAll, DriverTypes, Conns
<1>3. \A i \in DOMAIN calls : Past(calls[i], conn, serial) /\ calls[i].conn \in Nat /\ calls[i].serial \in Nat
  <2>1. \A i \in 1..Len(calls) : calls[i] \in Call
    BY CallsDomain, ElementOfSeq
  <2> QED BY <2>1, CallsDomain, CallNumbers DEF BusAll, CallsInv
<1>4. \A i \in DOMAIN calls : Past(calls[i], conn', serial') /\ ~(calls[i].conn = conn' /\ calls[i].serial = serial')
  BY <1>1, <1>2, <1>3 DEF Past
<1>5. dpc # "idle" => Past(call, conn, serial) /\ call.conn \in Nat /\ call.serial \in Nat
  BY AtWork, Limits DEF BusAll, CallsInv, Conns, Serials
<1>6. dpc' # "idle" => Past(call', conn', serial') /\ ~LastCall(call', conn', serial')
  BY <1>1, <1>2, <1>5 DEF Past, LastCall
<1>7. ~Working'
  BY <1>6 DEF Working
<1>8. CASE ~connected
  <2>1. calls' = calls
    BY <1>1, <1>8
  <2>2. \A i \in DOMAIN calls' : Past(calls'[i], conn', serial') /\ ~LastCall(calls'[i], conn', serial')
    BY <1>4, <2>1 DEF LastCall, Past
  <2> QED BY <1>6, <1>7, <2>1, <2>2, CallsDomain DEF CallsInv
<1>9. CASE connected
  <2> DEFINE x == [conn |-> conn, serial |-> serial', query |-> query]
  <2>1. x \in Call /\ x.conn = conn /\ x.serial = serial' /\ x.query = query
    BY <1>1, <1>2, Busy, DriverSend DEF Call
  <2>2. calls' = Append(calls, x)
    BY <1>1, <1>9
  <2> HIDE DEF x
  <2>3. /\ calls' \in Seq(Call) /\ Len(calls') = Len(calls) + 1
        /\ calls'[Len(calls) + 1] = x /\ \A i \in 1..Len(calls) : calls'[i] = calls[i]
    BY <2>1, <2>2, CallsDomain, AppendProperties
  <2>4. DOMAIN calls' = 1..Len(calls')
    BY <2>3, LenProperties
  <2>5. ASSUME NEW i \in DOMAIN calls'
        PROVE  /\ Past(calls'[i], conn', serial')
               /\ LastCall(calls'[i], conn', serial') => i = Len(calls') /\ calls'[i].query = query'
    <3>1. i \in 1..Len(calls) \/ i = Len(calls) + 1
      BY <2>3, <2>4, CallsDomain
    <3>2. CASE i \in 1..Len(calls)
      <4>1. calls'[i] = calls[i] /\ i \in DOMAIN calls
        BY <2>3, <3>2, CallsDomain
      <4> QED BY <1>4, <4>1 DEF Past, LastCall
    <3>3. CASE i = Len(calls) + 1
      <4>1. serial' \in Nat
        BY <1>1, <1>2
      <4> QED BY <1>1, <2>1, <2>3, <3>3, <4>1 DEF Past, LastCall
    <3> QED BY <3>1, <3>2, <3>3
  <2> QED BY <1>6, <1>7, <2>3, <2>5 DEF CallsInv
<1> QED BY <1>8, <1>9

LEMMA CallsReconnect ==
  ASSUME DriverAll, BusAll, DaemonAll, Reconnect PROVE calls' \in Seq(Call) /\ CallsInv'
<1>1. conn' = conn + 1 /\ cpc' = "drain" /\ UNCHANGED <<calls, dpc, call>>
  BY DEF Reconnect, daemon
<1>2. conn \in Nat /\ serial \in Nat
  BY Limits DEF DriverAll, DriverTypes, Conns
<1>3. \A i \in DOMAIN calls : Past(calls[i], conn, serial) /\ calls[i].conn \in Nat
  <2>1. \A i \in 1..Len(calls) : calls[i] \in Call
    BY CallsDomain, ElementOfSeq
  <2> QED BY <2>1, CallsDomain, CallNumbers DEF BusAll, CallsInv
<1>4. \A i \in DOMAIN calls' : Past(calls'[i], conn', serial') /\ ~LastCall(calls'[i], conn', serial')
  BY <1>1, <1>2, <1>3 DEF Past, LastCall
<1>5. dpc' # "idle" => Past(call', conn', serial') /\ ~LastCall(call', conn', serial')
  <2>1. dpc # "idle" => Past(call, conn, serial) /\ call.conn \in Nat
    BY AtWork, Limits DEF BusAll, CallsInv, Conns
  <2> QED BY <1>1, <1>2, <2>1 DEF Past, LastCall
<1> QED BY <1>1, <1>4, <1>5, CallsDomain DEF CallsInv, Working

LEMMA CallsDrop == ASSUME BusAll, Drop PROVE calls' \in Seq(Call) /\ CallsInv'
<1>1. PICK n \in 0..Len(calls) : calls' = SubSeq(calls, 1, n)
  BY DEF Drop
<1>2. UNCHANGED <<conn, serial, dpc, call, cpc, query>>
  BY DEF Drop, daemon
<1>3. calls \in Seq(Call) /\ Len(calls) \in Nat /\ DOMAIN calls = 1..Len(calls) /\ n \in Nat /\ n <= Len(calls)
  BY CallsDomain
<1>4. \A i \in 1..n : calls[i] \in Call
  BY <1>3, ElementOfSeq
<1>5. /\ calls' \in Seq(Call) /\ Len(calls') = n
      /\ \A i \in 1..n : calls'[i] = calls[i]
  BY <1>1, <1>3, <1>4, SubSeqProperties
<1>6. DOMAIN calls' = 1..n
  BY <1>5, LenProperties
<1>7. ASSUME NEW i \in DOMAIN calls'
      PROVE  /\ Past(calls'[i], conn', serial')
             /\ LastCall(calls'[i], conn', serial') =>
                  i = Len(calls') /\ ~Working' /\ (cpc' = "wait" => calls'[i].query = query')
  <2>1. i \in DOMAIN calls /\ calls'[i] = calls[i] /\ i <= n /\ i \in Nat
    BY <1>3, <1>5, <1>6
  <2>2. /\ Past(calls[i], conn, serial)
        /\ LastCall(calls[i], conn, serial) =>
             i = Len(calls) /\ ~Working /\ (cpc = "wait" => calls[i].query = query)
    BY <2>1 DEF BusAll, CallsInv
  <2>3. Working' <=> Working
    BY <1>2 DEF Working, LastCall
  <2>4. i = Len(calls) => i = n
    <3>1. Len(calls) \in Nat /\ n \in Nat /\ n <= Len(calls) /\ i \in Nat /\ i <= n
      BY <1>3, <2>1
    <3> QED BY <3>1
  <2> QED BY <1>2, <1>5, <2>1, <2>2, <2>3, <2>4 DEF Past, LastCall
<1>8. (dpc' # "idle" => Past(call', conn', serial')) /\ (Working' /\ cpc' = "wait" => call'.query = query')
  BY <1>2 DEF BusAll, CallsInv, Past, Working, LastCall
<1> QED BY <1>5, <1>7, <1>8 DEF CallsInv

LEMMA CallsTake == ASSUME BusAll, Take PROVE calls' \in Seq(Call) /\ CallsInv'
<1>1. /\ dpc = "idle" /\ calls # <<>> /\ call' = Head(calls) /\ calls' = Tail(calls)
      /\ dpc' = "connect" /\ UNCHANGED <<conn, serial, cpc, query>>
  BY DEF Take, driver, link
<1>2. calls \in Seq(Call) /\ Len(calls) \in Nat /\ DOMAIN calls = 1..Len(calls) /\ Len(calls) >= 1
  BY <1>1, CallsDomain, EmptySeq
<1>3. /\ calls' \in Seq(Call) /\ Len(calls') = Len(calls) - 1 /\ call' = calls[1]
      /\ \A i \in 1..Len(calls') : calls'[i] = calls[i + 1]
  BY <1>1, <1>2, HeadTailProperties
<1>4. DOMAIN calls' = 1..Len(calls')
  BY <1>3, LenProperties
<1>5. \A i \in DOMAIN calls :
        /\ Past(calls[i], conn, serial)
        /\ LastCall(calls[i], conn, serial) =>
             i = Len(calls) /\ (cpc = "wait" => calls[i].query = query)
  BY DEF BusAll, CallsInv
<1>6. 1 \in DOMAIN calls
  BY <1>2
<1>7. ASSUME NEW i \in DOMAIN calls'
      PROVE  /\ Past(calls'[i], conn', serial')
             /\ LastCall(calls'[i], conn', serial') =>
                  i = Len(calls') /\ ~Working' /\ (cpc' = "wait" => calls'[i].query = query')
  <2>1. i + 1 \in DOMAIN calls /\ calls'[i] = calls[i + 1] /\ Len(calls) # 1 /\ i \in Nat
    BY <1>2, <1>3, <1>4
  <2>2. i + 1 = Len(calls) => i = Len(calls')
    BY <1>2, <1>3, <2>1
  <2>3. ~LastCall(call', conn', serial')
    BY <1>1, <1>3, <1>5, <1>6, <2>1 DEF LastCall
  <2> QED BY <1>1, <1>5, <2>1, <2>2, <2>3 DEF Past, LastCall, Working
<1>8. Past(call', conn', serial') /\ (LastCall(call', conn', serial') /\ cpc' = "wait" => call'.query = query')
  BY <1>1, <1>3, <1>5, <1>6 DEF Past, LastCall
<1> QED BY <1>3, <1>7, <1>8 DEF CallsInv, Working

LEMMA BusStep == ASSUME DriverAll, BusAll, DaemonAll, [Next]_vars PROVE BusAll'
<1>1. CASE RunQuery \/ Drain \/ Receive \/ Fifty \/ Done
  <2>1. UNCHANGED <<calls, conn, serial, dpc, call>> /\ (cpc' = "wait" => cpc = "wait" /\ UNCHANGED query)
    <3>1. CASE RunQuery \/ Fifty \/ Done
      BY <3>1 DEF RunQuery, Fifty, Done, Returned, link, daemon
    <3>2. CASE Drain \/ Receive
      BY <3>2 DEF Drain, Receive, link, daemon
    <3> QED BY <1>1, <3>1, <3>2
  <2>2. calls' \in Seq(Call) /\ CallsInv'
    BY <2>1, CallsKeep
  <2> QED BY <2>2, InboxStep DEF BusAll, BusTypes
<1>2. CASE Refuse \/ ConnectAgain \/ Select \/ ReadRow \/ Fail \/ Reply \/ UNCHANGED vars
  <2>1. UNCHANGED <<calls, conn, serial, call, cpc, query>> /\ (dpc' # "idle" => dpc # "idle")
    <3>1. CASE Refuse \/ ConnectAgain \/ Select
      BY <3>1 DEF Refuse, ConnectAgain, Select, Throw, driver, link
    <3>2. CASE ReadRow \/ Fail \/ Reply
      BY <3>2 DEF ReadRow, Fail, Reply, Throw, driver, link
    <3>3. CASE UNCHANGED vars
      BY <3>3 DEF vars, driver, link, daemon
    <3> QED BY <1>2, <3>1, <3>2, <3>3
  <2>2. calls' \in Seq(Call) /\ CallsInv'
    BY <2>1, CallsKeep
  <2> QED BY <2>2, InboxStep DEF BusAll, BusTypes
<1>3. CASE Send \/ Reconnect \/ Drop \/ Take
  BY <1>3, CallsSend, CallsReconnect, CallsDrop, CallsTake, InboxStep DEF BusAll, BusTypes
<1> QED BY <1>1, <1>2, <1>3, Cases DEF Apart, Daemon

-----------------------------------------------------------------------------
(* The result of the query.                                                 *)

LEMMA NoRows ==
  ASSUME NEW q \in Queries, NEW n \in 0..MaxRows
  PROVE  /\ RowsOf(q, 0) = <<>> /\ RowsOf(q, 0) \o RowsOf(q, n) = RowsOf(q, n)
         /\ RowsOf(q, n) \o RowsOf(q, 0) = RowsOf(q, n)
<1>1. RowsOf(q, 0) = <<>>
  BY DEF RowsOf
<1>2. RowsOf(q, n) \in Seq(Row)
  BY RowsOfRows
<1> QED BY <1>1, <1>2, ConcatEmptySeq

LEMMA StageKeeps ==
  ASSUME NEW z, Stage(z), UNCHANGED <<calls, conn, serial, dpc, call, read, rows>>
  PROVE  Stage(z)'
  BY DEF Stage, Pending, Working, LastCall, Sent

LEMMA ResultRunQuery == ASSUME DriverAll, DriverAll', RunQuery PROVE ResultInv'
<1>1. /\ query' = query + 1 /\ attempt' = 1 /\ cpc' \in {"drain", "check"}
      /\ UNCHANGED <<res, outcome, reran, answer>>
  BY DEF RunQuery, result, history
<1>2. query' \in Queries /\ query' > query
  BY <1>1, Limits DEF DriverAll, DriverTypes
<1>3. res'[query'] = <<>> /\ outcome'[query'] = "none"
  BY <1>1, <1>2 DEF DriverAll, DriverInv
<1>4. 0 \in 0..MaxRows
  BY Limits
<1>5. res'[query'] = RowsOf(query', 0) \o RowsOf(query', 0)
  BY <1>2, <1>3, <1>4, NoRows
<1>6. Result(0, 0)'
  BY <1>1, <1>3, <1>5 DEF Result
<1> QED BY <1>4, <1>6 DEF ResultInv

LEMMA ResultSend ==
  ASSUME DriverAll, BusAll, DaemonAll, ResultInv, Send PROVE ResultInv'
<1>1. /\ cpc = "drain" /\ (inbox = <<>> \/ ~connected) /\ serial' = serial + 1
      /\ cpc' = "wait" /\ UNCHANGED inbox
      /\ UNCHANGED <<query, attempt, conn, connected, res, outcome, reran, answer>>
      /\ UNCHANGED <<dpc, call>>
  BY DEF Send, history, daemon
<1>2. PICK k \in 0..MaxRows, j \in 0..MaxRows : Result(k, j)
  BY <1>1 DEF ResultInv
<1>3. j = 0 /\ 0 \in 0..MaxRows
  BY <1>1, <1>2, Limits DEF Result
<1>4. Chain(<<>>, conn', serial', query', 0, 0)
  BY <1>3, ChainNone
<1>5. ~Working'
  <2>1. ASSUME dpc # "idle" PROVE ~LastCall(call, conn, serial + 1)
    <3>1. call.conn \in Nat /\ call.serial \in Nat /\ Past(call, conn, serial)
      BY <2>1, AtWork, CallNumbers DEF BusAll, CallsInv
    <3>2. conn \in Nat /\ serial \in Nat
      BY Limits DEF DriverAll, DriverTypes, Conns
    <3> QED BY <3>1, <3>2 DEF Past, LastCall
  <2> QED BY <1>1, <2>1 DEF Working
<1>6. Stage(0)'
  BY <1>5 DEF Stage
<1>7. connected' => \E z \in 0..MaxRows : Chain(inbox', conn', serial', query', 0, z) /\ Stage(z)'
  BY <1>1, <1>3, <1>4, <1>6
<1>8. Result(k, 0)'
  BY <1>1, <1>2, <1>3, <1>7 DEF Result
<1> QED BY <1>3, <1>8 DEF ResultInv

LEMMA ResultReceive ==
  ASSUME DriverAll, BusAll, ResultInv, Receive PROVE ResultInv'
<1> DEFINE m == Head(inbox)
           own == m.serial = serial
<1>1. /\ cpc = "wait" /\ connected /\ inbox # <<>> /\ inbox' = Tail(inbox)
      /\ UNCHANGED <<calls, dpc, call, read, rows>>
      /\ IF m.kind # "chunk" /\ own
         THEN Returned(m.kind, m.total)
         ELSE UNCHANGED <<cpc, signal_returns, outcome, answer>>
  BY DEF Receive, daemon
<1>2. /\ UNCHANGED <<query, attempt, conn, connected, serial, reran>>
      /\ res' = IF own THEN [res EXCEPT ![query] = @ \o m.rows] ELSE res
  BY DriverReceive
<1>3. m \in Msg /\ m.conn = conn /\ Sized(m) /\ m.rows \in Seq(Row) /\ m.total \in 0..MaxRows
      /\ m.kind \in {"chunk", "return", "error"}
  BY <1>1, InboxHead
<1>4. query \in Queries /\ res \in [Queries -> Seq(Row)] /\ res[query] \in Seq(Row)
      /\ outcome \in [Queries -> {"none", "return", "error", "failed"}]
      /\ answer \in [Queries -> 0..MaxRows]
  BY <1>1, Busy DEF DriverAll, DriverTypes
<1> HIDE DEF m
<1>5. res'[query] = IF own THEN res[query] \o m.rows ELSE res[query]
  BY <1>1, <1>2, <1>3, ResultGrows
<1>6. PICK k \in 0..MaxRows, j \in 0..MaxRows : Result(k, j)
  BY <1>1 DEF ResultInv
<1>7. res[query] = RowsOf(query, k) \o RowsOf(query, j) /\ (k > 0 => reran[query] /\ attempt = 2)
  BY <1>6 DEF Result
<1>8. PICK z \in 0..MaxRows : Chain(inbox, conn, serial, query, j, z) /\ Stage(z)
  BY <1>1, <1>6 DEF Result
<1>9. Stage(z)'
  BY <1>1, <1>2, <1>8, StageKeeps
<1>10. Carries(m, conn, serial) <=> own /\ m.kind # "error"
  BY <1>3 DEF Carries
<1>11. inbox \in Seq(Msg)
  BY DEF BusAll, BusTypes
<1>12. /\ ~Carries(m, conn, serial) => Chain(Tail(inbox), conn, serial, query, j, z)
       /\ Carries(m, conn, serial) =>
            /\ Piece(m.rows, query, j) /\ j + Len(m.rows) \in 0..MaxRows
            /\ m.kind = "return" => m.total = j + Len(m.rows)
            /\ Chain(Tail(inbox), conn, serial, query, j + Len(m.rows), z)
  BY <1>1, <1>8, <1>11, ChainRead DEF m
<1> HIDE DEF own
<1>13. CASE own /\ m.kind = "error"
  <2>1. cpc' = "check" /\ outcome'[query] = "error"
    BY <1>1, <1>4, <1>13 DEF Returned
  <2>2. m.rows = <<>>
    BY <1>3, <1>13 DEF Sized
  <2>3. res'[query] = res[query]
    BY <1>4, <1>5, <1>13, <2>2, ConcatEmptySeq
  <2>4. Result(k, j)'
    BY <1>2, <1>7, <2>1, <2>3 DEF Result
  <2> QED BY <2>4 DEF ResultInv
<1>14. CASE own /\ m.kind # "error"
  <2>1. PICK y \in 0..MaxRows : y = j + Len(m.rows)
    BY <1>10, <1>12, <1>14
  <2>2. Piece(m.rows, query, j) /\ (m.kind = "return" => m.total = y)
        /\ Chain(Tail(inbox), conn, serial, query, y, z)
    BY <1>10, <1>12, <1>14, <2>1
  <2>3. res'[query] = RowsOf(query, k) \o RowsOf(query, y)
    <3>1. j + Len(m.rows) <= MaxRows
      BY <2>1, Limits
    <3>2. (RowsOf(query, k) \o RowsOf(query, j)) \o m.rows
            = RowsOf(query, k) \o RowsOf(query, j + Len(m.rows))
      BY <1>3, <1>4, <2>2, <3>1, PieceJoins
    <3>3. res'[query] = res[query] \o m.rows
      BY <1>5, <1>14
    <3> QED BY <1>7, <2>1, <3>2, <3>3
  <2>4. CASE m.kind = "return"
    <3>1. cpc' = "check" /\ outcome'[query] = "return" /\ answer'[query] = m.total
      BY <1>1, <1>4, <1>14, <2>4 DEF Returned
    <3>2. Result(k, y)'
      BY <1>2, <1>7, <2>2, <2>3, <2>4, <3>1 DEF Result
    <3> QED BY <3>2 DEF ResultInv
  <2>5. CASE m.kind = "chunk"
    <3>1. UNCHANGED <<cpc, outcome, answer>>
      BY <1>1, <2>5
    <3>2. Chain(inbox', conn', serial', query', y, z)
      BY <1>1, <1>2, <2>2
    <3>3. Result(k, y)'
      BY <1>1, <1>2, <1>7, <1>9, <2>3, <3>1, <3>2 DEF Result
    <3> QED BY <3>3 DEF ResultInv
  <2> QED BY <1>3, <1>14, <2>4, <2>5
<1>15. CASE ~own
  <2>1. UNCHANGED <<cpc, outcome, answer>>
    BY <1>1, <1>15
  <2>2. Chain(inbox', conn', serial', query', j, z)
    BY <1>1, <1>2, <1>10, <1>12, <1>15
  <2>3. Result(k, j)'
    BY <1>1, <1>2, <1>5, <1>7, <1>9, <1>15, <2>1, <2>2 DEF Result
  <2> QED BY <2>3 DEF ResultInv
<1> QED BY <1>13, <1>14, <1>15

LEMMA ResultFifty == ASSUME DriverAll, ResultInv, Fifty PROVE ResultInv'
<1>1. cpc = "wait" /\ cpc' = "check" /\ outcome' = [outcome EXCEPT ![query] = "failed"]
      /\ UNCHANGED <<query, attempt, res, reran>>
  BY DriverFifty DEF Fifty, Returned
<1>2. outcome'[query] = "failed"
  BY <1>1, Busy DEF DriverAll, DriverTypes
<1>3. PICK k \in 0..MaxRows, j \in 0..MaxRows : Result(k, j)
  BY <1>1 DEF ResultInv
<1>4. Result(k, j)'
  BY <1>1, <1>2, <1>3 DEF Result
<1> QED BY <1>4 DEF ResultInv

\* What the lost connection has brought stays in front.
LEMMA ResultReconnect == ASSUME DriverAll, ResultInv, Reconnect PROVE ResultInv'
<1>1. /\ cpc = "check" /\ attempt = 1 /\ attempt' = 2 /\ cpc' = "drain"
      /\ reran' = [reran EXCEPT ![query] = outcome[query] # "none"]
      /\ UNCHANGED <<query, res>>
  BY DEF Reconnect, result
<1>2. query \in Queries /\ reran \in [Queries -> BOOLEAN]
  BY <1>1, Busy DEF DriverAll, DriverTypes
<1>3. reran'[query] <=> outcome[query] # "none"
  BY <1>1, <1>2
<1>4. PICK k \in 0..MaxRows, j \in 0..MaxRows : Result(k, j)
  BY <1>1 DEF ResultInv
<1>5. k = 0 /\ (outcome[query] = "none" => j = 0) /\ res[query] = RowsOf(query, k) \o RowsOf(query, j)
  BY <1>1, <1>4, Limits DEF Result
<1>6. res'[query'] = RowsOf(query', j) \o RowsOf(query', 0) /\ 0 \in 0..MaxRows
  BY <1>1, <1>2, <1>5, NoRows, Limits
<1>7. j > 0 => reran'[query']
  BY <1>1, <1>3, <1>5
<1>8. Result(j, 0)'
  BY <1>1, <1>6, <1>7 DEF Result
<1> QED BY <1>6, <1>8 DEF ResultInv

LEMMA ResultDrop == ASSUME ResultInv, Drop PROVE ResultInv'
<1>1. connected' = FALSE /\ UNCHANGED <<cpc, query, attempt, res, outcome, reran, answer>>
  BY DEF Drop, result, history
<1>2. CASE cpc # "idle"
  <2>1. PICK k \in 0..MaxRows, j \in 0..MaxRows : Result(k, j)
    BY <1>2 DEF ResultInv
  <2>2. Result(k, j)'
    BY <1>1, <2>1 DEF Result
  <2> QED BY <2>2 DEF ResultInv
<1>3. CASE cpc = "idle"
  BY <1>1, <1>3 DEF ResultInv
<1> QED BY <1>2, <1>3

\* The driver does nothing, and what is on its way still leads to where the
\* daemon goes on.
LEMMA ResultApart ==
  ASSUME ResultInv, UNCHANGED driver,
         ASSUME NEW j \in 0..MaxRows, NEW z \in 0..MaxRows, cpc = "wait", connected,
                Chain(inbox, conn, serial, query, j, z), Stage(z)
         PROVE  \E y \in 0..MaxRows : Chain(inbox', conn, serial, query, j, y) /\ Stage(y)'
  PROVE  ResultInv'
<1>1. UNCHANGED <<cpc, query, attempt, conn, connected, serial, res, outcome, reran, answer>>
  BY DEF driver, link, result, history
<1>2. CASE cpc # "idle"
  <2>1. PICK k \in 0..MaxRows, j \in 0..MaxRows : Result(k, j)
    BY <1>2 DEF ResultInv
  <2>2. ASSUME cpc' = "wait", connected'
        PROVE  \E y \in 0..MaxRows : Chain(inbox', conn', serial', query', j, y) /\ Stage(y)'
    <3>1. cpc = "wait" /\ connected
      BY <1>1, <2>2
    <3>2. PICK z \in 0..MaxRows : Chain(inbox, conn, serial, query, j, z) /\ Stage(z)
      BY <2>1, <3>1 DEF Result
    <3>3. \E y \in 0..MaxRows : Chain(inbox', conn, serial, query, j, y) /\ Stage(y)'
      BY <3>1, <3>2
    <3> QED BY <1>1, <3>3
  <2>3. Result(k, j)'
    BY <1>1, <2>1, <2>2 DEF Result
  <2> QED BY <2>3 DEF ResultInv
<1>3. CASE cpc = "idle"
  BY <1>1, <1>3 DEF ResultInv
<1> QED BY <1>2, <1>3


\* A message that is not the last call's changes nothing.
LEMMA Passes ==
  ASSUME BusAll, NEW m \in Msg, inbox' = Deliver(m), ~Carries(m, conn, serial),
         NEW j \in 0..MaxRows, NEW z \in 0..MaxRows, Chain(inbox, conn, serial, query, j, z)
  PROVE  Chain(inbox', conn, serial, query, j, z)
<1>1. inbox \in Seq(Msg)
  BY DEF BusAll, BusTypes
<1>2. Chain(Append(inbox, m), conn, serial, query, j, z)
  BY <1>1, ChainComes
<1>3. inbox' = Append(inbox, m) \/ inbox' = inbox
  BY DEF Deliver
<1> QED BY <1>2, <1>3

LEMMA OnlyOne == ASSUME BusAll, Working PROVE ~Pending
  BY DEF BusAll, CallsInv, Pending

LEMMA StillPending ==
  ASSUME NEW z, Stage(z), UNCHANGED <<calls, conn, serial>>, ~Working'
  PROVE  Stage(z)'
  BY DEF Stage, Pending, LastCall

LEMMA NothingPending ==
  ASSUME NEW z, ~Pending, UNCHANGED <<calls, conn, serial>>, Working' => dpc' = "rows" /\ z = Sent'
  PROVE  Stage(z)'
  BY DEF Stage, Pending, LastCall

LEMMA OnItsWay ==
  ASSUME DriverAll, BusAll, DaemonAll, Daemon, UNCHANGED driver, cpc = "wait", connected,
         NEW j \in 0..MaxRows, NEW z \in 0..MaxRows,
         Chain(inbox, conn, serial, query, j, z), Stage(z)
  PROVE  \E y \in 0..MaxRows : Chain(inbox', conn, serial, query, j, y) /\ Stage(y)'
<1>1. UNCHANGED <<conn, serial, query, connected>>
  BY DEF driver, link
<1>2. CASE Take
  <2>1. dpc = "idle" /\ calls # <<>> /\ call' = Head(calls) /\ calls' = Tail(calls)
        /\ dpc' = "connect" /\ UNCHANGED inbox
    BY <1>2 DEF Take
  <2>2. Len(calls) \in Nat /\ Len(calls) >= 1 /\ DOMAIN calls = 1..Len(calls) /\ calls \in Seq(Call)
    BY <2>1, CallsDomain, EmptySeq
  <2>3. Len(calls') = Len(calls) - 1 /\ call' = calls[1] /\ calls' \in Seq(Call)
        /\ \A i \in 1..Len(calls') : calls'[i] = calls[i + 1]
    BY <2>1, <2>2, HeadTailProperties
  <2>4. DOMAIN calls' = 1..Len(calls')
    BY <2>3, LenProperties
  <2>5. (Pending \/ Working)' => Pending
    <3>1. Working' => Pending
      BY <1>1, <2>2, <2>3 DEF Working, Pending
    <3>2. ASSUME NEW i \in DOMAIN calls', LastCall(calls'[i], conn', serial') PROVE Pending
      <4>1. i + 1 \in DOMAIN calls /\ calls'[i] = calls[i + 1]
        BY <2>2, <2>3, <2>4, <3>2
      <4> QED BY <1>1, <3>2, <4>1 DEF Pending
    <3> QED BY <3>1, <3>2 DEF Pending
  <2>6. Pending => z = 0
    BY DEF Stage
  <2>7. Stage(z)'
    BY <2>1, <2>5, <2>6 DEF Stage
  <2> QED BY <2>1, <2>7
<1>3. CASE ConnectAgain
  <2>1. UNCHANGED <<inbox, calls, dpc, call, read, rows>>
    BY <1>3 DEF ConnectAgain
  <2> QED BY <1>1, <2>1, StageKeeps
<1>4. CASE Select
  <2>1. dpc = "connect" /\ dpc' = "rows" /\ read' = 0 /\ rows' = <<>>
        /\ UNCHANGED <<inbox, calls, call>>
    BY <1>4 DEF Select
  <2>2. Sent' = 0
    <3>1. read' = 0 /\ Len(rows') = 0
      BY <2>1, EmptyRows
    <3> QED BY <3>1 DEF Sent
  <2>3. (Working' <=> Working) /\ (Pending' <=> Pending)
    BY <1>1, <2>1 DEF Working, Pending, LastCall
  <2>4. Stage(z)'
    BY <2>1, <2>2, <2>3 DEF Stage
  <2> QED BY <2>1, <2>4
<1>5. CASE Refuse \/ Fail
  <2> DEFINE m == Message("error", <<>>)
  <2>1. dpc # "idle" /\ dpc' = "idle" /\ inbox' = Deliver(m) /\ UNCHANGED calls
    BY <1>5 DEF Refuse, Fail, Throw
  <2>2. m \in Msg /\ m.kind = "error"
    BY <2>1, EmptyRows, MessageTyped
  <2> HIDE DEF m
  <2>3. Chain(inbox', conn, serial, query, j, z)
    BY <2>1, <2>2, Passes DEF Carries
  <2>4. Stage(z)'
    BY <1>1, <2>1, StillPending DEF Working
  <2> QED BY <2>3, <2>4
<1>6. CASE Reply
  <2> DEFINE m == Message("return", rows)
  <2>1. dpc = "rows" /\ dpc' = "idle" /\ inbox' = Deliver(m) /\ UNCHANGED calls
    BY <1>6 DEF Reply
  <2>2. m \in Msg /\ m.conn = call.conn /\ m.serial = call.serial
        /\ m.kind = "return" /\ m.rows = rows /\ m.total = read
    BY <2>1, AtWork, MessageTyped
  <2> HIDE DEF m
  <2>3. CASE Working
    <3>1. m.conn = conn /\ m.serial = serial /\ call.query = query
      BY <2>2, <2>3 DEF Working, LastCall, BusAll, CallsInv
    <3>2. inbox' = Append(inbox, m) /\ Carries(m, conn, serial)
      BY <2>1, <2>2, <3>1 DEF Deliver, Carries
    <3>3. z = Sent
      BY <2>1, <2>3 DEF Stage
    <3>4. PICK y \in 0..MaxRows : y = read
      BY <2>1, AtWork
    <3>5. Piece(m.rows, query, z) /\ y = z + Len(m.rows) /\ m.total = y
      BY <2>1, <2>2, <3>1, <3>3, <3>4, Kept
    <3>6. inbox \in Seq(Msg)
      BY DEF BusAll, BusTypes
    <3>7. Chain(inbox', conn, serial, query, j, y)
      BY <2>2, <3>2, <3>5, <3>6, ChainComes
    <3>8. ~Pending /\ ~Working'
      BY <2>1, <2>3, OnlyOne DEF Working
    <3>9. Stage(y)'
      BY <1>1, <2>1, <3>8, NothingPending
    <3> QED BY <3>7, <3>9
  <2>4. CASE ~Working
    <3>1. Chain(inbox', conn, serial, query, j, z)
      BY <2>1, <2>2, <2>4, Passes DEF Carries, Working, LastCall
    <3>2. Stage(z)'
      BY <1>1, <2>1, StillPending DEF Working
    <3> QED BY <3>1, <3>2
  <2> QED BY <2>3, <2>4
<1>7. CASE ReadRow
  <2> DEFINE part == Append(rows, NextRow)
             m == Message("chunk", part)
  <2>1. /\ dpc = "rows" /\ read < total /\ read' = read + 1 /\ UNCHANGED <<dpc, call, calls>>
        /\ \/ inbox' = Deliver(m) /\ rows' = <<>>
           \/ UNCHANGED inbox /\ rows' = part
    BY <1>7 DEF ReadRow
  <2>2. PICK a \in Nat : a = Sent
    BY <2>1, Kept
  <2>3. /\ part \in Seq(Row) /\ Piece(part, call.query, a) /\ a + Len(part) = read + 1
        /\ read + 1 \in 0..MaxRows
    BY <2>1, <2>2, RowRead
  <2>4. m \in Msg /\ m.conn = call.conn /\ m.serial = call.serial
        /\ m.kind = "chunk" /\ m.rows = part
    BY <2>1, <2>3, MessageTyped
  <2>5. Len(part) \in Nat
    BY <2>3, LenProperties
  <2> HIDE DEF m, part
  <2>6. Working' <=> Working
    BY <1>1, <2>1 DEF Working, LastCall
  <2>7. CASE Working
    <3>1. m.conn = conn /\ m.serial = serial /\ call.query = query
      BY <2>4, <2>7 DEF Working, LastCall, BusAll, CallsInv
    <3>2. z = a
      BY <2>1, <2>2, <2>7 DEF Stage
    <3>3. ~Pending
      BY <2>7, OnlyOne
    <3>4. CASE inbox' = Deliver(m) /\ rows' = <<>>
      <4>1. inbox' = Append(inbox, m) /\ Carries(m, conn, serial)
        BY <2>4, <3>1, <3>4 DEF Deliver, Carries
      <4>2. PICK y \in 0..MaxRows : y = read + 1
        BY <2>3
      <4>3. Piece(m.rows, query, z) /\ y = z + Len(m.rows)
        BY <2>3, <2>4, <3>1, <3>2, <4>2
      <4>4. inbox \in Seq(Msg)
        BY DEF BusAll, BusTypes
      <4>5. Chain(inbox', conn, serial, query, j, y)
        BY <2>4, <4>1, <4>3, <4>4, ChainComes
      <4>6. y = Sent'
        <5>1. Sent' = (read + 1) - 0
          BY <2>1, <3>4, EmptyRows DEF Sent
        <5> QED BY <4>2, <5>1
      <4>7. Stage(y)'
        BY <1>1, <2>1, <3>3, <4>6, NothingPending
      <4> QED BY <4>5, <4>7
    <3>5. CASE UNCHANGED inbox /\ rows' = part
      <4>1. Sent' = z
        BY <2>1, <2>3, <2>5, <3>2, <3>5 DEF Sent
      <4>2. Stage(z)'
        BY <1>1, <2>1, <3>3, <4>1, NothingPending
      <4> QED BY <3>5, <4>2
    <3> QED BY <2>1, <3>4, <3>5
  <2>8. CASE ~Working
    <3>1. ~Carries(m, conn, serial)
      BY <2>1, <2>4, <2>8 DEF Carries, Working, LastCall
    <3>2. Chain(inbox', conn, serial, query, j, z)
      BY <2>1, <2>4, <3>1, Passes
    <3>3. Stage(z)'
      BY <1>1, <2>1, <2>6, <2>8, StillPending
    <3> QED BY <3>2, <3>3
  <2> QED BY <2>7, <2>8
<1> QED BY <1>2, <1>3, <1>4, <1>5, <1>6, <1>7 DEF Daemon

LEMMA ResultStep ==
  ASSUME DriverAll, BusAll, DaemonAll, ResultInv, [Next]_vars
  PROVE  ResultInv'
<1>1. CASE RunQuery \/ Send \/ Receive \/ Fifty \/ Reconnect \/ Drop
  BY <1>1, DriverStep, ResultRunQuery, ResultSend, ResultReceive, ResultFifty, ResultReconnect,
     ResultDrop
<1>2. CASE Done
  BY <1>2 DEF Done, ResultInv
<1>3. CASE Drain
  <2>1. cpc = "drain" /\ UNCHANGED driver
    BY <1>3, DriverDrain DEF Drain
  <2> QED BY <2>1, ResultApart
<1>4. CASE Daemon
  <2>1. UNCHANGED driver
    BY <1>4, ApartKeeps DEF Apart
  <2> QED BY <1>4, <2>1, OnItsWay, ResultApart
<1>5. CASE UNCHANGED vars
  <2>1. UNCHANGED driver /\ UNCHANGED <<inbox, calls, conn, serial, dpc, call, read, rows>>
    BY <1>5 DEF vars, driver, link, daemon
  <2> QED BY <2>1, StageKeeps, ResultApart
<1> QED BY <1>1, <1>2, <1>3, <1>4, <1>5, Cases DEF Apart

-----------------------------------------------------------------------------
(* Results that the application has.                                        *)

LEMMA EndedStays ==
  ASSUME DriverAll, BusAll, [Next]_vars, NEW q \in Queries, Ended(q)
  PROVE  /\ Ended(q)' /\ res'[q] = res[q] /\ outcome'[q] = outcome[q]
         /\ answer'[q] = answer[q] /\ reran'[q] = reran[q]
<1>1. query \in Nat /\ q \in Nat /\ res \in [Queries -> Seq(Row)]
      /\ outcome \in [Queries -> {"none", "return", "error", "failed"}]
      /\ reran \in [Queries -> BOOLEAN] /\ answer \in [Queries -> 0..MaxRows]
  BY Limits DEF DriverAll, DriverTypes
<1>2. CASE UNCHANGED driver
  <2>1. UNCHANGED <<cpc, query, res, outcome, reran, answer>>
    BY <1>2 DEF driver, result, history
  <2> QED BY <2>1 DEF Ended
<1>3. CASE RunQuery
  <2>1. query' = query + 1 /\ UNCHANGED <<res, outcome, reran, answer>>
    BY <1>3 DEF RunQuery, result, history
  <2>2. q < query'
    BY <1>1, <2>1 DEF Ended
  <2> QED BY <2>1, <2>2 DEF Ended
<1>4. CASE Send \/ Drop
  <2>1. UNCHANGED <<query, res, outcome, reran, answer>> /\ (cpc = "idle" => cpc' = "idle")
    BY <1>4 DEF Send, Drop, result, history
  <2> QED BY <2>1 DEF Ended
<1>5. CASE Receive
  <2>1. cpc = "wait" /\ UNCHANGED <<query, reran>>
        /\ res' = IF Head(inbox).serial = serial
                  THEN [res EXCEPT ![query] = @ \o Head(inbox).rows] ELSE res
    BY <1>5, DriverReceive DEF Receive
  <2>2. q < query
    BY <2>1 DEF Ended
  <2>3. \/ UNCHANGED <<outcome, answer>>
        \/ \E how, n : outcome' = [outcome EXCEPT ![query] = how]
                       /\ answer' = [answer EXCEPT ![query] = n]
    BY <1>5 DEF Receive, Returned
  <2>4. q # query
    BY <1>1, <2>2
  <2>5. res'[q] = res[q]
    BY <1>1, <2>1, <2>4
  <2>6. outcome'[q] = outcome[q] /\ answer'[q] = answer[q]
    BY <1>1, <2>3, <2>4
  <2> QED BY <2>1, <2>2, <2>5, <2>6 DEF Ended
<1>6. CASE Fifty
  <2>1. cpc = "wait" /\ UNCHANGED <<query, res, reran>>
        /\ outcome' = [outcome EXCEPT ![query] = "failed"] /\ answer' = [answer EXCEPT ![query] = 0]
    BY <1>6 DEF Fifty, Returned
  <2>2. q < query
    BY <2>1 DEF Ended
  <2> QED BY <1>1, <2>1, <2>2 DEF Ended
<1>7. CASE Reconnect
  <2>1. cpc = "check" /\ UNCHANGED <<query, res, outcome, answer>>
        /\ reran' = [reran EXCEPT ![query] = outcome[query] # "none"]
    BY <1>7 DEF Reconnect, result
  <2>2. q < query
    BY <2>1 DEF Ended
  <2> QED BY <1>1, <2>1, <2>2 DEF Ended
<1>8. CASE Done
  <2>1. cpc' = "idle" /\ UNCHANGED <<query, res, outcome, reran, answer>>
    BY <1>8 DEF Done, result, history
  <2> QED BY <2>1 DEF Ended
<1> QED BY <1>2, <1>3, <1>4, <1>5, <1>6, <1>7, <1>8, DriverDrain, ApartKeeps, Cases

LEMMA EndedNew ==
  ASSUME DriverAll, BusAll, [Next]_vars, NEW q \in Queries, Ended(q)', ~Ended(q)
  PROVE  Done /\ q = query
<1>1. query \in Nat /\ q \in Nat
  BY Limits DEF DriverAll, DriverTypes
<1>2. CASE UNCHANGED driver
  <2>1. UNCHANGED <<cpc, query>>
    BY <1>2 DEF driver
  <2> QED BY <2>1 DEF Ended
<1>3. CASE RunQuery
  <2>1. query' = query + 1 /\ cpc = "idle" /\ cpc' # "idle"
    BY <1>3 DEF RunQuery
  <2>2. q < query + 1
    BY <2>1 DEF Ended
  <2> QED BY <1>1, <2>1, <2>2 DEF Ended
<1>4. CASE Send \/ Drop \/ Fifty \/ Reconnect \/ Receive
  <2>1. UNCHANGED query /\ (cpc' = "idle" => cpc = "idle")
    BY <1>4 DEF Send, Drop, Fifty, Reconnect, Receive, Returned
  <2> QED BY <2>1 DEF Ended
<1>5. CASE Done
  <2>1. UNCHANGED query
    BY <1>5 DEF Done
  <2> QED BY <1>5, <2>1 DEF Ended
<1> QED BY <1>2, <1>3, <1>4, <1>5, DriverDrain, ApartKeeps, Cases

LEMMA ExactStep ==
  ASSUME DriverAll, BusAll, ResultInv, ResultIsExact, [Next]_vars
  PROVE  ResultIsExact'
<1> SUFFICES ASSUME NEW q \in Queries, Ended(q)', outcome'[q] = "return"
             PROVE  \E k \in 0..MaxRows : (k > 0 => reran'[q])
                                          /\ res'[q] = RowsOf(q, k) \o RowsOf(q, answer'[q])
  BY DEF ResultIsExact
<1>1. CASE Ended(q)
  <2>1. res'[q] = res[q] /\ outcome'[q] = outcome[q] /\ answer'[q] = answer[q]
        /\ reran'[q] = reran[q]
    BY <1>1, EndedStays
  <2> QED BY <1>1, <2>1 DEF ResultIsExact
<1>2. CASE ~Ended(q)
  <2>1. Done /\ q = query
    BY <1>2, EndedNew
  <2>2. cpc = "check" /\ UNCHANGED <<res, outcome, reran, answer>>
    BY <2>1 DEF Done, result, history
  <2>3. PICK k \in 0..MaxRows, j \in 0..MaxRows : Result(k, j)
    BY <2>2 DEF ResultInv
  <2>4. j = answer[q] /\ res[q] = RowsOf(q, k) \o RowsOf(q, j) /\ (k > 0 => reran[q])
    BY <2>1, <2>2, <2>3 DEF Result
  <2> QED BY <2>2, <2>4
<1> QED BY <1>1, <1>2

-----------------------------------------------------------------------------
(* How often a statement begins.                                            *)

LEMMA Counted ==
  ASSUME DriverAll, DaemonAll, NEW q \in Queries
  PROVE  Allowed(q) \in Nat /\ executed[q] \in Nat /\ Starting(q) \in Nat
  BY DEF Allowed, Starting, DaemonAll, DaemonTypes

LEMMA AllowedGrows ==
  ASSUME DriverAll, DriverAll', BusAll, [Next]_vars, NEW q \in Queries
  PROVE  /\ Allowed(q) <= Allowed(q)'
         /\ Send /\ q = query => Allowed(q) + 1 <= Allowed(q)'
<1>1. query \in Nat /\ q \in Nat /\ cpc \in {"idle", "drain", "wait", "check"}
      /\ outcome \in [Queries -> {"none", "return", "error", "failed"}]
      /\ reran \in [Queries -> BOOLEAN] /\ (cpc # "idle" => query \in Queries)
      /\ query' \in Nat
  BY Busy, Limits DEF DriverAll, DriverTypes
<1>2. CASE UNCHANGED driver /\ ~Send
  <2>1. UNCHANGED <<cpc, query, attempt, outcome, reran>>
    BY <1>2 DEF driver, history
  <2>2. Allowed(q)' = Allowed(q) /\ Allowed(q) \in Nat
    BY <2>1 DEF Allowed
  <2> QED BY <1>2, <2>2
<1>3. CASE RunQuery
  <2>1. cpc = "idle" /\ query' = query + 1 /\ cpc' \in {"drain", "check"} /\ ~Send
        /\ UNCHANGED <<outcome, reran>> /\ attempt' = 1
    BY <1>3 DEF RunQuery, history, Send
  <2>2. q > query => ~reran[q] /\ outcome[q] = "none"
    BY DEF DriverAll, DriverInv
  <2>3. CASE q <= query
    <3>1. q < query' /\ ~(q > query) /\ ~(q > query') /\ q # query'
      BY <1>1, <2>1, <2>3
    <3>2. Allowed(q)' = Allowed(q) /\ Allowed(q) \in Nat
      BY <2>1, <3>1 DEF Allowed
    <3> QED BY <2>1, <3>2
  <2>4. CASE q > query
    <3>1. Allowed(q) = 0 /\ Allowed(q)' \in Nat
      BY <2>4 DEF Allowed
    <3> QED BY <2>1, <3>1
  <2> QED BY <1>1, <2>3, <2>4
<1>4. CASE Send
  <2>1. cpc = "drain" /\ cpc' = "wait" /\ UNCHANGED <<query, attempt, outcome, reran>>
    BY <1>4 DEF Send, history
  <2> QED BY <1>1, <2>1 DEF Allowed
<1>5. CASE Receive \/ Fifty
  <2>1. cpc = "wait" /\ UNCHANGED <<query, attempt, reran>> /\ ~Send
        /\ \/ UNCHANGED <<cpc, outcome>>
           \/ /\ cpc' = "check"
              /\ \E how \in {"return", "error", "failed"} : outcome' = [outcome EXCEPT ![query] = how]
    <3>1. CASE Fifty
      BY <3>1 DEF Fifty, Returned, Send
    <3>2. CASE Receive
      <4>1. Head(inbox).kind \in {"chunk", "return", "error"}
        BY <3>2, InboxHead DEF Receive
      <4> QED BY <3>2, <4>1 DEF Receive, Returned, Send
    <3> QED BY <1>5, <3>1, <3>2
  <2>2. cpc' = "wait" \/ (cpc' = "check" /\ outcome'[query] # "none")
    BY <1>1, <2>1
  <2>3. Allowed(q)' = Allowed(q) /\ Allowed(q) \in Nat
    BY <1>1, <2>1, <2>2 DEF Allowed
  <2> QED BY <2>1, <2>3
<1>6. CASE Reconnect
  <2>1. cpc = "check" /\ attempt = 1 /\ cpc' = "drain" /\ attempt' = 2 /\ UNCHANGED <<query, outcome>>
        /\ reran' = [reran EXCEPT ![query] = outcome[query] # "none"] /\ ~Send
    BY <1>6 DEF Reconnect, Send
  <2>2. ~reran[query] /\ (reran'[query] <=> outcome[query] # "none")
    BY <1>1, <2>1 DEF DriverAll, DriverInv
  <2>3. q # query => reran'[q] = reran[q]
    BY <1>1, <2>1
  <2>4. Allowed(q)' = Allowed(q) /\ Allowed(q) \in Nat
    BY <2>1, <2>2, <2>3 DEF Allowed
  <2> QED BY <2>1, <2>4
<1>7. CASE Done
  <2>1. cpc = "check" /\ cpc' = "idle" /\ UNCHANGED <<query, outcome, reran>> /\ ~Send
    BY <1>7 DEF Done, history, Send
  <2>2. Allowed(q) <= Allowed(q)'
    BY <1>1, <2>1 DEF Allowed
  <2> QED BY <2>1, <2>2
<1>8. CASE Drop
  <2>1. UNCHANGED <<cpc, query, attempt, outcome, reran>>
    BY <1>8 DEF Drop, history
  <2>2. connected /\ connected' = FALSE
    BY <1>8 DEF Drop
  <2>3. ~Send
    BY <2>2 DEF Send
  <2>4. Allowed(q)' = Allowed(q) /\ Allowed(q) \in Nat
    BY <2>1 DEF Allowed
  <2> QED BY <2>3, <2>4
<1>9. (Drain \/ Apart) => UNCHANGED driver /\ ~Send
  <2>1. Drain => UNCHANGED driver /\ ~Send
    BY DriverDrain DEF Drain, Send
  <2>2. Apart /\ UNCHANGED driver => ~Send
    BY DEF Send, driver
  <2> QED BY <2>1, <2>2, ApartKeeps
<1> QED BY <1>2, <1>3, <1>4, <1>5, <1>6, <1>7, <1>8, <1>9, Cases

LEMMA RunsStep ==
  ASSUME DriverAll, BusAll, DaemonAll, RunsInv, DriverAll', DaemonAll', [Next]_vars
  PROVE  RunsInv'
<1> SUFFICES ASSUME NEW q \in Queries
             PROVE  Within(calls', q, executed'[q] + Starting(q)', Allowed(q)')
  BY DEF RunsInv
<1> DEFINE a == executed[q] + Starting(q)
           b == executed'[q] + Starting(q)'
           z == Allowed(q)
           y == Allowed(q)'
<1>1. a \in Nat /\ b \in Nat /\ z \in Nat /\ y \in Nat
  <2>1. Allowed(q)' \in Nat /\ executed'[q] \in Nat /\ Starting(q)' \in Nat
    BY DEF Allowed, Starting, DaemonAll, DaemonTypes
  <2> QED BY <2>1, Counted
<1>2. z <= y /\ (Send /\ q = query => z + 1 <= y)
  BY AllowedGrows
<1>3. Within(calls, q, a, z) /\ calls \in Seq(Call)
  BY CallsDomain DEF RunsInv
<1>4. b <= a /\ UNCHANGED calls => Within(calls', q, b, y)
  <2> HIDE DEF a, b, z, y
  <2> QED BY <1>1, <1>2, <1>3, WithinMore
<1>5. CASE RunQuery \/ Drain \/ Receive \/ Fifty \/ Reconnect \/ Done \/ UNCHANGED vars
  <2>1. UNCHANGED <<calls, dpc, call, executed>>
    BY <1>5 DEF RunQuery, Drain, Receive, Fifty, Reconnect, Done, vars, daemon
  <2>2. b = a
    BY <2>1 DEF Starting
  <2> QED BY <1>1, <1>4, <2>1, <2>2
<1>6. CASE Send
  <2>1. /\ UNCHANGED <<dpc, call, executed>> /\ cpc = "drain"
        /\ calls' = IF connected
                    THEN Append(calls, [conn |-> conn, serial |-> serial', query |-> query])
                    ELSE calls
    BY <1>6 DEF Send, daemon
  <2>2. b = a
    BY <2>1 DEF Starting
  <2>3. CASE ~connected
    BY <1>1, <1>4, <2>1, <2>2, <2>3
  <2>4. CASE connected
    <3> DEFINE x == [conn |-> conn, serial |-> serial', query |-> query]
    <3>1. x \in Call /\ x.query = query
      <4>1. serial' \in Serials /\ conn \in Conns /\ query \in Queries
        BY <1>6, <2>1, DriverSend, Busy DEF DriverAll, DriverTypes
      <4> QED BY <4>1 DEF Call
    <3>2. calls' = Append(calls, x)
      BY <2>1, <2>4
    <3> HIDE DEF x, a, b, z, y
    <3>3. z + (IF x.query = q THEN 1 ELSE 0) <= y
      BY <1>1, <1>2, <1>6, <3>1
    <3>4. Within(Append(calls, x), q, a, y)
      BY <1>1, <1>3, <3>1, <3>3, WithinSent
    <3>5. Within(calls', q, b, y)
      BY <2>2, <3>2, <3>4
    <3> QED BY <3>5 DEF b, y
  <2> QED BY <2>3, <2>4
<1>7. CASE Drop
  <2>1. PICK n \in 0..Len(calls) : calls' = SubSeq(calls, 1, n)
    BY <1>7 DEF Drop
  <2>2. UNCHANGED <<dpc, call, executed>>
    BY <1>7 DEF Drop, daemon
  <2>3. b = a
    BY <2>2 DEF Starting
  <2> HIDE DEF a, b, z, y
  <2>4. Within(calls, q, a, y)
    BY <1>1, <1>2, <1>3, WithinMore
  <2>5. Within(calls', q, b, y)
    BY <1>1, <1>3, <2>1, <2>3, <2>4, WithinCut
  <2> QED BY <2>5 DEF b, y
<1>8. CASE Take
  <2>1. dpc = "idle" /\ dpc' = "connect" /\ calls # <<>> /\ call' = Head(calls)
        /\ calls' = Tail(calls) /\ UNCHANGED executed
    BY <1>8 DEF Take
  <2>2. b = a + (IF Head(calls).query = q THEN 1 ELSE 0)
    <3>1. Starting(q) = 0 /\ Starting(q)' = IF Head(calls).query = q THEN 1 ELSE 0
      BY <2>1 DEF Starting
    <3> QED BY <2>1, <3>1, Counted
  <2> HIDE DEF a, b, z, y
  <2>3. Within(calls, q, a, y)
    BY <1>1, <1>2, <1>3, WithinMore
  <2>4. Within(calls', q, b, y)
    BY <1>1, <1>3, <2>1, <2>2, <2>3, WithinTaken
  <2> QED BY <2>4 DEF b, y
<1>9. CASE Refuse \/ ConnectAgain \/ ReadRow \/ Fail \/ Reply
  <2>1. UNCHANGED <<calls, call, executed>> /\ (dpc' = "connect" => dpc = "connect")
    BY <1>9 DEF Refuse, ConnectAgain, ReadRow, Fail, Reply, Throw
  <2>2. Starting(q)' <= Starting(q)
    BY <2>1 DEF Starting
  <2>3. b <= a
    <3>1. executed[q] \in Nat /\ Starting(q) \in Nat /\ Starting(q)' \in Nat
      BY Counted DEF Starting
    <3> QED BY <2>1, <2>2, <3>1
  <2> QED BY <1>4, <2>1, <2>3
<1>10. CASE Select
  <2>1. dpc = "connect" /\ dpc' = "rows" /\ UNCHANGED <<calls, call>>
        /\ executed' = [executed EXCEPT ![call.query] = @ + 1]
    BY <1>10 DEF Select
  <2>2. executed \in [Queries -> Nat]
    BY DEF DaemonAll, DaemonTypes
  <2>3. executed'[q] = executed[q] + (IF call.query = q THEN 1 ELSE 0)
    BY <2>1, <2>2
  <2>4. Starting(q) = (IF call.query = q THEN 1 ELSE 0) /\ Starting(q)' = 0
    BY <2>1 DEF Starting
  <2>5. b = a
    BY <2>2, <2>3, <2>4
  <2> QED BY <1>1, <1>4, <2>1, <2>5
<1> QED BY <1>5, <1>6, <1>7, <1>8, <1>9, <1>10, Cases DEF Apart, Daemon

-----------------------------------------------------------------------------
(* What holds in every state.                                               *)

Inv == DriverAll /\ BusAll /\ DaemonAll /\ ResultInv /\ ResultIsExact /\ RunsInv

LEMMA InvInit == ASSUME Init PROVE Inv
<1>1. /\ cpc = "idle" /\ query = 0 /\ attempt = 0 /\ conn = 0 /\ connected = TRUE /\ serial = 0
      /\ signal_returns = [s \in Serials |-> 0] /\ res = [q \in Queries |-> <<>>]
      /\ outcome = [q \in Queries |-> "none"] /\ reran = [q \in Queries |-> FALSE]
      /\ answer = [q \in Queries |-> 0] /\ calls = <<>> /\ inbox = <<>> /\ dpc = "idle"
      /\ numtries = 0 /\ total = 0 /\ read = 0 /\ rows = <<>> /\ cursize = 0
      /\ executed = [q \in Queries |-> 0]
  BY DEF Init
<1>2. DriverTypes
  <2>1. 0 \in 0..MaxRows /\ 0 \in Conns /\ 0 \in 0..MaxQueries
    BY Limits DEF Conns
  <2>2. res \in [Queries -> Seq(Row)]
    BY <1>1, EmptyRows
  <2> QED BY <1>1, <2>1, <2>2 DEF DriverTypes
<1>3. DriverInv
  BY <1>1 DEF DriverInv
<1>4. BusAll
  <2>1. <<>> \in Seq(Call) /\ <<>> \in Seq(Msg) /\ Len(<<>>) = 0 /\ DOMAIN <<>> = {}
    BY EmptySeq, LenProperties
  <2>2. calls \in Seq(Call) /\ inbox \in Seq(Msg) /\ DOMAIN calls = {} /\ DOMAIN inbox = {}
    BY <1>1, <2>1
  <2>3. InboxInv
    BY <1>1, <2>2 DEF InboxInv
  <2>4. CallsInv
    BY <1>1, <2>2 DEF CallsInv, Working
  <2> QED BY <2>2, <2>3, <2>4 DEF BusAll, BusTypes
<1>5. DaemonAll
  <2>1. 0 \in 0..MaxRows
    BY Limits
  <2> QED BY <1>1, <2>1, EmptyRows DEF DaemonAll, DaemonTypes, UnsentInv
<1>6. ResultInv
  BY <1>1 DEF ResultInv
<1>7. ResultIsExact
  BY <1>1, Limits DEF ResultIsExact
<1>8. RunsInv
  <2> SUFFICES ASSUME NEW q \in Queries
               PROVE Within(calls, q, executed[q] + Starting(q), Allowed(q))
    BY DEF RunsInv
  <2>1. q > query /\ executed[q] = 0
    BY <1>1, Limits
  <2>2. executed[q] + Starting(q) = 0 /\ Allowed(q) = 0
    BY <1>1, <2>1 DEF Starting, Allowed
  <2>3. Within(<<>>, q, 0, 0)
    BY WithinNone
  <2> QED BY <1>1, <2>2, <2>3
<1> QED BY <1>2, <1>3, <1>4, <1>5, <1>6, <1>7, <1>8 DEF Inv, DriverAll

LEMMA InvStep == ASSUME Inv, [Next]_vars PROVE Inv'
<1>1. DriverAll /\ BusAll /\ DaemonAll /\ ResultInv /\ ResultIsExact /\ RunsInv
  BY DEF Inv
<1>2. DriverAll'
  BY <1>1, DriverStep
<1>3. DaemonAll'
  BY <1>1, DaemonStep
<1>4. BusAll' /\ ResultInv' /\ ResultIsExact'
  BY <1>1, BusStep, ResultStep, ExactStep
<1>5. RunsInv'
  BY <1>1, <1>2, <1>3, RunsStep
<1> QED BY <1>2, <1>3, <1>4, <1>5 DEF Inv

LEMMA Always == Spec => []Inv
<1>1. Init => Inv
  BY InvInit
<1>2. Inv /\ [Next]_vars => Inv'
  BY InvStep
<1> QED BY <1>1, <1>2, PTL DEF Spec

LEMMA InvRuns == ASSUME Inv PROVE RunOnce
<1> SUFFICES ASSUME NEW q \in Queries PROVE executed[q] <= IF reran[q] THEN 2 ELSE 1
  BY DEF RunOnce
<1>1. Within(calls, q, executed[q] + Starting(q), Allowed(q)) /\ calls \in Seq(Call)
  BY CallsDomain DEF Inv, RunsInv
<1>2. Allowed(q) \in Nat /\ executed[q] \in Nat /\ Starting(q) \in Nat
  BY Counted DEF Inv
<1>3. executed[q] + Starting(q) \in Nat
  BY <1>2
<1>4. executed[q] + Starting(q) <= Allowed(q)
  BY <1>1, <1>2, <1>3, WithinBounds
<1>5. Allowed(q) <= IF reran[q] THEN 2 ELSE 1
  BY DEF Allowed
<1> QED BY <1>2, <1>4, <1>5

-----------------------------------------------------------------------------
(* The theorems.                                                            *)

\* Every variable of the driver, the bus and the daemon keeps its type, and what
\* the daemon has read and not sent is always smaller than a chunk.
THEOREM TypeCorrect == Spec => []TypeOK
<1>1. Inv => TypeOK
  <2> SUFFICES ASSUME Inv PROVE TypeOK
    OBVIOUS
  <2>1. DriverAll /\ BusAll /\ DaemonAll
    BY DEF Inv
  <2>2. cursize = Size(rows) /\ cursize < ChunkSize
    <3>1. CASE dpc = "rows"
      BY <2>1, <3>1, Kept
    <3>2. CASE dpc # "rows"
      <4>1. rows = <<>> /\ cursize = 0
        BY <2>1, <3>2 DEF DaemonAll, UnsentInv
      <4> QED BY <4>1, EmptyRows, Limits
    <3> QED BY <3>1, <3>2
  <2>3. serial \in {0} \cup Serials
    BY <2>1, Limits DEF DriverAll, DriverTypes, DriverInv, Serials
  <2>4. executed \in [Queries -> 0..2]
    <3>1. executed \in [Queries -> Nat] /\ \A q \in Queries : executed[q] \in 0..2
      <4>1. executed \in [Queries -> Nat]
        BY <2>1 DEF DaemonAll, DaemonTypes
      <4>2. \A q \in Queries : executed[q] <= IF reran[q] THEN 2 ELSE 1
        BY InvRuns DEF RunOnce
      <4> QED BY <4>1, <4>2
    <3> QED BY <3>1
  <2> QED BY <2>1, <2>2, <2>3, <2>4 DEF TypeOK, DriverAll, DriverTypes, BusAll, BusTypes,
                                          DaemonAll, DaemonTypes
<1> QED BY <1>1, Always, PTL

\* A query that the daemon answered gives exactly its rows, in order and once, in
\* whatever messages they came and whatever came late; rows of a lost connection
\* can only be in front. Signals are as large as a chunk and not larger than they must.
THEOREM ResultsArrive == Spec => []RowsArrive
<1>1. Inv => RowsArrive
  BY DEF Inv, BusAll, InboxInv, Sized, RowsArrive, ChunksAreFull
<1> QED BY <1>1, Always, PTL

\* A query's statement begins at most once for each time that the driver ran it:
\* what the daemon tries again is its connection only.
THEOREM RunsOnce == Spec => []RunOnce
<1>1. Inv => RunOnce
  BY InvRuns
<1> QED BY <1>1, Always, PTL

\* No message that comes late, and no other query, touches a result that the
\* application has.
THEOREM StaysFinal == Spec => FinishedIsFinal
<1>1. Inv /\ [Next]_vars => [\A q \in Queries : Ended(q) => res'[q] = res[q]]_vars
  BY EndedStays DEF Inv
<1> QED BY <1>1, Always, PTL DEF Spec, FinishedIsFinal
=============================================================================
