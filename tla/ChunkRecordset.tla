--------------------------- MODULE ChunkRecordset ---------------------------
(***************************************************************************)
(* A result in several messages: ExecChunkRecordset of the daemon           *)
(* (vxapi.cs) sends rows in signals of about 1 MB and the rest in its       *)
(* reply; the ODBC driver (vxhelpers.cc) puts them together.                *)
(*                                                                          *)
(* The driver gives up after 50 seconds while the daemon goes on, so that   *)
(* signals and replies come late; and it runs a query again when its        *)
(* connection is lost.  The daemon connects to the database again when that *)
(* fails.                                                                   *)
(***************************************************************************)
EXTENDS Integers, Sequences, SequencesExt

CONSTANTS
  MaxRows,     \* the rows of the longest result
  SizeUpTo,    \* the size of its first n rows together
  ChunkSize,   \* the size from which rows are sent
  MaxQueries,  \* queries of the application
  MaxDrops     \* connections that are lost

ASSUME SizesAssumption ==
  /\ MaxRows \in Nat /\ ChunkSize \in Nat \ {0}
  /\ SizeUpTo \in [0..MaxRows -> Nat] /\ SizeUpTo[0] = 0
  /\ \A n \in 1..MaxRows : SizeUpTo[n - 1] <= SizeUpTo[n]
ASSUME LimitsAssumption == MaxQueries \in Nat /\ MaxDrops \in Nat

Queries == 1..MaxQueries
Serials == 1..2 * MaxQueries
Conns == 0..MaxDrops

\* The first n rows of query q.
RowsOf(q, n) == [i \in 1..n |-> [query |-> q, row |-> i]]
RowSize(n) == SizeUpTo[n] - SizeUpTo[n - 1]
\* The size of rows that follow each other.
Size(part) == IF part = <<>> THEN 0
              ELSE SizeUpTo[part[Len(part)].row] - SizeUpTo[part[1].row - 1]

VARIABLES
  \* the driver
  cpc, query, attempt,
  conn, connected, \* its connection
  serial,          \* the number of its last call on the connection
  signal_returns,  \* the result that gets the rows for a serial, or 0
  res,             \* each query's result
  outcome, reran,  \* history: how it ended, whether it was run twice
  answer,          \* history: how many rows the answered statement had
  \* the bus
  calls, inbox,
  \* the daemon
  dpc, call, numtries,
  total,           \* rows of the statement
  read,            \* those that were read
  rows, cursize,   \* those that are not sent yet
  executed         \* history: how often each query's statement has begun

result == <<signal_returns, res>>
link == <<conn, connected, serial>>
history == <<outcome, reran, answer>>
driver == <<cpc, query, attempt, link, result, history>>
daemon == <<dpc, call, numtries, total, read, rows, cursize, executed>>
vars == <<driver, calls, inbox, daemon>>

Init ==
  /\ cpc = "idle" /\ query = 0 /\ attempt = 0
  /\ conn = 0 /\ connected = TRUE /\ serial = 0
  /\ signal_returns = [s \in Serials |-> 0]
  /\ res = [q \in Queries |-> <<>>]
  /\ outcome = [q \in Queries |-> "none"]
  /\ reran = [q \in Queries |-> FALSE]
  /\ answer = [q \in Queries |-> 0]
  /\ calls = <<>> /\ inbox = <<>>
  /\ dpc = "idle" /\ numtries = 0 /\ total = 0 /\ read = 0
  /\ call = [conn |-> 0, serial |-> 0, query |-> 0]
  /\ rows = <<>> /\ cursize = 0
  /\ executed = [q \in Queries |-> 0]

-----------------------------------------------------------------------------
(* The driver.                                                              *)

\* VxStatement.runquery; a connection that is known to be dead is not tried.
RunQuery ==
  /\ cpc = "idle" /\ query < MaxQueries
  /\ query' = query + 1 /\ attempt' = 1
  /\ cpc' = IF connected THEN "drain" ELSE "check"
  /\ UNCHANGED <<link, result, history, calls, inbox, daemon>>

\* Mutant: rows go to the query that runs now.
SortedByQuery(m) ==
  IF m.kind = "chunk" /\ query # 0
  THEN [res EXCEPT ![query] = @ \o m.rows]
  ELSE res

\* signal_sorter: rows for a serial that nobody waits for are dropped.
Sorted(m) ==
  IF m.kind = "chunk" /\ signal_returns[m.serial] # 0
  THEN [res EXCEPT ![signal_returns[m.serial]] = @ \o m.rows]
  ELSE res

\* What has come is handled before the call is sent.
Drain ==
  /\ cpc = "drain" /\ connected /\ inbox # <<>>
  /\ res' = Sorted(Head(inbox))
  /\ inbox' = Tail(inbox)
  /\ UNCHANGED <<cpc, query, attempt, link, signal_returns, history, calls,
                 daemon>>

Send ==
  /\ cpc = "drain" /\ (inbox = <<>> \/ ~connected)
  /\ serial' = serial + 1
  /\ signal_returns' = [signal_returns EXCEPT ![serial'] = query]
  /\ calls' = IF connected
              THEN Append(calls, [conn |-> conn, serial |-> serial',
                                  query |-> query])
              ELSE calls
  /\ cpc' = "wait"
  /\ UNCHANGED <<query, attempt, conn, connected, res, history, inbox, daemon>>

\* Mutant: the result stays registered.
ErasedNot == signal_returns

Erased == [signal_returns EXCEPT ![serial] = 0]

\* send_and_wait returns: the reply's rows, or an error that is only logged.
Returned(how, n) ==
  /\ cpc' = "check"
  /\ signal_returns' = Erased
  /\ outcome' = [outcome EXCEPT ![query] = how]
  /\ answer' = [answer EXCEPT ![query] = n]

Receive ==
  /\ cpc = "wait" /\ connected /\ inbox # <<>>
  /\ inbox' = Tail(inbox)
  /\ LET m == Head(inbox)
     IN IF m.kind # "chunk" /\ m.serial = serial
        THEN /\ Returned(m.kind, m.total)
             /\ res' = [res EXCEPT ![query] = @ \o m.rows]
        ELSE /\ res' = Sorted(m)
             /\ UNCHANGED <<cpc, signal_returns, outcome, answer>>
  /\ UNCHANGED <<query, attempt, link, reran, calls, daemon>>

\* Mutant: it waits until the connection is lost.
FiftyNever ==
  /\ cpc = "wait" /\ ~connected
  /\ Returned("failed", 0)
  /\ UNCHANGED <<query, attempt, link, res, reran, calls, inbox, daemon>>

\* 50 seconds have passed, or the connection is lost.
Fifty ==
  /\ cpc = "wait"
  /\ Returned("failed", 0)
  /\ UNCHANGED <<query, attempt, link, res, reran, calls, inbox, daemon>>

\* runquery looks at the connection when it has run the query, or has not; it
\* is run again on a new one, into the same result.
Reconnect ==
  /\ cpc = "check" /\ ~connected /\ attempt = 1
  /\ attempt' = 2
  /\ conn' = conn + 1 /\ connected' = TRUE /\ serial' = 0
  /\ reran' = [reran EXCEPT ![query] = outcome[query] # "none"]
  /\ cpc' = "drain"
  /\ UNCHANGED <<query, result, outcome, answer, calls, inbox, daemon>>

Done ==
  /\ cpc = "check" /\ (connected \/ attempt = 2)
  /\ cpc' = "idle"
  /\ UNCHANGED <<query, attempt, link, result, history, calls, inbox, daemon>>

-----------------------------------------------------------------------------
(* The bus.                                                                 *)

\* A message for a connection that is gone is dropped.
Deliver(m) == IF connected /\ m.conn = conn THEN Append(inbox, m) ELSE inbox

\* What comes to the driver is lost, and its calls from any one on.
Drop ==
  /\ connected /\ conn < MaxDrops
  /\ connected' = FALSE
  /\ inbox' = <<>>
  /\ \E n \in 0..Len(calls) :
       /\ \A i \in n + 1..Len(calls) : calls[i].conn = conn
       /\ calls' = SubSeq(calls, 1, n)
  /\ UNCHANGED <<cpc, query, attempt, conn, serial, result, history, daemon>>

-----------------------------------------------------------------------------
(* The daemon.                                                              *)

Take ==
  /\ dpc = "idle" /\ calls # <<>>
  /\ call' = Head(calls) /\ calls' = Tail(calls)
  /\ dpc' = "connect" /\ numtries' = 0
  /\ UNCHANGED <<driver, inbox, total, read, rows, cursize, executed>>

Message(kind, part) ==
  [conn |-> call.conn, serial |-> call.serial, kind |-> kind, rows |-> part,
   total |-> read]

\* Any exception becomes an error reply.
Throw ==
  /\ dpc' = "idle"
  /\ inbox' = Deliver(Message("error", <<>>))
  /\ rows' = <<>> /\ cursize' = 0

\* No identity, a query that is not allowed, or no connection to the database.
Refuse ==
  /\ dpc = "connect"
  /\ Throw
  /\ UNCHANGED <<driver, calls, call, numtries, total, read, executed>>

\* Mutant: a failing statement is tried again like a failing connection.
FailAgain ==
  /\ dpc = "rows" /\ numtries = 0
  /\ numtries' = 1 /\ dpc' = "connect"
  /\ UNCHANGED <<driver, calls, inbox, call, total, read, rows, cursize,
                 executed>>

\* "Connect: A network-related..." is tried once more.
ConnectAgain ==
  /\ dpc = "connect" /\ numtries = 0
  /\ numtries' = 1
  /\ UNCHANGED <<driver, calls, inbox, dpc, call, total, read, rows, cursize,
                 executed>>

\* Each try begins with empty lists.
Select ==
  /\ dpc = "connect"
  /\ dpc' = "rows"
  /\ total' \in 0..MaxRows /\ read' = 0
  /\ rows' = <<>> /\ cursize' = 0
  /\ executed' = [executed EXCEPT ![call.query] = @ + 1]
  /\ UNCHANGED <<driver, calls, inbox, call, numtries>>

NextRow == [query |-> call.query, row |-> read + 1]

\* Mutant: what is exactly as large is not sent.
OverFull == cursize + RowSize(read + 1) > ChunkSize
Full == cursize + RowSize(read + 1) >= ChunkSize

\* Mutant: the lists are kept.
ReadRowKeeping ==
  /\ dpc = "rows" /\ read < total
  /\ read' = read + 1
  /\ rows' = Append(rows, NextRow)
  /\ IF Full
     THEN /\ inbox' = Deliver(Message("chunk", Append(rows, NextRow)))
          /\ cursize' = 0
     ELSE /\ cursize' = cursize + RowSize(read + 1)
          /\ UNCHANGED inbox
  /\ UNCHANGED <<driver, calls, dpc, call, numtries, total, executed>>

\* SendChunkRecordSignal, then new lists.
ReadRow ==
  /\ dpc = "rows" /\ read < total
  /\ read' = read + 1
  /\ IF Full
     THEN /\ inbox' = Deliver(Message("chunk", Append(rows, NextRow)))
          /\ rows' = <<>> /\ cursize' = 0
     ELSE /\ rows' = Append(rows, NextRow)
          /\ cursize' = cursize + RowSize(read + 1)
          /\ UNCHANGED inbox
  /\ UNCHANGED <<driver, calls, dpc, call, numtries, total, executed>>

\* The server's error, a cancel, or a value that does not convert.
Fail ==
  /\ dpc = "rows"
  /\ Throw
  /\ UNCHANGED <<driver, calls, call, numtries, total, read, executed>>

Reply ==
  /\ dpc = "rows" /\ read = total
  /\ dpc' = "idle"
  /\ inbox' = Deliver(Message("return", rows))
  /\ rows' = <<>> /\ cursize' = 0
  /\ UNCHANGED <<driver, calls, call, numtries, total, read, executed>>

Driver == RunQuery \/ Drain \/ Send \/ Receive \/ Fifty \/ Reconnect \/ Done
Daemon == Take \/ Refuse \/ ConnectAgain \/ Select \/ ReadRow \/ Fail \/ Reply

\* The application has no more queries.
Rest == cpc = "idle" /\ query = MaxQueries /\ UNCHANGED vars

Next == Driver \/ Drop \/ Daemon \/ Rest

Spec == Init /\ [][Next]_vars
\* Only the driver's own thread and its timer are relied upon.
FairSpec == Spec /\ WF_vars(Driver)

-----------------------------------------------------------------------------
(* Properties.                                                              *)

Row == [query : Queries, row : 1..MaxRows]
Call == [conn : Conns, serial : Serials, query : Queries]
Msg == [conn : Conns, serial : Serials, kind : {"chunk", "return", "error"},
        rows : Seq(Row), total : 0..MaxRows]

\* Every variable has its type; the daemon has an entry of the queue when it
\* works, and what it has not sent is smaller than a chunk.
TypeOK ==
  /\ cpc \in {"idle", "drain", "wait", "check"}
  /\ query \in 0..MaxQueries /\ attempt \in 0..2
  /\ cpc # "idle" => query # 0 /\ attempt # 0
  /\ conn \in Conns /\ connected \in BOOLEAN /\ serial \in {0} \cup Serials
  /\ signal_returns \in [Serials -> {0} \cup Queries]
  /\ res \in [Queries -> Seq(Row)]
  /\ outcome \in [Queries -> {"none", "return", "error", "failed"}]
  /\ reran \in [Queries -> BOOLEAN] /\ answer \in [Queries -> 0..MaxRows]
  /\ calls \in Seq(Call) /\ inbox \in Seq(Msg)
  /\ dpc \in {"idle", "connect", "rows"} /\ numtries \in 0..1
  /\ dpc # "idle" => call \in Call
  /\ total \in 0..MaxRows /\ read \in 0..total
  /\ rows \in Seq(Row) /\ cursize = Size(rows) /\ cursize < ChunkSize
  /\ executed \in [Queries -> 0..2]

Ended(q) == q < query \/ (q = query /\ cpc = "idle")

\* A query that is answered gives its rows, each once and in order, whatever
\* comes late from earlier ones; only if it was run again may the rows that
\* the lost connection had brought be in front.
ResultIsExact ==
  \A q \in Queries : Ended(q) /\ outcome[q] = "return" =>
    \E k \in 0..MaxRows : /\ k > 0 => reran[q]
                          /\ res[q] = RowsOf(q, k) \o RowsOf(q, answer[q])

\* A result that the application has got is never touched again.
FinishedIsFinal == [][\A q \in Queries : Ended(q) => res'[q] = res[q]]_vars

\* The daemon begins a query's statement at most once for each time that the
\* driver has run it.
RunOnce == \A q \in Queries : executed[q] <= IF reran[q] THEN 2 ELSE 1

\* Each signal is as large as a chunk and would not be without its last row,
\* and the reply is smaller.
ChunksAreFull ==
  \A i \in DOMAIN inbox :
    LET m == inbox[i]
    IN IF m.kind = "chunk"
       THEN /\ Size(m.rows) >= ChunkSize
            /\ Size(Front(m.rows)) < ChunkSize
       ELSE Size(m.rows) < ChunkSize

\* The driver's thread always comes back, whatever the daemon does.
QueryEnds == cpc # "idle" ~> cpc = "idle"

(* The rows of a query: cut where they must be, and put together again.      *)
RowsArrive == ResultIsExact /\ ChunksAreFull

(* A query ends, and what it returned does not change afterwards.            *)
EndsForGood == QueryEnds /\ FinishedIsFinal
=============================================================================
