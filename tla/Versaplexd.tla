----------------------------- MODULE Versaplexd -----------------------------
(***************************************************************************)
(* The event loop of the versaplexd daemon (versaplexd.cs) together with    *)
(* the part of a request's life the loop is interleaved with: the client's  *)
(* identification (vxapi.cs, GetClientId), which waits for the bus in a     *)
(* nested message loop (wvdbus-sharp/conn.cs, send_and_wait), the execution *)
(* of the statement, its chunk signals and its reply.                       *)
(*                                                                          *)
(* The daemon has one thread that does all of this, so every interleaving   *)
(* comes from the nested loop: while the action at the head of the queue    *)
(* waits for its client's identity, WvDbusMsgReady is entered again and     *)
(* queues further requests and cancels earlier ones.                        *)
(***************************************************************************)
EXTENDS Naturals, Sequences, FiniteSets

CONSTANTS
  Clients,    \* unique bus names of the clients (WvDbusMsg.sender)
  Bus,        \* the bus daemon itself, sender of the identification replies
  Kinds,      \* the kinds of call that clients make, a subset of CallKinds
  MaxSerial,  \* how many calls a client makes
  MaxChunks,  \* how many ChunkRecordsetSig signals one request may need
  MayLoseBus, \* whether the connection to the bus may be lost
  NoAct       \* C# null for a VxActionTriple or a command

(***************************************************************************)
(* What a method call on interface "vx.db" asks for:                        *)
(*  "recordset"  a method whose whole result is in its reply (Test,         *)
(*               ExecScalar, ExecRecordset, the schema methods)             *)
(*  "chunked"    ExecChunkRecordset                                         *)
(*  "quit"       Quit                                                       *)
(*  "unknown"    a method or a signature the router answers with an error   *)
(*  "nopath"     a path other than /db                                      *)
(*  "cancel"     CancelQuery(target)                                        *)
(*  "badcancel"  CancelQuery with a signature other than "u" and "s"        *)
(*  "junkcancel" CancelQuery("s") whose text Convert.ToUInt32 refuses       *)
(***************************************************************************)
CallKinds == {"recordset", "chunked", "quit", "unknown", "nopath",
              "cancel", "badcancel", "junkcancel"}

ASSUME KindsAssumption == Kinds \subseteq CallKinds
ASSUME BusAssumption == Bus \notin Clients
ASSUME BoundsAssumption == /\ MaxSerial \in Nat /\ MaxChunks \in Nat
                           /\ MayLoseBus \in BOOLEAN

\* The handlers that check the signature, identify the client, run SQL for it
\* and reply.
Queries == {"recordset", "chunked"}

\* Kinds of message on the stream: calls, and the bus daemon's answers to the
\* daemon's own calls.
Call == [src : Clients, serial : Nat, kind : CallKinds, target : Nat]
Answer == [src : {Bus}, serial : Nat, kind : {"return", "error"},
           target : {0}]
Msg == Call \cup Answer

\* What the Action delegate of a VxActionTriple will do.
Acts == {"route", "canceled", "cancelreply", "badsig"}
VxActionTriple == [src : Call, action : Acts]

ASSUME NoActAssumption == NoAct \notin VxActionTriple

\* An outgoing message about one request: a chunk signal or its one reply.
Outcomes == {"ok", "sqlerror", "refused", "unknownmethod", "canceled", "cancel",
             "badsignature", "quit"}
Output == [to : Clients, serial : Nat, what : Outcomes \cup {"chunk"}]

VARIABLES
  link,          \* the bus connection: "up", "down" (peer gone, not yet
                 \*   noticed) or "closed" (WvStream.close has run)
  inbox,         \* messages sent to the daemon that it has not read
  busq,          \* the daemon's own calls that the bus has yet to answer
  issued,        \* issued[c]: the calls that client c has made, by serial
  sent,          \* what the daemon has put on the bus, in order
  pc,            \* where the daemon's thread is
  action_queue, curaction,  \* the statics of the same names
  running,       \* the triple whose action() is on the stack
  stage,         \* which of GetClientId's three attempts is under way
  calls,         \* WvDbus.serial, for the daemon's own calls
  waiting,       \* the serial send_and_wait waits for
  usernames,     \* the cache of the same name
  curcmd,        \* WvSqlRows_IDataReader.curcmd
  chunks,        \* signals sent so far for the running request
  want_to_die,
  executed,      \* history: requests whose statement reached the database
  killed         \* history: requests that a CancelQuery found and "killed"

busvars == <<link, inbox, busq, issued>>
queuevars == <<action_queue, curaction>>
identvars == <<stage, calls, waiting, usernames>>
sqlvars == <<curcmd, chunks, executed>>
vars == <<busvars, queuevars, identvars, sqlvars, sent, pc, running,
          want_to_die, killed>>

Id(m) == <<m.src, m.serial>>
Triple(m, act) == [src |-> m, action |-> act]
Client == running.src.src

Init ==
  /\ link = "up"
  /\ inbox = <<>>
  /\ busq = <<>>
  /\ issued = [c \in Clients |-> <<>>]
  /\ sent = <<>>
  /\ pc = "io"
  /\ action_queue = <<>>
  /\ curaction = NoAct
  /\ running = NoAct
  /\ stage = 0
  /\ calls = 0
  /\ waiting = 0
  /\ usernames = [c \in Clients |-> "none"]
  /\ curcmd = NoAct
  /\ chunks = 0
  /\ want_to_die = FALSE
  /\ executed = {}
  /\ killed = {}

-----------------------------------------------------------------------------
(* The environment: clients, the bus daemon, the connection.                *)

\* A client makes its next call; a client's serials count up from 1.
ClientCall(c) ==
  /\ link = "up"
  /\ Len(issued[c]) < MaxSerial
  /\ \E k \in Kinds, t \in 1..MaxSerial :
       /\ k # "cancel" => t = 1
       /\ issued' = [issued EXCEPT ![c] =
                       Append(@, [kind |-> k, target |-> t])]
       /\ inbox' = Append(inbox, [src |-> c, serial |-> Len(issued[c]) + 1,
                                  kind |-> k, target |-> t])
  /\ UNCHANGED <<link, busq, queuevars, identvars, sqlvars, sent, pc, running,
                 want_to_die, killed>>

\* The bus daemon answers the oldest of the daemon's own calls.
BusAnswer ==
  /\ link = "up"
  /\ busq # <<>>
  /\ \E answer \in {"return", "error"} :
       inbox' = Append(inbox, [src |-> Bus, serial |-> Head(busq),
                               kind |-> answer, target |-> 0])
  /\ busq' = Tail(busq)
  /\ UNCHANGED <<link, issued, queuevars, identvars, sqlvars, sent, pc,
                 running, want_to_die, killed>>

\* The bus goes away; what it had sent before can still be read.
BusDown ==
  /\ MayLoseBus
  /\ link = "up"
  /\ link' = "down"
  /\ UNCHANGED <<inbox, busq, issued, queuevars, identvars, sqlvars, sent, pc,
                 running, want_to_die, killed>>

-----------------------------------------------------------------------------
(* WvDbusMsgReady and HandleCancelQuery, run by the loop in _Go ("io") or    *)
(* by the nested one in send_and_wait ("ident").                             *)

IsCurrent(serial) == curaction # NoAct /\ curaction.src.serial = serial

IsFirstMatch(q, serial, i) ==
  /\ q[i].src.serial = serial
  /\ \A j \in 1..(i - 1) : q[j].src.serial # serial

\* Mutant: the entry is removed, as the commented-out Remove(t) would.
CancelledByRemoval(q, serial) ==
  SelectSeq(q, LAMBDA t : t.src.serial # serial)

\* The foreach over action_queue: the first entry with that serial gets an
\* action that only says it was canceled.
Cancelled(q, serial) ==
  [i \in DOMAIN q |-> IF IsFirstMatch(q, serial, i)
                      THEN [q[i] EXCEPT !.action = "canceled"]
                      ELSE q[i]]

Matches(q, serial) == {Id(q[i].src) : i \in {j \in DOMAIN q :
                                              IsFirstMatch(q, serial, j)}}

CancelCurrent(m) ==
  /\ m.kind = "cancel"
  /\ IsCurrent(m.target)
  /\ curcmd' = NoAct
  /\ curaction' = NoAct
  /\ killed' = killed \cup {Id(curaction.src)}
  /\ action_queue' = Append(action_queue, Triple(m, "cancelreply"))

CancelQueued(m) ==
  /\ m.kind = "cancel"
  /\ ~IsCurrent(m.target)
  /\ killed' = killed \cup Matches(action_queue, m.target)
  /\ action_queue' = Append(Cancelled(action_queue, m.target),
                            Triple(m, "cancelreply"))
  /\ UNCHANGED <<curaction, curcmd>>

BadCancel(m) ==
  /\ m.kind = "badcancel"
  /\ action_queue' = Append(action_queue, Triple(m, "badsig"))
  /\ UNCHANGED <<curaction, curcmd, killed>>

\* Mutant: a new call goes to the front of the queue.
QueueCallFirst(m) ==
  /\ m.kind \in Queries \cup {"quit", "unknown", "nopath"}
  /\ action_queue' = <<Triple(m, "route")>> \o action_queue
  /\ UNCHANGED <<curaction, curcmd, killed>>

QueueCall(m) ==
  /\ m.kind \in Queries \cup {"quit", "unknown", "nopath"}
  /\ action_queue' = Append(action_queue, Triple(m, "route"))
  /\ UNCHANGED <<curaction, curcmd, killed>>

WvDbusMsgReady(m) ==
  CancelCurrent(m) \/ CancelQueued(m) \/ BadCancel(m) \/ QueueCall(m)

\* Mutant: messages are also read while a statement runs.
ReadingDuringRows ==
  pc \in {"io", "ident", "rows"} /\ link # "closed" /\ inbox # <<>>

Reading == pc \in {"io", "ident"} /\ link # "closed" /\ inbox # <<>>

\* handlemessage on a method call.
HandleCall ==
  /\ Reading
  /\ WvDbusMsgReady(Head(inbox))
  /\ inbox' = Tail(inbox)
  /\ UNCHANGED <<link, busq, issued, identvars, chunks, executed, sent, pc,
                 running, want_to_die>>

\* default_handler on an answer nobody waits for any more: the registered
\* Action stores it in a local of a frame that has gone.
LateAnswer ==
  /\ Reading
  /\ Head(inbox).src = Bus
  /\ pc = "ident" => Head(inbox).serial # waiting
  /\ inbox' = Tail(inbox)
  /\ UNCHANGED <<link, busq, issued, queuevars, identvars, sqlvars, sent, pc,
                 running, want_to_die, killed>>

\* Convert.ToUInt32 throws in the loop of _Go, which has no handler: the
\* exception leaves _Go and the daemon ends.
JunkKillsLoop ==
  /\ Reading
  /\ pc = "io"
  /\ Head(inbox).kind = "junkcancel"
  /\ inbox' = Tail(inbox)
  /\ pc' = "dead"
  /\ UNCHANGED <<link, busq, issued, queuevars, identvars, sqlvars, sent,
                 running, want_to_die, killed>>

-----------------------------------------------------------------------------
\* conn.send: bytes for a lost connection vanish, and writing them may be how
\* the loss is noticed.
Send(m, what) ==
  \/ /\ link = "up"
     /\ sent' = Append(sent, [to |-> m.src, serial |-> m.serial,
                              what |-> what])
     /\ UNCHANGED link
  \/ /\ link # "up"
     /\ link' \in {link, "closed"}
     /\ UNCHANGED sent

NoticedBySend == link = "down" /\ link' = "closed"

-----------------------------------------------------------------------------
(* GetClientId: GetCertFingerprint, then GetUnixUserName, then GetUnixUser,  *)
(* each a send_and_wait whose failure leads to the next.                     *)

Username == [i \in 1..3 |-> CASE i = 1 -> "cert" [] i = 2 -> "unix"
                              [] OTHER -> "uid"]

\* send_and_wait up to its loop: the call is written and flushed.  The write
\* may be how a loss is noticed, and on a closed stream flush(-1) never returns.
Ask(s) ==
  /\ stage' = s
  /\ calls' = calls + 1
  /\ waiting' = calls + 1
  /\ busq' = Append(busq, calls + 1)
  /\ link' \in IF link = "down" THEN {"down", "closed"} ELSE {link}
  /\ want_to_die' = (want_to_die \/ NoticedBySend)
  /\ pc' = IF link' = "closed" THEN "spin" ELSE "ident"
  /\ UNCHANGED usernames

\* The identity is remembered, and the handler goes on to the database.
Identified(name) ==
  /\ usernames' = [usernames EXCEPT ![Client] = name]
  /\ pc' = "sql"
  /\ stage' = 0
  /\ waiting' = 0
  /\ UNCHANGED <<busq, calls, link, want_to_die>>

AttemptFailed == IF stage < 3 THEN Ask(stage + 1) ELSE Identified("*")

Awaited == pc = "ident" /\ Reading /\ Head(inbox).src = Bus
                        /\ Head(inbox).serial = waiting

GotIdentity ==
  /\ Awaited
  /\ inbox' = Tail(inbox)
  /\ \/ Head(inbox).kind = "return" /\ Identified(Username[stage])
     \/ Head(inbox).kind = "error" /\ AttemptFailed
  /\ UNCHANGED <<issued, queuevars, sqlvars, sent, running, killed>>

\* The same exception, thrown inside the nested loop, ends up in the catch
\* blocks of GetClientId and counts as a failed attempt.
JunkFailsAttempt ==
  /\ Reading
  /\ pc = "ident"
  /\ Head(inbox).kind = "junkcancel"
  /\ inbox' = Tail(inbox)
  /\ AttemptFailed
  /\ UNCHANGED <<issued, queuevars, sqlvars, sent, running, killed>>

-----------------------------------------------------------------------------
(* The stream closes: onclose sets want_to_die.  readmessage(-1) does not     *)
(* look at it, nor at the stream: wait() returns false for ever.              *)

NoticeClose ==
  /\ pc \in {"io", "ident"}
  /\ link = "down"
  /\ inbox = <<>>
  /\ link' = "closed"
  /\ want_to_die' = TRUE
  /\ pc' = IF pc = "ident" THEN "spin" ELSE pc
  /\ UNCHANGED <<inbox, busq, issued, queuevars, identvars, sqlvars, sent,
                 running, killed>>

-----------------------------------------------------------------------------
(* The loop in _Go and the actions it runs.                                  *)

\* WvStream.runonce returns.
EndIo ==
  /\ pc = "io"
  /\ pc' = "drain"
  /\ UNCHANGED <<busvars, queuevars, identvars, sqlvars, sent, running,
                 want_to_die, killed>>

\* Mutant: want_to_die ends the inner loop too.
EndDrainEarly ==
  /\ pc = "drain"
  /\ action_queue = <<>> \/ want_to_die
  /\ pc' = IF want_to_die THEN "done" ELSE "io"
  /\ UNCHANGED <<busvars, queuevars, identvars, sqlvars, sent, running,
                 want_to_die, killed>>

\* Mutant: want_to_die is not looked at.
EndDrainForever ==
  /\ pc = "drain"
  /\ action_queue = <<>>
  /\ pc' = "io"
  /\ UNCHANGED <<busvars, queuevars, identvars, sqlvars, sent, running,
                 want_to_die, killed>>

\* The inner loop ends on an empty queue; only then is want_to_die looked at.
EndDrain ==
  /\ pc = "drain"
  /\ action_queue = <<>>
  /\ pc' = IF want_to_die THEN "done" ELSE "io"
  /\ UNCHANGED <<busvars, queuevars, identvars, sqlvars, sent, running,
                 want_to_die, killed>>

\* Mutant: the entry stays in the queue.
TakeActionAgain ==
  /\ pc = "drain"
  /\ action_queue # <<>>
  /\ curaction' = Head(action_queue)
  /\ running' = Head(action_queue)
  /\ UNCHANGED action_queue
  /\ pc' = "action"
  /\ UNCHANGED <<busvars, identvars, sqlvars, sent, want_to_die, killed>>

TakeAction ==
  /\ pc = "drain"
  /\ action_queue # <<>>
  /\ curaction' = Head(action_queue)
  /\ running' = Head(action_queue)
  /\ action_queue' = Tail(action_queue)
  /\ pc' = "action"
  /\ UNCHANGED <<busvars, identvars, sqlvars, sent, want_to_die, killed>>

\* Mutant: curaction keeps the action that has ended.
ActionDoneStale ==
  /\ UNCHANGED curaction
  /\ running' = NoAct
  /\ pc' = "drain"

\* action() returns to the loop.
ActionDone ==
  /\ curaction' = NoAct
  /\ running' = NoAct
  /\ pc' = "drain"

\* Actions that answer at once, in HandleCancelQuery's closures or in the
\* router; Quit asks the loop to end before its reply is sent.
Answers == [canceled |-> "canceled", cancelreply |-> "cancel",
            badsig |-> "badsignature"]

QuickAnswer ==
  /\ pc = "action"
  /\ LET m == running.src IN
     \/ /\ running.action # "route"
        /\ Send(m, Answers[running.action])
        /\ want_to_die' = (want_to_die \/ NoticedBySend)
     \/ /\ running.action = "route" /\ m.kind = "unknown"
        /\ Send(m, "unknownmethod")
        /\ want_to_die' = (want_to_die \/ NoticedBySend)
     \/ /\ running.action = "route" /\ m.kind = "quit"
        /\ Send(m, "quit")
        /\ want_to_die' = TRUE
  /\ ActionDone
  /\ UNCHANGED <<inbox, busq, issued, action_queue, identvars, sqlvars, killed>>

\* route() returns false for a path other than /db and nothing is sent.
NoAnswer ==
  /\ pc = "action"
  /\ running.action = "route" /\ running.src.kind = "nopath"
  /\ ActionDone
  /\ UNCHANGED <<busvars, action_queue, identvars, sqlvars, sent, want_to_die,
                 killed>>

IsQuery == running.action = "route" /\ running.src.kind \in Queries

KnownClient ==
  /\ pc = "action"
  /\ IsQuery
  /\ usernames[Client] # "none"
  /\ pc' = "sql"
  /\ UNCHANGED <<busvars, queuevars, identvars, sqlvars, sent, running,
                 want_to_die, killed>>

\* Mutant: the cache is not consulted.
AnyClient ==
  /\ pc = "action"
  /\ IsQuery
  /\ Ask(1)
  /\ UNCHANGED <<inbox, issued, queuevars, sqlvars, sent, running, killed>>

NewClient ==
  /\ pc = "action"
  /\ IsQuery
  /\ usernames[Client] = "none"
  /\ Ask(1)
  /\ UNCHANGED <<inbox, issued, queuevars, sqlvars, sent, running, killed>>

-----------------------------------------------------------------------------
(* The statement.  No message is read while it runs.                         *)

\* dbi.select: the reader's constructor sets curcmd, then executes.
StartStatement ==
  /\ pc = "sql"
  /\ curcmd' = running
  /\ chunks' = 0
  /\ executed' = executed \cup {Id(running.src)}
  /\ pc' = "rows"
  /\ UNCHANGED <<busvars, queuevars, identvars, sent, running, want_to_die,
                 killed>>

\* Anything that stops a query before its statement: no such user or
\* connection, no connection to the database, a statement the client may not
\* make.
Refuse ==
  /\ pc = "sql"
  /\ Send(running.src, "refused")
  /\ want_to_die' = (want_to_die \/ NoticedBySend)
  /\ ActionDone
  /\ UNCHANGED <<inbox, busq, issued, action_queue, identvars, sqlvars, killed>>

\* SendChunkRecordSignal, when another megabyte of rows has been read.
SendChunk ==
  /\ pc = "rows"
  /\ running.src.kind = "chunked"
  /\ chunks < MaxChunks
  /\ chunks' = chunks + 1
  /\ Send(running.src, "chunk")
  /\ want_to_die' = (want_to_die \/ NoticedBySend)
  /\ UNCHANGED <<inbox, busq, issued, queuevars, identvars, curcmd, executed,
                 pc, running, killed>>

\* The reader is disposed and the reply is sent.
Finish ==
  /\ pc = "rows"
  /\ curcmd' = NoAct
  /\ Send(running.src, "ok")
  /\ want_to_die' = (want_to_die \/ NoticedBySend)
  /\ ActionDone
  /\ UNCHANGED <<inbox, busq, issued, action_queue, identvars, chunks,
                 executed, killed>>

\* A DbException, from ExecuteReader (curcmd then stays behind) or later.
\* ExecuteCall answers with the error.
Fail ==
  /\ pc = "rows"
  /\ curcmd' \in IF chunks = 0 THEN {curcmd, NoAct} ELSE {NoAct}
  /\ Send(running.src, "sqlerror")
  /\ want_to_die' = (want_to_die \/ NoticedBySend)
  /\ ActionDone
  /\ UNCHANGED <<inbox, busq, issued, action_queue, identvars, chunks,
                 executed, killed>>

\* The reply is longer than MaxMessageLength: conn.send throws, outside
\* ExecuteCall's handlers, and the exception leaves _Go.
Oversize ==
  /\ pc = "rows"
  /\ running.src.kind = "recordset"
  /\ curcmd' = NoAct
  /\ pc' = "dead"
  /\ UNCHANGED <<busvars, queuevars, identvars, chunks, executed, sent,
                 running, want_to_die, killed>>

\* Go has returned, or the thread is caught in readmessage(-1) or flush(-1).
Halted ==
  /\ pc \in {"done", "dead", "spin"}
  /\ UNCHANGED vars

Loop == EndIo \/ EndDrain \/ TakeAction
Handler == HandleCall \/ LateAnswer \/ JunkKillsLoop \/ NoticeClose
Identify == KnownClient \/ NewClient \/ GotIdentity \/ JunkFailsAttempt
Reply == QuickAnswer \/ NoAnswer
Execute == StartStatement \/ Refuse \/ SendChunk \/ Finish \/ Fail \/ Oversize
Daemon == Loop \/ Handler \/ Identify \/ Reply \/ Execute

Environment == (\E c \in Clients : ClientCall(c)) \/ BusAnswer \/ BusDown

Next == Daemon \/ Environment \/ Halted

Spec == Init /\ [][Next]_vars

\* The thread keeps running (statements end, the disk and the database
\* answer), and the bus answers the calls it has been sent.
FairSpec == Spec /\ WF_vars(Daemon) /\ WF_vars(BusAnswer)

-----------------------------------------------------------------------------
(* Properties.                                                              *)

IsReply(o) == o.what # "chunk"
Answered(c, n) == \E i \in DOMAIN sent :
                    sent[i].to = c /\ sent[i].serial = n /\ IsReply(sent[i])

\* Every variable has its type, and the thread's position agrees with what it
\* holds: curaction (unless a CancelQuery cleared it) and curcmd.
TypeOK ==
  /\ link \in {"up", "down", "closed"}
  /\ inbox \in Seq(Msg)
  /\ busq \in Seq(Nat)
  /\ issued \in [Clients -> Seq([kind : Kinds, target : Nat])]
  /\ sent \in Seq(Output)
  /\ pc \in {"io", "drain", "action", "ident", "sql", "rows", "done", "dead",
             "spin"}
  /\ action_queue \in Seq(VxActionTriple)
  /\ curaction \in {NoAct, running}
  /\ running \in VxActionTriple \cup {NoAct}
  /\ stage \in 0..3 /\ calls \in Nat /\ waiting \in 0..calls
  /\ usernames \in [Clients -> {"none", "cert", "unix", "uid", "*"}]
  /\ curcmd \in VxActionTriple \cup {NoAct}
  /\ chunks \in 0..MaxChunks
  /\ want_to_die \in BOOLEAN
  /\ executed \subseteq Clients \X Nat
  /\ killed \subseteq Clients \X Nat

\* Calls that nothing in the daemon replies to: a path the router does not
\* know, and the CancelQuery whose handler throws.
Unanswerable == {"nopath", "junkcancel"}

\* What a client receives comes in the order of its calls: a reply ends its
\* request (nothing of it, chunk or reply, follows), no call is answered
\* twice, and no later request's output overtakes it.  CancelQuery is acted
\* on at once but answered through the queue, so it does not overtake either.
OutputOrder ==
  \A i, j \in DOMAIN sent :
    i < j /\ sent[i].to = sent[j].to =>
      \/ sent[i].serial < sent[j].serial
      \/ sent[i].serial = sent[j].serial /\ ~IsReply(sent[i])

\* Why OutputOrder holds: from the oldest output of a client to its youngest
\* unread call, everything stands in line by serial - what was sent, the
\* running action, the queue, the inbox - and the client's next serial is
\* above them all.
Before(c, n, m) == m.src = c => n < m.serial

LineOrder ==
  /\ \A i, j \in DOMAIN inbox :
       i < j /\ inbox[i].src \in Clients =>
         Before(inbox[i].src, inbox[i].serial, inbox[j])
  /\ \A i \in DOMAIN action_queue :
       /\ \A j \in DOMAIN action_queue : i < j =>
            Before(action_queue[i].src.src, action_queue[i].src.serial,
                   action_queue[j].src)
       /\ \A j \in DOMAIN inbox :
            Before(action_queue[i].src.src, action_queue[i].src.serial,
                   inbox[j])

RunningOrder ==
  running # NoAct =>
    /\ \A j \in DOMAIN action_queue :
         Before(Client, running.src.serial, action_queue[j].src)
    /\ \A j \in DOMAIN inbox : Before(Client, running.src.serial, inbox[j])

SentOrder ==
  \A k \in DOMAIN sent :
    /\ \A j \in DOMAIN action_queue :
         Before(sent[k].to, sent[k].serial, action_queue[j].src)
    /\ \A j \in DOMAIN inbox : Before(sent[k].to, sent[k].serial, inbox[j])
    /\ running # NoAct =>
         \/ Before(sent[k].to, sent[k].serial, running.src)
         \/ sent[k].serial = running.src.serial /\ ~IsReply(sent[k])

IssuedOrder ==
  /\ \A j \in DOMAIN inbox : inbox[j].src \in Clients =>
       inbox[j].serial <= Len(issued[inbox[j].src])
  /\ \A j \in DOMAIN action_queue :
       action_queue[j].src.serial <= Len(issued[action_queue[j].src.src])
  /\ running # NoAct => running.src.serial <= Len(issued[Client])
  /\ \A k \in DOMAIN sent : sent[k].serial <= Len(issued[sent[k].to])

\* The thread is inside an action exactly where it uses the running triple.
PcOK ==
  /\ pc \in {"action", "ident", "sql", "rows"} => running # NoAct
  /\ pc \in {"sql", "rows", "ident"} => running.action = "route"
  /\ pc = "ident" => stage \in 1..3

OrderInv == TypeOK /\ PcOK /\ LineOrder /\ RunningOrder /\ SentOrder
              /\ IssuedOrder /\ OutputOrder

\* A query that is answered "This message got canceled" was never executed and
\* produced no chunk.
CanceledNeverRan ==
  \A i \in DOMAIN sent : sent[i].what = "canceled" =>
    /\ <<sent[i].to, sent[i].serial>> \notin executed
    /\ \A j \in DOMAIN sent : sent[j].what = "chunk" =>
         <<sent[j].to, sent[j].serial>> # <<sent[i].to, sent[i].serial>>

Held == {Id(inbox[i]) : i \in DOMAIN inbox}
          \cup {Id(action_queue[i].src) : i \in DOMAIN action_queue}
          \cup (IF running = NoAct THEN {} ELSE {Id(running.src)})

(* The daemon as its clients see it: OrderedService.                        *)
Asked == [c \in Clients |-> Len(issued[c])]
Pending == [c \in Clients |-> {h[2] : h \in {g \in Held : g[1] = c}}]

Service == INSTANCE OrderedService
             WITH asked <- Asked, pending <- Pending,
                  Signals <- {"chunk"}, Replies <- Outcomes

\* The daemon implements the ordered service: whatever the nested loop and
\* CancelQuery do to the queue, each client's calls are served oldest first.
ServesInOrder == Service!Spec

\* While the connection is up and the daemon runs, a call that has not been
\* answered is still somewhere on its way: unread, queued or running.
NothingDropped ==
  link = "up" /\ pc # "dead" =>
    \A c \in Clients : \A n \in DOMAIN issued[c] :
      issued[c][n].kind \in Unanswerable \/ Answered(c, n) \/ <<c, n>> \in Held

\* When the loop of _Go has ended by itself (Quit), whatever had been read
\* from the bus has been answered.
QuitDrains ==
  pc = "done" /\ link = "up" =>
    \A c \in Clients : \A n \in DOMAIN issued[c] :
      \/ issued[c][n].kind \in Unanswerable
      \/ Answered(c, n)
      \/ \E i \in DOMAIN inbox : Id(inbox[i]) = <<c, n>>

\* The bus itself says who a client is: a client is "*" only after the bus
\* answered or a junk CancelQuery interrupted all three questions, and once
\* known it stays the same.
IdentityIsStable ==
  [][\A c \in Clients : usernames[c] # "none" => usernames'[c] = usernames[c]]_vars

\* CancelQuery never stops a statement: whatever it finds, in the queue or as
\* the current action, has not been executed yet.
CancelMeetsNoStatement ==
  [][(killed' \ killed) \cap executed = {}]_vars

\* A call that the daemon has read is answered, or the daemon or its
\* connection is lost.
Lost == pc \in {"dead", "spin"} \/ link # "up"
EveryCallAnswered ==
  \A c \in Clients, n \in 1..MaxSerial :
    (\E i \in DOMAIN action_queue :
        /\ Id(action_queue[i].src) = <<c, n>>
        /\ action_queue[i].src.kind \notin Unanswerable)
      ~> (Answered(c, n) \/ Lost)

\* Once want_to_die is set the daemon ends, unless an exception has ended it
\* or it is caught waiting on a lost connection.
WantToDieEnds == want_to_die ~> pc \in {"done", "dead", "spin"}

\* The comments in the code: the loop must not wait for ever, because
\* want_to_die may have been set (versaplexd.cs, _Go).
WantToDieIsSeen == want_to_die ~> pc \in {"done", "dead"}

\* A client's request is only canceled on a CancelQuery of that client.
CanceledOnRequest ==
  \A i \in DOMAIN sent : sent[i].what = "canceled" =>
    \E k \in DOMAIN issued[sent[i].to] :
      issued[sent[i].to][k] = [kind |-> "cancel", target |-> sent[i].serial]


(* What becomes of a queued call: nothing else takes it off the queue, not   *)
(* even Quit, which lets those before it run.                                *)
NothingLost == NothingDropped /\ QuitDrains
=============================================================================
