----------------------------- MODULE BufStream -----------------------------
(***************************************************************************)
(* The daemon's stream to the bus: WvBufStream on WvSockStream (wvstream.cs, *)
(* wvsockstream.cs), the loop that serves it (wveventer.cs) and the         *)
(* messages that WvDbus makes of it (conn.cs).                              *)
(*                                                                          *)
(* The socket does not block.  What it does not take stays in outbuf until  *)
(* select() says that there is room; a message may come in pieces, and one  *)
(* that was begun in the loop is finished by a nested wait, or the other    *)
(* way round.                                                               *)
(***************************************************************************)
EXTENDS Integers, Sequences, SequencesExt

CONSTANTS
  MsgLen,    \* units of an incoming message
  Room,      \* units that the kernel takes before the bus reads
  MaxCalls,  \* calls that the bus brings
  MaxReply,  \* units of the longest reply
  MayLose,   \* whether the connection may be lost
  Cookies    \* the actions that other threads add

ASSUME SizesAssumption == /\ MsgLen \in Nat \ {0} /\ Room \in Nat \ {0}
                          /\ MaxCalls \in Nat /\ MaxReply \in Nat \ {0}
ASSUME LossAssumption == MayLose \in BOOLEAN
ASSUME CookiesAssumption == "pw_obj" \notin Cookies

VARIABLES
  \* the bus
  posted,      \* the kinds of all messages to the daemon
  coming,      \* their units that have not arrived
  peer,        \* what it has got
  answered,    \* the last question that it has answered
  \* the socket
  sock, lost,
  wire,        \* units to be read
  kernel,      \* units to be sent
  \* WvEventer
  wset,        \* whether w has the socket; r has it while it is open
  ready,       \* what Select has returned
  pending, nowpending,
  deleted,     \* history: what was deleted after it was added
  \* WvOutBufStream
  outbuf, writereg,
  onwritable,  \* how often _flush is in the socket's event
  \* WvDbus
  inbuf,
  waiting,     \* the question whose answer send_and_wait waits for, or 0
  handled,     \* history: the messages, as they were read
  \* the daemon
  pc, action_queue, want_to_die,
  written      \* units written

bus == <<posted, coming, peer, answered>>
events == <<ready, nowpending, deleted>>
output == <<kernel, wset, pending, outbuf, writereg, onwritable>>
input == <<wire, inbuf, handled>>
app == <<waiting, action_queue, written>>
vars == <<bus, sock, lost, events, output, input, app, pc, want_to_die>>

Unit == [msg : Nat, part : Nat]
Units(i) == [p \in 1..MsgLen |-> [msg |-> i, part |-> p]]

\* Mutant: as the field is initialised, writereg is true before anything
\* is registered.
InitRegistered ==
  /\ posted = <<>> /\ coming = <<>> /\ peer = <<>> /\ answered = 0
  /\ sock = "open" /\ lost = FALSE /\ wire = <<>> /\ kernel = <<>>
  /\ wset = FALSE /\ ready = [r |-> FALSE, w |-> FALSE]
  /\ pending = {} /\ nowpending = {} /\ deleted = {}
  /\ outbuf = <<>> /\ writereg = TRUE /\ onwritable = 0
  /\ inbuf = <<>> /\ waiting = 0 /\ handled = <<>>
  /\ pc = "select" /\ action_queue = <<>> /\ want_to_die = FALSE
  /\ written = 0

\* The constructor has run: the credential byte has left outbuf.
Init ==
  /\ posted = <<>> /\ coming = <<>> /\ peer = <<>> /\ answered = 0
  /\ sock = "open" /\ lost = FALSE /\ wire = <<>> /\ kernel = <<>>
  /\ wset = FALSE /\ ready = [r |-> FALSE, w |-> FALSE]
  /\ pending = {} /\ nowpending = {} /\ deleted = {}
  /\ outbuf = <<>> /\ writereg = FALSE /\ onwritable = 0
  /\ inbuf = <<>> /\ waiting = 0 /\ handled = <<>>
  /\ pc = "select" /\ action_queue = <<>> /\ want_to_die = FALSE
  /\ written = 0

-----------------------------------------------------------------------------
(* The bus, its connection, and other threads.                              *)

Send(kind) ==
  /\ posted' = Append(posted, kind)
  /\ coming' = coming \o Units(Len(posted'))

Post ==
  /\ ~lost
  /\ Len(SelectSeq(posted, LAMBDA k : k # "answer")) < MaxCalls
  /\ \E kind \in {"call", "quit", "foreign"} : Send(kind)
  /\ UNCHANGED <<peer, answered, sock, lost, events, output, input, app, pc,
                 want_to_die>>

Answer ==
  /\ ~lost
  /\ answered # waiting /\ waiting \in 1..Len(peer)
  /\ Send("answer")
  /\ answered' = waiting
  /\ UNCHANGED <<peer, sock, lost, events, output, input, app, pc,
                 want_to_die>>

Arrive ==
  /\ coming # <<>>
  /\ coming' = Tail(coming)
  /\ wire' = Append(wire, Head(coming))
  /\ UNCHANGED <<posted, peer, answered, sock, lost, events, output, inbuf,
                 handled, app, pc, want_to_die>>

PeerRead ==
  /\ kernel # <<>>
  /\ kernel' = Tail(kernel)
  /\ peer' = Append(peer, Head(kernel))
  /\ UNCHANGED <<posted, coming, answered, sock, lost, events, wset, pending,
                 outbuf, writereg, onwritable, input, app, pc, want_to_die>>

\* What has arrived can perhaps still be read.
Lose ==
  /\ MayLose /\ ~lost
  /\ lost' = TRUE
  /\ coming' = <<>> /\ kernel' = <<>>
  /\ wire' \in {wire, <<>>}
  /\ UNCHANGED <<posted, peer, answered, sock, events, wset, pending, outbuf,
                 writereg, onwritable, inbuf, handled, app, pc, want_to_die>>

addpending(c) ==
  /\ pending' = pending \cup {c}
  /\ deleted' = deleted \ {c}
  /\ UNCHANGED <<bus, sock, lost, ready, nowpending, kernel, wset, outbuf,
                 writereg, onwritable, input, app, pc, want_to_die>>

delpending(c) ==
  /\ c \in pending
  /\ pending' = pending \ {c}
  /\ deleted' = deleted \cup {c}
  /\ UNCHANGED <<bus, sock, lost, ready, nowpending, kernel, wset, outbuf,
                 writereg, onwritable, input, app, pc, want_to_die>>

-----------------------------------------------------------------------------
(* WvOutBufStream.                                                          *)

Fits(buf) ==
  LET room == Room - Len(kernel)
  IN IF Len(buf) < room THEN Len(buf) ELSE room

\* Mutant: _flush is not taken out again.
RegisterOnly(buf, up) ==
  /\ writereg' = (writereg \/ buf # <<>>)
  /\ onwritable' = IF buf # <<>> /\ ~writereg THEN onwritable + 1
                   ELSE onwritable
  /\ wset' = (up /\ writereg')
  /\ pending' = IF buf = <<>> THEN pending \cup {"pw_obj"} ELSE pending

\* Mutant: _flush is added each time.
RegisterAgain(buf, up) ==
  /\ writereg' = (buf # <<>>)
  /\ onwritable' = IF buf # <<>> THEN onwritable + 1
                   ELSE IF writereg THEN onwritable - 1 ELSE onwritable
  /\ wset' = (up /\ writereg')
  /\ pending' = IF buf = <<>> THEN pending \cup {"pw_obj"} ELSE pending

\* The end of _flush: it is in the socket's event while something is left.
\* A closed socket takes no registration.
Register(buf, up) ==
  /\ writereg' = (buf # <<>>)
  /\ onwritable' = IF buf # <<>> /\ ~writereg THEN onwritable + 1
                   ELSE IF buf = <<>> /\ writereg THEN onwritable - 1
                   ELSE onwritable
  /\ wset' = (up /\ IF writereg' = writereg THEN wset ELSE writereg')
  /\ pending' = IF buf = <<>> THEN pending \cup {"pw_obj"} ELSE pending

\* Mutant: what was not taken is dropped.
Dropping(buf) ==
  /\ kernel' = kernel \o SubSeq(buf, 1, Fits(buf))
  /\ outbuf' = <<>>

Taken(buf) ==
  /\ kernel' = kernel \o SubSeq(buf, 1, Fits(buf))
  /\ outbuf' = SubSeq(buf, Fits(buf) + 1, Len(buf))

\* When the bus has gone, a write vanishes or fails, which closes the socket.
_flush(buf) ==
  \/ /\ sock = "open" /\ ~lost
     /\ Taken(buf)
     /\ Register(outbuf', TRUE)
     /\ UNCHANGED sock
  \/ /\ sock = "open" /\ lost
     /\ outbuf' = <<>>
     /\ Register(outbuf', TRUE)
     /\ UNCHANGED <<kernel, sock>>
  \/ /\ sock = "closed" \/ lost
     /\ sock' = "closed" /\ outbuf' = buf
     /\ Register(outbuf', FALSE)
     /\ UNCHANGED kernel

\* write: into the buffer, then flush(0).
Write(n) ==
  /\ written' = written + n
  /\ _flush(outbuf \o [i \in 1..n |-> written + i])

onclose == sock = "open" /\ sock' = "closed"

-----------------------------------------------------------------------------
(* WvDbus.                                                                  *)

\* Mutant: the handler also says that it has got the call.
Acknowledged(kind) ==
  \/ /\ kind \in {"call", "quit"}
     /\ action_queue' = Append(action_queue, kind)
     /\ Write(1)
     /\ UNCHANGED waiting
  \/ /\ kind = "foreign"
     /\ Write(1)
     /\ UNCHANGED <<action_queue, waiting>>
  \/ /\ kind = "answer"
     /\ waiting' = 0
     /\ UNCHANGED <<output, sock, action_queue, written>>

\* Calls of vx.db are queued by WvDbusMsgReady, any others are answered by
\* default_handler, which also stores an answer for send_and_wait.
Handled(kind) ==
  \/ /\ kind \in {"call", "quit"}
     /\ action_queue' = Append(action_queue, kind)
     /\ UNCHANGED <<output, sock, waiting, written>>
  \/ /\ kind = "foreign"
     /\ Write(1)
     /\ UNCHANGED <<action_queue, waiting>>
  \/ /\ kind = "answer"
     /\ waiting' = 0
     /\ UNCHANGED <<output, sock, action_queue, written>>

Whole == Len(inbuf \o wire) >= MsgLen

\* Mutant: the buffer is emptied.
TakenAll ==
  /\ inbuf' = <<>> /\ wire' = <<>>
  /\ handled' = Append(handled, SubSeq(inbuf \o wire, 1, MsgLen))

\* readmessage reads what the message needs and no more.
TakenOut ==
  /\ inbuf' = <<>>
  /\ wire' = SubSeq(wire, MsgLen - Len(inbuf) + 1, Len(wire))
  /\ handled' = Append(handled, SubSeq(inbuf \o wire, 1, MsgLen))

handlemessage ==
  /\ Whole
  /\ TakenOut
  /\ Handled(posted[handled'[Len(handled')][1].msg])
  /\ want_to_die' = (want_to_die \/ onclose)

\* What there is of a message is kept.  The end of the stream closes the
\* socket: at once if nothing was there, else in this or the next read.
NoMessage ==
  /\ ~Whole
  /\ inbuf' = inbuf \o wire /\ wire' = <<>>
  /\ \/ /\ lost /\ sock' = "closed" /\ wset' = FALSE
     \/ /\ ~lost \/ wire # <<>>
        /\ UNCHANGED <<sock, wset>>
  /\ want_to_die' = (want_to_die \/ onclose)
  /\ UNCHANGED <<handled, kernel, pending, outbuf, writereg, onwritable, app>>

-----------------------------------------------------------------------------
(* WvEventer.runonce.                                                       *)

\* Mutant: the rest of a message is not waited for.
ReadableAtStart == sock = "open" /\ inbuf = <<>> /\ (wire # <<>> \/ lost)

Readable == sock = "open" /\ (wire # <<>> \/ lost)
Writable == sock = "open" /\ (Len(kernel) < Room \/ lost)

\* Select, or its timeout of a second.
Select ==
  /\ pc = "select"
  /\ ready' = [r |-> Readable, w |-> wset /\ Writable]
  /\ pc' = "read"
  /\ UNCHANGED <<bus, sock, lost, nowpending, deleted, output, input, app,
                 want_to_die>>

\* r[s](): handlemessages(0), a message at a time, as long as the stream is ok.
Read ==
  /\ pc = "read" /\ ready.r
  /\ \/ /\ handlemessage
        /\ pc' = IF sock' = "open" THEN "read" ELSE "write"
     \/ /\ NoMessage
        /\ pc' = "write"
  /\ UNCHANGED <<bus, lost, events>>

NotRead ==
  /\ pc = "read" /\ ~ready.r
  /\ pc' = "write"
  /\ UNCHANGED <<bus, sock, lost, events, output, input, app, want_to_die>>

\* w[s](), which throws if the socket's reader has taken it out of w.
Written ==
  /\ pc = "write"
  /\ \/ /\ ready.w /\ wset
        /\ _flush(outbuf)
        /\ want_to_die' = (want_to_die \/ onclose)
        /\ pc' = "pending"
     \/ /\ ~(ready.w /\ wset)
        /\ pc' = IF ready.w THEN "dead" ELSE "pending"
        /\ UNCHANGED <<output, sock, want_to_die>>
  /\ UNCHANGED <<bus, lost, events, input, app>>

\* Mutant: the list is cleared before it is copied.
SnapshotCleared ==
  /\ pc = "pending"
  /\ nowpending' = {} /\ pending' = {}
  /\ pc' = "run"
  /\ UNCHANGED <<bus, sock, lost, ready, deleted, kernel, wset, outbuf,
                 writereg, onwritable, input, app, want_to_die>>

Snapshot ==
  /\ pc = "pending"
  /\ nowpending' = pending /\ pending' = {}
  /\ pc' = "run"
  /\ UNCHANGED <<bus, sock, lost, ready, deleted, kernel, wset, outbuf,
                 writereg, onwritable, input, app, want_to_die>>

\* In any order, whatever was deleted meanwhile.
RunPending ==
  /\ pc = "run"
  /\ \/ \E c \in nowpending : nowpending' = nowpending \ {c} /\ UNCHANGED pc
     \/ nowpending = {} /\ pc' = "drain" /\ UNCHANGED nowpending
  /\ UNCHANGED <<bus, sock, lost, ready, deleted, output, input, app, want_to_die>>

-----------------------------------------------------------------------------
(* The loop of _Go and its actions.                                         *)

Take ==
  /\ pc = "drain" /\ action_queue # <<>>
  /\ action_queue' = Tail(action_queue)
  /\ \/ /\ Head(action_queue) = "quit"
        /\ want_to_die' = TRUE /\ pc' = "reply"
     \/ /\ Head(action_queue) = "call"
        /\ pc' \in {"reply", "ask"}
        /\ UNCHANGED want_to_die
  /\ UNCHANGED <<bus, sock, lost, events, output, input, waiting, written>>

Reply ==
  /\ pc = "reply"
  /\ \E n \in 1..MaxReply : Write(n)
  /\ want_to_die' = (want_to_die \/ onclose)
  /\ pc' = "drain"
  /\ UNCHANGED <<bus, lost, events, input, waiting, action_queue>>

EndDrain ==
  /\ pc = "drain" /\ action_queue = <<>>
  /\ pc' = IF want_to_die THEN "done" ELSE "select"
  /\ UNCHANGED <<bus, sock, lost, events, output, input, app, want_to_die>>

\* send_and_wait: the question is written.
Ask ==
  /\ pc = "ask"
  /\ Write(1)
  /\ waiting' = written'
  /\ want_to_die' = (want_to_die \/ onclose)
  /\ pc' = "flush"
  /\ UNCHANGED <<bus, lost, events, input, action_queue>>

\* flush(-1) waits for room; on a closed stream it never returns.
FlushAll ==
  /\ pc = "flush"
  /\ \/ /\ outbuf # <<>> /\ Writable
        /\ _flush(outbuf)
        /\ want_to_die' = (want_to_die \/ onclose)
        /\ UNCHANGED pc
     \/ /\ outbuf = <<>> \/ sock = "closed"
        /\ pc' = IF outbuf = <<>> THEN "nested" ELSE "spin"
        /\ UNCHANGED <<output, sock, want_to_die>>
  /\ UNCHANGED <<bus, lost, events, input, app>>

\* handlemessage(-1) until the answer is there; at the end of the stream
\* readmessage(-1) does not return.
Nested ==
  /\ pc = "nested" /\ sock = "open" /\ waiting # 0
  /\ wire # <<>> \/ lost
  /\ \/ handlemessage /\ UNCHANGED pc
     \/ NoMessage /\ pc' = IF sock' = "open" THEN pc ELSE "spin"
  /\ UNCHANGED <<bus, lost, events>>

\* Without an answer the caller asks again, or goes on without one.
EndNested ==
  /\ pc = "nested"
  /\ \/ waiting = 0 /\ pc' = "reply"
     \/ waiting # 0 /\ sock = "closed" /\ pc' \in {"ask", "reply"}
  /\ waiting' = 0
  /\ UNCHANGED <<bus, sock, lost, events, output, input, action_queue, written,
                 want_to_die>>

Thread ==
  \/ Select \/ Read \/ NotRead \/ Written \/ Snapshot \/ RunPending
  \/ Take \/ Reply \/ EndDrain \/ Ask \/ FlushAll \/ Nested \/ EndNested

\* Nothing happens any more: the loop has ended, by an exception or not, or
\* waits for ever.
Rest == pc \in {"done", "dead", "spin"} /\ UNCHANGED vars

Next ==
  \/ Thread \/ Post \/ Answer \/ Arrive \/ PeerRead \/ Lose \/ Rest
  \/ \E c \in Cookies : addpending(c) \/ delpending(c)

Spec == Init /\ [][Next]_vars
\* The thread goes on, and the bus reads, delivers and answers.
FairSpec == /\ Spec
            /\ WF_vars(Thread)
            /\ WF_vars(PeerRead) /\ WF_vars(Arrive) /\ WF_vars(Answer)

-----------------------------------------------------------------------------
(* Properties.                                                              *)

Kinds == {"call", "quit", "foreign", "answer"}
MaxWritten == MaxCalls * (MaxReply + 3)

\* Every variable has its type; _flush is in the socket's event once at most.
TypeOK ==
  /\ posted \in Seq(Kinds) /\ coming \in Seq(Unit)
  /\ peer \in Seq(Nat) /\ answered \in Nat
  /\ sock \in {"open", "closed"} /\ lost \in BOOLEAN
  /\ wire \in Seq(Unit) /\ kernel \in Seq(Nat)
  /\ wset \in BOOLEAN /\ ready \in [r : BOOLEAN, w : BOOLEAN]
  /\ pending \subseteq Cookies \cup {"pw_obj"}
  /\ nowpending \subseteq Cookies \cup {"pw_obj"}
  /\ deleted \subseteq Cookies
  /\ outbuf \in Seq(Nat) /\ writereg \in BOOLEAN /\ onwritable \in 0..1
  /\ inbuf \in Seq(Unit) /\ waiting \in Nat
  /\ handled \in Seq(Seq(Unit))
  /\ pc \in {"select", "read", "write", "pending", "run", "drain", "reply",
             "ask", "flush", "nested", "done", "dead", "spin"}
  /\ action_queue \in Seq({"call", "quit"}) /\ want_to_die \in BOOLEAN
  /\ written \in Nat

\* The bus gets what was written, in order and nothing twice; while the
\* connection lasts, the rest is in the kernel or in outbuf.
BytesInOrder ==
  /\ peer = [i \in 1..Len(peer) |-> i]
  /\ ~lost => peer \o kernel \o outbuf = [i \in 1..written |-> i]

\* An open socket is selected for writing exactly when there is something to
\* write: otherwise output would stay, or the loop would spin.
ListensForWrites == sock = "open" => (wset <=> outbuf # <<>>)

\* Each message is handled once, whole and in order, whichever of the two
\* loops reads its pieces.
FramesIntact == \A i \in DOMAIN handled : handled[i] = Units(i)

\* runonce throws only when a lost connection or the answer to a call that is
\* not for vx.db has made the reader take the socket out of w; in the second
\* case all output has left the daemon.
DiesOfFlushOnly ==
  pc = "dead" /\ ~lost =>
    outbuf = <<>> /\ \E i \in DOMAIN handled : posted[i] = "foreign"

Ended == lost \/ pc \in {"done", "dead"}

\* Whatever is written gets to the bus.
EverythingLeaves ==
  \A i \in 1..MaxWritten : written >= i ~> (Len(peer) >= i \/ Ended)

\* Whatever the bus sends is handled.
EverythingHandled ==
  \A i \in 1..2 * MaxCalls :
    Len(posted) >= i ~> (Len(handled) >= i \/ Ended)

\* What another thread adds is run in the next pass, or deleted before.
PendingRuns ==
  \A c \in Cookies :
    /\ c \in pending ~> (c \in nowpending \cup deleted \/ Ended)
    /\ c \in nowpending ~> (c \notin nowpending \/ Ended)

\* Bytes and messages keep their order and their boundaries, and nothing but
\* a flush that cannot work ends the loop.
Intact == BytesInOrder /\ FramesIntact /\ DiesOfFlushOnly

\* Neither a message nor an action that was added waits for ever.
NothingWaits == EverythingHandled /\ PendingRuns
=============================================================================
