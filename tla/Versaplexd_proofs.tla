------------------------- MODULE Versaplexd_proofs --------------------------
(***************************************************************************)
(* Theorems about Versaplexd, for any clients, any number of calls of any   *)
(* kinds, any number of chunks, with or without the loss of the bus.        *)
(***************************************************************************)
EXTENDS Versaplexd, SequenceTheorems, TLAPS

(* Cancelling rewrites what entries do, never which calls they are for.     *)
LEMMA CancelledKeeps ==
  ASSUME NEW q \in Seq(VxActionTriple), NEW n \in Nat
  PROVE  /\ Cancelled(q, n) \in Seq(VxActionTriple)
         /\ Len(Cancelled(q, n)) = Len(q)
         /\ \A i \in 1..Len(q) : Cancelled(q, n)[i].src = q[i].src
<1> DEFINE f == Cancelled(q, n)
<1>1. Len(q) \in Nat /\ DOMAIN q = 1..Len(q)
  BY LenProperties
<1>2. \A i \in 1..Len(q) : q[i] \in VxActionTriple
  BY ElementOfSeq
<1>3. \A i \in 1..Len(q) : /\ f[i] \in VxActionTriple
                           /\ f[i].src = q[i].src
  BY <1>1, <1>2 DEF Cancelled, VxActionTriple, Acts
<1>4. f \in [1..Len(q) -> VxActionTriple]
  <2>1. f = [i \in 1..Len(q) |-> f[i]]
    BY <1>1 DEF Cancelled
  <2>2. QED BY <2>1, <1>3
<1>5. f \in Seq(VxActionTriple)
  BY <1>1, <1>4, SeqDef
<1>6. Len(f) = Len(q)
  BY <1>1, <1>4, <1>5, LenProperties
<1>7. QED BY <1>3, <1>5, <1>6

(* Type correctness needs only that the thread holds a running action where  *)
(* it uses one.                                                             *)
TypeInv == TypeOK /\ PcOK

LEMMA TypeInit == Init => TypeInv
<1> SUFFICES ASSUME Init PROVE TypeInv
  OBVIOUS
<1> USE BoundsAssumption
<1>1. /\ <<>> \in Seq(Msg) /\ <<>> \in Seq(Nat)
      /\ <<>> \in Seq([kind : Kinds, target : Nat])
      /\ <<>> \in Seq(Output) /\ <<>> \in Seq(VxActionTriple)
  BY EmptySeq
<1>2. TypeOK
  <2>1. issued \in [Clients -> Seq([kind : Kinds, target : Nat])]
    BY <1>1 DEF Init
  <2>2. usernames \in [Clients -> {"none", "cert", "unix", "uid", "*"}]
    BY DEF Init
  <2>3. stage \in 0..3 /\ calls \in Nat /\ waiting \in 0..calls
        /\ chunks \in 0..MaxChunks
    BY DEF Init
  <2>4. executed \subseteq Clients \X Nat /\ killed \subseteq Clients \X Nat
    BY DEF Init
  <2>5. QED BY <1>1, <2>1, <2>2, <2>3, <2>4 DEF Init, TypeOK
<1>3. PcOK
  BY DEF Init, PcOK
<1>4. QED BY <1>2, <1>3 DEF TypeInv

(* conn.send about the running action's call keeps sent and link well typed. *)
LEMMA SendTyped ==
  ASSUME TypeInv, NEW m \in Call, NEW what \in Outcomes \cup {"chunk"},
         Send(m, what)
  PROVE  /\ sent' \in Seq(Output)
         /\ link' \in {"up", "down", "closed"}
<1>1. [to |-> m.src, serial |-> m.serial, what |-> what] \in Output
  BY DEF Call, Output
<1>2. sent \in Seq(Output) /\ link \in {"up", "down", "closed"}
  BY DEF TypeInv, TypeOK
<1>3. Append(sent, [to |-> m.src, serial |-> m.serial, what |-> what])
        \in Seq(Output)
  BY <1>1, <1>2, AppendProperties
<1>4. QED BY <1>2, <1>3 DEF Send

(* What a read does to the inbox, the head's type included.                  *)
LEMMA InboxTail ==
  ASSUME TypeInv, inbox # <<>>
  PROVE  Tail(inbox) \in Seq(Msg) /\ Head(inbox) \in Msg
BY HeadTailProperties DEF TypeInv, TypeOK

LEMMA CallOfKind ==
  ASSUME NEW m \in Msg, m.kind \in CallKinds
  PROVE  m \in Call
BY DEF Msg, Answer, CallKinds

LEMMA TripleTyped ==
  ASSUME NEW m \in Call, NEW act \in Acts
  PROVE  Triple(m, act) \in VxActionTriple /\ Triple(m, act).src = m
BY DEF Triple, VxActionTriple

LEMMA TypeStep == TypeInv /\ [Next]_vars => TypeInv'
<1> SUFFICES ASSUME TypeInv, [Next]_vars PROVE TypeInv'
  OBVIOUS
<1> USE BoundsAssumption, NoActAssumption, BusAssumption, KindsAssumption
<1> DEFINE holds == pc \in {"action", "ident", "sql", "rows"}
<1>0. /\ holds => running \in VxActionTriple
      /\ holds => running.src \in Call
      /\ holds => Client \in Clients
  BY DEF TypeInv, TypeOK, PcOK, VxActionTriple, Call, Client
<1>1. ASSUME NEW c \in Clients, ClientCall(c) PROVE TypeInv'
  <2> PICK k \in Kinds, t \in 1..MaxSerial :
        /\ issued' = [issued EXCEPT ![c] =
                        Append(@, [kind |-> k, target |-> t])]
        /\ inbox' = Append(inbox, [src |-> c, serial |-> Len(issued[c]) + 1,
                                   kind |-> k, target |-> t])
    BY <1>1 DEF ClientCall
  <2>1. issued[c] \in Seq([kind : Kinds, target : Nat])
    BY DEF TypeInv, TypeOK
  <2>2. Len(issued[c]) \in Nat
    BY <2>1, LenProperties
  <2>3. [src |-> c, serial |-> Len(issued[c]) + 1, kind |-> k, target |-> t]
          \in Msg
    BY <2>2 DEF Msg, Call
  <2>4. inbox' \in Seq(Msg)
    BY <2>3, AppendProperties DEF TypeInv, TypeOK
  <2>5. [kind |-> k, target |-> t] \in [kind : Kinds, target : Nat]
    OBVIOUS
  <2>6. Append(issued[c], [kind |-> k, target |-> t])
          \in Seq([kind : Kinds, target : Nat])
    BY <2>1, <2>5, AppendProperties
  <2>7. issued' \in [Clients -> Seq([kind : Kinds, target : Nat])]
    BY <2>6 DEF TypeInv, TypeOK
  <2>8. QED
    BY <1>1, <2>4, <2>7
    DEF ClientCall, TypeInv, TypeOK, PcOK, queuevars, identvars, sqlvars
<1>2. ASSUME BusAnswer PROVE TypeInv'
  <2>1. Head(busq) \in Nat /\ Tail(busq) \in Seq(Nat)
    BY <1>2, HeadTailProperties DEF BusAnswer, TypeInv, TypeOK
  <2>2. inbox' \in Seq(Msg)
    <3> PICK answer \in {"return", "error"} :
          inbox' = Append(inbox, [src |-> Bus, serial |-> Head(busq),
                                  kind |-> answer, target |-> 0])
      BY <1>2 DEF BusAnswer
    <3>1. [src |-> Bus, serial |-> Head(busq), kind |-> answer,
           target |-> 0] \in Msg
      BY <2>1 DEF Msg, Answer
    <3>2. QED BY <3>1, AppendProperties DEF TypeInv, TypeOK
  <2>3. QED
    BY <1>2, <2>1, <2>2
    DEF BusAnswer, TypeInv, TypeOK, PcOK, queuevars, identvars, sqlvars
<1>3. ASSUME BusDown PROVE TypeInv'
  BY <1>3 DEF BusDown, TypeInv, TypeOK, PcOK, queuevars, identvars, sqlvars
<1>4. ASSUME HandleCall PROVE TypeInv'
  <2> DEFINE m == Head(inbox)
  <2>1. inbox # <<>> /\ WvDbusMsgReady(m) /\ pc \in {"io", "ident"}
    BY <1>4 DEF HandleCall, Reading
  <2>2. m \in Msg /\ inbox' \in Seq(Msg)
    BY <1>4, <2>1, InboxTail DEF HandleCall
  <2>3. m.kind \in CallKinds
    BY <2>1 DEF WvDbusMsgReady, CancelCurrent, CancelQueued, BadCancel,
                QueueCall, CallKinds, Queries
  <2>4. m \in Call /\ m.target \in Nat
    BY <2>2, <2>3, CallOfKind DEF Call
  <2>5. action_queue \in Seq(VxActionTriple)
    BY DEF TypeInv, TypeOK
  <2>6. Cancelled(action_queue, m.target) \in Seq(VxActionTriple)
    BY <2>4, <2>5, CancelledKeeps
  <2>7. /\ Triple(m, "cancelreply") \in VxActionTriple
        /\ Triple(m, "badsig") \in VxActionTriple
        /\ Triple(m, "route") \in VxActionTriple
    BY <2>4, TripleTyped DEF Acts
  <2>8. action_queue' \in Seq(VxActionTriple)
    <3>1. \A q \in Seq(VxActionTriple), t \in VxActionTriple :
            Append(q, t) \in Seq(VxActionTriple)
      BY AppendProperties
    <3>2. \/ action_queue' = Append(action_queue, Triple(m, "cancelreply"))
          \/ action_queue' = Append(Cancelled(action_queue, m.target),
                                    Triple(m, "cancelreply"))
          \/ action_queue' = Append(action_queue, Triple(m, "badsig"))
          \/ action_queue' = Append(action_queue, Triple(m, "route"))
      BY <2>1 DEF WvDbusMsgReady, CancelCurrent, CancelQueued, BadCancel,
                  QueueCall
    <3>3. QED BY <2>5, <2>6, <2>7, <3>1, <3>2
  <2>9. curaction' \in {NoAct, running} /\ curcmd' \in VxActionTriple \cup {NoAct}
    BY <2>1 DEF WvDbusMsgReady, CancelCurrent, CancelQueued, BadCancel,
                QueueCall, TypeInv, TypeOK
  <2>10. killed' \subseteq Clients \X Nat
    <3>1. \A i \in DOMAIN action_queue : Id(action_queue[i].src)
                                           \in Clients \X Nat
      <4>1. \A i \in DOMAIN action_queue : action_queue[i].src \in Call
        BY <2>5, ElementOfSeq, LenProperties DEF VxActionTriple
      <4>2. QED BY <4>1 DEF Id, Call
    <3>2. Matches(action_queue, m.target) \subseteq Clients \X Nat
      BY <3>1 DEF Matches
    <3>3. curaction # NoAct => Id(curaction.src) \in Clients \X Nat
      BY DEF TypeInv, TypeOK, VxActionTriple, Call, Id
    <3>4. killed \subseteq Clients \X Nat
      BY DEF TypeInv, TypeOK
    <3>5. CASE CancelCurrent(m)
      BY <3>3, <3>4, <3>5 DEF CancelCurrent, IsCurrent
    <3>6. CASE CancelQueued(m)
      BY <3>2, <3>4, <3>6 DEF CancelQueued
    <3>7. CASE BadCancel(m)
      BY <3>4, <3>7 DEF BadCancel
    <3>8. CASE QueueCall(m)
      BY <3>4, <3>8 DEF QueueCall
    <3>9. QED BY <2>1, <3>5, <3>6, <3>7, <3>8 DEF WvDbusMsgReady
  <2>11. QED
    BY <1>4, <2>2, <2>8, <2>9, <2>10
    DEF HandleCall, TypeInv, TypeOK, PcOK, identvars
<1>5. ASSUME LateAnswer PROVE TypeInv'
  BY <1>5, InboxTail
  DEF LateAnswer, Reading, TypeInv, TypeOK, PcOK, queuevars, identvars, sqlvars
<1>6. ASSUME JunkKillsLoop PROVE TypeInv'
  BY <1>6, InboxTail
  DEF JunkKillsLoop, Reading, TypeInv, TypeOK, PcOK, queuevars, identvars,
      sqlvars
<1>7. ASSUME NoticeClose PROVE TypeInv'
  BY <1>7
  DEF NoticeClose, TypeInv, TypeOK, PcOK, queuevars, identvars, sqlvars
<1>8. ASSUME GotIdentity \/ JunkFailsAttempt PROVE TypeInv'
  <2>1. /\ inbox # <<>> /\ pc = "ident" /\ inbox' = Tail(inbox)
        /\ \/ Identified(Username[stage])
           \/ AttemptFailed
        /\ UNCHANGED <<issued, queuevars, sqlvars, sent, running, killed>>
    BY <1>8 DEF GotIdentity, JunkFailsAttempt, Awaited, Reading
  <2>2. inbox' \in Seq(Msg)
    BY <2>1, InboxTail
  <2>3. stage \in 1..3 /\ Client \in Clients /\ running # NoAct
        /\ running.action = "route"
    BY <1>0, <2>1 DEF TypeInv, PcOK
  <2>4. Username[stage] \in {"cert", "unix", "uid"}
    BY <2>3 DEF Username
  <2>5. ASSUME NEW name \in {"cert", "unix", "uid", "*"}, Identified(name)
        PROVE  TypeInv'
    <3>1. usernames' \in [Clients -> {"none", "cert", "unix", "uid", "*"}]
      BY <2>5 DEF Identified, TypeInv, TypeOK
    <3>2. stage' = 0 /\ waiting' = 0 /\ calls' = calls /\ calls \in Nat
          /\ pc' = "sql"
          /\ UNCHANGED <<busq, link, want_to_die>>
      BY <2>5 DEF Identified, TypeInv, TypeOK
    <3>3. stage' \in 0..3 /\ waiting' \in 0..calls'
      BY <3>2
    <3>4. QED BY <2>1, <2>2, <2>3, <3>1, <3>2, <3>3
      DEF TypeInv, TypeOK, PcOK, queuevars, sqlvars
  <2>6. ASSUME stage < 3, Ask(stage + 1) PROVE TypeInv'
    <3>1. calls \in Nat /\ busq' \in Seq(Nat)
      BY <2>6, AppendProperties DEF Ask, TypeInv, TypeOK
    <3>2. stage' \in 1..3 /\ calls' \in Nat /\ waiting' \in 0..calls'
      BY <2>3, <2>6, <3>1 DEF Ask
    <3>3. link' \in {"up", "down", "closed"} /\ want_to_die' \in BOOLEAN
      BY <2>6 DEF Ask, TypeInv, TypeOK, NoticedBySend
    <3>4. pc' \in {"ident", "spin"} /\ usernames' = usernames
      BY <2>6 DEF Ask
    <3>5. stage' \in 0..3
      BY <3>2
    <3>6. TypeOK'
      BY <2>1, <2>2, <3>1, <3>2, <3>3, <3>4, <3>5
      DEF TypeInv, TypeOK, queuevars, sqlvars
    <3>7. PcOK'
      BY <2>1, <2>3, <3>2, <3>4 DEF PcOK
    <3>8. QED BY <3>6, <3>7 DEF TypeInv
  <2>7. QED BY <2>1, <2>4, <2>5, <2>6 DEF AttemptFailed
<1>9. ASSUME NewClient PROVE TypeInv'
  <2>1. calls \in Nat /\ busq' \in Seq(Nat)
    BY <1>9, AppendProperties DEF NewClient, Ask, TypeInv, TypeOK
  <2>2. stage' \in 1..3 /\ calls' \in Nat /\ waiting' \in 0..calls'
    BY <1>9, <2>1 DEF NewClient, Ask
  <2>3. link' \in {"up", "down", "closed"} /\ want_to_die' \in BOOLEAN
    BY <1>9 DEF NewClient, Ask, TypeInv, TypeOK, NoticedBySend
  <2>4. /\ pc' \in {"ident", "spin"} /\ usernames' = usernames
        /\ running # NoAct /\ running.action = "route"
    BY <1>9 DEF NewClient, Ask, IsQuery, TypeInv, PcOK
  <2>5. stage' \in 0..3
    BY <2>2
  <2>6. UNCHANGED <<inbox, issued, queuevars, sqlvars, sent, running, killed>>
    BY <1>9 DEF NewClient
  <2>7. TypeOK'
    BY <2>1, <2>2, <2>3, <2>4, <2>5, <2>6
    DEF TypeInv, TypeOK, queuevars, sqlvars
  <2>8. PcOK'
    BY <2>2, <2>4, <2>6 DEF PcOK
  <2>9. QED BY <2>7, <2>8 DEF TypeInv
<1>10. ASSUME KnownClient PROVE TypeInv'
  BY <1>10
  DEF KnownClient, IsQuery, TypeInv, TypeOK, PcOK, busvars, queuevars,
      identvars, sqlvars
<1>11. ASSUME EndIo \/ EndDrain PROVE TypeInv'
  BY <1>11
  DEF EndIo, EndDrain, TypeInv, TypeOK, PcOK, busvars, queuevars, identvars,
      sqlvars
<1>12. ASSUME TakeAction PROVE TypeInv'
  <2>1. /\ Head(action_queue) \in VxActionTriple
        /\ Tail(action_queue) \in Seq(VxActionTriple)
    BY <1>12, HeadTailProperties DEF TakeAction, TypeInv, TypeOK
  <2>2. QED
    BY <1>12, <2>1
    DEF TakeAction, TypeInv, TypeOK, PcOK, busvars, identvars, sqlvars
<1>13. ASSUME QuickAnswer PROVE TypeInv'
  <2>1. holds
    BY <1>13 DEF QuickAnswer
  <2>2. \E what \in Outcomes : Send(running.src, what)
    <3>1. CASE running.action # "route"
      <4>1. running.action \in {"canceled", "cancelreply", "badsig"}
        BY <1>0, <2>1, <3>1 DEF VxActionTriple, Acts
      <4>2. Answers[running.action] \in Outcomes
        BY <4>1 DEF Answers, Outcomes
      <4>3. QED BY <1>13, <3>1, <4>2 DEF QuickAnswer
    <3>2. CASE running.action = "route"
      BY <1>13, <3>2 DEF QuickAnswer, Outcomes
    <3>3. QED BY <3>1, <3>2
  <2>3. sent' \in Seq(Output) /\ link' \in {"up", "down", "closed"}
    BY <1>0, <2>1, <2>2, SendTyped
  <2>4. want_to_die' \in BOOLEAN
    BY <1>13 DEF QuickAnswer, NoticedBySend, TypeInv, TypeOK
  <2>5. QED
    BY <1>13, <2>3, <2>4
    DEF QuickAnswer, ActionDone, TypeInv, TypeOK, PcOK, identvars, sqlvars
<1>14. ASSUME NoAnswer PROVE TypeInv'
  BY <1>14
  DEF NoAnswer, ActionDone, TypeInv, TypeOK, PcOK, busvars, identvars, sqlvars
<1>15. ASSUME StartStatement PROVE TypeInv'
  <2>1. Id(running.src) \in Clients \X Nat /\ running \in VxActionTriple
    BY <1>0, <1>15 DEF StartStatement, Id, Call
  <2>2. executed' \subseteq Clients \X Nat
    BY <1>15, <2>1 DEF StartStatement, TypeInv, TypeOK
  <2>3. chunks' \in 0..MaxChunks
    BY <1>15 DEF StartStatement
  <2>4. QED
    BY <1>15, <2>1, <2>2, <2>3
    DEF StartStatement, TypeInv, TypeOK, PcOK, busvars, queuevars, identvars
<1>16. ASSUME SendChunk PROVE TypeInv'
  <2>1. sent' \in Seq(Output) /\ link' \in {"up", "down", "closed"}
    BY <1>0, <1>16, SendTyped DEF SendChunk
  <2>2. want_to_die' \in BOOLEAN /\ chunks' \in 0..MaxChunks
    BY <1>16 DEF SendChunk, NoticedBySend, TypeInv, TypeOK
  <2>3. QED
    BY <1>16, <2>1, <2>2
    DEF SendChunk, TypeInv, TypeOK, PcOK, queuevars, identvars
<1>17. ASSUME Refuse \/ Finish \/ Fail PROVE TypeInv'
  <2>1. holds /\ \E what \in Outcomes : Send(running.src, what)
    BY <1>17 DEF Refuse, Finish, Fail, Outcomes
  <2>2. sent' \in Seq(Output) /\ link' \in {"up", "down", "closed"}
    BY <1>0, <2>1, SendTyped
  <2>3. want_to_die' \in BOOLEAN
    BY <1>17 DEF Refuse, Finish, Fail, NoticedBySend, TypeInv, TypeOK
  <2>4. curcmd' \in VxActionTriple \cup {NoAct}
    BY <1>17 DEF Refuse, Finish, Fail, TypeInv, TypeOK, sqlvars
  <2>5. QED
    BY <1>17, <2>2, <2>3, <2>4
    DEF Refuse, Finish, Fail, ActionDone, TypeInv, TypeOK, PcOK, identvars,
        sqlvars
<1>18. ASSUME Oversize PROVE TypeInv'
  BY <1>18
  DEF Oversize, TypeInv, TypeOK, PcOK, busvars, queuevars, identvars
<1>19. CASE UNCHANGED vars
  BY <1>19
  DEF vars, busvars, queuevars, identvars, sqlvars, TypeInv, TypeOK, PcOK
<1>20. QED
  BY <1>1, <1>2, <1>3, <1>4, <1>5, <1>6, <1>7, <1>8, <1>9, <1>10, <1>11,
     <1>12, <1>13, <1>14, <1>15, <1>16, <1>17, <1>18, <1>19
  DEF Next, Daemon, Loop, Handler, Identify, Reply, Execute, Environment, Halted

(* Every variable keeps its type, and the running action, curaction and the  *)
(* thread's position agree (versaplexd.cs, _Go and HandleCancelQuery).       *)
THEOREM TypeCorrect == Spec => []TypeOK
<1>1. TypeInv => TypeOK
  BY DEF TypeInv
<1>2. QED
  BY <1>1, TypeInit, TypeStep, PTL DEF Spec

-----------------------------------------------------------------------------
(* The order of a client's output.  Every step of the daemon is one of seven *)
(* moves along the line from the inbox through the queue and the running     *)
(* action to what has been sent.                                             *)

LEMMA AppendAt ==
  ASSUME NEW S, NEW s \in Seq(S), NEW e \in S
  PROVE  /\ \A i \in DOMAIN s : i \in Nat /\ s[i] \in S
         /\ \A i \in DOMAIN Append(s, e) :
              \/ i \in DOMAIN s /\ Append(s, e)[i] = s[i]
              \/ i = Len(s) + 1 /\ Append(s, e)[i] = e
         /\ \A i \in DOMAIN s : i < Len(s) + 1
         /\ Len(s) \in Nat
<1>1. /\ Append(s, e) \in Seq(S)
      /\ Len(Append(s, e)) = Len(s) + 1
      /\ \A i \in 1..Len(s) : Append(s, e)[i] = s[i]
      /\ Append(s, e)[Len(s) + 1] = e
  BY AppendProperties
<1>2. /\ Len(s) \in Nat /\ DOMAIN s = 1..Len(s)
      /\ DOMAIN Append(s, e) = 1..Len(s) + 1
  BY <1>1, LenProperties
<1>3. \A i \in 1..Len(s) : s[i] \in S
  BY ElementOfSeq
<1>4. QED BY <1>1, <1>2, <1>3

LEMMA TailAt ==
  ASSUME NEW S, NEW s \in Seq(S), s # <<>>
  PROVE  /\ 1 \in DOMAIN s /\ Head(s) = s[1]
         /\ \A i \in DOMAIN s : i \in Nat /\ s[i] \in S
         /\ \A i \in DOMAIN Tail(s) :
              /\ i + 1 \in DOMAIN s /\ 1 < i + 1 /\ i \in Nat
              /\ Tail(s)[i] = s[i + 1]
<1>1. /\ Tail(s) \in Seq(S)
      /\ Len(Tail(s)) = Len(s) - 1
      /\ \A i \in 1..Len(Tail(s)) : Tail(s)[i] = s[i + 1]
      /\ Head(s) = s[1]
  BY HeadTailProperties
<1>2. /\ Len(s) \in Nat /\ Len(s) # 0 /\ DOMAIN s = 1..Len(s)
      /\ DOMAIN Tail(s) = 1..(Len(s) - 1)
  BY <1>1, LenProperties, EmptySeq
<1>3. \A i \in 1..Len(s) : s[i] \in S
  BY ElementOfSeq
<1>4. QED BY <1>1, <1>2, <1>3

Order == LineOrder /\ RunningOrder /\ SentOrder /\ IssuedOrder /\ OutputOrder

(* Nothing moves.                                                            *)
Stays == UNCHANGED <<inbox, action_queue, running, sent, issued>>

(* The bus adds an answer; it is not a client's.                             *)
BusAdds == /\ \E a \in Answer : inbox' = Append(inbox, a)
            /\ UNCHANGED <<action_queue, running, sent, issued>>

(* The oldest unread message is dropped: an answer of the bus daemon's, or a *)
(* CancelQuery whose handler throws.                                         *)
Drops == /\ inbox # <<>> /\ inbox' = Tail(inbox)
         /\ Head(inbox).src = Bus \/ Head(inbox).kind = "junkcancel"
         /\ UNCHANGED <<action_queue, running, sent, issued>>

(* The oldest unread message joins the queue, whose calls stay the same.     *)
Queues == /\ inbox # <<>> /\ inbox' = Tail(inbox) /\ Head(inbox) \in Call
          /\ \E q \in Seq(VxActionTriple), t \in VxActionTriple :
               /\ DOMAIN q = DOMAIN action_queue
               /\ \A i \in DOMAIN q : q[i].src = action_queue[i].src
               /\ t.src = Head(inbox)
               /\ action_queue' = Append(q, t)
          /\ UNCHANGED <<running, sent, issued>>

(* The head of the queue becomes the running action.                         *)
Takes == /\ pc = "drain"
         /\ action_queue # <<>> /\ action_queue' = Tail(action_queue)
         /\ running' = Head(action_queue)
         /\ UNCHANGED <<inbox, sent, issued>>

(* The running action ends or goes on, with or without an output; it only    *)
(* ends without one when the connection is lost or the path unknown.         *)
Ends == /\ running # NoAct /\ running' = NoAct
        /\ \/ /\ sent' = sent
              /\ link' = "up" => running.src.kind = "nopath"
           \/ \E o \in Output :
                /\ o.to = Client /\ o.serial = running.src.serial
                /\ o.what \in Outcomes
                /\ sent' = Append(sent, o)
        /\ UNCHANGED <<inbox, action_queue, issued>>

Chunks == /\ running # NoAct /\ running' = running
          /\ \/ sent' = sent
             \/ \E o \in Output :
                  /\ o.to = Client /\ o.serial = running.src.serial
                  /\ o.what = "chunk"
                  /\ sent' = Append(sent, o)
          /\ UNCHANGED <<inbox, action_queue, issued>>

(* The serials that are compared are numbers.                                *)
LEMMA Elements ==
  ASSUME TypeOK
  PROVE  /\ \A i \in DOMAIN inbox :
              i \in Nat /\ inbox[i] \in Msg /\ inbox[i].serial \in Nat
         /\ \A i \in DOMAIN action_queue :
              /\ i \in Nat /\ action_queue[i] \in VxActionTriple
              /\ action_queue[i].src.serial \in Nat
              /\ action_queue[i].src.src \in Clients
         /\ \A i \in DOMAIN sent :
              i \in Nat /\ sent[i] \in Output /\ sent[i].serial \in Nat
         /\ running # NoAct => /\ running.src.serial \in Nat
                               /\ Client \in Clients
         /\ \A c \in Clients : Len(issued[c]) \in Nat
<1>1. /\ inbox \in Seq(Msg) /\ action_queue \in Seq(VxActionTriple)
      /\ sent \in Seq(Output)
      /\ \A c \in Clients : issued[c] \in Seq([kind : Kinds, target : Nat])
      /\ running # NoAct => running \in VxActionTriple
  BY DEF TypeOK
<1>2. /\ DOMAIN inbox = 1..Len(inbox)
      /\ DOMAIN action_queue = 1..Len(action_queue)
      /\ DOMAIN sent = 1..Len(sent)
      /\ \A c \in Clients : Len(issued[c]) \in Nat
  BY <1>1, LenProperties
<1>3. /\ \A i \in DOMAIN inbox : inbox[i] \in Msg
      /\ \A i \in DOMAIN action_queue : action_queue[i] \in VxActionTriple
      /\ \A i \in DOMAIN sent : sent[i] \in Output
  BY <1>1, <1>2, ElementOfSeq
<1>4. \A m \in Msg : m.serial \in Nat
  BY DEF Msg, Call, Answer
<1>5. \A t \in VxActionTriple : t.src.serial \in Nat /\ t.src.src \in Clients
  BY DEF VxActionTriple, Call
<1>6. \A o \in Output : o.serial \in Nat
  BY DEF Output
<1>7. running # NoAct => running.src.serial \in Nat /\ Client \in Clients
  BY <1>1, <1>5 DEF Client
<1>8. (\A i \in DOMAIN inbox : i \in Nat) /\ (\A i \in DOMAIN sent : i \in Nat)
      /\ (\A i \in DOMAIN action_queue : i \in Nat)
  BY <1>2
<1>9. QED BY <1>2, <1>3, <1>4, <1>5, <1>6, <1>7, <1>8

LEMMA OrderStays == TypeOK /\ Order /\ Stays => Order'
BY DEF Stays, Order, LineOrder, RunningOrder, SentOrder, IssuedOrder,
       OutputOrder, Before, IsReply, Client

LEMMA OrderAnswers == TypeOK /\ Order /\ BusAdds => Order'
<1> SUFFICES ASSUME TypeOK, Order, BusAdds PROVE Order'
  OBVIOUS
<1> USE BusAssumption
<1>1. PICK a \in Answer : inbox' = Append(inbox, a)
  BY DEF BusAdds
<1>2. a \in Msg /\ a.src = Bus
  BY <1>1 DEF Msg, Answer
<1>3. /\ \A i \in DOMAIN inbox : i \in Nat /\ i < Len(inbox) + 1
      /\ \A i \in DOMAIN inbox' :
           \/ i \in DOMAIN inbox /\ inbox'[i] = inbox[i]
           \/ i = Len(inbox) + 1 /\ inbox'[i] = a
      /\ Len(inbox) \in Nat
  <2>1. inbox \in Seq(Msg)
    BY DEF TypeOK
  <2>2. QED BY <1>1, <1>2, <2>1, AppendAt
<1>4. /\ \A c \in Clients : c # Bus
      /\ \A i \in DOMAIN action_queue : action_queue[i].src.src \in Clients
      /\ running # NoAct => Client \in Clients
      /\ \A k \in DOMAIN sent : sent[k].to \in Clients
  BY Elements DEF Output
<1>5. LineOrder'
  BY <1>2, <1>3, <1>4 DEF BusAdds, Order, LineOrder, Before
<1>6. RunningOrder'
  BY <1>2, <1>3, <1>4 DEF BusAdds, Order, RunningOrder, Before, Client
<1>7. SentOrder'
  BY <1>2, <1>3, <1>4 DEF BusAdds, Order, SentOrder, Before, IsReply
<1>8. IssuedOrder'
  BY <1>2, <1>3, <1>4 DEF BusAdds, Order, IssuedOrder, Client
<1>9. OutputOrder'
  BY DEF BusAdds, Order, OutputOrder, IsReply
<1>10. QED BY <1>5, <1>6, <1>7, <1>8, <1>9 DEF Order

LEMMA OrderIssues ==
  ASSUME TypeOK, Order, NEW c \in Clients, ClientCall(c)
  PROVE  Order'
<1> USE BusAssumption
<1> DEFINE n == Len(issued[c]) + 1
<1>1. PICK k \in Kinds, t \in 1..MaxSerial :
        /\ issued' = [issued EXCEPT ![c] =
                        Append(@, [kind |-> k, target |-> t])]
        /\ inbox' = Append(inbox, [src |-> c, serial |-> n, kind |-> k,
                                   target |-> t])
  BY DEF ClientCall
<1> DEFINE m == [src |-> c, serial |-> n, kind |-> k, target |-> t]
<1>2. UNCHANGED <<action_queue, running, sent>>
  BY DEF ClientCall, queuevars
<1>3. issued \in [Clients -> Seq([kind : Kinds, target : Nat])]
  BY DEF TypeOK
<1>4. n \in Nat /\ Len(issued[c]) \in Nat /\ Len(issued[c]) < n
  BY Elements
<1>5. m \in Msg
  BY <1>4, KindsAssumption, BoundsAssumption DEF Msg, Call
<1>6. /\ \A i \in DOMAIN inbox : i \in Nat /\ i < Len(inbox) + 1
      /\ \A i \in DOMAIN inbox' :
           \/ i \in DOMAIN inbox /\ inbox'[i] = inbox[i]
           \/ i = Len(inbox) + 1 /\ inbox'[i] = m
      /\ Len(inbox) \in Nat
  <2>1. inbox \in Seq(Msg)
    BY DEF TypeOK
  <2>2. inbox' = Append(inbox, m)
    BY <1>1
  <2>3. QED BY <1>5, <2>1, <2>2, AppendAt
<1>7. /\ Len(issued'[c]) = n
      /\ \A d \in Clients : d # c => issued'[d] = issued[d]
  <2>1. Append(issued[c], [kind |-> k, target |-> t])
          = issued'[c]
    BY <1>1, <1>3
  <2>2. [kind |-> k, target |-> t] \in [kind : Kinds, target : Nat]
    OBVIOUS
  <2>3. Len(Append(issued[c], [kind |-> k, target |-> t])) = n
    BY <1>3, <2>2, AppendProperties
  <2>4. QED BY <1>1, <1>3, <2>1, <2>3
<1>8. \A d \in Clients : /\ Len(issued[d]) \in Nat /\ Len(issued'[d]) \in Nat
                         /\ Len(issued[d]) <= Len(issued'[d])
  BY <1>4, <1>7, Elements
<1> HIDE DEF n
<1>9. \A i \in DOMAIN inbox :
         inbox[i].src = c => inbox[i].serial \in Nat /\ inbox[i].serial < n
  BY <1>4, Elements DEF n, Order, IssuedOrder
<1>10. \A i \in DOMAIN action_queue :
         /\ action_queue[i].src.src \in Clients
         /\ action_queue[i].src.serial \in Nat
         /\ action_queue[i].src.src = c => action_queue[i].src.serial < n
  BY <1>4, Elements DEF n, Order, IssuedOrder
<1>11. running # NoAct => /\ Client \in Clients /\ running.src.serial \in Nat
                          /\ Client = c => running.src.serial < n
  BY <1>4, Elements DEF n, Order, IssuedOrder
<1>12. \A i \in DOMAIN sent :
         /\ sent[i].to \in Clients /\ sent[i].serial \in Nat
         /\ sent[i].to = c => sent[i].serial < n
  <2>1. \A i \in DOMAIN sent : sent[i].to \in Clients
    BY Elements DEF Output
  <2>2. QED BY <1>4, <2>1, Elements DEF n, Order, IssuedOrder
<1>13. m.src = c /\ m.serial = n
  OBVIOUS
<1> HIDE DEF m
<1>14. LineOrder'
  BY <1>2, <1>6, <1>9, <1>10, <1>13 DEF Order, LineOrder, Before
<1>15. RunningOrder'
  BY <1>2, <1>6, <1>11, <1>13 DEF Order, RunningOrder, Before, Client
<1>16. SentOrder'
  BY <1>2, <1>6, <1>12, <1>13 DEF Order, SentOrder, Before, IsReply
<1>17. IssuedOrder'
  <2>1. \A j \in DOMAIN inbox' : inbox'[j].src \in Clients =>
          inbox'[j].serial <= Len(issued'[inbox'[j].src])
    <3>1. ASSUME NEW j \in DOMAIN inbox, inbox[j].src \in Clients
          PROVE  inbox[j].serial <= Len(issued'[inbox[j].src])
      BY <1>8, <3>1, Elements DEF Order, IssuedOrder
    <3>2. m.serial <= Len(issued'[m.src])
      BY <1>4, <1>7, <1>13
    <3>3. QED BY <1>6, <3>1, <3>2
  <2>2. \A j \in DOMAIN action_queue : action_queue[j].src.serial
          <= Len(issued'[action_queue[j].src.src])
    BY <1>8, <1>10 DEF Order, IssuedOrder
  <2>3. running # NoAct => running.src.serial <= Len(issued'[Client])
    BY <1>8, <1>11 DEF Order, IssuedOrder
  <2>4. \A i \in DOMAIN sent : sent[i].serial <= Len(issued'[sent[i].to])
    BY <1>8, <1>12 DEF Order, IssuedOrder
  <2>5. QED BY <1>2, <2>1, <2>2, <2>3, <2>4 DEF IssuedOrder, Client
<1>18. OutputOrder'
  BY <1>2 DEF Order, OutputOrder, IsReply
<1>19. QED BY <1>14, <1>15, <1>16, <1>17, <1>18 DEF Order

LEMMA OrderDrops == TypeOK /\ Order /\ Drops => Order'
<1> SUFFICES ASSUME TypeOK, Order, Drops PROVE Order'
  OBVIOUS
<1>1. \A i \in DOMAIN inbox' :
         i \in Nat /\ i + 1 \in DOMAIN inbox /\ inbox'[i] = inbox[i + 1]
  BY TailAt DEF Drops, TypeOK
<1>2. LineOrder'
  BY <1>1 DEF Drops, Order, LineOrder, Before
<1>3. RunningOrder'
  BY <1>1 DEF Drops, Order, RunningOrder, Before, Client
<1>4. SentOrder'
  BY <1>1 DEF Drops, Order, SentOrder, Before, IsReply
<1>5. IssuedOrder' /\ OutputOrder'
  BY <1>1 DEF Drops, Order, IssuedOrder, OutputOrder, IsReply, Client
<1>6. QED BY <1>2, <1>3, <1>4, <1>5 DEF Order

LEMMA OrderQueues == TypeOK /\ Order /\ Queues => Order'
<1> SUFFICES ASSUME TypeOK, Order, Queues PROVE Order'
  OBVIOUS
<1>1. /\ 1 \in DOMAIN inbox /\ Head(inbox) = inbox[1]
      /\ \A i \in DOMAIN inbox' :
           /\ i \in Nat /\ i + 1 \in DOMAIN inbox /\ 1 < i + 1
           /\ inbox'[i] = inbox[i + 1]
  BY TailAt DEF Queues, TypeOK
<1>2. PICK q \in Seq(VxActionTriple), t \in VxActionTriple :
        /\ DOMAIN q = DOMAIN action_queue
        /\ \A i \in DOMAIN q : q[i].src = action_queue[i].src
        /\ t.src = Head(inbox)
        /\ action_queue' = Append(q, t)
  BY DEF Queues
<1>3. /\ \A i \in DOMAIN q : i \in Nat /\ i < Len(q) + 1
      /\ \A i \in DOMAIN action_queue' :
           \/ i \in DOMAIN q /\ action_queue'[i] = q[i]
           \/ i = Len(q) + 1 /\ action_queue'[i] = t
      /\ Len(q) \in Nat
  BY <1>2, AppendAt
<1>4. \A i \in DOMAIN action_queue' :
         \/ i \in DOMAIN action_queue /\ i < Len(q) + 1 /\ i \in Nat
              /\ action_queue'[i].src = action_queue[i].src
         \/ i = Len(q) + 1 /\ action_queue'[i].src = inbox[1]
  BY <1>1, <1>2, <1>3
<1>5. inbox[1].src \in Clients /\ inbox[1].serial \in Nat
  BY <1>1 DEF Queues, Call
<1>6. UNCHANGED <<running, sent, issued>>
  BY DEF Queues
<1>7. LineOrder'
  <2>1. \A i, j \in DOMAIN inbox' : i < j /\ inbox'[i].src \in Clients =>
          Before(inbox'[i].src, inbox'[i].serial, inbox'[j])
    BY <1>1 DEF Order, LineOrder, Before
  <2>2. ASSUME NEW i \in DOMAIN action_queue', NEW j \in DOMAIN action_queue',
               i < j
        PROVE  Before(action_queue'[i].src.src, action_queue'[i].src.serial,
                      action_queue'[j].src)
    <3>1. i \in DOMAIN action_queue
      BY <1>3, <1>4, <2>2
    <3>2. QED BY <1>1, <1>3, <1>4, <2>2, <3>1 DEF Order, LineOrder, Before
  <2>3. ASSUME NEW i \in DOMAIN action_queue', NEW j \in DOMAIN inbox'
        PROVE  Before(action_queue'[i].src.src, action_queue'[i].src.serial,
                      inbox'[j])
    BY <1>1, <1>4, <1>5 DEF Order, LineOrder, Before
  <2>4. QED BY <2>1, <2>2, <2>3 DEF LineOrder, Before
<1>8. RunningOrder'
  BY <1>1, <1>4, <1>6 DEF Order, RunningOrder, Before, Client
<1>9. SentOrder'
  <2>1. ASSUME NEW k \in DOMAIN sent
        PROVE  /\ \A j \in DOMAIN action_queue' :
                    Before(sent[k].to, sent[k].serial, action_queue'[j].src)
               /\ \A j \in DOMAIN inbox' :
                    Before(sent[k].to, sent[k].serial, inbox'[j])
    BY <1>1, <1>4 DEF Order, SentOrder, Before
  <2>2. ASSUME NEW k \in DOMAIN sent, running # NoAct
        PROVE  \/ Before(sent[k].to, sent[k].serial, running.src)
               \/ sent[k].serial = running.src.serial /\ ~IsReply(sent[k])
    BY <2>2 DEF Order, SentOrder
  <2>3. QED BY <1>6, <2>1, <2>2 DEF SentOrder, Before, IsReply
<1>10. IssuedOrder' /\ OutputOrder'
  BY <1>1, <1>4, <1>5, <1>6
  DEF Order, IssuedOrder, OutputOrder, IsReply, Client
<1>11. QED BY <1>7, <1>8, <1>9, <1>10 DEF Order

LEMMA OrderTakes == TypeOK /\ Order /\ Takes => Order'
<1> SUFFICES ASSUME TypeOK, Order, Takes PROVE Order'
  OBVIOUS
<1>1. /\ 1 \in DOMAIN action_queue /\ running' = action_queue[1]
      /\ \A i \in DOMAIN action_queue' :
           /\ i \in Nat /\ i + 1 \in DOMAIN action_queue /\ 1 < i + 1
           /\ action_queue'[i] = action_queue[i + 1]
  BY TailAt DEF Takes, TypeOK
<1>2. UNCHANGED <<inbox, sent, issued>>
  BY DEF Takes
<1>3. LineOrder'
  BY <1>1, <1>2 DEF Order, LineOrder, Before
<1>4. RunningOrder'
  BY <1>1, <1>2 DEF Order, LineOrder, RunningOrder, Before, Client
<1>5. SentOrder'
  BY <1>1, <1>2 DEF Order, SentOrder, Before, IsReply
<1>6. IssuedOrder' /\ OutputOrder'
  BY <1>1, <1>2 DEF Order, IssuedOrder, OutputOrder, IsReply, Client
<1>7. QED BY <1>3, <1>4, <1>5, <1>6 DEF Order

(* An output of the running action comes after everything that has been sent *)
(* to its client; after its reply, nothing of it is left to come.            *)
LEMMA OrderOutputs ==
  ASSUME TypeOK, Order, running # NoAct,
         NEW o \in Output, o.to = Client, o.serial = running.src.serial,
         sent' = Append(sent, o),
         \/ running' = NoAct
         \/ running' = running /\ ~IsReply(o),
         UNCHANGED <<inbox, action_queue, issued>>
  PROVE  Order'
<1>1. /\ \A i \in DOMAIN sent : i \in Nat /\ i < Len(sent) + 1
      /\ \A i \in DOMAIN sent' :
           \/ i \in DOMAIN sent /\ sent'[i] = sent[i]
           \/ i = Len(sent) + 1 /\ sent'[i] = o
      /\ Len(sent) \in Nat
  BY AppendAt DEF TypeOK
<1>2. running.src.serial \in Nat /\ running.src.src = Client
  BY Elements DEF Client
<1>3. LineOrder'
  BY DEF Order, LineOrder, Before
<1>4. RunningOrder'
  BY DEF Order, RunningOrder, Before, Client
<1>5. SentOrder'
  <2>1. ASSUME NEW k \in DOMAIN sent'
        PROVE  /\ \A j \in DOMAIN action_queue :
                    Before(sent'[k].to, sent'[k].serial, action_queue[j].src)
               /\ \A j \in DOMAIN inbox :
                    Before(sent'[k].to, sent'[k].serial, inbox[j])
    BY <1>1 DEF Order, SentOrder, RunningOrder, Before
  <2>2. ASSUME NEW k \in DOMAIN sent', running' # NoAct
        PROVE  \/ Before(sent'[k].to, sent'[k].serial, running.src)
               \/ sent'[k].serial = running.src.serial /\ ~IsReply(sent'[k])
    BY <1>1, <2>2 DEF Order, SentOrder
  <2>3. running' # NoAct => running' = running
    OBVIOUS
  <2>4. QED BY <2>1, <2>2, <2>3 DEF SentOrder, Before, IsReply
<1>6. IssuedOrder'
  <2>1. \A k \in DOMAIN sent' : sent'[k].serial <= Len(issued[sent'[k].to])
    BY <1>1 DEF Order, IssuedOrder
  <2>2. QED BY <2>1 DEF Order, IssuedOrder, Client
<1>7. OutputOrder'
  <2>1. ASSUME NEW i \in DOMAIN sent, o.to = sent[i].to
        PROVE  \/ sent[i].serial < o.serial
               \/ sent[i].serial = o.serial /\ ~IsReply(sent[i])
    BY <1>2, <2>1 DEF Order, SentOrder, Before
  <2>2. ASSUME NEW i \in DOMAIN sent', NEW j \in DOMAIN sent', i < j,
               sent'[i].to = sent'[j].to
        PROVE  \/ sent'[i].serial < sent'[j].serial
               \/ sent'[i].serial = sent'[j].serial /\ ~IsReply(sent'[i])
    <3>1. i \in DOMAIN sent /\ sent'[i] = sent[i]
      BY <1>1, <2>2
    <3>2. CASE j \in DOMAIN sent /\ sent'[j] = sent[j]
      BY <2>2, <3>1, <3>2 DEF Order, OutputOrder
    <3>3. CASE sent'[j] = o
      BY <2>1, <2>2, <3>1, <3>3
    <3>4. QED BY <1>1, <3>2, <3>3
  <2>3. QED BY <2>2 DEF OutputOrder, IsReply
<1>8. QED BY <1>3, <1>4, <1>5, <1>6, <1>7 DEF Order

LEMMA OrderEnds == TypeOK /\ Order /\ (Ends \/ Chunks) => Order'
<1> SUFFICES ASSUME TypeOK, Order, Ends \/ Chunks PROVE Order'
  OBVIOUS
<1>1. CASE sent' = sent
  <2>1. running' = NoAct \/ running' = running
    BY DEF Ends, Chunks
  <2>2. UNCHANGED <<inbox, action_queue, sent, issued>>
    BY <1>1 DEF Ends, Chunks
  <2>3. LineOrder' /\ OutputOrder'
    BY <2>2 DEF Order, LineOrder, OutputOrder, Before, IsReply
  <2>4. RunningOrder' /\ IssuedOrder'
    BY <2>1, <2>2 DEF Order, RunningOrder, IssuedOrder, Before, Client
  <2>5. SentOrder'
    BY <2>1, <2>2 DEF Order, SentOrder, Before, IsReply
  <2>6. QED BY <2>3, <2>4, <2>5 DEF Order
<1>2. CASE sent' # sent
  BY <1>2, OrderOutputs DEF Ends, Chunks, IsReply
<1>3. QED BY <1>1, <1>2

(* What a Send of the running action's own call amounts to.                  *)
LEMMA SendOutputs ==
  ASSUME running \in VxActionTriple, NEW what \in Outcomes \cup {"chunk"},
         Send(running.src, what)
  PROVE  \/ sent' = sent /\ link' # "up"
         \/ \E o \in Output : /\ o.to = Client
                              /\ o.serial = running.src.serial
                              /\ o.what = what
                              /\ sent' = Append(sent, o)
<1> DEFINE o == [to |-> running.src.src, serial |-> running.src.serial,
                 what |-> what]
<1>1. o \in Output
  BY DEF VxActionTriple, Call, Output
<1>2. o.to = Client /\ o.serial = running.src.serial /\ o.what = what
  BY DEF Client
<1>3. QED BY <1>1, <1>2 DEF Send

(* Every step is one of the moves.                                           *)
LEMMA Moves ==
  TypeInv /\ [Next]_vars =>
    Stays \/ (\E c \in Clients : ClientCall(c)) \/ BusAdds \/ Drops \/ Queues
      \/ Takes \/ Ends \/ Chunks
<1> SUFFICES ASSUME TypeInv, [Next]_vars
             PROVE  Stays \/ (\E c \in Clients : ClientCall(c)) \/ BusAdds
                      \/ Drops \/ Queues \/ Takes \/ Ends \/ Chunks
  OBVIOUS
<1> USE DEF busvars, queuevars, identvars, sqlvars
<1>1. pc \in {"action", "ident", "sql", "rows"} =>
        running # NoAct /\ running \in VxActionTriple
  BY DEF TypeInv, TypeOK, PcOK
<1>2. ASSUME BusAnswer PROVE BusAdds
  <2>1. PICK answer \in {"return", "error"} :
          inbox' = Append(inbox, [src |-> Bus, serial |-> Head(busq),
                                  kind |-> answer, target |-> 0])
    BY <1>2 DEF BusAnswer
  <2>2. Head(busq) \in Nat
    BY <1>2, HeadTailProperties DEF BusAnswer, TypeInv, TypeOK
  <2>3. [src |-> Bus, serial |-> Head(busq), kind |-> answer, target |-> 0]
          \in Answer
    BY <2>2 DEF Answer
  <2>4. QED BY <1>2, <2>1, <2>3 DEF BusAnswer, BusAdds
<1>3. ASSUME HandleCall PROVE Queues
  <2> DEFINE m == Head(inbox)
  <2>1. inbox # <<>> /\ inbox' = Tail(inbox) /\ WvDbusMsgReady(m)
        /\ UNCHANGED <<running, sent, issued>>
    BY <1>3 DEF HandleCall, Reading
  <2>2. m \in Msg
    BY <2>1, InboxTail
  <2>3. m.kind \in CallKinds
    BY <2>1 DEF WvDbusMsgReady, CancelCurrent, CancelQueued, BadCancel,
                QueueCall, CallKinds, Queries
  <2>4. m \in Call /\ m.target \in Nat
    BY <2>2, <2>3, CallOfKind DEF Call
  <2>5. action_queue \in Seq(VxActionTriple)
    BY DEF TypeInv, TypeOK
  <2> DEFINE q2 == Cancelled(action_queue, m.target)
  <2>6. /\ q2 \in Seq(VxActionTriple) /\ DOMAIN q2 = DOMAIN action_queue
        /\ \A i \in DOMAIN q2 : q2[i].src = action_queue[i].src
    BY <2>4, <2>5, CancelledKeeps, LenProperties
  <2>7. \A act \in Acts : Triple(m, act) \in VxActionTriple
                            /\ Triple(m, act).src = m
    BY <2>4, TripleTyped
  <2> HIDE DEF q2
  <2>8. \E q \in {action_queue, q2}, act \in Acts :
          action_queue' = Append(q, Triple(m, act))
    BY <2>1 DEF q2, WvDbusMsgReady, CancelCurrent, CancelQueued, BadCancel,
                QueueCall, Acts
  <2>9. QED BY <2>1, <2>4, <2>5, <2>6, <2>7, <2>8 DEF Queues
<1>4. ASSUME LateAnswer \/ JunkKillsLoop \/ GotIdentity \/ JunkFailsAttempt
      PROVE  Drops
  BY <1>4 DEF LateAnswer, JunkKillsLoop, GotIdentity, JunkFailsAttempt,
              Awaited, Reading, Drops, Identified, AttemptFailed, Ask
<1>5. ASSUME BusDown \/ NoticeClose \/ EndIo \/ EndDrain \/ KnownClient
               \/ NewClient \/ StartStatement \/ Oversize \/ UNCHANGED vars
      PROVE  Stays
  BY <1>5 DEF BusDown, NoticeClose, EndIo, EndDrain, KnownClient, NewClient,
              StartStatement, Oversize, vars, Stays
<1>6. ASSUME TakeAction PROVE Takes
  BY <1>6 DEF TakeAction, Takes
<1>7. ASSUME QuickAnswer PROVE Ends
  <2>1. pc = "action" /\ running' = NoAct
        /\ UNCHANGED <<inbox, action_queue, issued>>
    BY <1>7 DEF QuickAnswer, ActionDone
  <2>2. \E what \in Outcomes : Send(running.src, what)
    <3>1. CASE running.action # "route"
      <4>1. running.action \in {"canceled", "cancelreply", "badsig"}
        BY <1>1, <2>1, <3>1 DEF VxActionTriple, Acts
      <4>2. Answers[running.action] \in Outcomes
        BY <4>1 DEF Answers, Outcomes
      <4>3. QED BY <1>7, <3>1, <4>2 DEF QuickAnswer
    <3>2. CASE running.action = "route"
      BY <1>7, <3>2 DEF QuickAnswer, Outcomes
    <3>3. QED BY <3>1, <3>2
  <2>3. QED BY <1>1, <2>1, <2>2, SendOutputs DEF Ends
<1>8. ASSUME NoAnswer PROVE Ends
  BY <1>1, <1>8 DEF NoAnswer, ActionDone, Ends
<1>9. ASSUME Refuse \/ Finish \/ Fail PROVE Ends
  <2>1. /\ pc \in {"sql", "rows"} /\ running' = NoAct
        /\ UNCHANGED <<inbox, action_queue, issued>>
        /\ \E what \in Outcomes : Send(running.src, what)
    BY <1>9 DEF Refuse, Finish, Fail, ActionDone, Outcomes
  <2>2. QED BY <1>1, <2>1, SendOutputs DEF Ends
<1>10. ASSUME SendChunk PROVE Chunks
  <2>1. /\ pc = "rows" /\ running' = running
        /\ UNCHANGED <<inbox, action_queue, issued>>
        /\ Send(running.src, "chunk")
    BY <1>10 DEF SendChunk
  <2>2. QED BY <1>1, <2>1, SendOutputs DEF Chunks
<1>11. QED
  BY <1>2, <1>3, <1>4, <1>5, <1>6, <1>7, <1>8, <1>9, <1>10
  DEF Next, Daemon, Loop, Handler, Identify, Reply, Execute, Environment, Halted

LEMMA OrderStep == OrderInv /\ [Next]_vars => OrderInv'
<1> SUFFICES ASSUME OrderInv, [Next]_vars PROVE OrderInv'
  OBVIOUS
<1>1. TypeOK /\ TypeInv /\ Order
  BY DEF OrderInv, TypeInv, Order
<1>2. TypeInv'
  BY <1>1, TypeStep
<1>3. Order'
  BY <1>1, Moves, OrderStays, OrderIssues, OrderAnswers, OrderDrops,
     OrderQueues, OrderTakes, OrderEnds
<1>4. QED BY <1>2, <1>3 DEF OrderInv, TypeInv, Order

LEMMA OrderInit == Init => OrderInv
<1>1. Init => TypeOK /\ PcOK
  BY TypeInit DEF TypeInv
<1>2. Init => LineOrder /\ RunningOrder /\ SentOrder /\ IssuedOrder
                /\ OutputOrder
  BY DEF Init, LineOrder, RunningOrder, SentOrder, IssuedOrder, OutputOrder
<1>3. QED BY <1>1, <1>2 DEF OrderInv

(* For every client, what the daemon sends comes in the order of the calls,  *)
(* the chunks of a request before its one reply and nothing after it:        *)
(* although CancelQuery acts out of turn, and although requests are read and *)
(* queued by the nested loop while an earlier one is in progress.            *)
THEOREM OutputInOrder == Spec => []OutputOrder
<1>1. OrderInv => OutputOrder
  BY DEF OrderInv
<1>2. QED BY <1>1, OrderInit, OrderStep, PTL DEF Spec

-----------------------------------------------------------------------------
(* What CancelQuery can meet.  The calls whose statement has been executed   *)
(* are behind everything that is queued or unread, and of the running action *)
(* only while its rows are read, or were when the daemon died, has a         *)
(* statement been executed.                                                  *)
ExecutedOrder ==
  \A e \in executed :
    /\ e[2] <= Len(issued[e[1]])
    /\ \A j \in DOMAIN action_queue : Before(e[1], e[2], action_queue[j].src)
    /\ \A j \in DOMAIN inbox : Before(e[1], e[2], inbox[j])
    /\ running # NoAct =>
         \/ Before(e[1], e[2], running.src)
         \/ e[2] = running.src.serial /\ pc \in {"rows", "dead"}

RowsRan == pc = "rows" => Id(running.src) \in executed

ChunksRan ==
  \A i \in DOMAIN sent :
    sent[i].what = "chunk" => <<sent[i].to, sent[i].serial>> \in executed

CanceledDidNot ==
  \A i \in DOMAIN sent :
    sent[i].what = "canceled" => <<sent[i].to, sent[i].serial>> \notin executed

ExecInv == OrderInv /\ ExecutedOrder /\ RowsRan /\ ChunksRan /\ CanceledDidNot

(* A statement starts, or none does and the thread only comes to read rows   *)
(* by staying there, and leaves them by ending the action or dying.          *)
Starts == /\ pc = "sql" /\ pc' = "rows"
          /\ executed' = executed \cup {Id(running.src)}
          /\ UNCHANGED <<inbox, action_queue, running, sent, issued>>

StartsNone ==
  /\ executed' = executed
  /\ pc' = "rows" => pc = "rows" /\ running' = running
  /\ pc \in {"rows", "dead"} /\ running' # NoAct =>
       pc' \in {"rows", "dead"} /\ running' = running

LEMMA StartsOrNot == TypeInv /\ [Next]_vars => Starts \/ StartsNone
<1> SUFFICES ASSUME TypeInv, [Next]_vars PROVE Starts \/ StartsNone
  OBVIOUS
<1> USE DEF busvars, queuevars, identvars, sqlvars
<1>1. ASSUME StartStatement PROVE Starts
  BY <1>1 DEF StartStatement, Starts
<1>2. ASSUME (\E c \in Clients : ClientCall(c)) \/ BusAnswer \/ BusDown
               \/ UNCHANGED vars
      PROVE  StartsNone
  BY <1>2 DEF ClientCall, BusAnswer, BusDown, vars, StartsNone
<1>3. ASSUME Loop \/ Handler PROVE StartsNone
  BY <1>3 DEF Loop, Handler, EndIo, EndDrain, TakeAction, HandleCall,
              LateAnswer, JunkKillsLoop, NoticeClose, Reading, StartsNone
<1>4. ASSUME Identify PROVE StartsNone
  BY <1>4 DEF Identify, KnownClient, NewClient, GotIdentity, JunkFailsAttempt,
              Awaited, Reading, Identified, AttemptFailed, Ask, StartsNone
<1>5. ASSUME Reply PROVE StartsNone
  BY <1>5 DEF Reply, QuickAnswer, NoAnswer, ActionDone, StartsNone
<1>6. ASSUME Refuse \/ SendChunk \/ Finish \/ Fail \/ Oversize PROVE StartsNone
  BY <1>6 DEF Refuse, SendChunk, Finish, Fail, Oversize, ActionDone, StartsNone
<1>7. QED
  BY <1>1, <1>2, <1>3, <1>4, <1>5, <1>6
  DEF Next, Daemon, Execute, Environment, Halted

(* Whatever is sent is about the running action: "canceled" before it could  *)
(* start a statement, a chunk while its rows are read.                       *)
LEMMA SentFrom ==
  TypeInv /\ [Next]_vars =>
    \/ sent' = sent
    \/ \E o \in Output :
         /\ sent' = Append(sent, o) /\ running # NoAct
         /\ o.to = Client /\ o.serial = running.src.serial
         /\ o.what = "canceled" => pc = "action"
         /\ o.what = "chunk" => pc = "rows"
<1> DEFINE About(what) ==
      \E o \in Output :
        /\ sent' = Append(sent, o) /\ running # NoAct
        /\ o.to = Client /\ o.serial = running.src.serial
        /\ o.what = what
<1> SUFFICES ASSUME TypeInv, [Next]_vars
             PROVE  \/ sent' = sent
                    \/ \E what \in Outcomes \cup {"chunk"} :
                         /\ About(what)
                         /\ what = "canceled" => pc = "action"
                         /\ what = "chunk" => pc = "rows"
  OBVIOUS
<1> USE DEF busvars, queuevars, identvars, sqlvars
<1>1. pc \in {"action", "ident", "sql", "rows"} =>
        running # NoAct /\ running \in VxActionTriple
  BY DEF TypeInv, TypeOK, PcOK
<1>2. ASSUME NEW what \in Outcomes \cup {"chunk"}, Send(running.src, what),
             pc \in {"action", "sql", "rows"}
      PROVE  sent' = sent \/ About(what)
  BY <1>1, <1>2, SendOutputs
<1> HIDE DEF About
<1>3. ASSUME QuickAnswer
      PROVE  \E what \in Outcomes : sent' = sent \/ About(what)
  <2>1. pc = "action"
    BY <1>3 DEF QuickAnswer
  <2>2. \E what \in Outcomes : Send(running.src, what)
    <3>1. CASE running.action # "route"
      <4>1. running.action \in {"canceled", "cancelreply", "badsig"}
        BY <1>1, <2>1, <3>1 DEF VxActionTriple, Acts
      <4>2. Answers[running.action] \in Outcomes
        BY <4>1 DEF Answers, Outcomes
      <4>3. QED BY <1>3, <3>1, <4>2 DEF QuickAnswer
    <3>2. CASE running.action = "route"
      BY <1>3, <3>2 DEF QuickAnswer, Outcomes
    <3>3. QED BY <3>1, <3>2
  <2>3. QED BY <1>2, <2>1, <2>2
<1>4. ASSUME Refuse \/ Finish \/ Fail
      PROVE  \E what \in {"refused", "ok", "sqlerror"} :
               sent' = sent \/ About(what)
  <2>1. \E what \in {"refused", "ok", "sqlerror"} : Send(running.src, what)
    BY <1>4 DEF Refuse, Finish, Fail
  <2>2. pc \in {"sql", "rows"}
    BY <1>4 DEF Refuse, Finish, Fail
  <2>3. QED BY <1>2, <2>1, <2>2 DEF Outcomes
<1>5. ASSUME SendChunk PROVE pc = "rows" /\ (sent' = sent \/ About("chunk"))
  BY <1>2, <1>5 DEF SendChunk
<1>6. ASSUME ~QuickAnswer, ~Refuse, ~Finish, ~Fail, ~SendChunk
      PROVE  sent' = sent
  <2>1. Loop \/ Handler \/ Identify => sent' = sent
    BY DEF Loop, Handler, Identify, EndIo, EndDrain, TakeAction, HandleCall,
           LateAnswer, JunkKillsLoop, NoticeClose, KnownClient, NewClient,
           GotIdentity, JunkFailsAttempt
  <2>2. NoAnswer \/ StartStatement \/ Oversize \/ Environment \/ UNCHANGED vars
          => sent' = sent
    BY DEF NoAnswer, StartStatement, Oversize, Environment, ClientCall,
           BusAnswer, BusDown, vars
  <2>3. QED
    BY <1>6, <2>1, <2>2 DEF Next, Daemon, Reply, Execute, Halted
<1>7. "chunk" \notin Outcomes
  BY DEF Outcomes
<1>8. QED
  BY <1>3, <1>4, <1>5, <1>6, <1>7 DEF QuickAnswer, Outcomes

(* The executed calls stay behind the line, whatever moves along it.         *)
LEMMA ExecutedTyped ==
  ASSUME TypeOK
  PROVE  \A e \in executed : e[1] \in Clients /\ e[2] \in Nat
BY DEF TypeOK

LEMMA ExecutedStarts ==
  ASSUME OrderInv, ExecutedOrder, Starts
  PROVE  ExecutedOrder'
<1>1. running # NoAct /\ TypeOK /\ RunningOrder /\ IssuedOrder
  BY DEF OrderInv, PcOK, Starts
<1>2. UNCHANGED <<inbox, action_queue, running, issued>> /\ pc' = "rows"
  BY DEF Starts
<1>3. ASSUME NEW e \in executed
      PROVE  /\ e[2] <= Len(issued[e[1]])
             /\ \A j \in DOMAIN action_queue :
                  Before(e[1], e[2], action_queue[j].src)
             /\ \A j \in DOMAIN inbox : Before(e[1], e[2], inbox[j])
             /\ Before(e[1], e[2], running.src)
  BY <1>1 DEF ExecutedOrder, Starts
<1> DEFINE r == Id(running.src)
<1>4. r[1] = Client /\ r[2] = running.src.serial
  BY DEF Id, Client
<1>5. /\ r[2] <= Len(issued[r[1]])
      /\ \A j \in DOMAIN action_queue :
           Before(r[1], r[2], action_queue[j].src)
      /\ \A j \in DOMAIN inbox : Before(r[1], r[2], inbox[j])
  BY <1>1, <1>4 DEF RunningOrder, IssuedOrder
<1>6. executed' = executed \cup {r}
  BY DEF Starts
<1> HIDE DEF r
<1>7. QED BY <1>2, <1>3, <1>4, <1>5, <1>6 DEF ExecutedOrder, Before

LEMMA ExecutedKeeps ==
  ASSUME OrderInv, ExecutedOrder, StartsNone,
         \/ Stays \/ (\E c \in Clients : ClientCall(c)) \/ BusAdds \/ Drops
         \/ Queues \/ Takes \/ Ends \/ Chunks
  PROVE  ExecutedOrder'
<1>1. TypeOK /\ \A e \in executed : e[1] \in Clients /\ e[2] \in Nat
  BY ExecutedTyped DEF OrderInv
<1> SUFFICES ASSUME NEW e \in executed
             PROVE  /\ e[2] <= Len(issued'[e[1]])
                    /\ \A j \in DOMAIN action_queue' :
                         Before(e[1], e[2], action_queue'[j].src)
                    /\ \A j \in DOMAIN inbox' : Before(e[1], e[2], inbox'[j])
                    /\ running' # NoAct =>
                         \/ Before(e[1], e[2], running'.src)
                         \/ /\ e[2] = running'.src.serial
                            /\ pc' \in {"rows", "dead"}
  BY DEF StartsNone, ExecutedOrder, Before
<1>2. /\ e[2] <= Len(issued[e[1]])
      /\ \A j \in DOMAIN action_queue : Before(e[1], e[2], action_queue[j].src)
      /\ \A j \in DOMAIN inbox : Before(e[1], e[2], inbox[j])
  BY DEF ExecutedOrder
<1>3. ASSUME running' # NoAct, running' = running
      PROVE  \/ Before(e[1], e[2], running'.src)
             \/ e[2] = running'.src.serial /\ pc' \in {"rows", "dead"}
  BY <1>3 DEF ExecutedOrder, StartsNone
<1>4. CASE Stays
  BY <1>2, <1>3, <1>4 DEF Stays
<1>5. ASSUME NEW c \in Clients, ClientCall(c)
      PROVE  /\ e[2] <= Len(issued'[e[1]])
             /\ \A j \in DOMAIN inbox' : Before(e[1], e[2], inbox'[j])
             /\ UNCHANGED <<action_queue, running>>
  <2>1. PICK k \in Kinds, t \in 1..MaxSerial :
          /\ issued' = [issued EXCEPT ![c] =
                          Append(@, [kind |-> k, target |-> t])]
          /\ inbox' = Append(inbox, [src |-> c, serial |-> Len(issued[c]) + 1,
                                     kind |-> k, target |-> t])
    BY <1>5 DEF ClientCall
  <2> DEFINE m == [src |-> c, serial |-> Len(issued[c]) + 1, kind |-> k,
                   target |-> t]
             a == [kind |-> k, target |-> t]
  <2>2. issued \in [Clients -> Seq([kind : Kinds, target : Nat])]
        /\ inbox \in Seq(Msg)
    BY <1>1 DEF TypeOK
  <2>3. Len(issued[c]) \in Nat /\ Len(issued[e[1]]) \in Nat
    BY <1>1, Elements
  <2>4. m \in Msg /\ m.src = c /\ m.serial = Len(issued[c]) + 1
    BY <2>3, KindsAssumption, BoundsAssumption DEF Msg, Call
  <2>5. a \in [kind : Kinds, target : Nat]
    BY BoundsAssumption
  <2>6. Len(issued'[c]) = Len(issued[c]) + 1
        /\ \A d \in Clients : d # c => issued'[d] = issued[d]
    <3>1. issued'[c] = Append(issued[c], a)
      BY <2>1, <2>2
    <3>2. Len(Append(issued[c], a)) = Len(issued[c]) + 1
      BY <2>2, <2>5, AppendProperties
    <3>3. QED BY <2>1, <2>2, <3>1, <3>2
  <2>7. e[2] <= Len(issued'[e[1]])
    BY <1>1, <1>2, <2>3, <2>6
  <2>8. inbox' = Append(inbox, m)
    BY <2>1
  <2> HIDE DEF m
  <2>9. \A j \in DOMAIN inbox' : (j \in DOMAIN inbox /\ inbox'[j] = inbox[j])
                                   \/ inbox'[j] = m
    BY <2>2, <2>4, <2>8, AppendAt
  <2>10. Before(e[1], e[2], m)
    BY <1>1, <1>2, <2>3, <2>4 DEF Before
  <2>11. QED BY <1>2, <1>5, <2>7, <2>9, <2>10 DEF ClientCall, queuevars
<1>6. CASE \E c \in Clients : ClientCall(c)
  BY <1>2, <1>3, <1>5, <1>6
<1>7. CASE BusAdds
  <2>1. PICK a \in Answer : inbox' = Append(inbox, a)
    BY <1>7 DEF BusAdds
  <2>2. a \in Msg /\ Before(e[1], e[2], a) /\ inbox \in Seq(Msg)
    BY <1>1, <2>1, BusAssumption DEF Msg, Answer, Before, TypeOK
  <2>3. \A j \in DOMAIN inbox' : (j \in DOMAIN inbox /\ inbox'[j] = inbox[j])
                                   \/ inbox'[j] = a
    BY <2>1, <2>2, AppendAt
  <2>4. QED BY <1>2, <1>3, <1>7, <2>2, <2>3 DEF BusAdds
<1>8. CASE Drops
  <2>1. \A j \in DOMAIN inbox' : j + 1 \in DOMAIN inbox
                                   /\ inbox'[j] = inbox[j + 1]
    BY <1>1, <1>8, TailAt DEF Drops, TypeOK
  <2>2. QED BY <1>2, <1>3, <1>8, <2>1 DEF Drops
<1>9. CASE Queues
  <2>1. /\ 1 \in DOMAIN inbox /\ Head(inbox) = inbox[1]
        /\ \A j \in DOMAIN inbox' : j + 1 \in DOMAIN inbox
                                      /\ inbox'[j] = inbox[j + 1]
    BY <1>1, <1>9, TailAt DEF Queues, TypeOK
  <2>2. PICK q \in Seq(VxActionTriple), t \in VxActionTriple :
          /\ DOMAIN q = DOMAIN action_queue
          /\ \A i \in DOMAIN q : q[i].src = action_queue[i].src
          /\ t.src = Head(inbox)
          /\ action_queue' = Append(q, t)
    BY <1>9 DEF Queues
  <2>3. \A j \in DOMAIN action_queue' :
          (j \in DOMAIN q /\ action_queue'[j] = q[j]) \/ action_queue'[j] = t
    BY <2>2, AppendAt
  <2>4. \A j \in DOMAIN action_queue' :
          Before(e[1], e[2], action_queue'[j].src)
    BY <1>2, <2>1, <2>2, <2>3
  <2>5. QED BY <1>2, <1>3, <1>9, <2>1, <2>4 DEF Queues
<1>10. CASE Takes
  <2>1. /\ 1 \in DOMAIN action_queue /\ running' = action_queue[1]
        /\ \A j \in DOMAIN action_queue' :
             /\ j + 1 \in DOMAIN action_queue
             /\ action_queue'[j] = action_queue[j + 1]
    BY <1>1, <1>10, TailAt DEF Takes, TypeOK
  <2>2. QED BY <1>2, <1>10, <2>1 DEF Takes
<1>11. CASE Ends \/ Chunks
  BY <1>2, <1>3, <1>11 DEF Ends, Chunks
<1>12. QED
  BY <1>4, <1>6, <1>7, <1>8, <1>9, <1>10, <1>11

(* What has been sent agrees with what has been executed.                    *)
LEMMA SentAgrees ==
  ASSUME ExecInv, [Next]_vars
  PROVE  ChunksRan' /\ CanceledDidNot'
<1>1. /\ TypeOK /\ TypeInv /\ SentOrder /\ ExecutedOrder /\ RowsRan
      /\ ChunksRan /\ CanceledDidNot
  BY DEF ExecInv, OrderInv, TypeInv
<1> DEFINE Says(k) == <<sent'[k].to, sent'[k].serial>>
<1>2. CASE Starts
  <2>1. sent' = sent /\ executed' = executed \cup {Id(running.src)}
        /\ running # NoAct
    BY <1>1, <1>2 DEF Starts, TypeInv, PcOK
  <2>2. ASSUME NEW i \in DOMAIN sent, sent[i].what = "canceled"
        PROVE  <<sent[i].to, sent[i].serial>> # Id(running.src)
    <3>1. IsReply(sent[i]) /\ sent[i].serial \in Nat
      BY <1>1, <2>2, Elements DEF IsReply
    <3>2. Before(sent[i].to, sent[i].serial, running.src)
      BY <1>1, <2>1, <3>1 DEF SentOrder
    <3>3. running.src.serial \in Nat
      BY <1>1, <2>1, Elements
    <3>4. QED BY <3>1, <3>2, <3>3 DEF Before, Id
  <2>3. QED BY <1>1, <2>1, <2>2 DEF ChunksRan, CanceledDidNot
<1>3. CASE StartsNone
  <2>1. executed' = executed
    BY <1>3 DEF StartsNone
  <2>2. CASE sent' = sent
    BY <1>1, <2>1, <2>2 DEF ChunksRan, CanceledDidNot
  <2>3. ASSUME NEW o \in Output, sent' = Append(sent, o), running # NoAct,
               o.to = Client, o.serial = running.src.serial,
               o.what = "canceled" => pc = "action",
               o.what = "chunk" => pc = "rows"
        PROVE  ChunksRan' /\ CanceledDidNot'
    <3>1. <<o.to, o.serial>> = Id(running.src)
      BY <2>3 DEF Id, Client
    <3>2. o.what = "chunk" => <<o.to, o.serial>> \in executed
      BY <1>1, <2>3, <3>1 DEF RowsRan
    <3>3. o.what = "canceled" => <<o.to, o.serial>> \notin executed
      <4>1. SUFFICES ASSUME o.what = "canceled",
                            <<o.to, o.serial>> \in executed
                     PROVE  FALSE
        OBVIOUS
      <4>2. Before(o.to, o.serial, running.src)
        BY <1>1, <2>3, <4>1 DEF ExecutedOrder
      <4>3. o.serial < running.src.serial /\ running.src.serial \in Nat
        BY <1>1, <2>3, <4>2, Elements DEF Before, Client
      <4>4. QED BY <2>3, <4>3
    <3>4. \A i \in DOMAIN sent' : (i \in DOMAIN sent /\ sent'[i] = sent[i])
                                    \/ sent'[i] = o
      BY <1>1, <2>3, AppendAt DEF TypeOK
    <3>5. QED
      BY <1>1, <2>1, <3>2, <3>3, <3>4 DEF ChunksRan, CanceledDidNot
  <2>4. QED BY <1>1, <2>2, <2>3, SentFrom
<1>4. QED BY <1>1, <1>2, <1>3, StartsOrNot

LEMMA ExecStep == ExecInv /\ [Next]_vars => ExecInv'
<1> SUFFICES ASSUME ExecInv, [Next]_vars PROVE ExecInv'
  OBVIOUS
<1>1. OrderInv /\ TypeInv /\ ExecutedOrder /\ RowsRan
  BY DEF ExecInv, OrderInv, TypeInv
<1>2. OrderInv'
  BY <1>1, OrderStep
<1>3. Starts \/ StartsNone
  BY <1>1, StartsOrNot
<1>4. ExecutedOrder'
  BY <1>1, <1>3, Moves, ExecutedStarts, ExecutedKeeps
<1>5. RowsRan'
  BY <1>1, <1>3 DEF Starts, StartsNone, RowsRan
<1>6. QED BY <1>2, <1>4, <1>5, SentAgrees DEF ExecInv

LEMMA ExecInit == Init => ExecInv
<1>1. Init => OrderInv
  BY OrderInit
<1>2. Init => ExecutedOrder /\ RowsRan /\ ChunksRan /\ CanceledDidNot
  BY DEF Init, ExecutedOrder, RowsRan, ChunksRan, CanceledDidNot
<1>3. QED BY <1>1, <1>2 DEF ExecInv

(* A query that is answered "This message got canceled" (HandleCancelQuery's *)
(* replaced action) was never executed and no chunk of it was sent: once its *)
(* statement has run, nothing that CancelQuery can still find is that call,  *)
(* although serials are compared without their senders.                      *)
THEOREM CanceledDoesNotRun == Spec => []CanceledNeverRan
<1>1. ExecInv => CanceledNeverRan
  BY DEF ExecInv, ChunksRan, CanceledDidNot, CanceledNeverRan
<1>2. QED BY <1>1, ExecInit, ExecStep, PTL DEF Spec

(* No CancelQuery finds a call whose statement has begun: HandleCancelQuery  *)
(* is only run between statements, by the loop of _Go or while the current   *)
(* action still waits for its client's identity, so the curcmd.Cancel() it   *)
(* was written for never has a statement to cancel.                          *)
THEOREM CancelFindsNoStatement == Spec => CancelMeetsNoStatement
<1>1. ExecInv /\ [Next]_vars => [(killed' \ killed) \cap executed = {}]_vars
  <2> SUFFICES ASSUME ExecInv, Next
               PROVE  (killed' \ killed) \cap executed = {}
    BY DEF vars
  <2> USE DEF busvars, queuevars, identvars, sqlvars
  <2>1. TypeOK /\ ExecutedOrder
    BY DEF ExecInv, OrderInv
  <2>2. CASE HandleCall
    <3> DEFINE m == Head(inbox)
    <3>1. pc \in {"io", "ident"} /\ WvDbusMsgReady(m)
      BY <2>2 DEF HandleCall, Reading
    <3>2. ASSUME running # NoAct PROVE Id(running.src) \notin executed
      <4>1. SUFFICES ASSUME Id(running.src) \in executed PROVE FALSE
        OBVIOUS
      <4>2. Before(running.src.src, running.src.serial, running.src)
        BY <2>1, <3>1, <3>2, <4>1 DEF ExecutedOrder, Id
      <4>3. running.src.serial \in Nat
        BY <2>1, <3>2, Elements
      <4>4. QED BY <4>2, <4>3 DEF Before
    <3>3. ASSUME NEW i \in DOMAIN action_queue
          PROVE  Id(action_queue[i].src) \notin executed
      <4>1. SUFFICES ASSUME Id(action_queue[i].src) \in executed PROVE FALSE
        OBVIOUS
      <4>2. Before(action_queue[i].src.src, action_queue[i].src.serial,
                   action_queue[i].src)
        BY <2>1, <4>1 DEF ExecutedOrder, Id
      <4>3. action_queue[i].src.serial \in Nat
        BY <2>1, Elements
      <4>4. QED BY <4>2, <4>3 DEF Before
    <3>4. CASE CancelCurrent(m)
      <4>1. curaction # NoAct /\ curaction = running
        BY <2>1, <3>4 DEF CancelCurrent, IsCurrent, TypeOK
      <4>2. QED BY <3>2, <3>4, <4>1 DEF CancelCurrent
    <3>5. CASE CancelQueued(m)
      <4>1. \A x \in Matches(action_queue, m.target) : x \notin executed
        BY <3>3 DEF Matches
      <4>2. QED BY <3>5, <4>1 DEF CancelQueued
    <3>6. CASE BadCancel(m) \/ QueueCall(m)
      BY <3>6 DEF BadCancel, QueueCall
    <3>7. QED BY <3>1, <3>4, <3>5, <3>6 DEF WvDbusMsgReady
  <2>3. CASE ~HandleCall
    <3>1. Loop \/ Handler \/ Identify => killed' = killed
      BY <2>3 DEF Loop, Handler, Identify, EndIo, EndDrain, TakeAction,
                  LateAnswer, JunkKillsLoop, NoticeClose, KnownClient,
                  NewClient, GotIdentity, JunkFailsAttempt
    <3>2. Reply \/ Execute \/ Environment \/ Halted => killed' = killed
      BY DEF Reply, QuickAnswer, NoAnswer, Execute, StartStatement, Refuse,
             SendChunk, Finish, Fail, Oversize, Environment, ClientCall,
             BusAnswer, BusDown, Halted, vars
    <3>3. QED BY <3>1, <3>2 DEF Next, Daemon
  <2>4. QED BY <2>2, <2>3
<1>2. QED
  BY <1>1, ExecInit, ExecStep, PTL DEF Spec, CancelMeetsNoStatement

-----------------------------------------------------------------------------
(* No call gets lost.  Between two actions nothing runs, and the loop of _Go *)
(* only ends on an empty queue.                                              *)
IdleOK ==
  /\ pc \in {"io", "drain", "done"} => running = NoAct
  /\ pc = "done" => action_queue = <<>>

(* What stands in line is what the clients issued.                           *)
Recorded(m) ==
  m.serial \in DOMAIN issued[m.src] /\ issued[m.src][m.serial].kind = m.kind

CallsAgree ==
  /\ \A j \in DOMAIN inbox : inbox[j].src \in Clients => Recorded(inbox[j])
  /\ \A j \in DOMAIN action_queue : Recorded(action_queue[j].src)
  /\ running # NoAct => Recorded(running.src)

KeepInv == TypeInv /\ IdleOK /\ CallsAgree /\ NothingDropped

LEMMA AppendKeeps ==
  ASSUME NEW S, NEW s \in Seq(S), NEW e \in S
  PROVE  /\ \A i \in DOMAIN s : i \in DOMAIN Append(s, e)
                                  /\ Append(s, e)[i] = s[i]
         /\ Len(s) + 1 \in DOMAIN Append(s, e)
         /\ Append(s, e)[Len(s) + 1] = e
<1>1. /\ Append(s, e) \in Seq(S)
      /\ Len(Append(s, e)) = Len(s) + 1
      /\ \A i \in 1..Len(s) : Append(s, e)[i] = s[i]
      /\ Append(s, e)[Len(s) + 1] = e
  BY AppendProperties
<1>2. /\ Len(s) \in Nat /\ DOMAIN s = 1..Len(s)
      /\ DOMAIN Append(s, e) = 1..Len(s) + 1
  BY <1>1, LenProperties
<1>3. QED BY <1>1, <1>2

LEMMA TailKeeps ==
  ASSUME NEW S, NEW s \in Seq(S), s # <<>>
  PROVE  \A i \in DOMAIN s :
           \/ s[i] = Head(s)
           \/ i - 1 \in DOMAIN Tail(s) /\ Tail(s)[i - 1] = s[i]
<1>1. /\ Tail(s) \in Seq(S)
      /\ Len(Tail(s)) = Len(s) - 1
      /\ \A i \in 1..Len(Tail(s)) : Tail(s)[i] = s[i + 1]
      /\ Head(s) = s[1]
  BY HeadTailProperties
<1>2. /\ Len(s) \in Nat /\ Len(s) # 0 /\ DOMAIN s = 1..Len(s)
      /\ DOMAIN Tail(s) = 1..(Len(s) - 1)
  BY <1>1, LenProperties, EmptySeq
<1>3. QED BY <1>1, <1>2

(* The thread is idle where the loop says it is.                             *)
LEMMA IdleStep ==
  ASSUME TypeInv, IdleOK, [Next]_vars
  PROVE  IdleOK'
<1> USE DEF busvars, queuevars, identvars, sqlvars
<1>1. CASE (\E c \in Clients : ClientCall(c)) \/ BusAnswer \/ BusDown
             \/ UNCHANGED vars
  BY <1>1 DEF ClientCall, BusAnswer, BusDown, vars, IdleOK
<1>2. CASE Loop \/ Handler
  BY <1>2 DEF Loop, Handler, EndIo, EndDrain, TakeAction, HandleCall,
              LateAnswer, JunkKillsLoop, NoticeClose, Reading, IdleOK
<1>3. CASE Identify
  BY <1>3 DEF Identify, KnownClient, NewClient, GotIdentity, JunkFailsAttempt,
              Awaited, Reading, Identified, AttemptFailed, Ask, IdleOK
<1>4. CASE Reply
  BY <1>4 DEF Reply, QuickAnswer, NoAnswer, ActionDone, IdleOK
<1>5. CASE Execute
  BY <1>5 DEF Execute, StartStatement, Refuse, SendChunk, Finish, Fail,
              Oversize, ActionDone, IdleOK
<1>6. QED
  BY <1>1, <1>2, <1>3, <1>4, <1>5 DEF Next, Daemon, Environment, Halted

(* A call that has been made stays on record, and a new one is read as made. *)
LEMMA IssuedGrows ==
  ASSUME TypeOK, NEW c \in Clients, ClientCall(c)
  PROVE  /\ \A d \in Clients : \A n \in DOMAIN issued[d] :
              n \in DOMAIN issued'[d] /\ issued'[d][n] = issued[d][n]
         /\ \A j \in DOMAIN inbox : j \in DOMAIN inbox' /\ inbox'[j] = inbox[j]
         /\ \E m \in Call :
              /\ m.src = c /\ Recorded(m)'
              /\ \A j \in DOMAIN inbox' :
                   (j \in DOMAIN inbox /\ inbox'[j] = inbox[j]) \/ inbox'[j] = m
              /\ \E j \in DOMAIN inbox' : inbox'[j] = m
              /\ \A d \in Clients : \A n \in DOMAIN issued'[d] :
                   n \in DOMAIN issued[d] \/ (d = c /\ n = m.serial)
<1>1. PICK k \in Kinds, t \in 1..MaxSerial :
        /\ issued' = [issued EXCEPT ![c] =
                        Append(@, [kind |-> k, target |-> t])]
        /\ inbox' = Append(inbox, [src |-> c, serial |-> Len(issued[c]) + 1,
                                   kind |-> k, target |-> t])
  BY DEF ClientCall
<1> DEFINE m == [src |-> c, serial |-> Len(issued[c]) + 1, kind |-> k,
                 target |-> t]
           a == [kind |-> k, target |-> t]
<1>2. /\ issued \in [Clients -> Seq([kind : Kinds, target : Nat])]
      /\ inbox \in Seq(Msg) /\ Len(issued[c]) \in Nat
  BY Elements DEF TypeOK
<1>3. m \in Call /\ m \in Msg
  BY <1>2, KindsAssumption, BoundsAssumption DEF Msg, Call
<1>4. a \in [kind : Kinds, target : Nat]
  BY BoundsAssumption
<1>5. /\ issued'[c] = Append(issued[c], a)
      /\ \A d \in Clients : d # c => issued'[d] = issued[d]
  BY <1>1, <1>2
<1>6. inbox' = Append(inbox, m)
  BY <1>1
<1>7. m.src = c /\ m.serial = Len(issued[c]) + 1 /\ m.kind = a.kind
  OBVIOUS
<1> HIDE DEF m, a
<1>8. /\ \A n \in DOMAIN issued[c] : n \in DOMAIN issued'[c]
                                       /\ issued'[c][n] = issued[c][n]
      /\ Len(issued[c]) + 1 \in DOMAIN issued'[c]
      /\ issued'[c][Len(issued[c]) + 1] = a
      /\ \A n \in DOMAIN issued'[c] : n \in DOMAIN issued[c]
                                        \/ n = Len(issued[c]) + 1
  BY <1>2, <1>4, <1>5, AppendKeeps, AppendAt
<1>9. /\ \A j \in DOMAIN inbox : j \in DOMAIN inbox' /\ inbox'[j] = inbox[j]
      /\ \E j \in DOMAIN inbox' : inbox'[j] = m
      /\ \A j \in DOMAIN inbox' : (j \in DOMAIN inbox /\ inbox'[j] = inbox[j])
                                    \/ inbox'[j] = m
  BY <1>2, <1>3, <1>6, AppendKeeps, AppendAt
<1>10. m.serial \in DOMAIN issued'[m.src]
       /\ issued'[m.src][m.serial].kind = m.kind
  BY <1>7, <1>8
<1>11. QED BY <1>3, <1>5, <1>7, <1>8, <1>9, <1>10 DEF Recorded

LEMMA AgreeStep ==
  ASSUME TypeInv, CallsAgree, [Next]_vars
  PROVE  CallsAgree'
<1>1. TypeOK
  BY DEF TypeInv
<1>2. CASE Stays
  BY <1>2 DEF Stays, CallsAgree, Recorded
<1>3. ASSUME NEW c \in Clients, ClientCall(c) PROVE CallsAgree'
  <2>1. PICK m \in Call :
          /\ m.src = c /\ Recorded(m)'
          /\ \A j \in DOMAIN inbox' :
               (j \in DOMAIN inbox /\ inbox'[j] = inbox[j]) \/ inbox'[j] = m
    BY <1>1, <1>3, IssuedGrows
  <2>2. \A d \in Clients : \A n \in DOMAIN issued[d] :
          n \in DOMAIN issued'[d] /\ issued'[d][n] = issued[d][n]
    BY <1>1, <1>3, IssuedGrows
  <2>3. UNCHANGED <<action_queue, running>>
    BY <1>3 DEF ClientCall, queuevars
  <2>4. \A j \in DOMAIN inbox' : inbox'[j].src \in Clients =>
          Recorded(inbox[j])' \/ inbox'[j] = m
    BY <2>1, <2>2 DEF CallsAgree, Recorded
  <2>5. \A j \in DOMAIN inbox' : inbox'[j].src \in Clients =>
          /\ inbox'[j].serial \in DOMAIN issued'[inbox'[j].src]
          /\ issued'[inbox'[j].src][inbox'[j].serial].kind = inbox'[j].kind
    BY <2>1, <2>4 DEF Recorded
  <2>6. \A j \in DOMAIN action_queue :
          /\ action_queue[j].src.serial \in DOMAIN issued'[action_queue[j].src.src]
          /\ issued'[action_queue[j].src.src][action_queue[j].src.serial].kind
               = action_queue[j].src.kind
    BY <1>1, <2>2, Elements DEF CallsAgree, Recorded
  <2>7. running # NoAct =>
          /\ running.src.serial \in DOMAIN issued'[running.src.src]
          /\ issued'[running.src.src][running.src.serial].kind
               = running.src.kind
    BY <1>1, <2>2, Elements DEF CallsAgree, Recorded, Client
  <2>8. QED BY <2>3, <2>5, <2>6, <2>7 DEF CallsAgree, Recorded
<1>4. CASE BusAdds
  <2>1. PICK a \in Answer : inbox' = Append(inbox, a)
    BY <1>4 DEF BusAdds
  <2>2. a \in Msg /\ a.src \notin Clients /\ inbox \in Seq(Msg)
    BY <1>1, <2>1, BusAssumption DEF Msg, Answer, TypeOK
  <2>3. \A j \in DOMAIN inbox' : (j \in DOMAIN inbox /\ inbox'[j] = inbox[j])
                                   \/ inbox'[j] = a
    BY <2>1, <2>2, AppendAt
  <2>4. QED BY <1>4, <2>2, <2>3 DEF BusAdds, CallsAgree, Recorded
<1>5. CASE Drops
  <2>1. \A j \in DOMAIN inbox' : j + 1 \in DOMAIN inbox
                                   /\ inbox'[j] = inbox[j + 1]
    BY <1>1, <1>5, TailAt DEF Drops, TypeOK
  <2>2. QED BY <1>5, <2>1 DEF Drops, CallsAgree, Recorded
<1>6. CASE Queues
  <2>1. /\ 1 \in DOMAIN inbox /\ Head(inbox) = inbox[1]
        /\ \A j \in DOMAIN inbox' : j + 1 \in DOMAIN inbox
                                      /\ inbox'[j] = inbox[j + 1]
    BY <1>1, <1>6, TailAt DEF Queues, TypeOK
  <2>2. PICK q \in Seq(VxActionTriple), t \in VxActionTriple :
          /\ DOMAIN q = DOMAIN action_queue
          /\ \A i \in DOMAIN q : q[i].src = action_queue[i].src
          /\ t.src = Head(inbox)
          /\ action_queue' = Append(q, t)
    BY <1>6 DEF Queues
  <2>3. \A j \in DOMAIN action_queue' :
          (j \in DOMAIN q /\ action_queue'[j] = q[j]) \/ action_queue'[j] = t
    BY <2>2, AppendAt
  <2>4. Recorded(inbox[1])
    BY <1>6, <2>1 DEF Queues, Call, CallsAgree
  <2>5. \A j \in DOMAIN action_queue' : Recorded(action_queue'[j].src)
    BY <2>1, <2>2, <2>3, <2>4 DEF CallsAgree
  <2>6. QED BY <1>6, <2>1, <2>5 DEF Queues, CallsAgree, Recorded
<1>7. CASE Takes
  <2>1. /\ 1 \in DOMAIN action_queue /\ running' = action_queue[1]
        /\ \A j \in DOMAIN action_queue' :
             /\ j + 1 \in DOMAIN action_queue
             /\ action_queue'[j] = action_queue[j + 1]
    BY <1>1, <1>7, TailAt DEF Takes, TypeOK
  <2>2. QED BY <1>7, <2>1 DEF Takes, CallsAgree, Recorded
<1>8. CASE Ends \/ Chunks
  BY <1>8 DEF Ends, Chunks, CallsAgree, Recorded
<1>9. QED
  BY <1>2, <1>3, <1>4, <1>5, <1>6, <1>7, <1>8, Moves

(* Where a call is held: unread, queued or running.                          *)
HeldIn(h) ==
  \/ \E i \in DOMAIN inbox : Id(inbox[i]) = h
  \/ \E i \in DOMAIN action_queue : Id(action_queue[i].src) = h
  \/ running # NoAct /\ Id(running.src) = h

LEMMA HeldIsHeldIn == \A h : h \in Held <=> HeldIn(h)
BY DEF Held, HeldIn

(* A read call that was held is held afterwards: in the queue, where         *)
(* CancelQuery leaves every entry.                                           *)
LEMMA QueuesHolds ==
  ASSUME TypeOK, Queues, NEW h, HeldIn(h)
  PROVE  HeldIn(h)'
<1>1. inbox \in Seq(Msg) /\ action_queue \in Seq(VxActionTriple)
  BY DEF TypeOK
<1>2. PICK q \in Seq(VxActionTriple), t \in VxActionTriple :
        /\ DOMAIN q = DOMAIN action_queue
        /\ \A i \in DOMAIN q : q[i].src = action_queue[i].src
        /\ t.src = Head(inbox)
        /\ action_queue' = Append(q, t)
  BY DEF Queues
<1>3. /\ \A i \in DOMAIN q : i \in DOMAIN action_queue'
                               /\ action_queue'[i] = q[i]
      /\ Len(q) + 1 \in DOMAIN action_queue'
      /\ action_queue'[Len(q) + 1] = t
  BY <1>2, AppendKeeps
<1>4. \A i \in DOMAIN inbox :
        \/ inbox[i] = Head(inbox)
        \/ i - 1 \in DOMAIN inbox' /\ inbox'[i - 1] = inbox[i]
  BY <1>1, TailKeeps DEF Queues
<1>5. CASE \E i \in DOMAIN inbox : Id(inbox[i]) = h
  BY <1>2, <1>3, <1>4, <1>5 DEF HeldIn, Id
<1>6. CASE \E i \in DOMAIN action_queue : Id(action_queue[i].src) = h
  BY <1>2, <1>3, <1>6 DEF HeldIn, Id
<1>7. CASE running # NoAct /\ Id(running.src) = h
  BY <1>7 DEF Queues, HeldIn, Id
<1>8. QED BY <1>5, <1>6, <1>7 DEF HeldIn

LEMMA TakesHolds ==
  ASSUME TypeOK, IdleOK, Takes, NEW h, HeldIn(h)
  PROVE  HeldIn(h)'
<1>1. action_queue \in Seq(VxActionTriple)
  BY DEF TypeOK
<1>2. \A i \in DOMAIN action_queue :
        \/ action_queue[i] = Head(action_queue)
        \/ /\ i - 1 \in DOMAIN action_queue'
           /\ action_queue'[i - 1] = action_queue[i]
  BY <1>1, TailKeeps DEF Takes
<1>3. running' # NoAct
  BY <1>1, TailAt, NoActAssumption DEF Takes
<1>4. running = NoAct
  BY DEF Takes, IdleOK
<1>5. QED BY <1>2, <1>3, <1>4 DEF Takes, HeldIn, Id

LEMMA DropsHolds ==
  ASSUME TypeOK, CallsAgree, Drops,
         NEW c \in Clients, NEW n \in DOMAIN issued[c], HeldIn(<<c, n>>)
  PROVE  HeldIn(<<c, n>>)' \/ issued[c][n].kind \in Unanswerable
<1>1. inbox \in Seq(Msg) /\ inbox # <<>>
  BY DEF TypeOK, Drops
<1>2. \A i \in DOMAIN inbox :
        \/ inbox[i] = Head(inbox)
        \/ i - 1 \in DOMAIN inbox' /\ inbox'[i - 1] = inbox[i]
  BY <1>1, TailKeeps DEF Drops
<1>3. UNCHANGED <<action_queue, running>>
  BY DEF Drops
<1>4. ASSUME NEW i \in DOMAIN inbox, Id(inbox[i]) = <<c, n>>,
             inbox[i] = Head(inbox)
      PROVE  issued[c][n].kind \in Unanswerable
  <2>1. inbox[i].src = c /\ inbox[i].serial = n
    BY <1>4 DEF Id
  <2>2. inbox[i].kind = "junkcancel"
    BY <1>4, <2>1, BusAssumption DEF Drops
  <2>3. Recorded(inbox[i])
    BY <2>1 DEF CallsAgree
  <2>4. QED BY <2>1, <2>2, <2>3 DEF Recorded, Unanswerable
<1>5. QED BY <1>2, <1>3, <1>4 DEF HeldIn, Id

LEMMA EndsHolds ==
  ASSUME TypeOK, CallsAgree, Ends, link' = "up",
         NEW c \in Clients, NEW n \in DOMAIN issued[c], HeldIn(<<c, n>>)
  PROVE  HeldIn(<<c, n>>)' \/ Answered(c, n)'
           \/ issued[c][n].kind \in Unanswerable
<1>1. UNCHANGED <<inbox, action_queue>>
  BY DEF Ends
<1>2. CASE running # NoAct /\ Id(running.src) = <<c, n>>
  <2>1. running.src.src = c /\ running.src.serial = n /\ Client = c
    BY <1>2 DEF Id, Client
  <2>2. CASE running.src.kind = "nopath"
    BY <1>2, <2>1, <2>2 DEF CallsAgree, Recorded, Unanswerable
  <2>3. ASSUME NEW o \in Output, o.to = Client,
               o.serial = running.src.serial, o.what \in Outcomes,
               sent' = Append(sent, o)
        PROVE  Answered(c, n)'
    <3>1. sent \in Seq(Output)
      BY DEF TypeOK
    <3>2. Len(sent) + 1 \in DOMAIN sent' /\ sent'[Len(sent) + 1] = o
      BY <2>3, <3>1, AppendKeeps
    <3>3. QED BY <2>1, <2>3, <3>2 DEF Answered, IsReply, Outcomes
  <2>4. QED BY <2>2, <2>3 DEF Ends
<1>3. QED BY <1>1, <1>2 DEF HeldIn, Id

(* While the connection is up and the daemon lives, a held call stays held,  *)
(* is answered, or is one that nothing answers.                              *)
LEMMA HoldsOn ==
  ASSUME TypeInv, IdleOK, CallsAgree, [Next]_vars, link' = "up",
         NEW c \in Clients, NEW n \in DOMAIN issued[c], HeldIn(<<c, n>>)
  PROVE  HeldIn(<<c, n>>)' \/ Answered(c, n)'
           \/ issued[c][n].kind \in Unanswerable
<1>1. TypeOK
  BY DEF TypeInv
<1>2. CASE Stays \/ Chunks
  BY <1>2 DEF Stays, Chunks, HeldIn, Id
<1>3. ASSUME NEW d \in Clients, ClientCall(d) PROVE HeldIn(<<c, n>>)'
  <2>1. \A j \in DOMAIN inbox : j \in DOMAIN inbox' /\ inbox'[j] = inbox[j]
    BY <1>1, <1>3, IssuedGrows
  <2>2. QED BY <1>3, <2>1 DEF ClientCall, queuevars, HeldIn, Id
<1>4. CASE BusAdds
  <2>1. PICK a \in Answer : inbox' = Append(inbox, a)
    BY <1>4 DEF BusAdds
  <2>2. a \in Msg /\ inbox \in Seq(Msg)
    BY <1>1 DEF Msg, TypeOK
  <2>3. \A j \in DOMAIN inbox : j \in DOMAIN inbox' /\ inbox'[j] = inbox[j]
    BY <2>1, <2>2, AppendKeeps
  <2>4. QED BY <1>4, <2>3 DEF BusAdds, HeldIn, Id
<1>5. QED
  BY <1>1, <1>2, <1>3, <1>4, Moves, DropsHolds, QueuesHolds, TakesHolds,
     EndsHolds

(* A reply that has been sent stays sent.                                    *)
LEMMA AnsweredStays ==
  ASSUME TypeInv, [Next]_vars, NEW c, NEW n, Answered(c, n)
  PROVE  Answered(c, n)'
<1>1. \A i \in DOMAIN sent : i \in DOMAIN sent' /\ sent'[i] = sent[i]
  <2>1. CASE sent' = sent
    BY <2>1
  <2>2. ASSUME NEW o \in Output, sent' = Append(sent, o)
        PROVE  \A i \in DOMAIN sent : i \in DOMAIN sent'
                                          /\ sent'[i] = sent[i]
    BY <2>2, AppendKeeps DEF TypeInv, TypeOK
  <2>3. QED BY <2>1, <2>2, SentFrom
<1>2. QED BY <1>1 DEF Answered, IsReply

(* A lost connection or a dead daemon does not come back.                    *)
LEMMA LossIsFinal ==
  ASSUME TypeInv, [Next]_vars, link' = "up", pc' # "dead"
  PROVE  link = "up" /\ pc # "dead"
<1> USE DEF busvars, queuevars, identvars, sqlvars
<1>1. CASE (\E c \in Clients : ClientCall(c)) \/ BusAnswer \/ BusDown
             \/ UNCHANGED vars
  BY <1>1 DEF ClientCall, BusAnswer, BusDown, vars
<1>2. CASE Loop \/ Handler
  BY <1>2 DEF Loop, Handler, EndIo, EndDrain, TakeAction, HandleCall,
              LateAnswer, JunkKillsLoop, NoticeClose, Reading
<1>3. CASE Identify
  BY <1>3 DEF Identify, KnownClient, NewClient, GotIdentity, JunkFailsAttempt,
              Awaited, Reading, Identified, AttemptFailed, Ask
<1>4. CASE Reply
  BY <1>4 DEF Reply, QuickAnswer, NoAnswer, ActionDone, Send
<1>5. CASE Execute
  BY <1>5 DEF Execute, StartStatement, Refuse, SendChunk, Finish, Fail,
              Oversize, ActionDone, Send
<1>6. QED
  BY <1>1, <1>2, <1>3, <1>4, <1>5 DEF Next, Daemon, Environment, Halted

LEMMA KeepStep == KeepInv /\ [Next]_vars => KeepInv'
<1> SUFFICES ASSUME KeepInv, [Next]_vars PROVE KeepInv'
  OBVIOUS
<1>1. TypeInv /\ TypeOK /\ IdleOK /\ CallsAgree /\ NothingDropped
  BY DEF KeepInv, TypeInv
<1>2. TypeInv' /\ IdleOK' /\ CallsAgree'
  BY <1>1, TypeStep, IdleStep, AgreeStep
<1>3. NothingDropped'
  <2> SUFFICES ASSUME link' = "up", pc' # "dead",
                      NEW c \in Clients, NEW n \in DOMAIN issued'[c]
               PROVE  \/ issued'[c][n].kind \in Unanswerable
                      \/ Answered(c, n)'
                      \/ <<c, n>> \in Held'
    BY DEF NothingDropped
  <2>1. link = "up" /\ pc # "dead"
    BY <1>1, LossIsFinal
  <2>2. <<c, n>> \in Held' <=> HeldIn(<<c, n>>)'
    BY DEF Held, HeldIn
  <2>3. ASSUME n \in DOMAIN issued[c], issued'[c][n] = issued[c][n]
        PROVE  \/ issued'[c][n].kind \in Unanswerable
               \/ Answered(c, n)'
               \/ HeldIn(<<c, n>>)'
    <3>1. \/ issued[c][n].kind \in Unanswerable
          \/ Answered(c, n)
          \/ HeldIn(<<c, n>>)
      BY <1>1, <2>1, <2>3, HeldIsHeldIn DEF NothingDropped
    <3>2. QED BY <1>1, <2>3, <3>1, HoldsOn, AnsweredStays
  <2>4. ASSUME NEW d \in Clients, ClientCall(d)
        PROVE  \/ n \in DOMAIN issued[c] /\ issued'[c][n] = issued[c][n]
               \/ HeldIn(<<c, n>>)'
    <3>1. \A m \in DOMAIN issued[c] : issued'[c][m] = issued[c][m]
      BY <1>1, <2>4, IssuedGrows
    <3>2. n \in DOMAIN issued[c]
            \/ \E j \in DOMAIN inbox' : Id(inbox'[j]) = <<c, n>>
      BY <1>1, <2>4, IssuedGrows DEF Id
    <3>3. QED BY <3>1, <3>2 DEF HeldIn, Id
  <2>5. ASSUME issued' = issued
        PROVE  n \in DOMAIN issued[c] /\ issued'[c][n] = issued[c][n]
    BY <2>5
  <2>6. issued' = issued \/ \E d \in Clients : ClientCall(d)
    BY <1>1, Moves DEF Stays, BusAdds, Drops, Queues, Takes, Ends, Chunks
  <2>7. QED BY <2>2, <2>3, <2>4, <2>5, <2>6
<1>4. QED BY <1>2, <1>3 DEF KeepInv

LEMMA KeepInit == Init => KeepInv
<1> SUFFICES ASSUME Init PROVE KeepInv
  OBVIOUS
<1>1. TypeInv
  BY TypeInit
<1>2. IdleOK /\ CallsAgree /\ NothingDropped
  BY DEF Init, IdleOK, CallsAgree, NothingDropped
<1>3. QED BY <1>1, <1>2 DEF KeepInv

(* No call is lost while the daemon and its connection live: what has been   *)
(* read is in the queue or in progress until it is answered, although        *)
(* CancelQuery rewrites the queue from within an action; and when Quit has   *)
(* ended the loop of _Go, everything that had been read has been answered.   *)
THEOREM NoCallIsLost == Spec => []NothingLost
<1>1. KeepInv => NothingLost
  <2> SUFFICES ASSUME KeepInv PROVE NothingLost
    OBVIOUS
  <2>1. NothingDropped /\ IdleOK
    BY DEF KeepInv
  <2>2. QuitDrains
    <3> SUFFICES ASSUME pc = "done", link = "up",
                        NEW c \in Clients, NEW n \in DOMAIN issued[c],
                        issued[c][n].kind \notin Unanswerable,
                        ~Answered(c, n)
                 PROVE  \E i \in DOMAIN inbox : Id(inbox[i]) = <<c, n>>
      BY DEF QuitDrains
    <3>1. HeldIn(<<c, n>>)
      BY <2>1, HeldIsHeldIn DEF NothingDropped
    <3>2. running = NoAct /\ action_queue = <<>>
      BY <2>1 DEF IdleOK
    <3>3. QED BY <3>1, <3>2 DEF HeldIn
  <2>3. QED BY <2>1, <2>2 DEF NothingLost
<1>2. QED BY <1>1, KeepInit, KeepStep, PTL DEF Spec

-----------------------------------------------------------------------------
(* The cache of identities.  GetClientId only asks about a client it does    *)
(* not know, and nothing else runs an action while it waits.                 *)
AskingUnknown == pc = "ident" => usernames[Client] = "none"

IdentInv == TypeInv /\ AskingUnknown

LEMMA IdentStep ==
  ASSUME IdentInv, [Next]_vars
  PROVE  /\ IdentInv'
         /\ \A c \in Clients : usernames[c] # "none" =>
              usernames'[c] = usernames[c]
<1> USE DEF busvars, queuevars, identvars, sqlvars
<1>1. TypeInv /\ TypeInv' /\ AskingUnknown
  BY TypeStep DEF IdentInv
<1>2. CASE (\E c \in Clients : ClientCall(c)) \/ BusAnswer \/ BusDown
             \/ UNCHANGED vars
  BY <1>1, <1>2
  DEF ClientCall, BusAnswer, BusDown, vars, IdentInv, AskingUnknown, Client
<1>3. CASE Loop \/ Handler
  BY <1>1, <1>3
  DEF Loop, Handler, EndIo, EndDrain, TakeAction, HandleCall, LateAnswer,
      JunkKillsLoop, NoticeClose, Reading, IdentInv, AskingUnknown, Client
<1>4. CASE KnownClient \/ NewClient
  BY <1>1, <1>4
  DEF KnownClient, NewClient, Ask, IdentInv, AskingUnknown, Client
<1>5. CASE GotIdentity \/ JunkFailsAttempt
  <2>1. pc = "ident" /\ running' = running
        /\ (AttemptFailed \/ \E name : Identified(name))
    BY <1>5 DEF GotIdentity, JunkFailsAttempt, Awaited, Reading
  <2>2. usernames[Client] = "none"
    BY <1>1, <2>1 DEF AskingUnknown
  <2>3. ASSUME NEW name, Identified(name)
        PROVE  /\ AskingUnknown'
               /\ \A c \in Clients : usernames[c] # "none" =>
                    usernames'[c] = usernames[c]
    BY <1>1, <2>2, <2>3 DEF Identified, AskingUnknown, TypeInv, TypeOK
  <2>4. ASSUME NEW s, Ask(s)
        PROVE  /\ AskingUnknown'
               /\ \A c \in Clients : usernames[c] # "none" =>
                    usernames'[c] = usernames[c]
    BY <2>1, <2>2, <2>4 DEF Ask, AskingUnknown, Client
  <2>5. QED BY <1>1, <2>1, <2>3, <2>4 DEF AttemptFailed, IdentInv
<1>6. CASE Reply
  BY <1>1, <1>6
  DEF Reply, QuickAnswer, NoAnswer, ActionDone, IdentInv, AskingUnknown
<1>7. CASE Execute
  BY <1>1, <1>7
  DEF Execute, StartStatement, Refuse, SendChunk, Finish, Fail, Oversize,
      ActionDone, IdentInv, AskingUnknown
<1>8. QED
  BY <1>2, <1>3, <1>4, <1>5, <1>6, <1>7
  DEF Next, Daemon, Identify, Environment, Halted

(* Once a client is known, by whichever of the three questions the bus       *)
(* answered or as "*", it stays the same (GetClientId, usernames): requests  *)
(* read by the nested loop cannot have it identified again.                  *)
THEOREM IdentityStays == Spec => IdentityIsStable
<1>1. Init => IdentInv
  BY TypeInit DEF Init, IdentInv, AskingUnknown
<1>2. IdentInv /\ [Next]_vars => IdentInv'
  BY IdentStep
<1>3. IdentInv /\ [Next]_vars =>
        [\A c \in Clients : usernames[c] # "none" =>
           usernames'[c] = usernames[c]]_vars
  BY IdentStep
<1>4. QED BY <1>1, <1>2, <1>3, PTL DEF Spec, IdentityIsStable

-----------------------------------------------------------------------------
(* The daemon implements OrderedService, for any clients and any calls.      *)

LEMMA PendingIs ==
  \A c \in Clients : \A n : n \in Pending[c] <=> <<c, n>> \in Held
<1> TAKE c \in Clients
<1> TAKE n
<1>1. Pending[c] = {h[2] : h \in {g \in Held : g[1] = c}}
  BY DEF Pending
<1>2. ASSUME <<c, n>> \in Held PROVE n \in Pending[c]
  <2>1. <<c, n>>[1] = c /\ <<c, n>>[2] = n
    OBVIOUS
  <2>2. QED BY <1>1, <1>2, <2>1
<1>3. ASSUME n \in Pending[c] PROVE <<c, n>> \in Held
  <2>1. PICK h \in Held : h[1] = c /\ h[2] = n
    BY <1>1, <1>3
  <2>2. \E m : h = <<m.src, m.serial>>
    BY <2>1 DEF Held, Id
  <2>3. h = <<c, n>>
    BY <2>1, <2>2
  <2>4. QED BY <2>1, <2>3
<1>4. QED BY <1>2, <1>3

(* The same of the next state.                                               *)
LEMMA PendingIsNext ==
  \A c \in Clients : \A n : n \in Pending'[c] <=> <<c, n>> \in Held'
<1> TAKE c \in Clients
<1> TAKE n
<1>1. Pending'[c] = {h[2] : h \in {g \in Held' : g[1] = c}}
  BY DEF Pending
<1>2. ASSUME <<c, n>> \in Held' PROVE n \in Pending'[c]
  <2>1. <<c, n>>[1] = c /\ <<c, n>>[2] = n
    OBVIOUS
  <2>2. QED BY <1>1, <1>2, <2>1
<1>3. ASSUME n \in Pending'[c] PROVE <<c, n>> \in Held'
  <2>1. PICK h \in Held' : h[1] = c /\ h[2] = n
    BY <1>1, <1>3
  <2>2. \E m : h = <<m.src, m.serial>>
    BY <2>1 DEF Held, Id
  <2>3. h = <<c, n>>
    BY <2>1, <2>2
  <2>4. QED BY <2>1, <2>3
<1>4. QED BY <1>2, <1>3

(* Two functions on Clients are equal when they agree everywhere.            *)
LEMMA SamePending ==
  ASSUME \A c \in Clients : \A n : <<c, n>> \in Held' <=> <<c, n>> \in Held
  PROVE  Pending' = Pending
<1>1. \A c \in Clients : Pending'[c] = Pending[c]
  BY PendingIs, PendingIsNext
<1>2. Pending = [c \in Clients |-> Pending[c]]
      /\ Pending' = [c \in Clients |-> Pending'[c]]
  BY DEF Pending
<1>3. QED BY <1>1, <1>2

(* Pending without one call.                                                 *)
LEMMA OneLess ==
  ASSUME NEW d \in Clients, NEW s,
         \A c \in Clients : \A n :
           <<c, n>> \in Held' <=> <<c, n>> \in Held /\ <<c, n>> # <<d, s>>
  PROVE  Pending' = [Pending EXCEPT ![d] = @ \ {s}]
<1>1. \A c \in Clients : Pending'[c] = IF c = d THEN Pending[d] \ {s}
                                       ELSE Pending[c]
  BY PendingIs, PendingIsNext
<1>2. Pending = [c \in Clients |-> Pending[c]]
      /\ Pending' = [c \in Clients |-> Pending'[c]]
  BY DEF Pending
<1>3. [Pending EXCEPT ![d] = @ \ {s}]
        = [c \in Clients |-> IF c = d THEN Pending[d] \ {s} ELSE Pending[c]]
  BY <1>2
<1>4. QED BY <1>1, <1>2, <1>3

(* A step that loses at most one message, and sends nothing, abandons at      *)
(* most one call.                                                            *)
LEMMA LoseOne ==
  ASSUME NEW x, Held' \subseteq Held, Held \subseteq Held' \cup {x},
         UNCHANGED <<issued, sent>>
  PROVE  [Service!Next]_<<Asked, Pending, sent>>
<1>1. Asked' = Asked
  BY DEF Asked
<1>2. CASE \E d \in Clients : \E s : x = <<d, s>> /\ x \in Held /\ x \notin Held'
  <2>0. PICK d \in Clients :
          \E s : x = <<d, s>> /\ x \in Held /\ x \notin Held'
    BY <1>2
  <2>1. PICK s : x = <<d, s>> /\ x \in Held /\ x \notin Held'
    BY <2>0
  <2>2. Pending' = [Pending EXCEPT ![d] = @ \ {s}]
    <3>1. \A c \in Clients : \A n :
            <<c, n>> \in Held' <=> <<c, n>> \in Held /\ <<c, n>> # <<d, s>>
      BY <2>1
    <3>2. QED BY <3>1, OneLess
  <2>3. s \in Pending[d]
    BY <2>1, PendingIs
  <2>4. QED BY <1>1, <2>2, <2>3 DEF Service!Next, Service!Abandon
<1>3. CASE ~\E d \in Clients : \E s : x = <<d, s>> /\ x \in Held /\ x \notin Held'
  <2>1. \A c \in Clients : \A n : <<c, n>> \in Held' <=> <<c, n>> \in Held
    BY <1>3
  <2>2. Pending' = Pending
    BY <2>1, SamePending
  <2>3. QED BY <1>1, <2>2
<1>4. QED BY <1>2, <1>3

HeldRunning == IF running = NoAct THEN {} ELSE {Id(running.src)}

LEMMA HeldIs ==
  /\ Held = {Id(inbox[i]) : i \in DOMAIN inbox}
              \cup {Id(action_queue[i].src) : i \in DOMAIN action_queue}
              \cup HeldRunning
  /\ Held' = {Id(inbox'[i]) : i \in DOMAIN inbox'}
               \cup {Id(action_queue'[i].src) : i \in DOMAIN action_queue'}
               \cup HeldRunning'
BY DEF Held, HeldRunning, Id

LEMMA StaysMaps == Stays => [Service!Next]_<<Asked, Pending, sent>>
BY DEF Stays, Asked, Pending, Held, Id

LEMMA IssuesMaps ==
  ASSUME OrderInv, NEW c \in Clients, ClientCall(c)
  PROVE  Service!Next
<1> DEFINE n == Len(issued[c]) + 1
<1>1. PICK k \in Kinds, t \in 1..MaxSerial :
        /\ issued' = [issued EXCEPT ![c] =
                        Append(@, [kind |-> k, target |-> t])]
        /\ inbox' = Append(inbox, [src |-> c, serial |-> n, kind |-> k,
                                   target |-> t])
  BY DEF ClientCall
<1> DEFINE m == [src |-> c, serial |-> n, kind |-> k, target |-> t]
<1>2. UNCHANGED <<action_queue, running, sent>>
  BY DEF ClientCall, queuevars
<1>3. issued \in [Clients -> Seq([kind : Kinds, target : Nat])]
        /\ inbox \in Seq(Msg) /\ Len(issued[c]) \in Nat
  BY Elements DEF OrderInv, TypeOK
<1>4. m \in Msg
  BY <1>3, KindsAssumption, BoundsAssumption DEF Msg, Call
<1>5. Asked' = [Asked EXCEPT ![c] = @ + 1] /\ n = Asked[c] + 1
  <2>1. [kind |-> k, target |-> t] \in [kind : Kinds, target : Nat]
    BY BoundsAssumption
  <2>2. Len(Append(issued[c], [kind |-> k, target |-> t])) = n
    BY <1>3, <2>1, AppendProperties
  <2>3. \A d \in Clients :
          Len(issued'[d]) = IF d = c THEN n ELSE Len(issued[d])
    BY <1>1, <1>3, <2>2
  <2>4. QED BY <2>3 DEF Asked
<1>6. Held' = Held \cup {<<c, n>>}
  <2>1. \A i : i \in DOMAIN inbox' <=> i \in DOMAIN inbox \/ i = Len(inbox) + 1
    BY <1>1, <1>3, <1>4, AppendProperties, LenProperties
  <2>2. /\ \A i \in DOMAIN inbox : inbox'[i] = inbox[i]
        /\ inbox'[Len(inbox) + 1] = m
    BY <1>1, <1>3, <1>4, AppendProperties, LenProperties
  <2>3. Id(m) = <<c, n>>
    BY DEF Id
  <2> HIDE DEF m
  <2>4. {Id(inbox'[i]) : i \in DOMAIN inbox'}
          = {Id(inbox[i]) : i \in DOMAIN inbox} \cup {<<c, n>>}
    BY <2>1, <2>2, <2>3
  <2>5. HeldRunning' = HeldRunning
    BY <1>2 DEF HeldRunning, Id
  <2>6. QED BY <1>2, <2>4, <2>5, HeldIs
<1>7. Pending' = [Pending EXCEPT ![c] = @ \cup {n}]
  <2>1. \A d \in Clients : Pending'[d] = IF d = c THEN Pending[c] \cup {n}
                                         ELSE Pending[d]
    BY <1>6, PendingIs, PendingIsNext
  <2>2. Pending = [d \in Clients |-> Pending[d]]
        /\ Pending' = [d \in Clients |-> Pending'[d]]
    BY DEF Pending
  <2>3. [Pending EXCEPT ![c] = @ \cup {n}]
          = [d \in Clients |-> IF d = c THEN Pending[c] \cup {n}
                               ELSE Pending[d]]
    BY <2>2
  <2>4. QED BY <2>1, <2>2, <2>3
<1> HIDE DEF n
<1>8. Service!Ask(c)
  BY <1>2, <1>5, <1>7 DEF Service!Ask
<1>9. QED BY <1>8 DEF Service!Next

LEMMA BusAddsMaps ==
  OrderInv /\ BusAdds => [Service!Next]_<<Asked, Pending, sent>>
<1> SUFFICES ASSUME OrderInv, BusAdds
             PROVE  UNCHANGED <<Asked, Pending, sent>>
  OBVIOUS
<1>1. PICK a \in Answer : inbox' = Append(inbox, a)
  BY DEF BusAdds
<1>2. inbox \in Seq(Msg) /\ a \in Msg
  BY <1>1 DEF OrderInv, TypeOK, Msg
<1>3. /\ \A i : i \in DOMAIN inbox' <=>
              i \in DOMAIN inbox \/ i = Len(inbox) + 1
      /\ \A i \in DOMAIN inbox : inbox'[i] = inbox[i]
      /\ inbox'[Len(inbox) + 1] = a
  BY <1>1, <1>2, AppendProperties, LenProperties
<1>4. \A c \in Clients : \A n : <<c, n>> # Id(a)
  BY <1>1, BusAssumption DEF Id, Answer
<1>5. {Id(inbox'[i]) : i \in DOMAIN inbox'}
        = {Id(inbox[i]) : i \in DOMAIN inbox} \cup {Id(a)}
  BY <1>3
<1>6. HeldRunning' = HeldRunning
  BY DEF BusAdds, HeldRunning, Id
<1>7. Held' = Held \cup {Id(a)}
  BY <1>5, <1>6, HeldIs DEF BusAdds
<1>8. Pending' = Pending
  BY <1>4, <1>7, SamePending
<1>9. Asked' = Asked /\ sent' = sent
  BY DEF BusAdds, Asked
<1>10. QED BY <1>8, <1>9

(* The tail of a sequence of messages, and its head, hold what it held.      *)
LEMMA TailHolds ==
  ASSUME NEW S, NEW s \in Seq(S), s # <<>>
  PROVE  /\ \A i \in DOMAIN s : \/ s[i] = Head(s)
                                \/ \E j \in DOMAIN Tail(s) : Tail(s)[j] = s[i]
         /\ \A j \in DOMAIN Tail(s) : \E i \in DOMAIN s : s[i] = Tail(s)[j]
         /\ \E i \in DOMAIN s : s[i] = Head(s)
<1>1. /\ Tail(s) \in Seq(S) /\ Len(Tail(s)) = Len(s) - 1 /\ Head(s) = s[1]
      /\ \A i \in 1..Len(Tail(s)) : Tail(s)[i] = s[i + 1]
  BY HeadTailProperties
<1>2. /\ Len(s) \in Nat /\ Len(s) # 0 /\ DOMAIN s = 1..Len(s)
      /\ DOMAIN Tail(s) = 1..(Len(s) - 1)
  BY <1>1, LenProperties, EmptySeq
<1>3. \A i \in DOMAIN s : i = 1 \/ (i - 1 \in DOMAIN Tail(s)
                                      /\ Tail(s)[i - 1] = s[i])
  BY <1>1, <1>2
<1>4. \A i \in DOMAIN Tail(s) : i + 1 \in DOMAIN s /\ Tail(s)[i] = s[i + 1]
  BY <1>1, <1>2
<1>5. 1 \in DOMAIN s
  BY <1>2
<1>6. QED BY <1>1, <1>3, <1>4, <1>5

LEMMA DropsMaps ==
  OrderInv /\ Drops => [Service!Next]_<<Asked, Pending, sent>>
<1> SUFFICES ASSUME OrderInv, Drops
             PROVE  [Service!Next]_<<Asked, Pending, sent>>
  OBVIOUS
<1>1. {Id(inbox[i]) : i \in DOMAIN inbox}
        = {Id(inbox'[i]) : i \in DOMAIN inbox'} \cup {Id(Head(inbox))}
  <2>1. inbox \in Seq(Msg) /\ inbox # <<>> /\ inbox' = Tail(inbox)
    BY DEF Drops, OrderInv, TypeOK
  <2>2. /\ \A i \in DOMAIN inbox : \/ inbox[i] = Head(inbox)
                                   \/ \E j \in DOMAIN inbox' :
                                        inbox'[j] = inbox[i]
        /\ \A j \in DOMAIN inbox' : \E i \in DOMAIN inbox :
                                      inbox[i] = inbox'[j]
        /\ \E i \in DOMAIN inbox : inbox[i] = Head(inbox)
    BY <2>1, TailHolds
  <2>3. QED BY <2>2
<1>2. HeldRunning' = HeldRunning
  BY DEF Drops, HeldRunning, Id
<1>3. Held = Held' \cup {Id(Head(inbox))}
  BY <1>1, <1>2, HeldIs DEF Drops
<1>4. QED BY <1>3, LoseOne DEF Drops

LEMMA QueuesMaps ==
  OrderInv /\ Queues => [Service!Next]_<<Asked, Pending, sent>>
<1> SUFFICES ASSUME OrderInv, Queues
             PROVE  UNCHANGED <<Asked, Pending, sent>>
  OBVIOUS
<1>1. {Id(inbox[i]) : i \in DOMAIN inbox}
        = {Id(inbox'[i]) : i \in DOMAIN inbox'} \cup {Id(Head(inbox))}
  <2>1. inbox \in Seq(Msg) /\ inbox # <<>> /\ inbox' = Tail(inbox)
    BY DEF Queues, OrderInv, TypeOK
  <2>2. /\ \A i \in DOMAIN inbox : \/ inbox[i] = Head(inbox)
                                   \/ \E j \in DOMAIN inbox' :
                                        inbox'[j] = inbox[i]
        /\ \A j \in DOMAIN inbox' : \E i \in DOMAIN inbox :
                                      inbox[i] = inbox'[j]
        /\ \E i \in DOMAIN inbox : inbox[i] = Head(inbox)
    BY <2>1, TailHolds
  <2>3. QED BY <2>2
<1>2. PICK q \in Seq(VxActionTriple), t \in VxActionTriple :
        /\ DOMAIN q = DOMAIN action_queue
        /\ \A i \in DOMAIN q : q[i].src = action_queue[i].src
        /\ t.src = Head(inbox)
        /\ action_queue' = Append(q, t)
  BY DEF Queues
<1>3. /\ \A i : i \in DOMAIN action_queue' <=>
              i \in DOMAIN q \/ i = Len(q) + 1
      /\ \A i \in DOMAIN q : action_queue'[i] = q[i]
      /\ action_queue'[Len(q) + 1] = t
  BY <1>2, AppendProperties, LenProperties
<1>4. {Id(action_queue'[i].src) : i \in DOMAIN action_queue'}
        = {Id(action_queue[i].src) : i \in DOMAIN action_queue}
            \cup {Id(Head(inbox))}
  BY <1>2, <1>3
<1>5. HeldRunning' = HeldRunning
  BY DEF Queues, HeldRunning, Id
<1>6. Held' = Held
  BY <1>1, <1>4, <1>5, HeldIs
<1>7. Pending' = Pending
  BY <1>6, SamePending
<1>8. QED BY <1>7 DEF Queues, Asked

LEMMA TakesMaps ==
  OrderInv /\ Takes => [Service!Next]_<<Asked, Pending, sent>>
<1> SUFFICES ASSUME OrderInv, Takes
             PROVE  [Service!Next]_<<Asked, Pending, sent>>
  OBVIOUS
<1>1. {Id(action_queue[i].src) : i \in DOMAIN action_queue}
        = {Id(action_queue'[i].src) : i \in DOMAIN action_queue'}
            \cup {Id(Head(action_queue).src)}
  <2>1. action_queue \in Seq(VxActionTriple) /\ action_queue # <<>>
          /\ action_queue' = Tail(action_queue)
    BY DEF Takes, OrderInv, TypeOK
  <2>2. /\ \A i \in DOMAIN action_queue :
             \/ action_queue[i] = Head(action_queue)
             \/ \E j \in DOMAIN action_queue' :
                  action_queue'[j] = action_queue[i]
        /\ \A j \in DOMAIN action_queue' : \E i \in DOMAIN action_queue :
             action_queue[i] = action_queue'[j]
        /\ \E i \in DOMAIN action_queue : action_queue[i] = Head(action_queue)
    BY <2>1, TailHolds
  <2>3. QED BY <2>2
<1>2. action_queue \in Seq(VxActionTriple)
  BY DEF OrderInv, TypeOK
<1>3. running' \in VxActionTriple /\ running' = Head(action_queue)
  BY <1>2, HeadTailProperties DEF Takes
<1>4. HeldRunning' = {Id(Head(action_queue).src)}
  BY <1>3, NoActAssumption DEF HeldRunning, Id
<1>5. HeldRunning \subseteq {Id(running.src)}
  BY DEF HeldRunning
<1>6. Held' \subseteq Held /\ Held \subseteq Held' \cup {Id(running.src)}
  BY <1>1, <1>4, <1>5, HeldIs DEF Takes
<1>7. QED BY <1>6, LoseOne DEF Takes

(* The running action's call is its client's oldest, and no other entry has  *)
(* its serial.                                                               *)
LEMMA RunningIsOldest ==
  ASSUME OrderInv, running # NoAct
  PROVE  /\ Service!Oldest(Client, running.src.serial)
         /\ running.src.serial \in Pending[Client]
         /\ \A i \in DOMAIN inbox : Id(inbox[i]) # Id(running.src)
         /\ \A i \in DOMAIN action_queue :
              Id(action_queue[i].src) # Id(running.src)
<1> DEFINE s == running.src.serial
<1>1. /\ Client \in Clients /\ s \in Nat
      /\ Client = running.src.src
      /\ \A i \in DOMAIN inbox : inbox[i].serial \in Nat
      /\ \A i \in DOMAIN action_queue : action_queue[i].src.serial \in Nat
  BY Elements DEF OrderInv, Client
<1>2. /\ \A i \in DOMAIN inbox : inbox[i].src = Client => s < inbox[i].serial
      /\ \A i \in DOMAIN action_queue : action_queue[i].src.src = Client
                                          => s < action_queue[i].src.serial
  BY DEF OrderInv, RunningOrder, Before
<1>3. HeldRunning = {<<Client, s>>}
  BY <1>1 DEF HeldRunning, Id
<1>4. s \in Pending[Client]
  BY <1>1, <1>3, PendingIs, HeldIs
<1>5. ASSUME NEW k \in Pending[Client] PROVE s <= k
  <2>1. <<Client, k>> \in Held
    BY <1>1, <1>5, PendingIs
  <2>2. CASE <<Client, k>> \in HeldRunning
    BY <1>1, <1>3, <2>2
  <2>3. CASE \E i \in DOMAIN inbox : Id(inbox[i]) = <<Client, k>>
    BY <1>1, <1>2, <2>3 DEF Id
  <2>4. CASE \E i \in DOMAIN action_queue :
               Id(action_queue[i].src) = <<Client, k>>
    BY <1>1, <1>2, <2>4 DEF Id
  <2>5. QED BY <2>1, <2>2, <2>3, <2>4, HeldIs
<1>6. \A i \in DOMAIN inbox : Id(inbox[i]) # Id(running.src)
  BY <1>1, <1>2 DEF Id
<1>7. \A i \in DOMAIN action_queue : Id(action_queue[i].src) # Id(running.src)
  BY <1>1, <1>2 DEF Id
<1>8. QED BY <1>4, <1>5, <1>6, <1>7 DEF Service!Oldest

LEMMA EmitIs ==
  ASSUME NEW o \in Output, NEW q
  PROVE  Append(q, o)
           = Append(q, [to |-> o.to, serial |-> o.serial, what |-> o.what])
BY DEF Output

LEMMA EndsMaps ==
  OrderInv /\ Ends => [Service!Next]_<<Asked, Pending, sent>>
<1> SUFFICES ASSUME OrderInv, Ends
             PROVE  [Service!Next]_<<Asked, Pending, sent>>
  OBVIOUS
<1> DEFINE s == running.src.serial
<1>1. /\ HeldRunning = {Id(running.src)} /\ HeldRunning' = {}
  BY DEF Ends, HeldRunning, Id
<1>2. Held' \subseteq Held /\ Held \subseteq Held' \cup {Id(running.src)}
  BY <1>1, HeldIs DEF Ends
<1>3. CASE sent' = sent
  BY <1>2, <1>3, LoseOne DEF Ends
<1>4. CASE sent' # sent
  <2>1. PICK o \in Output : /\ o.to = Client /\ o.serial = s
                            /\ o.what \in Outcomes
                            /\ sent' = Append(sent, o)
    BY <1>4 DEF Ends
  <2>2. Service!Emit(Client, s, o.what) /\ o.what \in Outcomes
    BY <2>1, EmitIs DEF Service!Emit
  <2>3. running # NoAct /\ Client \in Clients /\ Id(running.src) = <<Client, s>>
    BY Elements DEF Ends, OrderInv, Client, Id
  <2>4. Id(running.src) \notin Held'
    BY <1>1, <2>3, HeldIs, RunningIsOldest DEF Ends
  <2>5. \A c \in Clients : \A n :
          <<c, n>> \in Held' <=> <<c, n>> \in Held /\ <<c, n>> # <<Client, s>>
    BY <1>2, <2>3, <2>4
  <2>6. Pending' = [Pending EXCEPT ![Client] = @ \ {s}]
    BY <2>3, <2>5, OneLess
  <2>7. Asked' = Asked
    BY DEF Ends, Asked
  <2>8. Service!Reply(Client, s) /\ s \in Pending[Client]
    BY <2>2, <2>3, <2>6, <2>7, RunningIsOldest DEF Service!Reply
  <2>9. QED BY <2>3, <2>8 DEF Service!Next
<1>5. QED BY <1>3, <1>4

LEMMA ChunksMaps ==
  OrderInv /\ Chunks => [Service!Next]_<<Asked, Pending, sent>>
<1> SUFFICES ASSUME OrderInv, Chunks
             PROVE  [Service!Next]_<<Asked, Pending, sent>>
  OBVIOUS
<1> DEFINE s == running.src.serial
<1>1. Asked' = Asked /\ Pending' = Pending
  BY DEF Chunks, Asked, Pending, Held, Id
<1>2. CASE sent' = sent
  BY <1>1, <1>2
<1>3. CASE sent' # sent
  <2>1. PICK o \in Output : /\ o.to = Client /\ o.serial = s
                            /\ o.what = "chunk"
                            /\ sent' = Append(sent, o)
    BY <1>3 DEF Chunks
  <2>2. Service!Emit(Client, s, "chunk")
    BY <2>1, EmitIs DEF Service!Emit
  <2>3. Service!Signal(Client, s) /\ s \in Pending[Client]
    BY <1>1, <2>2, RunningIsOldest DEF Service!Signal, Chunks
  <2>4. Client \in Clients
    BY Elements DEF Chunks, OrderInv
  <2>5. QED BY <2>3, <2>4 DEF Service!Next
<1>4. QED BY <1>2, <1>3

(* The daemon implements the ordered service (versaplexd.cs, _Go and         *)
(* WvDbusMsgReady): each client's calls are answered oldest first, whatever  *)
(* the nested loop and CancelQuery do.                                       *)
THEOREM Implements == Spec => ServesInOrder
<1>1. Init => Service!Init
  <2> SUFFICES ASSUME Init PROVE Service!Init
    OBVIOUS
  <2>1. Held = {}
    BY DEF Init, Held
  <2>2. Asked = [c \in Clients |-> 0]
    BY EmptySeq, LenProperties DEF Init, Asked
  <2>3. Pending = [c \in Clients |-> {}]
    BY <2>1 DEF Pending
  <2>4. QED BY <2>2, <2>3 DEF Init, Service!Init
<1>2. OrderInv /\ [Next]_vars => [Service!Next]_<<Asked, Pending, sent>>
  BY Moves, StaysMaps, IssuesMaps, BusAddsMaps, DropsMaps, QueuesMaps,
     TakesMaps, EndsMaps, ChunksMaps DEF OrderInv, TypeInv
<1>3. Init => OrderInv
  BY OrderInit
<1>4. QED BY <1>1, <1>2, <1>3, OrderStep, PTL
          DEF Spec, ServesInOrder, Service!Spec
=============================================================================
