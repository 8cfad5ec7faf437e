--------------------------- MODULE OrderedService ---------------------------
(***************************************************************************)
(* What the daemon promises its clients, seen from the bus: each client's   *)
(* calls are served oldest first, a call may yield signals and then at most *)
(* one reply, and nothing follows a call's reply.  Different clients' calls *)
(* are not ordered.                                                         *)
(***************************************************************************)
EXTENDS Naturals, Sequences

CONSTANTS Clients, Signals, Replies

VARIABLES
  asked,    \* asked[c]: how many calls client c has made
  pending,  \* pending[c]: the serials of its calls that are being served
  sent      \* everything sent to clients, in order

Init ==
  /\ asked = [c \in Clients |-> 0]
  /\ pending = [c \in Clients |-> {}]
  /\ sent = <<>>

Oldest(c, n) == n \in pending[c] /\ \A k \in pending[c] : n <= k

Emit(c, n, what) ==
  sent' = Append(sent, [to |-> c, serial |-> n, what |-> what])

Ask(c) ==
  /\ asked' = [asked EXCEPT ![c] = @ + 1]
  /\ pending' = [pending EXCEPT ![c] = @ \cup {asked[c] + 1}]
  /\ UNCHANGED sent

Signal(c, n) ==
  /\ Oldest(c, n)
  /\ \E what \in Signals : Emit(c, n, what)
  /\ UNCHANGED <<asked, pending>>

Reply(c, n) ==
  /\ Oldest(c, n)
  /\ \E what \in Replies : Emit(c, n, what)
  /\ pending' = [pending EXCEPT ![c] = @ \ {n}]
  /\ UNCHANGED asked

\* A call that will never be answered: nobody routes it, or the connection
\* over which its reply would travel is gone.
Abandon(c, n) ==
  /\ n \in pending[c]
  /\ pending' = [pending EXCEPT ![c] = @ \ {n}]
  /\ UNCHANGED <<asked, sent>>

Next ==
  \E c \in Clients :
    \/ Ask(c)
    \/ \E n \in pending[c] : Signal(c, n) \/ Reply(c, n) \/ Abandon(c, n)

Spec == Init /\ [][Next]_<<asked, pending, sent>>
=============================================================================
