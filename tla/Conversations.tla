--------------------------- MODULE Conversations ---------------------------
(***************************************************************************)
(* What the chat service promises its users, without collections, chat ids *)
(* or handlers: two users share one conversation that grows at its end by  *)
(* messages of these two, and a message that was acknowledged stays in it. *)
(***************************************************************************)
EXTENDS Naturals, Sequences

CONSTANTS Names, Messages, Times

VARIABLES
    log,    \* log[<<u, v>>]: the conversation with v as u reads it
    acked   \* the messages whose sender was told SUCCESS

Init ==
    /\ log = [q \in Names \X Names |-> <<>>]
    /\ acked = {}

\* A message of a to b reaches both views at once.
Deliver(a, b) ==
    /\ log'[<<a, b>>] # log[<<a, b>>]
    /\ \E e \in [sentBy : {a}, message : Messages, time : Times] :
          log' = [log EXCEPT ![<<a, b>>] = Append(log[<<a, b>>], e),
                             ![<<b, a>>] = Append(log[<<b, a>>], e)]
    /\ UNCHANGED acked

\* Only a message that both can read is acknowledged.
Acknowledge(a, b) ==
    /\ \E i \in DOMAIN log[<<a, b>>] :
          /\ log[<<a, b>>][i].sentBy = a
          /\ acked' = acked \cup {[from |-> a, to |-> b, entry |-> log[<<a, b>>][i]]}
    /\ UNCHANGED log

Next == \E a, b \in Names : Deliver(a, b) \/ Acknowledge(a, b)

Spec == Init /\ [][Next]_<<log, acked>>
=============================================================================
