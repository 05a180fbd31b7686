----------------------------- MODULE RpcService -----------------------------
(***************************************************************************)
(* What a server promises of each connection: the calls made over it are   *)
(* served one at a time and in order, and their results are delivered in   *)
(* that order.  What is not yet served may be lost (a request that the     *)
(* server takes for a bad packet); what is served is not.                  *)
(***************************************************************************)
EXTENDS Naturals, Sequences

CONSTANTS
  Conns,
  Calls,          \* what is asked
  Results,        \* what is answered
  CallOf(_)       \* the call that a result answers

VARIABLES
  inbox,   \* calls made and not yet served
  outbox,  \* results not yet delivered
  got      \* results delivered

svcVars == <<inbox, outbox, got>>

SvcInit ==
  /\ inbox = [c \in Conns |-> <<>>]
  /\ outbox = [c \in Conns |-> <<>>]
  /\ got = [c \in Conns |-> <<>>]

Post(c, m) ==
  /\ inbox' = [inbox EXCEPT ![c] = Append(@, m)]
  /\ UNCHANGED <<outbox, got>>

Serve(c, r) ==
  /\ inbox[c] # <<>>
  /\ CallOf(r) = Head(inbox[c])
  /\ inbox' = [inbox EXCEPT ![c] = Tail(@)]
  /\ outbox' = [outbox EXCEPT ![c] = Append(@, r)]
  /\ UNCHANGED got

Deliver(c) ==
  /\ outbox[c] # <<>>
  /\ outbox' = [outbox EXCEPT ![c] = Tail(@)]
  /\ got' = [got EXCEPT ![c] = Append(@, Head(outbox[c]))]
  /\ UNCHANGED inbox

Lose(c) ==
  /\ inbox' = [inbox EXCEPT ![c] = <<>>]
  /\ UNCHANGED <<outbox, got>>

SvcNext ==
  \E c \in Conns :
    \/ \E m \in Calls : Post(c, m)
    \/ \E r \in Results : Serve(c, r)
    \/ Deliver(c)
    \/ Lose(c)

SvcSpec == SvcInit /\ [][SvcNext]_svcVars

=============================================================================
