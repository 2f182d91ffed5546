------------------------------ MODULE EventFeed ------------------------------
(***************************************************************************)
(* What replayable streaming promises: each reader receives the events of  *)
(* the run in their order, none of them twice, none left out, and as long  *)
(* as it keeps reading it receives them all.  No connections, no pages and *)
(* no notifications.                                                       *)
(***************************************************************************)
EXTENDS Naturals, Sequences

CONSTANT Clients

VARIABLES log,      \* how many events the run has; the n-th has sequence n - 1
          received  \* the events each client has received, in order

vars == <<log, received>>

Init == /\ log = 0
        /\ received = [c \in Clients |-> <<>>]

Extend == log' = log + 1 /\ UNCHANGED received

Deliver(c) ==
  /\ Len(received[c]) < log
  /\ received' = [received EXCEPT ![c] = Append(@, Len(@) + 1)]
  /\ UNCHANGED log

Next == Extend \/ \E c \in Clients : Deliver(c)

SafeSpec == Init /\ [][Next]_vars

Spec == SafeSpec /\ \A c \in Clients : WF_vars(Deliver(c))
=============================================================================
