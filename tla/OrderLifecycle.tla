--------------------------- MODULE OrderLifecycle ---------------------------
(***************************************************************************)
(* What the seller-side order status policy promises, without requests,    *)
(* transactions or interleavings: an order has a status and moves along    *)
(* the transitions of OrderStatusTransitionPolicy.                         *)
(*                                                                         *)
(* Two promises are stated.  Spec is the one the implementation keeps for  *)
(* every interleaving: a new status is legal from SOME status the order    *)
(* has had.  StrictSpec is the one the policy's tests describe: a new      *)
(* status is legal from the CURRENT status.                                *)
(***************************************************************************)
EXTENDS OrderPolicy

CONSTANT Orders

VARIABLES
    status,     \* Orders -> OrderStatuses
    visited     \* Orders -> the statuses the order has had so far

lifecycleVars == <<status, visited>>

Init ==
    /\ status = [o \in Orders |-> "SUBMITTED"]
    /\ visited = [o \in Orders |-> {"SUBMITTED"}]

MoveTo(o, to) ==
    /\ status' = [status EXCEPT ![o] = to]
    /\ visited' = [visited EXCEPT ![o] = @ \cup {to}]

(* The policy was satisfied by a status the order has, or once had. *)
Move(o, to) ==
    /\ \E from \in visited[o] : LegalTransition(from, to)
    /\ MoveTo(o, to)

StrictMove(o, to) ==
    /\ LegalTransition(status[o], to)
    /\ MoveTo(o, to)

Next == \E o \in Orders, to \in OrderStatuses : Move(o, to)

StrictNext == \E o \in Orders, to \in OrderStatuses : StrictMove(o, to)

Spec == Init /\ [][Next]_lifecycleVars

StrictSpec == Init /\ [][StrictNext]_lifecycleVars
=============================================================================
