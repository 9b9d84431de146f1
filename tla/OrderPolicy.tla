----------------------------- MODULE OrderPolicy -----------------------------
(* The order statuses and OrderStatusTransitionPolicy, as pure operators. *)

OrderStatuses == {"SUBMITTED", "CONFIRMED", "MADE", "PICKED_UP", "CANCELED"}

CancelAfterPickup(from, to) ==           \* mutated form: cancels too late
    /\ from # to
    /\ to # "SUBMITTED"
    /\ to = "CONFIRMED" => from = "SUBMITTED"
    /\ to = "MADE" => from = "CONFIRMED"
    /\ to = "PICKED_UP" => from = "MADE"
    /\ to = "CANCELED" => from # "CANCELED"

(* assertSellerTransition(from, to) returns without throwing. *)
LegalTransition(from, to) ==
    /\ from # to
    /\ to # "SUBMITTED"
    /\ to = "CONFIRMED" => from = "SUBMITTED"
    /\ to = "MADE" => from = "CONFIRMED"
    /\ to = "PICKED_UP" => from = "MADE"
    /\ to = "CANCELED" => from \in {"SUBMITTED", "CONFIRMED", "MADE"}

RequiresCancellationNote(to) == to = "CANCELED"
=============================================================================
