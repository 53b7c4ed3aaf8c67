---------------------------- MODULE AlertDelivery ----------------------------
(***************************************************************************)
(* What the alert inbox promises about one delivery, whoever moves it: the *)
(* state machine of services/notify/internal/domain/delivery_state.go.     *)
(* A delivery is stored PENDING once, may be pushed (SENT), and ends ACKED *)
(* by the client or EXPIRED by the 72 h window; both ends are final.       *)
(***************************************************************************)

CONSTANT Deliveries

VARIABLE status   \* status[d]: the row's state, "NONE" before it is stored

Statuses == {"NONE", "PENDING", "SENT", "ACKED", "EXPIRED"}

\* CanTransition(from, to)
CanTransition(from, to) ==
    \/ from = "PENDING" /\ to \in {"SENT", "ACKED", "EXPIRED"}
    \/ from = "SENT"    /\ to \in {"ACKED", "EXPIRED"}

Init == status = [d \in Deliveries |-> "NONE"]

Store(d) ==
    /\ status[d] = "NONE"
    /\ status' = [status EXCEPT ![d] = "PENDING"]

Move(d, to) ==
    /\ CanTransition(status[d], to)
    /\ status' = [status EXCEPT ![d] = to]

\* ExpireStale moves every row of the window in one UPDATE.
ExpireAll(D) ==
    /\ \A d \in D : CanTransition(status[d], "EXPIRED")
    /\ status' = [d \in Deliveries |-> IF d \in D THEN "EXPIRED" ELSE status[d]]

Next ==
    \/ \E d \in Deliveries : Store(d)
    \/ \E d \in Deliveries, to \in Statuses : Move(d, to)
    \/ \E D \in SUBSET Deliveries : ExpireAll(D)

Spec == Init /\ [][Next]_status
==============================================================================
