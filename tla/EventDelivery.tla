--------------------------- MODULE EventDelivery ---------------------------
(***************************************************************************)
(* What the billing outbox promises of an event once the transaction that  *)
(* enqueued it has committed: it stays pending until the broker has it or  *)
(* an operator can see it parked, a parked event may be re-armed, and a    *)
(* delivered event stays delivered.  No step forgets an event.             *)
(***************************************************************************)
CONSTANT Events

VARIABLE delivery   \* what has become of each event

DeliveryInit == delivery = [e \in Events |-> "none"]

Becomes(e, from, to) ==
    /\ delivery[e] \in from
    /\ delivery' = [delivery EXCEPT ![e] = to]

Enqueue(e) == Becomes(e, {"none"}, "pending")
Deliver(e) == Becomes(e, {"pending", "parked"}, "delivered")
Park(e)    == Becomes(e, {"pending"}, "parked")
Rearm(e)   == Becomes(e, {"parked"}, "pending")

DeliveryNext == \E e \in Events : Enqueue(e) \/ Deliver(e) \/ Park(e) \/ Rearm(e)

DeliverySpec == DeliveryInit /\ [][DeliveryNext]_delivery
=============================================================================
