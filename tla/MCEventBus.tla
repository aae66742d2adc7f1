----------------------------- MODULE MCEventBus -----------------------------
(* Small instances of EventBus for TLC. *)
EXTENDS EventBus, TLC

CONSTANTS s1, s2, o1, o2

TwoStreams == {s1, s2}
TwoOrders == {o1, o2}
\* Two updates overflow a channel of one; another order's tells the orders apart.
TwoAndOne == (o1 :> 2) @@ (o2 :> 1)
Everything == {"connection", "stop"}

=============================================================================
