-------------------------- MODULE MCPaymentService --------------------------
(* Small instances of PaymentService for TLC. *)
EXTENDS PaymentService, TLC

CONSTANTS c1, c2, c3, o1

TwoCalls == {c1, c2}
ThreeCalls == {c1, c2, c3}
OneOrder == {o1}

\* Refused, authorised and declined: the boundary is MaxPaymentAmount.
BoundaryAmounts == {0, 1, 2}
Limit == 1

AllKinds == {"charge", "get", "list"}
Charges == {"charge"}
ChargesAndReads == {"charge", "get"}

Reliable == {"ok"}
Unreliable == {"ok", "lost", "late"}

Calm == {}
Everything == {"crash", "stop", "disconnect", "broker", "unbound"}
BrokerUp == {"crash", "stop", "disconnect"}

Symmetry == Permutations(Calls)

=============================================================================
