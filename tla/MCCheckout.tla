----------------------------- MODULE MCCheckout -----------------------------
(* Small instances of Checkout for TLC. *)
EXTENDS Checkout, TLC

CONSTANTS r1, r2, k1

TwoRequests == {r1, r2}
OneKey == {k1}
AmountsAround == {0, 1, 2}
Limit == 1

CreateAndCancel == {"create", "cancel"}

\* Statements of the order service fail; replies to those of the payment service
\* are lost.
Failing == {"ok", "lost"}
Undecided == {"ok", "late"}
Reliable == {"ok"}

Crashing == {"crash"}
Faults == {"crash", "disconnect", "broker"}

Symmetry == Permutations(Requests)

=============================================================================
