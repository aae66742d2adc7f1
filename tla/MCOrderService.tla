--------------------------- MODULE MCOrderService ---------------------------
(* Small instances of OrderService for TLC. *)
EXTENDS OrderService, TLC

CONSTANTS r1, r2, r3, k1

TwoRequests == {r1, r2}
ThreeRequests == {r1, r2, r3}
OneKey == {k1}
NoKeys == {}
SomeAmounts == {0, 1}
PositiveAmount == {1}

Reliable == {"ok"}
Unreliable == {"ok", "lost", "late"}

\* The operations the HTTP router exposes; MarkPaid has no caller yet.
Routes == {"create", "get", "cancel"}
AllKinds == {"create", "get", "cancel", "markPaid"}

Calm == {}
Leaving == {"disconnect"}
Crashing == {"crash"}

\* Requests are interchangeable: they are told apart by what they ask for only.
Symmetry == Permutations(Requests)

=============================================================================
