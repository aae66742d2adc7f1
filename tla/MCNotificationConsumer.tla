----------------------- MODULE MCNotificationConsumer -----------------------
(* Small instances of NotificationConsumer for TLC. *)
EXTENDS NotificationConsumer, TLC

CONSTANTS m1, m2, m3, p1, p2, w1, w2

TwoMessages == {m1, m2}
ThreeMessages == {m1, m2, m3}
OnePayment == {p1}
TwoPayments == {p1, p2}
TwoWorkers == {w1, w2}

\* The same event twice and another payment's.
Duplicates == (m1 :> p1) @@ (m2 :> p1) @@ (m3 :> p2)
\* One payment and an event that names none.
ValidAndInvalid == (m1 :> p1) @@ (m2 :> p1) @@ (m3 :> NoPayment)
OneEvent == (m1 :> p1) @@ (m2 :> p1)

Simulated == {"ok", "fail"}
Reliable == {"ok"}
AnsweredLate == {"ok", "late"}
SentAgain == {"ok", "late", "again"}
Unreliable == {"ok", "lost", "late", "again"}

Everything == {"crash", "stop", "connection"}
Stopping == {"stop"}
Crashing == {"crash"}

=============================================================================
