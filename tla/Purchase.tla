------------------------------ MODULE Purchase ------------------------------
(***************************************************************************)
(* What the order service and the payment service promise together about   *)
(* the orders of a customer and the money of each, with no word of calls,  *)
(* deadlines, crashes and failing statements.  An order lives as           *)
(* OrderLifecycle says; one of those with a key exists at most; an order   *)
(* that exists is charged at most once; the answer its creator hears is    *)
(* the outcome of that charge, or silence; and an authorised charge is     *)
(* announced at most once.  Checkout implements this.                      *)
(***************************************************************************)
CONSTANTS
    Orders,
    Parties,
    NoKey

VARIABLES
    orders, answer, open, admitted, marked,      \* see OrderLifecycle
    key,           \* key[o]: the idempotency key o is asked for with, or NoKey
    payments,      \* payments[o]: the outcome of the charge of o, or "None"
    announced      \* the orders whose payment was announced

L == INSTANCE OrderLifecycle

money == <<payments, announced>>
vars == <<L!vars, key, money>>

None == "None"

SameKey(o, p) == key[o] = key[p] /\ key[o] # NoKey

Init ==
    /\ L!Init
    /\ payments = [o \in Orders |-> None]
    /\ announced = {}

\* A key is good for one order.
Place(o) ==
    /\ \A p \in Orders \ {o} : SameKey(o, p) => orders[p] = None
    /\ L!Place(o)
    /\ UNCHANGED <<key, money>>

\* The creator need not be there any more.
Charge(o, outcome) ==
    /\ orders[o] # None /\ payments[o] = None
    /\ payments' = [payments EXCEPT ![o] = outcome]
    /\ UNCHANGED <<L!vars, key, announced>>

Announce(o) ==
    /\ payments[o] = "Authorized" /\ o \notin announced
    /\ announced' = announced \cup {o}
    /\ UNCHANGED <<L!vars, key, payments>>

\* The creator hears how the charge went, or gives up, whatever has become of it.
Hear(o, a) ==
    /\ a = "error" \/ a = payments[o]
    /\ L!Hear(o, a)
    /\ UNCHANGED <<key, money>>

\* The rest of the life of an order touches no money: neither does a cancellation
\* give any back.
GoOn ==
    /\ \/ L!Abandon
       \/ \E o \in Orders :
            \/ L!Settle(o)
            \/ \E p \in Parties : L!Admit(o, p) \/ L!Cancel(o, p)
            \/ L!MarkPaid(o)
    /\ UNCHANGED <<key, money>>

Next ==
    \/ GoOn
    \/ \E o \in Orders :
        \/ Place(o)
        \/ \E outcome \in {"Authorized", "Declined"} : Charge(o, outcome)
        \/ Announce(o)
        \/ \E a \in L!Answers : Hear(o, a)

Spec == Init /\ [][Next]_vars

-----------------------------------------------------------------------------
(* Properties *)

\* A customer who repeats a request with its key is charged once.
ChargedOncePerKey ==
    \A o, p \in Orders :
        SameKey(o, p) /\ payments[o] # None /\ payments[p] # None => o = p

\* Of the orders nobody marks as paid, a Paid one was charged, and a Failed one was
\* not, unless its creator heard an error.  (A Pending or Cancelled order may be
\* charged, whatever its creator heard.)
OutcomesFollowCharges ==
    \A o \in Orders \ marked :
        /\ orders[o] = "Paid" => payments[o] = "Authorized"
        /\ orders[o] = "Failed" => payments[o] # "Authorized" \/ answer[o] = "error"

\* Nobody hears of a payment by e-mail that was not made of an order that exists.
AnnouncedIsCharged ==
    \A o \in announced : orders[o] # None /\ payments[o] = "Authorized"

=============================================================================
