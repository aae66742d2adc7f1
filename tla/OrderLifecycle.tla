--------------------------- MODULE OrderLifecycle ---------------------------
(***************************************************************************)
(* What the order service promises about the life of an order, with no     *)
(* word of caches, keys, replies or failing calls.  Its creator places it, *)
(* hears the gateway once and settles it once by what it heard; a          *)
(* cancellation is admitted while the order is Pending and carried out some *)
(* time later, or not at all.  OrderService implements this.               *)
(***************************************************************************)
CONSTANTS
    Orders,
    Parties        \* those who may ask for a cancellation

VARIABLES
    orders,        \* orders[o]: its status, or "None"
    answer,        \* answer[o]: what the gateway said of it, or "None"
    open,          \* the orders whose creator has still to settle them
    admitted,      \* <<o, p>>: p's cancellation of o is under way
    marked         \* orders that somebody marks paid from outside

vars == <<orders, answer, open, admitted, marked>>

None == "None"
Answers == {"Authorized", "Declined", "error"}

Init ==
    /\ orders = [o \in Orders |-> None]
    /\ answer = [o \in Orders |-> None]
    /\ open = {}
    /\ admitted = {}
    /\ marked \in SUBSET Orders

\* The creator may be cut off in the moment the order is stored.
Place(o) ==
    /\ orders[o] = None
    /\ orders' = [orders EXCEPT ![o] = "Pending"]
    /\ open' \in {open, open \cup {o}}
    /\ UNCHANGED <<answer, admitted, marked>>

Hear(o, a) ==
    /\ o \in open /\ answer[o] = None
    /\ answer' = [answer EXCEPT ![o] = a]
    /\ UNCHANGED <<orders, open, admitted, marked>>

\* The creator's word comes after a cancellation's, if there is one.
Settle(o) ==
    /\ o \in open /\ answer[o] # None
    /\ orders[o] \in {"Pending", "Cancelled"} \/ o \in marked
    /\ orders' = [orders EXCEPT ![o] = IF answer[o] = "Authorized" THEN "Paid" ELSE "Failed"]
    /\ open' = open \ {o}
    /\ UNCHANGED <<answer, admitted, marked>>

Admit(o, p) ==
    /\ orders[o] = "Pending"
    /\ admitted' = admitted \cup {<<o, p>>}
    /\ UNCHANGED <<orders, answer, open, marked>>

Cancel(o, p) ==
    /\ <<o, p>> \in admitted
    /\ orders' = [orders EXCEPT ![o] = "Cancelled"]
    /\ admitted' = admitted \ {<<o, p>>}
    /\ UNCHANGED <<answer, open, marked>>

MarkPaid(o) ==
    /\ o \in marked /\ orders[o] # None
    /\ orders' = [orders EXCEPT ![o] = "Paid"]
    /\ UNCHANGED <<answer, open, admitted, marked>>

\* Creators and cancellations that failed or died.
Abandon ==
    /\ open' \subseteq open
    /\ admitted' \subseteq admitted
    /\ UNCHANGED <<orders, answer, marked>>

Next ==
    \/ Abandon
    \/ \E o \in Orders :
        \/ Place(o)
        \/ \E a \in Answers : Hear(o, a)
        \/ Settle(o)
        \/ \E p \in Parties : Admit(o, p) \/ Cancel(o, p)
        \/ MarkPaid(o)

Spec == Init /\ [][Next]_vars

=============================================================================
