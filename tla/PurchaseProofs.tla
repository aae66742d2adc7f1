--------------------------- MODULE PurchaseProofs ---------------------------
(***************************************************************************)
(* What follows from Purchase for orders and money, for any number of      *)
(* orders, keys and cancellations: Checkout, which implements it, inherits *)
(* all of it.                                                              *)
(***************************************************************************)
EXTENDS Purchase, TLAPS

Outcomes == {"Authorized", "Declined"}

TypeOK ==
    /\ orders \in [Orders -> {None, "Pending", "Cancelled", "Paid", "Failed"}]
    /\ answer \in [Orders -> L!Answers \cup {None}]
    /\ payments \in [Orders -> Outcomes \cup {None}]
    /\ announced \subseteq Orders
    /\ open \subseteq Orders

\* A key has one order.
OneOrderPerKey ==
    \A o, p \in Orders : SameKey(o, p) /\ orders[o] # None /\ orders[p] # None => o = p

\* The row follows the answer, the answer follows the charge, and the charge the row.
Follows(o) ==
    /\ o \in open => orders[o] # None
    /\ payments[o] # None => orders[o] # None
    /\ answer[o] \in Outcomes => payments[o] = answer[o]
    /\ o \notin marked =>
         /\ orders[o] = "Paid" => answer[o] = "Authorized"
         /\ orders[o] = "Failed" => answer[o] \in {"Declined", "error"}

AllFollow == \A o \in Orders : Follows(o)

\* Only an order that exists is about to be cancelled.
Admittable == \A o \in Orders, p \in Parties : <<o, p>> \in admitted => orders[o] # None

\* What is announced was authorised.
IsCharged == \A o \in announced : payments[o] = "Authorized"

IInv == TypeOK /\ OneOrderPerKey /\ AllFollow /\ Admittable /\ IsCharged

USE DEF None, L!None, L!Answers, L!vars

LEMMA InitInv == Init => IInv
BY DEF Init, L!Init, IInv, TypeOK, OneOrderPerKey, AllFollow, Follows, Admittable, IsCharged

LEMMA StepInv ==
    ASSUME IInv, [Next]_vars
    PROVE  IInv'
<1> USE DEF IInv, TypeOK, OneOrderPerKey, AllFollow, Follows, Admittable, IsCharged, SameKey, Outcomes
<1>1. ASSUME NEW o \in Orders, Place(o) PROVE IInv'
  <2>1. /\ orders' = [orders EXCEPT ![o] = "Pending"] /\ orders[o] = None
        /\ open' \subseteq Orders /\ \A p \in open' : p \in open \/ p = o
        /\ UNCHANGED <<answer, marked, key, payments, announced>>
    BY <1>1 DEF Place, L!Place, money
  <2>2. OneOrderPerKey'
    BY <1>1, <2>1 DEF Place
  <2>3. AllFollow'
    BY <2>1
  <2>4. TypeOK'
    BY <2>1
  <2>5. Admittable' /\ IsCharged'
    BY <1>1, <2>1 DEF Place, L!Place
  <2> QED
    BY <2>2, <2>3, <2>4, <2>5
<1>2. ASSUME NEW o \in Orders, NEW s \in Outcomes, Charge(o, s) PROVE IInv'
  <2>1. /\ payments' = [payments EXCEPT ![o] = s] /\ payments[o] = None /\ orders[o] # None
        /\ UNCHANGED <<orders, answer, open, admitted, marked, key, announced>>
    BY <1>2 DEF Charge
  <2>2. AllFollow'
    BY <2>1
  <2>3. TypeOK'
    BY <2>1
  <2>4. IsCharged'
    BY <2>1
  <2>5. OneOrderPerKey' /\ Admittable'
    BY <2>1
  <2> QED
    BY <2>2, <2>3, <2>4, <2>5
<1>3. ASSUME NEW o \in Orders, Announce(o) PROVE IInv'
  BY <1>3 DEF Announce
<1>4. ASSUME NEW o \in Orders, NEW a \in L!Answers, Hear(o, a) PROVE IInv'
  <2>1. /\ answer' = [answer EXCEPT ![o] = a] /\ answer[o] = None
        /\ a = "error" \/ a = payments[o]
        /\ UNCHANGED <<orders, open, admitted, marked, key, payments, announced>>
    BY <1>4 DEF Hear, L!Hear, money
  <2>2. AllFollow'
    BY <2>1
  <2>3. TypeOK'
    BY <2>1
  <2>4. OneOrderPerKey' /\ Admittable' /\ IsCharged'
    BY <2>1
  <2> QED
    BY <2>2, <2>3, <2>4
<1>5. ASSUME NEW o \in Orders, L!Settle(o), UNCHANGED <<key, money>> PROVE IInv'
  <2>1. /\ o \in open /\ answer[o] # None /\ open' = open \ {o}
        /\ orders' = [orders EXCEPT ![o] = IF answer[o] = "Authorized" THEN "Paid" ELSE "Failed"]
        /\ UNCHANGED <<answer, admitted, marked, key, payments, announced>>
    BY <1>5 DEF L!Settle, money
  <2>2. AllFollow'
    BY <2>1
  <2>3. \A p \in Orders : orders'[p] # None <=> orders[p] # None
    BY <2>1
  <2>4. TypeOK'
    BY <2>1
  <2>5. OneOrderPerKey' /\ Admittable' /\ IsCharged'
    BY <2>1, <2>3
  <2> QED
    BY <2>2, <2>4, <2>5
<1>6. ASSUME NEW o \in Orders, NEW p \in Parties, L!Cancel(o, p), UNCHANGED <<key, money>>
      PROVE  IInv'
  <2>1. /\ orders' = [orders EXCEPT ![o] = "Cancelled"] /\ orders[o] # None
        /\ admitted' \subseteq admitted
        /\ UNCHANGED <<answer, open, marked, key, payments, announced>>
    BY <1>6 DEF L!Cancel, money
  <2>2. AllFollow'
    BY <2>1
  <2>3. \A q \in Orders : orders'[q] # None <=> orders[q] # None
    BY <2>1
  <2>4. TypeOK'
    BY <2>1
  <2>5. OneOrderPerKey' /\ Admittable' /\ IsCharged'
    BY <2>1, <2>3
  <2> QED
    BY <2>2, <2>4, <2>5
<1>10. ASSUME NEW o \in Orders, NEW p \in Parties, L!Admit(o, p), UNCHANGED <<key, money>>
       PROVE  IInv'
  <2>1. /\ admitted' = admitted \cup {<<o, p>>} /\ orders[o] # None
        /\ UNCHANGED <<orders, answer, open, marked, key, payments, announced>>
    BY <1>10 DEF L!Admit, money
  <2>2. \A q \in Orders, r \in Parties :
          <<q, r>> \in admitted' => <<q, r>> \in admitted \/ q = o
    BY <2>1
  <2> QED
    BY <2>1, <2>2
<1>7. CASE L!Abandon /\ UNCHANGED <<key, money>>
  BY <1>7 DEF L!Abandon, money
<1>8. ASSUME NEW o \in Orders, L!MarkPaid(o), UNCHANGED <<key, money>> PROVE IInv'
  BY <1>8 DEF L!MarkPaid, money
<1>9. CASE UNCHANGED vars
  BY <1>9 DEF vars, money
<1> QED
  BY <1>1, <1>2, <1>3, <1>4, <1>5, <1>6, <1>7, <1>8, <1>9, <1>10 DEF Next, GoOn

LEMMA Invariance == Spec => []IInv
BY InitInv, StepInv, PTL DEF Spec

-----------------------------------------------------------------------------
(* The theorems *)

\* The types: a status, an answer and an outcome are among those of the two services.
THEOREM TypeInvariant == Spec => []TypeOK
<1>1. IInv => TypeOK
  BY DEF IInv
<1> QED
  BY <1>1, Invariance, PTL

\* A customer who repeats a request with its key is charged once: a key has one
\* order, and only an order is charged.
THEOREM OneCharge == Spec => []ChargedOncePerKey
<1>1. IInv => ChargedOncePerKey
  BY DEF IInv, OneOrderPerKey, AllFollow, Follows, ChargedOncePerKey
<1> QED
  BY <1>1, Invariance, PTL

\* The outcomes Paid and Failed follow the charge: Paid is charged, Failed is not
\* unless the creator of the order heard an error.
THEOREM OutcomesFollow == Spec => []OutcomesFollowCharges
<1>1. IInv => OutcomesFollowCharges
  BY DEF IInv, AllFollow, Follows, Outcomes, OutcomesFollowCharges
<1> QED
  BY <1>1, Invariance, PTL

\* What is announced was paid for an order.
THEOREM Announcements == Spec => []AnnouncedIsCharged
<1>1. IInv => AnnouncedIsCharged
  BY DEF IInv, TypeOK, AllFollow, Follows, IsCharged, AnnouncedIsCharged
<1> QED
  BY <1>1, Invariance, PTL

=============================================================================
