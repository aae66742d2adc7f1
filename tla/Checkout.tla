------------------------------ MODULE Checkout ------------------------------
(***************************************************************************)
(* The order service and the payment service together, joined by the gRPC  *)
(* call ProcessPayment under the order service's two seconds               *)
(* (order-service/internal/app/payment_grpc_client.go).                    *)
(*                                                                         *)
(* Every step is a step of OrderService or of PaymentService.  What those  *)
(* two leave to their environment is tied here: a call begins because a    *)
(* request has sent it, and a request is told what its call replied.  The  *)
(* call of request r is named r, and so is the payment it makes.           *)
(***************************************************************************)
EXTENDS Integers, Sequences, FiniteSets

CONSTANTS
    Requests, Keys, NoKey, Nobody, Main, NoOrder,
    Amounts, MaxPaymentAmount,
    Kinds,                \* of requests to the order service
    OrderDb, CacheOutcomes, OrderEnvironment,
    PaymentDb, PaymentEnvironment

VARIABLES
    op, pc, subject, status, answer, code, gone,            \* requests, and
    orders, cache, notified,                                \* what they share
    callPc, callStatus, callReply, callGone, attempt,       \* calls, and
    payments, created, holder, channel, bound, queued,      \* what they share
    service

orderVars == <<op, pc, subject, status, answer, code, gone, orders, cache, notified>>
paymentVars == <<callPc, callStatus, callReply, callGone, attempt,
                 payments, created, holder, channel, bound, queued, service>>
vars == <<orderVars, paymentVars>>

\* The message of AuthorizePayment: the order and its amount.
callOp ==
    [r \in Requests |-> [kind |-> "charge", via |-> "grpc", order |-> r, amount |-> op[r].amount]]

O == INSTANCE OrderService WITH DbOutcomes <- OrderDb, Environment <- OrderEnvironment

P == INSTANCE PaymentService WITH
        Calls <- Requests, Orders <- Requests, Amounts <- Amounts \cup {0}, Kinds <- {"charge"},
        DbOutcomes <- PaymentDb, Environment <- PaymentEnvironment,
        op <- callOp, pc <- callPc, status <- callStatus, reply <- callReply,
        shown <- [r \in Requests |-> Nobody], gone <- callGone

ASSUME ConstantsAssumption == O!ConstantsAssumption /\ P!ConstantsAssumption

None == "None"

TypeOK == O!TypeOK /\ P!TypeOK

Init == O!Init /\ P!Init

-----------------------------------------------------------------------------
(* The order service *)

\* The steps that concern one service only.  O!Handler has PaymentError: the call
\* may be given up at any time, whatever has become of it at the other end.
OrderStep(r) ==
    /\ UNCHANGED paymentVars
    /\ \/ O!RejectAmount(r)
       \/ O!BeginCreate(r)
       \/ O!BeginOther(r)
       \/ O!Handler(r)
       \/ O!Expire(r)
       \/ O!Disconnect(r)

OrderCrash == O!Crash /\ UNCHANGED paymentVars

\* Mutant: no error means Authorized.
AnyReplyPays(r) ==
    /\ callReply[r] \in P!Statuses
    /\ O!PaymentAnswered(r, "Authorized")
    /\ UNCHANGED paymentVars

\* The reply to ProcessPayment arrives in time.  (An error reply is a PaymentError.)
ReceiveReply(r) ==
    /\ callReply[r] \in P!Statuses
    /\ O!PaymentAnswered(r, callReply[r])
    /\ UNCHANGED paymentVars

-----------------------------------------------------------------------------
(* The payment service *)

\* r has sent the call: it waits for the reply, or gave up, or died waiting.
Sent(r) ==
    /\ O!Creates(r) /\ orders[r] # None
    /\ pc[r] \in {"authorize", "dead"} \/ answer[r] = "error"

\* The message arrives, possibly after the caller has given up.
ReceiveCall(r) ==
    /\ Sent(r)
    /\ UNCHANGED orderVars
    /\ P!BeginCharge(r)

CallStep(r) ==
    /\ UNCHANGED orderVars
    /\ P!Handler(r)

\* The deadline travels with the call, and with the caller's context it is
\* cancelled.  (Should the timer of the server be first, the error it replies is a
\* PaymentError; what the order service does next meets nothing of the call's.)
CallCancelled(r) ==
    /\ pc[r] # "authorize" \/ gone[r]
    /\ UNCHANGED orderVars
    /\ P!Disconnect(r)

\* (P!BindQueue is left out: the consumer has bound its queue.)
PaymentMain ==
    /\ UNCHANGED orderVars
    /\ \/ P!Stop
       \/ P!LockPublisher
       \/ P!CloseChannel
       \/ P!CloseConnection
       \/ P!Exit
       \/ P!Crash
       \/ P!Restart
       \/ P!LoseBroker

-----------------------------------------------------------------------------

Next ==
    \/ \E r \in Requests : OrderStep(r) \/ ReceiveReply(r) \/ ReceiveCall(r) \/ CallStep(r) \/ CallCancelled(r)
    \/ OrderCrash
    \/ PaymentMain

Spec == Init /\ [][Next]_vars

-----------------------------------------------------------------------------
(* Properties *)

\* The outcome of an order against the money, in two databases that no transaction
\* joins (of the orders no MarkPaid names).  A Paid order has an authorised payment,
\* one whose creator heard a decline has none, and a Failed order is charged only if
\* its creator gave the call up or got an error for it.  Nothing is said of a charged
\* order that is Cancelled -- whatever its creator heard -- and of one that is
\* Pending, see ChargedOrdersAreOwned.
OutcomesFollowPayments ==
    \A r \in O!Unmarked :
        /\ orders[r] = "Paid" => payments[r] = "Authorized"
        /\ answer[r] = "Declined" => payments[r] = "Declined"
        /\ orders[r] = "Failed" /\ payments[r] = "Authorized" => answer[r] = "error"

\* A customer who repeats a request with its key, after whatever reply or none,
\* has one payment in the payment service, and one announcement of it.
OnePaymentPerKey ==
    \A r, s \in Requests :
        O!SameKey(r, s) /\ payments[r] # None /\ payments[s] # None => r = s

\* Money that was taken is accounted for: a charged order stays Pending only while
\* its creator is at work, or the process died over it, or the customer was told
\* of a failure.  Nobody is told anything else of it.
ChargedOrdersAreOwned ==
    \A r \in Requests : payments[r] = "Authorized" /\ orders[r] = "Pending" =>
        O!Active(r) \/ pc[r] = "dead" \/ code[r] \in {"InternalServerError", "ServiceUnavailable"}

-----------------------------------------------------------------------------
(* The abstract specification *)

Keyed == [r \in Requests |-> IF O!Creates(r) THEN op[r].key ELSE NoKey]
Announced == {r \in Requests : queued[r] > 0}

Purchases == INSTANCE Purchase WITH
    Orders <- Requests, Parties <- Requests,
    open <- O!Open, admitted <- O!Admitted, marked <- Requests \ O!Unmarked,
    key <- Keyed, announced <- Announced

\* Orders are placed, charged, announced, heard of and settled as Purchase says,
\* whichever of the two processes dies, whatever its database loses, and whenever a
\* call is given up.
ImplementsPurchase == Purchases!Spec

=============================================================================
