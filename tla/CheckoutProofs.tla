--------------------------- MODULE CheckoutProofs ---------------------------
(***************************************************************************)
(* Proofs about Checkout for every set of requests, keys and amounts and   *)
(* whatever fails on either side.  The composition is shown to be an       *)
(* OrderService and a PaymentService, each as it is specified alone, so    *)
(* that all that is proved of the two holds of it; what is new here is the *)
(* tie between a request and its call, and with it the implementation of    *)
(* Purchase.                                                               *)
(***************************************************************************)
EXTENDS Checkout, TLAPS

\* The modules that hold the theorems about the two services, instantiated as
\* Checkout instantiates the services.
OP == INSTANCE OrderLifecycleProofs WITH DbOutcomes <- OrderDb, Environment <- OrderEnvironment

PP == INSTANCE PaymentProofs WITH
        Calls <- Requests, Orders <- Requests, Amounts <- Amounts \cup {0}, Kinds <- {"charge"},
        DbOutcomes <- PaymentDb, Environment <- PaymentEnvironment,
        op <- callOp, pc <- callPc, status <- callStatus, reply <- callReply,
        shown <- [r \in Requests |-> Nobody], gone <- callGone

-----------------------------------------------------------------------------
(* The instances *)

LEMMA OrderConstants == OP!ConstantsAssumption
BY ConstantsAssumption
   DEF O!ConstantsAssumption, OP!ConstantsAssumption, O!AllOutcomes, OP!AllOutcomes

LEMMA PaymentConstants == PP!ConstantsAssumption
BY ConstantsAssumption DEF P!ConstantsAssumption, PP!ConstantsAssumption

\* O and OP instantiate the same definitions, and so do P and PP.
LEMMA OrderModule ==
    /\ O!Init <=> OP!Init
    /\ [O!Next]_O!vars <=> [OP!Next]_OP!vars
<1> USE DEF
       O!AllOutcomes, O!local, O!shared, O!vars, O!Statuses, O!None, O!Steps,
       O!ControlPoints, O!Answers, O!Codes, O!Ops, O!TypeOK, O!Init, O!Creates,
       O!Active, O!Goto, O!Reply, O!Db, O!Redis, O!Applied, O!RejectAmount,
       O!BeginCreate, O!Rows, O!RowsWithKey, O!LookupKey, O!KeyTaken, O!Insert,
       O!PaymentAnswered, O!PaymentError, O!FinalCode, O!UpdateFailed, O!UpdateStatus,
       O!Notify, O!Fill, O!Invalidate, O!BeginOther, O!CacheGet, O!LoadedRow, O!Load,
       O!Expire, O!Disconnect, O!Crash, O!Handler, O!Next, OP!AllOutcomes, OP!local,
       OP!shared, OP!vars, OP!Statuses, OP!None, OP!Steps, OP!ControlPoints, OP!Answers,
       OP!Codes, OP!Ops, OP!TypeOK, OP!Init, OP!Creates, OP!Active, OP!Goto, OP!Reply,
       OP!Db, OP!Redis, OP!Applied, OP!RejectAmount, OP!BeginCreate, OP!Rows,
       OP!RowsWithKey, OP!LookupKey, OP!KeyTaken, OP!Insert, OP!PaymentAnswered,
       OP!PaymentError, OP!FinalCode, OP!UpdateFailed, OP!UpdateStatus, OP!Notify,
       OP!Fill, OP!Invalidate, OP!BeginOther, OP!CacheGet, OP!LoadedRow, OP!Load,
       OP!Expire, OP!Disconnect, OP!Crash, OP!Handler, OP!Next
<1>1. O!Init <=> OP!Init
  OBVIOUS
<1>2. O!Next <=> OP!Next
  OBVIOUS
<1>3. O!vars = OP!vars /\ O!vars' = OP!vars'
  OBVIOUS
<1> HIDE DEF O!Init, OP!Init, O!Next, OP!Next, O!vars, OP!vars
<1>4. [O!Next]_O!vars <=> [OP!Next]_OP!vars
  BY <1>2, <1>3
<1> QED
  BY <1>1, <1>4

LEMMA PaymentModule ==
    /\ P!Init <=> PP!Init
    /\ [P!Next]_P!vars <=> [PP!Next]_PP!vars
<1> USE DEF
       P!local, P!publisher, P!broker, P!table, P!vars, P!None, P!Statuses,
       P!MaxAttempts, P!Steps, P!ControlPoints, P!Replies, P!Ops, P!TypeOK, P!Init,
       P!Rpc, P!Active, P!Goto, P!Reply, P!Accepts, P!Db, P!Applied, P!RefuseAmount,
       P!Decide, P!BeginCharge, P!Insert, P!Lock, P!ReturnPayment, P!PublishAccepted,
       P!PublishVanishes, P!PublishFails, P!Sleep, P!BeginQuery, P!PaymentsOf,
       P!Position, P!Newest, P!GetPaymentByOrderID, P!PaymentColumns, P!ListedColumns,
       P!ListPayments, P!Stop, P!LockPublisher, P!CloseChannel, P!CloseConnection,
       P!Halt, P!Exit, P!Crash, P!Restart, P!Disconnect, P!LoseBroker, P!BindQueue, P!Handler, P!Next, PP!local,
       PP!publisher, PP!broker, PP!table, PP!vars, PP!None, PP!Statuses, PP!MaxAttempts,
       PP!Steps, PP!ControlPoints, PP!Replies, PP!Ops, PP!TypeOK, PP!Init, PP!Rpc,
       PP!Active, PP!Goto, PP!Reply, PP!Accepts, PP!Db, PP!Applied, PP!RefuseAmount,
       PP!Decide, PP!BeginCharge, PP!Insert, PP!Lock, PP!ReturnPayment,
       PP!PublishAccepted, PP!PublishVanishes, PP!PublishFails, PP!Sleep, PP!BeginQuery,
       PP!PaymentsOf, PP!Position, PP!Newest, PP!GetPaymentByOrderID, PP!PaymentColumns,
       PP!ListedColumns, PP!ListPayments, PP!Stop, PP!LockPublisher, PP!CloseChannel,
       PP!CloseConnection, PP!Halt, PP!Exit, PP!Crash, PP!Restart, PP!Disconnect, PP!LoseBroker, PP!BindQueue, PP!Handler,
       PP!Next
<1>1. P!Init <=> PP!Init
  OBVIOUS
<1>2. P!Next <=> PP!Next
  OBVIOUS
<1>3. P!vars = PP!vars /\ P!vars' = PP!vars'
  OBVIOUS
<1> HIDE DEF P!Init, PP!Init, P!Next, PP!Next, P!vars, PP!vars
<1>4. [P!Next]_P!vars <=> [PP!Next]_PP!vars
  BY <1>2, <1>3
<1> QED
  BY <1>1, <1>4

\* The invariants proved of the two services.
LEMMA OrderInvariant == O!Spec => [](OP!IndInv /\ OP!AllTold)
BY OrderModule, OrderConstants, OP!Invariant, OP!CreatorsAreTold, PTL DEF O!Spec, OP!Spec

LEMMA PaymentInvariant == P!Spec => []PP!IInv
BY PaymentModule, PaymentConstants, PP!Invariance, PTL DEF P!Spec, PP!Spec

-----------------------------------------------------------------------------
(* The composition is an order service *)

\* Every step of the composition is one of the order service, or none.
LEMMA OrderSteps == [Next]_vars => [O!Next]_O!vars
<1> SUFFICES ASSUME [Next]_vars PROVE O!Next \/ UNCHANGED O!vars
  OBVIOUS
<1>1. ASSUME NEW r \in Requests, OrderStep(r) PROVE O!Next
  BY <1>1 DEF OrderStep, O!Next
<1>2. ASSUME NEW r \in Requests, ReceiveReply(r) PROVE O!Next
  BY <1>2 DEF ReceiveReply, P!Statuses, O!Next
<1>3. CASE OrderCrash
  BY <1>3 DEF OrderCrash, O!Next
<1>4. CASE UNCHANGED orderVars
  BY <1>4 DEF orderVars, O!vars, O!local, O!shared
<1> QED
  BY <1>1, <1>2, <1>3, <1>4 DEF Next, ReceiveCall, CallStep, CallCancelled, PaymentMain, vars

\* The order service cannot tell the payment service from a gateway that answers
\* and fails as it likes (AuthorizePayment of the gRPC client).
THEOREM OrdersAsAlone == Spec => O!Spec
BY OrderSteps, PTL DEF Spec, Init, O!Spec

-----------------------------------------------------------------------------
(* The composition is a payment service *)

\* What a request asks for does not change, and with it what its call does.
LEMMA OpConstant == [Next]_vars => op' = op /\ callOp' = callOp
<1> SUFFICES ASSUME [Next]_vars PROVE op' = op
  BY DEF callOp
<1>1. [O!Next]_O!vars
  BY OrderSteps
<1> QED
  BY <1>1 DEF O!Next, O!Handler, O!vars, O!RejectAmount, O!BeginCreate, O!BeginOther,
       O!LookupKey, O!Insert, O!PaymentError, O!PaymentAnswered, O!UpdateStatus, O!Notify, O!Fill,
       O!Invalidate, O!CacheGet, O!Load, O!Expire, O!Disconnect, O!Crash

LEMMA PaymentInit == Init => P!Init
<1> SUFFICES ASSUME Init PROVE callOp \in [Requests -> P!Ops]
  BY DEF Init
<1>1. ASSUME NEW r \in Requests PROVE callOp[r] \in P!Ops
  <2>1. op[r].amount \in Amounts \cup {0}
    BY DEF Init, O!Init, O!Ops
  <2>2. r # NoOrder
    BY ConstantsAssumption DEF P!ConstantsAssumption
  <2> QED
    BY <2>1, <2>2 DEF callOp, P!Ops
<1> QED
  BY <1>1 DEF callOp

LEMMA PaymentSteps == [Next]_vars => [P!Next]_P!vars
<1> SUFFICES ASSUME [Next]_vars PROVE P!Next \/ UNCHANGED P!vars
  OBVIOUS
<1>1. ASSUME NEW r \in Requests, ReceiveCall(r) \/ CallStep(r) \/ CallCancelled(r) PROVE P!Next
  BY <1>1 DEF ReceiveCall, CallStep, CallCancelled, P!Next
<1>2. CASE PaymentMain
  BY <1>2 DEF PaymentMain, P!Next
<1>3. CASE UNCHANGED paymentVars
  BY <1>3, OpConstant
     DEF paymentVars, P!vars, P!local, P!table, P!publisher, P!broker
<1> QED
  BY <1>1, <1>2, <1>3 DEF Next, OrderStep, ReceiveReply, OrderCrash, vars

\* Nor can the payment service tell the order service, with its deadlines and its
\* crashes, from clients that call, cancel and leave as they like.
THEOREM PaymentsAsAlone == Spec => P!Spec
BY PaymentInit, PaymentSteps, PTL DEF Spec, P!Spec

-----------------------------------------------------------------------------
(* The tie between a request and its call *)

\* The answer a request acts on is the reply of its own call, and no call begins
\* before the row of its order is there.
Tied(r) ==
    /\ answer[r] \in {"Authorized", "Declined"} => callReply[r] = answer[r]
    /\ callPc[r] # "idle" => O!Creates(r) /\ orders[r] # None

Tie == \A r \in Requests : Tied(r)

Invariants == OP!IndInv /\ OP!AllTold /\ PP!IInv

LEMMA BothInvariants == Spec => []Invariants
BY OrdersAsAlone, PaymentsAsAlone, OrderInvariant, PaymentInvariant, PTL DEF Invariants

\* The rows and the replies of one service stay while the other goes on.
LEMMA RowsAndReplies ==
    ASSUME Invariants, [Next]_vars, NEW r \in Requests
    PROVE  /\ orders[r] # None => orders'[r] # None
           /\ callReply[r] # None => callReply'[r] = callReply[r]
<1>1. [OP!Next]_OP!vars /\ [PP!Next]_PP!vars
  BY OrderModule, OrderSteps, PaymentModule, PaymentSteps
<1>2. OP!Control
  BY DEF Invariants, OP!IndInv, OP!Control, OP!AllLocalStates, OP!AllRowStates
<1>3. OP!RowKeepsOutcome(r)
  BY <1>1, <1>2, OrderConstants, OP!RowStep DEF OP!Control
<1>4. callReply[r] # None => callReply'[r] = callReply[r]
  BY <1>1, PaymentConstants, PP!ReplyStays DEF Invariants, None, PP!None
<1> QED
  BY <1>3, <1>4 DEF OP!RowKeepsOutcome, None, OP!None

LEMMA InitTie == Init => Tie
BY DEF Init, O!Init, P!Init, Tie, Tied, O!None, P!None

LEMMA TieStep ==
    ASSUME Invariants, Tie, [Next]_vars
    PROVE  Tie'
<1> SUFFICES ASSUME NEW r \in Requests PROVE Tied(r)'
  BY DEF Tie
<1>0. Tied(r) /\ op' = op
  BY OpConstant DEF Tie
<1>1. /\ answer \in [Requests -> O!Answers] /\ callPc \in [Requests -> P!ControlPoints]
      /\ orders[r] # None => orders'[r] # None
      /\ callReply[r] # None => callReply'[r] = callReply[r]
  BY RowsAndReplies
     DEF Invariants, OP!IndInv, OP!TypeOK, OP!Answers, O!Answers, OP!None, O!None,
         PP!IInv, PP!TypeOK, PP!ControlPoints, PP!Steps, P!ControlPoints, P!Steps
<1>2. answer'[r] \in {"Authorized", "Declined"} => callReply'[r] = answer'[r]
  <2>1. CASE answer'[r] = answer[r]
    BY <1>0, <1>1, <2>1 DEF Tied, None
  <2>2. ASSUME NEW q \in Requests, ReceiveReply(q) PROVE answer'[q] = callReply'[q]
    BY <1>1, <2>2 DEF ReceiveReply, O!PaymentAnswered, paymentVars
  <2>3. ASSUME NEW q \in Requests, ReceiveReply(q), q # r PROVE answer'[r] = answer[r]
    BY <1>1, <2>3 DEF ReceiveReply, O!PaymentAnswered
  <2>4. ASSUME NEW q \in Requests, OrderStep(q) PROVE answer'[r] \in {answer[r], "error"}
    BY <1>1, <2>4
       DEF OrderStep, O!Handler, O!RejectAmount, O!BeginCreate, O!BeginOther, O!LookupKey,
           O!Insert, O!PaymentError, O!UpdateStatus, O!Notify, O!Fill, O!Invalidate,
           O!CacheGet, O!Load, O!Expire, O!Disconnect, O!local, O!shared
  <2>5. ASSUME OrderCrash \/ UNCHANGED orderVars PROVE answer' = answer
    BY <2>5 DEF OrderCrash, O!Crash, orderVars
  <2> QED
    BY <2>1, <2>2, <2>3, <2>4, <2>5 DEF Next, ReceiveCall, CallStep, CallCancelled, PaymentMain, vars
<1>3. callPc'[r] # "idle" => O!Creates(r) /\ orders[r] # None
  <2>1. CASE callPc'[r] = callPc[r]
    BY <1>0, <2>1 DEF Tied
  <2>2. ASSUME NEW q \in Requests, ReceiveCall(q)
        PROVE  Sent(q) /\ (q # r => callPc'[r] = callPc[r])
    BY <1>1, <2>2 DEF ReceiveCall, P!BeginCharge, P!Goto
  <2>3. ASSUME NEW q \in Requests, CallStep(q)
        PROVE  callPc[q] # "idle" /\ (q # r => callPc'[r] = callPc[r])
    BY <1>1, <2>3
       DEF CallStep, P!Handler, P!Insert, P!Lock, P!PublishAccepted, P!PublishVanishes,
           P!PublishFails, P!Sleep, P!GetPaymentByOrderID, P!ListPayments, P!ReturnPayment,
           P!Reply, P!Goto
  <2>4. ASSUME PaymentMain PROVE callPc'[r] = callPc[r] \/ callPc[r] # "idle"
    BY <1>1, <2>4
       DEF PaymentMain, P!Stop, P!LockPublisher, P!CloseChannel, P!CloseConnection, P!Exit,
           P!Crash, P!Halt, P!Active, P!Steps, P!Restart, P!LoseBroker, P!local
  <2>5. ASSUME UNCHANGED paymentVars \/ \E q \in Requests : CallCancelled(q)
        PROVE  callPc' = callPc
    BY <2>5 DEF paymentVars, CallCancelled, P!Disconnect, P!local
  <2> QED
    BY <1>0, <2>1, <2>2, <2>3, <2>4, <2>5
       DEF Next, Tied, Sent, OrderStep, ReceiveReply, OrderCrash, vars
<1> QED
  BY <1>0, <1>1, <1>2, <1>3 DEF Tied, O!Creates

LEMMA TieInvariant == Spec => []Tie
BY InitTie, TieStep, BothInvariants, PTL DEF Spec

-----------------------------------------------------------------------------
(* The theorems *)

\* What the payment service guarantees of the call of r.
LEMMA CallFacts ==
    ASSUME Invariants, Tie, NEW r \in Requests
    PROVE  /\ payments[r] # None => O!Creates(r) /\ orders[r] # None
           /\ callReply[r] \in {"Authorized", "Declined"} => payments[r] = callReply[r]
<1>1. PP!CallState(r)
  BY DEF Invariants, PP!IInv, PP!CallsState
<1>2. /\ payments[r] # None => callPc[r] # "idle"
      /\ callReply[r] \in {"Authorized", "Declined"} => payments[r] = callReply[r]
  BY <1>1 DEF PP!CallState, PP!Statuses, PP!None, None
<1> QED
  BY <1>2 DEF Tie, Tied

\* Types, over both services.
THEOREM TypeInvariant == Spec => []TypeOK
<1>1. Invariants => O!TypeOK
  BY DEF Invariants, OP!IndInv, OP!TypeOK, OP!Ops, OP!ControlPoints, OP!Steps, OP!Statuses,
         OP!Answers, OP!Codes, OP!None, O!TypeOK, O!Ops, O!ControlPoints, O!Steps, O!Statuses,
         O!Answers, O!Codes, O!None
<1>2. Invariants => P!TypeOK
  BY DEF Invariants, PP!IInv, PP!TypeOK, PP!Ops, PP!ControlPoints, PP!Steps, PP!Statuses,
         PP!Replies, PP!None, PP!MaxAttempts, P!TypeOK, P!Ops, P!ControlPoints, P!Steps,
         P!Statuses, P!Replies, P!None, P!MaxAttempts
<1> QED
  BY <1>1, <1>2, BothInvariants, PTL DEF TypeOK

\* The outcome of an order follows the money: Paid was authorised, a decline its
\* creator heard of took none, and Failed is charged only if the call ended without
\* an answer.  Pending and Cancelled orders may be charged.
THEOREM OutcomesFollow == Spec => []OutcomesFollowPayments
<1>1. Invariants /\ Tie => OutcomesFollowPayments
  <2> SUFFICES ASSUME Invariants, Tie, NEW r \in O!Unmarked
               PROVE  /\ orders[r] = "Paid" => payments[r] = "Authorized"
                      /\ answer[r] = "Declined" => payments[r] = "Declined"
                      /\ orders[r] = "Failed" /\ payments[r] = "Authorized" => answer[r] = "error"
    BY DEF OutcomesFollowPayments
  <2>1. r \in Requests /\ r \in OP!Unmarked
    BY DEF O!Unmarked, OP!Unmarked
  <2>2. /\ orders[r] = "Paid" => answer[r] = "Authorized"
        /\ orders[r] = "Failed" => answer[r] \in {"Declined", "error"}
    BY <2>1 DEF Invariants, OP!IndInv, OP!RowState
  <2>3. answer[r] \in {"Authorized", "Declined"} => payments[r] = answer[r]
    BY <2>1, CallFacts DEF Tie, Tied
  <2> QED
    BY <2>2, <2>3
<1> QED
  BY <1>1, BothInvariants, TieInvariant, PTL

\* However often a customer repeats a request, one payment is made of its key.
THEOREM OnePayment == Spec => []OnePaymentPerKey
<1>1. Invariants /\ Tie => OnePaymentPerKey
  <2> SUFFICES ASSUME Invariants, Tie, NEW r \in Requests, NEW s \in Requests,
                      O!SameKey(r, s), payments[r] # None, payments[s] # None
               PROVE  r = s
    BY DEF OnePaymentPerKey
  <2>1. orders[r] # None /\ orders[s] # None
    BY CallFacts
  <2>2. OP!SameKey(r, s)
    BY DEF O!SameKey, O!Creates, OP!SameKey, OP!Creates
  <2> QED
    BY <2>1, <2>2 DEF Invariants, OP!IndInv, OP!RowsDifferInKey, OP!None, None
<1> QED
  BY <1>1, BothInvariants, TieInvariant, PTL

\* A charged order that stays Pending has its creator at work on it, or dead, or
\* gone with an answer that promises nothing.
THEOREM ChargesAreOwned == Spec => []ChargedOrdersAreOwned
<1>1. Invariants /\ Tie => ChargedOrdersAreOwned
  <2> SUFFICES ASSUME Invariants, Tie, NEW r \in Requests, payments[r] = "Authorized",
                      orders[r] = "Pending", ~O!Active(r), pc[r] # "dead"
               PROVE  code[r] \in {"InternalServerError", "ServiceUnavailable"}
    BY DEF ChargedOrdersAreOwned
  <2>1. O!Creates(r)
    BY CallFacts DEF None
  <2>2. OP!Told(r) /\ OP!RowState(r) /\ pc[r] \in OP!ControlPoints
    BY DEF Invariants, OP!AllTold, OP!IndInv, OP!TypeOK
  <2>3. pc[r] = "done"
    BY <2>2 DEF OP!RowState, OP!ControlPoints, OP!Steps, OP!None, O!Active, O!Steps
  <2> QED
    BY <2>1, <2>2, <2>3
       DEF OP!Told, OP!Settled, OP!Unsettled, OP!None, OP!Creates, O!Creates
<1> QED
  BY <1>1, BothInvariants, TieInvariant, PTL

\* And the life of an order is as OrderLifecycle says, over both services.
THEOREM LifecycleImplemented == Spec => O!ImplementsLifecycle
<1> USE DEF
       O!Unmarked, O!Creates, O!Open, O!Cancelling, O!Admitted, OP!Unmarked, OP!Creates,
       OP!Open, OP!Cancelling, OP!Admitted, O!Lifecycle!vars, O!Lifecycle!None,
       O!Lifecycle!Answers, O!Lifecycle!Init, O!Lifecycle!Place, O!Lifecycle!Hear,
       O!Lifecycle!Settle, O!Lifecycle!Admit, O!Lifecycle!Cancel, O!Lifecycle!MarkPaid,
       O!Lifecycle!Abandon, O!Lifecycle!Next, OP!Lifecycle!vars, OP!Lifecycle!None,
       OP!Lifecycle!Answers, OP!Lifecycle!Init, OP!Lifecycle!Place, OP!Lifecycle!Hear,
       OP!Lifecycle!Settle, OP!Lifecycle!Admit, OP!Lifecycle!Cancel,
       OP!Lifecycle!MarkPaid, OP!Lifecycle!Abandon, OP!Lifecycle!Next
<1>1. O!Lifecycle!Init <=> OP!Lifecycle!Init
  OBVIOUS
<1>2. O!Lifecycle!Next <=> OP!Lifecycle!Next
  OBVIOUS
<1>3. /\ O!Lifecycle!vars = OP!Lifecycle!vars
      /\ (O!Lifecycle!vars)' = (OP!Lifecycle!vars)'
  OBVIOUS
<1> HIDE DEF O!Lifecycle!Init, OP!Lifecycle!Init, O!Lifecycle!Next, OP!Lifecycle!Next,
       O!Lifecycle!vars, OP!Lifecycle!vars
<1>4. [O!Lifecycle!Next]_(O!Lifecycle!vars) <=> [OP!Lifecycle!Next]_(OP!Lifecycle!vars)
  BY <1>2, <1>3
<1>5. OP!Spec => OP!ImplementsLifecycle
  BY OrderConstants, OP!LifecycleImplemented
<1> QED
  BY OrdersAsAlone, OrderModule, <1>1, <1>4, <1>5, PTL
     DEF O!Spec, OP!Spec, O!ImplementsLifecycle, OP!ImplementsLifecycle,
         O!Lifecycle!Spec, OP!Lifecycle!Spec

-----------------------------------------------------------------------------
(* The composition implements Purchase *)

\* The life of the orders in Purchase is that of OrderService.
LEMMA LifeModule ==
    /\ Purchases!L!Init <=> OP!Lifecycle!Init
    /\ Purchases!L!Next <=> OP!Lifecycle!Next
    /\ UNCHANGED OP!Lifecycle!vars => UNCHANGED Purchases!L!vars
<1> USE DEF
       O!Unmarked, O!Creates, O!Open, O!Cancelling, O!Admitted, OP!Unmarked, OP!Creates,
       OP!Open, OP!Cancelling, OP!Admitted, Purchases!L!vars, Purchases!L!None,
       Purchases!L!Answers, Purchases!L!Init, Purchases!L!Place, Purchases!L!Hear,
       Purchases!L!Settle, Purchases!L!Admit, Purchases!L!Cancel, Purchases!L!MarkPaid,
       Purchases!L!Abandon, Purchases!L!Next, OP!Lifecycle!vars, OP!Lifecycle!None,
       OP!Lifecycle!Answers, OP!Lifecycle!Init, OP!Lifecycle!Place, OP!Lifecycle!Hear,
       OP!Lifecycle!Settle, OP!Lifecycle!Admit, OP!Lifecycle!Cancel,
       OP!Lifecycle!MarkPaid, OP!Lifecycle!Abandon, OP!Lifecycle!Next
<1>1. Purchases!L!Init <=> OP!Lifecycle!Init
  OBVIOUS
<1>2. Purchases!L!Next <=> OP!Lifecycle!Next
  OBVIOUS
<1>3. UNCHANGED OP!Lifecycle!vars => UNCHANGED Purchases!L!vars
  OBVIOUS
<1> QED
  BY <1>1, <1>2, <1>3

\* A request keeps its key.
LEMMA KeyConstant == op' = op => Keyed' = Keyed
BY DEF Keyed, O!Creates

\* Two rows of one key cannot come to be, so that an order is placed only where there is none.
LEMMA PlaceImplements ==
    ASSUME Invariants', op' = op, UNCHANGED <<payments, queued>>,
           NEW r \in Requests, Purchases!L!Place(r), orders \in [Requests -> O!Statuses \cup {None}]
    PROVE  Purchases!Place(r)
<1>1. orders' = [orders EXCEPT ![r] = "Pending"]
  BY DEF Purchases!L!Place
<1>2. ASSUME NEW s \in Requests \ {r}, Purchases!SameKey(r, s) PROVE orders[s] = Purchases!None
  <2>1. OP!SameKey(r, s)'
    BY <1>2, KeyConstant DEF Purchases!SameKey, Keyed, O!Creates, OP!SameKey, OP!Creates
  <2>2. orders'[s] = "None"
    BY <1>1, <2>1 DEF Invariants, OP!IndInv, OP!RowsDifferInKey, OP!None
  <2> QED
    BY <1>1, <2>2 DEF Purchases!None
<1>3. UNCHANGED <<Keyed, payments, Announced>>
  BY KeyConstant DEF Announced
<1> QED
  BY <1>2, <1>3 DEF Purchases!Place, Purchases!money

\* What a creator hears is what the other database has.
LEMMA HearImplements ==
    ASSUME Invariants', Tie', op' = op, UNCHANGED <<payments, queued>>,
           NEW r \in Requests, NEW a \in Purchases!L!Answers, Purchases!L!Hear(r, a),
           answer \in [Requests -> O!Answers]
    PROVE  Purchases!Hear(r, a)
<1>1. answer'[r] = a
  BY DEF Purchases!L!Hear
<1>2. a # "error" => payments'[r] = a
  <2>1. (callReply[r] \in {"Authorized", "Declined"} => payments[r] = callReply[r])'
    BY CallFacts, PTL
  <2> QED
    BY <1>1, <2>1 DEF Tie, Tied, Purchases!L!Answers
<1>3. UNCHANGED <<Keyed, payments, Announced>>
  BY KeyConstant DEF Announced
<1> QED
  BY <1>2, <1>3 DEF Purchases!Hear, Purchases!money

\* Steps of the order service.
LEMMA OrderStepImplements ==
    ASSUME Invariants, Invariants', Tie', [Next]_vars, UNCHANGED <<payments, queued>>
    PROVE  Purchases!Next \/ UNCHANGED Purchases!vars
<1>1. op' = op
  BY OpConstant
<1>2. UNCHANGED <<Keyed, payments, Announced>>
  BY <1>1, KeyConstant DEF Announced
<1>3. Purchases!L!Next \/ UNCHANGED Purchases!L!vars
  <2>1. OP!Control /\ [OP!Next]_OP!vars
    BY OrderModule, OrderSteps
       DEF Invariants, OP!IndInv, OP!Control, OP!AllLocalStates, OP!AllRowStates
  <2>2. OP!Refines
    BY <2>1, OrderConstants, OP!StepRefines
  <2> QED
    BY <2>2, LifeModule DEF OP!Refines
<1>4. /\ orders \in [Requests -> O!Statuses \cup {None}]
      /\ answer \in [Requests -> O!Answers]
  BY DEF Invariants, OP!IndInv, OP!TypeOK, OP!Statuses, O!Statuses, OP!Answers, O!Answers,
         OP!None, O!None, None
<1>5. ASSUME NEW r \in Requests, Purchases!L!Place(r) PROVE Purchases!Next
  BY <1>1, <1>4, <1>5, PlaceImplements DEF Purchases!Next
<1>6. ASSUME NEW r \in Requests, NEW a \in Purchases!L!Answers, Purchases!L!Hear(r, a)
      PROVE  Purchases!Next
  BY <1>1, <1>4, <1>6, HearImplements DEF Purchases!Next
<1>7. CASE Purchases!L!Abandon
  BY <1>2, <1>7 DEF Purchases!Next, Purchases!GoOn, Purchases!money
<1>8. ASSUME NEW r \in Requests,
             \/ Purchases!L!Settle(r)
             \/ \E p \in Requests : Purchases!L!Admit(r, p) \/ Purchases!L!Cancel(r, p)
             \/ Purchases!L!MarkPaid(r)
      PROVE  Purchases!Next
  BY <1>2, <1>8 DEF Purchases!Next, Purchases!GoOn, Purchases!money
<1>9. CASE UNCHANGED Purchases!L!vars
  BY <1>2, <1>9 DEF Purchases!vars, Purchases!money
<1> QED
  BY <1>3, <1>5, <1>6, <1>7, <1>8, <1>9 DEF Purchases!L!Next

\* The table of payments and the queue change only where the order service stands still.
LEMMA MoneyIsApart ==
    ASSUME [Next]_vars, ~UNCHANGED <<payments, queued>>
    PROVE  UNCHANGED orderVars
BY DEF Next, OrderStep, ReceiveReply, OrderCrash, ReceiveCall, CallStep, CallCancelled, PaymentMain,
       paymentVars, vars

\* Steps of the payment service.
LEMMA MoneyImplements ==
    ASSUME Invariants, Tie, [Next]_vars, ~UNCHANGED <<payments, queued>>
    PROVE  Purchases!Next
<1>1. UNCHANGED <<op, pc, answer, orders>>
  BY MoneyIsApart DEF orderVars
<1>2. UNCHANGED Purchases!L!vars /\ Keyed' = Keyed
  BY <1>1, KeyConstant
     DEF Purchases!L!vars, O!Open, O!Admitted, O!Cancelling, O!Unmarked, O!Creates
<1>3. \/ \E c \in Requests, s \in PP!Statuses :
           /\ callPc[c] = "insert" /\ payments[c] = PP!None
           /\ payments' = [payments EXCEPT ![c] = s] /\ queued' = queued
      \/ \E c \in Requests :
           /\ payments[c] = "Authorized" /\ queued[c] = 0
           /\ queued' = [queued EXCEPT ![c] = 1] /\ payments' = payments
  BY PaymentModule, PaymentSteps, PaymentConstants, PP!MoneyStep DEF Invariants
<1>4. ASSUME NEW c \in Requests, NEW s \in PP!Statuses,
             callPc[c] = "insert", payments[c] = PP!None,
             payments' = [payments EXCEPT ![c] = s], queued' = queued
      PROVE  Purchases!Next
  <2>1. orders[c] # None
    BY <1>4 DEF Tie, Tied
  <2>2. Purchases!Charge(c, s)
    BY <1>2, <1>4, <2>1 DEF Purchases!Charge, Purchases!None, PP!None, None, Announced
  <2> QED
    BY <2>2 DEF Purchases!Next, PP!Statuses
<1>5. ASSUME NEW c \in Requests, payments[c] = "Authorized", queued[c] = 0,
             queued' = [queued EXCEPT ![c] = 1], payments' = payments
      PROVE  Purchases!Next
  <2>1. queued \in [Requests -> 0 .. PP!MaxAttempts]
    BY DEF Invariants, PP!IInv, PP!TypeOK
  <2>2. c \notin Announced /\ Announced' = Announced \cup {c}
    BY <1>5, <2>1 DEF Announced
  <2>3. Purchases!Announce(c)
    BY <1>2, <1>5, <2>2 DEF Purchases!Announce
  <2> QED
    BY <2>3 DEF Purchases!Next
<1> QED
  BY <1>3, <1>4, <1>5

\* The two services together keep what Purchase promises: an order for a key, a
\* charge for an order, an answer that is the outcome of the charge, an announcement
\* for an authorised one -- over every interleaving, crash, lost statement, lost reply
\* and deadline of both.
THEOREM PurchaseImplemented == Spec => ImplementsPurchase
<1>1. Init => Purchases!Init
  <2> SUFFICES ASSUME Init PROVE Purchases!Init
    OBVIOUS
  <2>1. OP!Lifecycle!Init
    <3>1. OP!Init
      BY OrderModule DEF Init
    <3>2. OP!Open = {} /\ OP!Cancelling = {}
      BY <3>1 DEF OP!Init, OP!Open, OP!Cancelling
    <3>3. OP!Admitted = {}
      BY <3>2 DEF OP!Admitted
    <3> QED
      BY <3>1, <3>2, <3>3 DEF OP!Init, OP!Lifecycle!Init, OP!None, OP!Lifecycle!None
  <2>2. payments = [r \in Requests |-> Purchases!None] /\ Announced = {}
    BY DEF Init, P!Init, P!None, Purchases!None, Announced
  <2> QED
    BY <2>1, <2>2, LifeModule DEF Purchases!Init
<1>2. Invariants /\ Tie /\ Invariants' /\ Tie' /\ [Next]_vars
        => Purchases!Next \/ UNCHANGED Purchases!vars
  BY OrderStepImplements, MoneyImplements
<1> QED
  BY <1>1, <1>2, BothInvariants, TieInvariant, PTL DEF Spec, ImplementsPurchase, Purchases!Spec

=============================================================================
