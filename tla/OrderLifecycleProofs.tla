------------------------ MODULE OrderLifecycleProofs ------------------------
(***************************************************************************)
(* OrderService implements OrderLifecycle, for all its constants: the      *)
(* proof maps each step of a request to a step of the lifecycle, or to one *)
(* in which nothing but creators and cancellations are abandoned.          *)
(***************************************************************************)
EXTENDS OrderServiceProofs

USE DEF None, Lifecycle!None

Refines == Lifecycle!Next \/ UNCHANGED Lifecycle!vars

\* Steps that leave the table and the gateway's answers alone, and begin nothing.
LEMMA AbandonStep ==
    ASSUME op' = op, orders' = orders, answer' = answer,
           Open' \subseteq Open, Cancelling' \subseteq Cancelling
    PROVE  Refines
<1>1. Admitted' \subseteq Admitted
  BY DEF Admitted
<1>2. (Requests \ Unmarked)' = Requests \ Unmarked
  BY DEF Unmarked
<1> QED
  BY <1>1, <1>2 DEF Refines, Lifecycle!Next, Lifecycle!Abandon

\* A request that moves to a step other than the creator's authorize and update
\* and the canceller's update begins nothing.
LEMMA MoveOn ==
    ASSUME TypeOK, NEW r \in Requests, op' = op,
           \A q \in Requests \ {r} : pc'[q] = pc[q],
           \/ pc'[r] \notin {"authorize", "update"}
           \/ op[r].kind \notin {"create", "cancel"}
           \/ op[r].kind = "create" /\ pc[r] = "authorize"
    PROVE  Open' \subseteq Open /\ Cancelling' \subseteq Cancelling
BY DEF Open, Cancelling, Creates

\* The first statement that makes an order exist is its placing.
LEMMA InsertRefines ==
    ASSUME Control, NEW r \in Requests, Insert(r)
    PROVE  Refines
<1>1. Creates(r) /\ orders[r] = None /\ pc[r] = "insert"
  BY DEF Control, AllLocalStates, AllRowStates, LocalState, RowState, Insert
<1>2. op' = op /\ answer' = answer /\ pc \in [Requests -> ControlPoints]
  BY DEF Insert, Control, TypeOK
<1>3. Cancelling' = Cancelling
  BY <1>1, <1>2 DEF Cancelling, Creates, Insert, Reply, Goto
<1>4. Admitted' = Admitted /\ (Requests \ Unmarked)' = Requests \ Unmarked
  BY <1>2, <1>3 DEF Admitted, Unmarked
<1>5. PICK outcome \in Db(r) :
        LET stored == Applied(outcome) /\ ~KeyTaken(r) IN
        /\ orders' = IF stored THEN [orders EXCEPT ![r] = "Pending"] ELSE orders
        /\ IF stored /\ outcome = "ok"
             THEN Goto(r, "authorize") /\ UNCHANGED code
             ELSE Reply(r, "InternalServerError")
  BY DEF Insert
<1>6. Open' \in {Open, Open \cup {r}}
  BY <1>1, <1>2, <1>5 DEF Open, Creates, Reply, Goto
<1>7. CASE Applied(outcome) /\ ~KeyTaken(r)
  <2>1. orders' = [orders EXCEPT ![r] = "Pending"]
    BY <1>5, <1>7
  <2>2. Lifecycle!Place(r)
    BY <2>1, <1>1, <1>2, <1>4, <1>6 DEF Lifecycle!Place
  <2> QED
    BY <2>2 DEF Refines, Lifecycle!Next
<1>8. CASE ~(Applied(outcome) /\ ~KeyTaken(r))
  <2>1. orders' = orders /\ Open' \subseteq Open
    BY <1>1, <1>2, <1>5, <1>8 DEF Open, Creates, Reply, Goto
  <2> QED
    BY <2>1, <1>2, <1>3, AbandonStep
<1> QED
  BY <1>7, <1>8

\* The gateway is heard once, by the creator.
LEMMA HearRefines ==
    ASSUME Control, NEW r \in Requests, NEW a \in {"Authorized", "Declined", "error"},
           pc[r] = "authorize", answer' = [answer EXCEPT ![r] = a], Goto(r, "update"),
           op' = op, orders' = orders
    PROVE  Refines
<1>1. Creates(r) /\ answer[r] = None
  BY DEF Control, AllLocalStates, AllRowStates, LocalState, RowState
<1>2. pc \in [Requests -> ControlPoints]
  BY DEF Control, TypeOK
<1>3. r \in Open /\ Open' = Open
  BY <1>1, <1>2 DEF Open, Creates, Goto
<1>4. Cancelling' = Cancelling
  BY <1>1, <1>2 DEF Cancelling, Creates, Goto
<1>5. Admitted' = Admitted /\ (Requests \ Unmarked)' = Requests \ Unmarked
  BY <1>4 DEF Admitted, Unmarked
<1>6. Lifecycle!Hear(r, a)
  BY <1>1, <1>3, <1>5 DEF Lifecycle!Hear
<1> QED
  BY <1>6 DEF Refines, Lifecycle!Next, Lifecycle!Answers

\* The three kinds of UPDATE: the creator settles, a cancellation is carried out,
\* somebody marks the order paid.
LEMMA UpdateRefines ==
    ASSUME Control, NEW r \in Requests, UpdateStatus(r)
    PROVE  Refines
<1>1. /\ pc[r] = "update" /\ pc'[r] \notin {"authorize", "update"}
      /\ \A q \in Requests \ {r} : pc'[q] = pc[q]
      /\ op' = op /\ answer' = answer
  BY DEF UpdateStatus, UpdateFailed, Reply, Goto, Control, TypeOK
<1>2. LocalState(r) /\ RowState(r) /\ TypeOK
  BY DEF Control, AllLocalStates, AllRowStates
<1>3. op[r].id \in Requests /\ op[r].kind \in {"create", "get", "cancel", "markPaid"}
  BY <1>2, OpShape
<1>4. (Requests \ Unmarked)' = Requests \ Unmarked
  BY <1>1 DEF Unmarked
<1>5. Open' = Open \ {r} /\ Cancelling' = Cancelling \ {r}
  BY <1>1 DEF Open, Cancelling, Creates
<1>6. CASE orders' = orders
  BY <1>1, <1>5, <1>6, AbandonStep
<1>7. CASE orders' # orders
  <2>1. op[r].id \in Rows /\ orders' = [orders EXCEPT ![op[r].id] = status[r]]
    BY <1>7 DEF UpdateStatus
  <2>2. CASE op[r].kind = "create"
    <3>1. r \in Open /\ op[r].id = r
      BY <1>1, <1>2, <2>2, OpShape DEF Open, Creates
    <3>2. answer[r] # None /\ status[r] = Outcome(answer[r])
      BY <1>1, <1>2, <2>2 DEF LocalState, Closing, Creates
    <3>3. orders[r] \in {"Pending", "Cancelled"} \/ r \in Requests \ Unmarked
      BY <1>1, <1>2, <2>2 DEF RowState, Creates
    <3>4. Cancelling' = Cancelling
      BY <1>5, <2>2 DEF Cancelling
    <3>5. Admitted' = Admitted
      BY <1>1, <3>4 DEF Admitted
    <3>6. Lifecycle!Settle(r)
      BY <1>1, <1>4, <1>5, <2>1, <3>1, <3>2, <3>3, <3>5 DEF Lifecycle!Settle, Outcome
    <3> QED
      BY <3>6 DEF Refines, Lifecycle!Next
  <2>3. CASE op[r].kind = "cancel"
    <3>1. status[r] = "Cancelled"
      BY <1>1, <1>2, <2>3 DEF LocalState, Closing
    <3>2. r \in Cancelling /\ Open' = Open
      BY <1>1, <1>5, <2>3 DEF Cancelling, Open, Creates
    <3>3. <<op[r].id, r>> \in Admitted
      BY <3>2 DEF Admitted
    <3>4. Admitted' = Admitted \ {<<op[r].id, r>>}
      BY <1>1, <1>5 DEF Admitted
    <3>5. Lifecycle!Cancel(op[r].id, r)
      BY <1>1, <1>4, <2>1, <3>1, <3>2, <3>3, <3>4 DEF Lifecycle!Cancel
    <3> QED
      BY <1>3, <3>5 DEF Refines, Lifecycle!Next
  <2>4. CASE op[r].kind = "markPaid"
    <3>1. status[r] = "Paid"
      BY <1>1, <1>2, <2>4 DEF LocalState, Closing
    <3>2. op[r].id \in Requests \ Unmarked /\ orders[op[r].id] # None
      BY <1>3, <2>1, <2>4 DEF Unmarked, Rows
    <3>3. Open' = Open /\ Cancelling' = Cancelling
      BY <1>5, <2>4 DEF Open, Cancelling, Creates
    <3>4. Admitted' = Admitted
      BY <1>1, <3>3 DEF Admitted
    <3>5. Lifecycle!MarkPaid(op[r].id)
      BY <1>1, <1>4, <2>1, <3>1, <3>2, <3>3, <3>4 DEF Lifecycle!MarkPaid
    <3> QED
      BY <1>3, <3>5 DEF Refines, Lifecycle!Next
  <2>5. CASE op[r].kind = "get"
    BY <1>1, <1>2, <2>5 DEF LocalState
  <2> QED
    BY <1>3, <2>2, <2>3, <2>4, <2>5
<1> QED
  BY <1>6, <1>7

\* A cancellation is admitted by the row that Load has found Pending.
LEMMA LoadRefines ==
    ASSUME Control, NEW r \in Requests, Load(r)
    PROVE  Refines
<1>1. /\ pc[r] = "load" /\ \A q \in Requests \ {r} : pc'[q] = pc[q]
      /\ op' = op /\ answer' = answer /\ orders' = orders
  BY DEF Load, LoadedRow, Reply, Goto, Control, TypeOK, shared
<1>2. TypeOK /\ ~Creates(r) /\ op[r].id \in Requests
  BY <1>1, OpShape DEF Control, AllLocalStates, LocalState
<1>3. Open' = Open
  BY <1>1, <1>2 DEF Open, Creates
<1>4. CASE op[r].kind = "cancel" /\ orders[op[r].id] = "Pending" /\ pc'[r] = "update"
  <2>1. Cancelling' = Cancelling \cup {r}
    BY <1>1, <1>4 DEF Cancelling
  <2>2. Admitted' = Admitted \cup {<<op[r].id, r>>}
    BY <1>1, <2>1 DEF Admitted
  <2>3. (Requests \ Unmarked)' = Requests \ Unmarked
    BY <1>1 DEF Unmarked
  <2>4. Lifecycle!Admit(op[r].id, r)
    BY <1>1, <1>3, <1>4, <2>2, <2>3 DEF Lifecycle!Admit
  <2> QED
    BY <1>2, <2>4 DEF Refines, Lifecycle!Next
<1>5. CASE pc'[r] # "update"
  <2>1. Cancelling' \subseteq Cancelling
    BY <1>1, <1>5 DEF Cancelling
  <2> QED
    BY <1>1, <1>3, <2>1, AbandonStep
<1>6. pc'[r] = "update" => op[r].kind = "cancel" /\ orders[op[r].id] = "Pending"
  BY <1>1, <1>2 DEF Load, LoadedRow, Reply, Goto, TypeOK
<1> QED
  BY <1>4, <1>5, <1>6

\* Every step of the service is one of the lifecycle, or none.
LEMMA StepRefines ==
    ASSUME Control, [Next]_vars
    PROVE  Refines
<1> USE DEF local, shared
<1>0. TypeOK /\ pc \in [Requests -> ControlPoints]
  BY DEF Control, TypeOK
<1>1. ASSUME NEW r \in Requests,
             RejectAmount(r) \/ BeginCreate(r) \/ LookupKey(r) \/ Notify(r) \/ Fill(r)
               \/ Invalidate(r) \/ CacheGet(r)
      PROVE  Refines
  <2>1. /\ op' = op /\ answer' = answer /\ orders' = orders
        /\ \A q \in Requests \ {r} : pc'[q] = pc[q]
        /\ pc'[r] \notin {"authorize", "update"}
    BY <1>0, <1>1 DEF RejectAmount, BeginCreate, LookupKey, Notify, Fill, Invalidate, CacheGet,
                      Reply, Goto
  <2> QED
    BY <1>0, <2>1, MoveOn, AbandonStep
<1>2. ASSUME NEW r \in Requests, BeginOther(r) PROVE Refines
  <2>1. /\ op' = op /\ answer' = answer /\ orders' = orders
        /\ \A q \in Requests \ {r} : pc'[q] = pc[q]
        /\ pc'[r] \notin {"authorize", "update"} \/ op[r].kind \notin {"create", "cancel"}
    BY <1>0, <1>2, OpShape DEF BeginOther, Goto, Creates
  <2> QED
    BY <1>0, <2>1, MoveOn, AbandonStep
<1>3. ASSUME NEW r \in Requests, Insert(r) PROVE Refines
  BY <1>3, InsertRefines
<1>4. ASSUME NEW r \in Requests, PaymentError(r) PROVE Refines
  BY <1>4, HearRefines DEF PaymentError
<1>5. ASSUME NEW r \in Requests, NEW s \in {"Authorized", "Declined"}, PaymentAnswered(r, s)
      PROVE  Refines
  BY <1>5, HearRefines DEF PaymentAnswered
<1>6. ASSUME NEW r \in Requests, UpdateStatus(r) PROVE Refines
  BY <1>6, UpdateRefines
<1>7. ASSUME NEW r \in Requests, Load(r) PROVE Refines
  BY <1>7, LoadRefines
<1>8. ASSUME NEW r \in Requests, Expire(r) \/ Disconnect(r) PROVE Refines
  <2>1. op' = op /\ answer' = answer /\ orders' = orders /\ pc' = pc
    BY <1>8 DEF Expire, Disconnect
  <2> QED
    BY <2>1, AbandonStep DEF Open, Cancelling, Creates
<1>9. CASE Crash
  <2>1. /\ op' = op /\ answer' = answer /\ orders' = orders
        /\ \A r \in Requests : pc'[r] \in {pc[r], "dead"}
    BY <1>9 DEF Crash
  <2> QED
    BY <2>1, AbandonStep DEF Open, Cancelling, Creates
<1>10. CASE UNCHANGED vars
  <2>1. op' = op /\ answer' = answer /\ orders' = orders /\ pc' = pc
    BY <1>10 DEF vars
  <2> QED
    BY <2>1, AbandonStep DEF Open, Cancelling, Creates
<1> QED
  BY <1>1, <1>2, <1>3, <1>4, <1>5, <1>6, <1>7, <1>8, <1>9, <1>10 DEF Next, Handler

-----------------------------------------------------------------------------

\* Whatever the number of requests, their interleaving and the calls that fail,
\* orders live as OrderLifecycle says: placed once, settled once by what the
\* gateway said, cancelled only by a cancellation that has seen them Pending.
THEOREM LifecycleImplemented == Spec => ImplementsLifecycle
<1>1. Init => Lifecycle!Init
  <2> SUFFICES ASSUME Init PROVE Lifecycle!Init
    OBVIOUS
  <2>1. \A r \in Requests : pc[r] = "idle"
    BY DEF Init
  <2>2. Open = {} /\ Cancelling = {}
    BY <2>1 DEF Open, Cancelling
  <2>3. Admitted = {}
    BY <2>2 DEF Admitted
  <2>4. Requests \ Unmarked \subseteq Requests
    OBVIOUS
  <2> QED
    BY <2>2, <2>3, <2>4 DEF Init, Lifecycle!Init
<1>2. Control /\ [Next]_vars => [Lifecycle!Next]_(Lifecycle!vars)
  BY StepRefines DEF Refines
<1> QED
  BY <1>1, <1>2, ControlInvariant, PTL DEF Spec, ImplementsLifecycle, Lifecycle!Spec

=============================================================================
