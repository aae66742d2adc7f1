------------------------- MODULE OrderServiceProofs -------------------------
(***************************************************************************)
(* Proofs about OrderService for every set of requests, keys and amounts,  *)
(* every failure mode of Postgres and Redis, and crashes and disconnects   *)
(* at any step.                                                            *)
(***************************************************************************)
EXTENDS OrderService, TLAPS

USE DEF None

-----------------------------------------------------------------------------
(* Types *)

\* The members of the enumerations, so that proofs need not expand them.
LEMMA Names ==
    /\ \A step \in Steps : step \in ControlPoints
    /\ {"idle", "done", "dead"} \subseteq ControlPoints
    /\ {"lookup", "insert", "authorize", "cacheGet", "load",
        "update", "notify", "fill", "invalidate"} \subseteq ControlPoints
    /\ {"None", "OK", "Created", "BadRequest", "NotFound", "Conflict",
        "UnprocessableEntity", "InternalServerError", "ServiceUnavailable"} \subseteq Codes
    /\ {"None", "Authorized", "Declined", "error"} \subseteq Answers
    /\ {"Pending", "Paid", "Failed", "Cancelled"} \subseteq Statuses
    /\ "None" \notin Statuses
BY DEF ControlPoints, Steps, Codes, Answers, Statuses

\* Every operation names an existing request and a known kind; a creator names
\* itself.
LEMMA OpShape ==
    ASSUME TypeOK, NEW r \in Requests
    PROVE  /\ op[r].id \in Requests
           /\ op[r].kind \in {"create", "get", "cancel", "markPaid"}
           /\ Creates(r) => op[r].id = r
BY ConstantsAssumption DEF TypeOK, Ops, Creates

\* What a request writes to the table and announces is a status, never the
\* absence of one: with it, TypeOK is inductive.
WritesStatus ==
    \A r \in Requests : pc[r] \in {"update", "notify"} => status[r] \in Statuses

\* Whatever happens, the variables keep their types: in particular the status
\* of an order is only ever one of the four constants of domain/order.go.
THEOREM TypeInvariant == Spec => []TypeOK
<1>1. Init => TypeOK /\ WritesStatus
  BY Names DEF Init, TypeOK, Ops, WritesStatus
<1>2. TypeOK /\ WritesStatus /\ [Next]_vars => TypeOK' /\ WritesStatus'
  <2> SUFFICES ASSUME TypeOK, WritesStatus, [Next]_vars PROVE TypeOK' /\ WritesStatus'
    OBVIOUS
  <2> USE Names DEF local, shared
  <2>a. pc \in [Requests -> ControlPoints]
    BY DEF TypeOK
  <2>b. subject \in [Requests -> Requests]
    BY DEF TypeOK
  <2>c. status \in [Requests -> Statuses \cup {None}]
    BY DEF TypeOK
  <2>d. code \in [Requests -> Codes]
    BY DEF TypeOK
  <2>e. orders \in [Requests -> Statuses \cup {None}]
    BY DEF TypeOK
  <2>f. cache \in [Requests -> Statuses \cup {None}]
    BY DEF TypeOK
  <2>1. ASSUME NEW r \in Requests, RejectAmount(r) PROVE TypeOK' /\ WritesStatus'
    BY <2>1 DEF TypeOK, WritesStatus, RejectAmount, Reply, Goto
  <2>2. ASSUME NEW r \in Requests, BeginCreate(r) PROVE TypeOK' /\ WritesStatus'
    BY <2>2 DEF TypeOK, WritesStatus, BeginCreate, Goto
  <2>3. ASSUME NEW r \in Requests, BeginOther(r) PROVE TypeOK' /\ WritesStatus'
    <3>1. pc' \in [Requests -> ControlPoints]
      BY <2>3, <2>a, OpShape DEF BeginOther, Goto
    <3>2. status' \in [Requests -> Statuses \cup {None}]
      BY <2>3, <2>c, <2>e, <2>f, OpShape DEF BeginOther
    <3>3. WritesStatus'
      BY <2>3, <2>a, <2>c, <2>e, <2>f, OpShape DEF WritesStatus, BeginOther, Goto, Creates
    <3> QED
      BY <2>3, <3>1, <3>2, <3>3 DEF TypeOK, BeginOther
  <2>4. ASSUME NEW r \in Requests, LookupKey(r) PROVE TypeOK' /\ WritesStatus'
    <3>1. pc' \in [Requests -> ControlPoints]
      BY <2>4, <2>a DEF LookupKey, Reply, Goto
    <3>2. code' \in [Requests -> Codes]
      BY <2>4, <2>d DEF LookupKey, Reply
    <3>3. subject' \in [Requests -> Requests]
      BY <2>4, <2>b DEF LookupKey, RowsWithKey, Rows
    <3>4. status' \in [Requests -> Statuses \cup {None}]
      BY <2>4, <2>c, <2>e, <2>f DEF LookupKey, RowsWithKey, Rows
    <3>5. WritesStatus'
      BY <2>4, <2>a, <2>c, <2>e, <2>f DEF WritesStatus, LookupKey, Reply, Goto
    <3> QED
      BY <2>4, <3>1, <3>2, <3>3, <3>4, <3>5 DEF TypeOK, LookupKey
  <2>5. ASSUME NEW r \in Requests, Insert(r) PROVE TypeOK' /\ WritesStatus'
    <3>1. pc' \in [Requests -> ControlPoints]
      BY <2>5, <2>a DEF Insert, Reply, Goto
    <3>2. code' \in [Requests -> Codes]
      BY <2>5, <2>d DEF Insert, Reply
    <3>3. status' \in [Requests -> Statuses \cup {None}]
      BY <2>5, <2>c, <2>e, <2>f DEF Insert
    <3>4. orders' \in [Requests -> Statuses \cup {None}]
      BY <2>5, <2>c, <2>e DEF Insert
    <3>5. WritesStatus'
      BY <2>5, <2>a, <2>c, <2>e, <2>f DEF WritesStatus, Insert, Reply, Goto
    <3> QED
      BY <2>5, <3>1, <3>2, <3>3, <3>4, <3>5 DEF TypeOK, Insert
  <2>6. ASSUME NEW r \in Requests, PaymentError(r) PROVE TypeOK' /\ WritesStatus'
    BY <2>6 DEF TypeOK, WritesStatus, PaymentError, Goto
  <2>7. ASSUME NEW r \in Requests, NEW s \in {"Authorized", "Declined"}, PaymentAnswered(r, s)
        PROVE TypeOK' /\ WritesStatus'
    BY <2>7 DEF TypeOK, WritesStatus, PaymentAnswered, Goto
  <2>8. ASSUME NEW r \in Requests, UpdateStatus(r) PROVE TypeOK' /\ WritesStatus'
    <3>1. pc' \in [Requests -> ControlPoints]
      BY <2>8, <2>a DEF UpdateStatus, UpdateFailed, Reply, Goto
    <3>2. code' \in [Requests -> Codes]
      BY <2>8, <2>d DEF UpdateStatus, UpdateFailed, Reply
    <3>3. orders' \in [Requests -> Statuses \cup {None}]
      BY <2>8, <2>c, <2>e DEF UpdateStatus
    <3>4. WritesStatus'
      BY <2>8, <2>a, <2>c, <2>e, <2>f DEF WritesStatus, UpdateStatus, UpdateFailed, Reply, Goto
    <3> QED
      BY <2>8, <3>1, <3>2, <3>3, <3>4 DEF TypeOK, UpdateStatus
  <2>9. ASSUME NEW r \in Requests, Notify(r) PROVE TypeOK' /\ WritesStatus'
    <3>1. Append(notified[op[r].id], status[r]) \in Seq(Statuses)
      BY <2>9, OpShape DEF TypeOK, WritesStatus, Notify
    <3>2. notified' \in [Requests -> Seq(Statuses)]
      BY <2>9, <3>1 DEF TypeOK, Notify
    <3> QED
      BY <2>9, <3>2 DEF TypeOK, WritesStatus, Notify, Goto
  <2>10. ASSUME NEW r \in Requests, Fill(r) PROVE TypeOK' /\ WritesStatus'
    BY <2>10 DEF TypeOK, WritesStatus, Fill, FinalCode, Reply, Goto
  <2>11. ASSUME NEW r \in Requests, Invalidate(r) PROVE TypeOK' /\ WritesStatus'
    BY <2>11, OpShape DEF TypeOK, WritesStatus, Invalidate, FinalCode, Reply, Goto
  <2>12. ASSUME NEW r \in Requests, CacheGet(r) PROVE TypeOK' /\ WritesStatus'
    <3>1. pc' \in [Requests -> ControlPoints]
      BY <2>12, <2>a, OpShape DEF CacheGet, Reply, Goto
    <3>2. code' \in [Requests -> Codes]
      BY <2>12, <2>d, OpShape DEF CacheGet, Reply
    <3>3. status' \in [Requests -> Statuses \cup {None}]
      BY <2>12, <2>c, <2>e, <2>f, OpShape DEF CacheGet
    <3>4. WritesStatus'
      BY <2>12, <2>a, <2>c, <2>e, <2>f, OpShape DEF WritesStatus, CacheGet, Reply, Goto
    <3> QED
      BY <2>12, <3>1, <3>2, <3>3, <3>4 DEF TypeOK, CacheGet
  <2>13. ASSUME NEW r \in Requests, Load(r) PROVE TypeOK' /\ WritesStatus'
    <3>1. pc' \in [Requests -> ControlPoints]
      BY <2>13, <2>a, OpShape DEF Load, LoadedRow, Reply, Goto
    <3>2. code' \in [Requests -> Codes]
      BY <2>13, <2>d, OpShape DEF Load, LoadedRow, Reply
    <3>3. status' \in [Requests -> Statuses \cup {None}]
      BY <2>13, <2>c, <2>e, <2>f, OpShape DEF Load, LoadedRow
    <3>4. WritesStatus'
      BY <2>13, <2>a, <2>c, <2>e, <2>f, OpShape DEF WritesStatus, Load, LoadedRow, Reply, Goto
    <3> QED
      BY <2>13, <3>1, <3>2, <3>3, <3>4 DEF TypeOK, Load
  <2>14. ASSUME NEW r \in Requests, Expire(r) PROVE TypeOK' /\ WritesStatus'
    BY <2>14 DEF TypeOK, WritesStatus, Expire
  <2>15. ASSUME NEW r \in Requests, Disconnect(r) PROVE TypeOK' /\ WritesStatus'
    BY <2>15 DEF TypeOK, WritesStatus, Disconnect
  <2>16. CASE Crash
    BY <2>16 DEF TypeOK, WritesStatus, Crash
  <2>17. CASE UNCHANGED vars
    BY <2>17 DEF TypeOK, WritesStatus, vars
  <2> QED
    BY <2>1, <2>2, <2>3, <2>4, <2>5, <2>6, <2>7, <2>8, <2>9, <2>10, <2>11, <2>12,
       <2>13, <2>14, <2>15, <2>16, <2>17 DEF Next, Handler
<1> QED
  BY <1>1, <1>2, PTL DEF Spec

-----------------------------------------------------------------------------
(* The control of a request *)

USE DEF local, shared

\* What TypeOK says of each variable, so that proofs cite one fact and not the whole.
LEMMA Domains ==
    ASSUME TypeOK
    PROVE  /\ pc \in [Requests -> ControlPoints]
           /\ subject \in [Requests -> Requests]
           /\ status \in [Requests -> Statuses \cup {None}]
           /\ answer \in [Requests -> Answers]
           /\ code \in [Requests -> Codes]
           /\ orders \in [Requests -> Statuses \cup {None}]
           /\ cache \in [Requests -> Statuses \cup {None}]
BY DEF TypeOK

AllLocalStates == \A r \in Requests : LocalState(r)

\* What a request holds at each of its control points.
LEMMA LocalStateStep ==
    ASSUME TypeOK, AllLocalStates, [Next]_vars
    PROVE  AllLocalStates'
<1> SUFFICES ASSUME NEW q \in Requests PROVE LocalState(q)'
  BY DEF AllLocalStates
<1>1. ASSUME NEW r \in Requests, RejectAmount(r) PROVE LocalState(q)'
  BY <1>1, Domains, OpShape
     DEF RejectAmount, Reply, Goto, Closing, AllLocalStates, LocalState, Creates
<1>2. ASSUME NEW r \in Requests, BeginCreate(r) PROVE LocalState(q)'
  BY <1>2, Domains, OpShape
     DEF BeginCreate, Goto, Closing, AllLocalStates, LocalState, Creates
<1>3. ASSUME NEW r \in Requests, BeginOther(r) PROVE LocalState(q)'
  BY <1>3, Domains, OpShape
     DEF BeginOther, Goto, Closing, AllLocalStates, LocalState, Creates
<1>4. ASSUME NEW r \in Requests, LookupKey(r) PROVE LocalState(q)'
  BY <1>4, Domains, OpShape
     DEF LookupKey, Reply, Goto, Closing, AllLocalStates, LocalState, Creates
<1>5. ASSUME NEW r \in Requests, Insert(r) PROVE LocalState(q)'
  BY <1>5, Domains, OpShape
     DEF Insert, Reply, Goto, Closing, AllLocalStates, LocalState, Creates
<1>6. ASSUME NEW r \in Requests, PaymentError(r) PROVE LocalState(q)'
  BY <1>6, Domains, OpShape
     DEF PaymentError, Goto, Closing, Outcome, AllLocalStates, LocalState, Creates
<1>7. ASSUME NEW r \in Requests, NEW s \in {"Authorized", "Declined"}, PaymentAnswered(r, s)
     PROVE LocalState(q)'
  BY <1>7, Domains, OpShape
     DEF PaymentAnswered, Goto, Closing, Outcome, AllLocalStates, LocalState, Creates
<1>8. ASSUME NEW r \in Requests, UpdateStatus(r) PROVE LocalState(q)'
  BY <1>8, Domains, OpShape
     DEF UpdateStatus, UpdateFailed, Reply, Goto, Closing, AllLocalStates, LocalState, Creates
<1>9. ASSUME NEW r \in Requests, Notify(r) PROVE LocalState(q)'
  BY <1>9, Domains, OpShape
     DEF Notify, Goto, Closing, Outcome, AllLocalStates, LocalState, Creates
<1>10. ASSUME NEW r \in Requests, Fill(r) PROVE LocalState(q)'
  BY <1>10, Domains, OpShape
     DEF Fill, Reply, Goto, Closing, AllLocalStates, LocalState, Creates
<1>11. ASSUME NEW r \in Requests, Invalidate(r) PROVE LocalState(q)'
  BY <1>11, Domains, OpShape
     DEF Invalidate, Reply, Goto, Closing, AllLocalStates, LocalState, Creates
<1>12. ASSUME NEW r \in Requests, CacheGet(r) PROVE LocalState(q)'
  BY <1>12, Domains, OpShape
     DEF CacheGet, Reply, Goto, Closing, AllLocalStates, LocalState, Creates
<1>13. ASSUME NEW r \in Requests, Load(r) PROVE LocalState(q)'
  BY <1>13, Domains, OpShape
     DEF Load, LoadedRow, Reply, Goto, Closing, AllLocalStates, LocalState, Creates
<1>14. ASSUME NEW r \in Requests, Expire(r) PROVE LocalState(q)'
  BY <1>14, Domains, OpShape
     DEF Expire, AllLocalStates, LocalState, Creates
<1>15. ASSUME NEW r \in Requests, Disconnect(r) PROVE LocalState(q)'
  BY <1>15, Domains, OpShape
     DEF Disconnect, AllLocalStates, LocalState, Creates
<1>16. CASE Crash
  BY <1>16, Domains, OpShape
     DEF Crash, Active, Closing, Steps, AllLocalStates, LocalState, Creates
<1>17. CASE UNCHANGED vars
  BY <1>17, Domains, OpShape
     DEF vars, AllLocalStates, LocalState, Creates
<1> QED
  BY <1>1, <1>2, <1>3, <1>4, <1>5, <1>6, <1>7, <1>8, <1>9,
     <1>10, <1>11, <1>12, <1>13, <1>14, <1>15, <1>16, <1>17 DEF Next, Handler

AllRowStates == \A r \in Requests : RowState(r)

\* The row of an order follows its creator: not there before the INSERT, and
\* settled by nobody else than the creator, but for a cancellation.
LEMMA RowStateStep ==
    ASSUME TypeOK, AllLocalStates, AllRowStates, [Next]_vars
    PROVE  AllRowStates'
<1> SUFFICES ASSUME NEW q \in Requests PROVE RowState(q)'
  BY DEF AllRowStates
<1>1. ASSUME NEW r \in Requests, RejectAmount(r) PROVE RowState(q)'
  BY <1>1, Domains, OpShape
     DEF RejectAmount, Reply, Goto, AllLocalStates, LocalState, AllRowStates, RowState, Unmarked, Creates
<1>2. ASSUME NEW r \in Requests, BeginCreate(r) PROVE RowState(q)'
  BY <1>2, Domains, OpShape
     DEF BeginCreate, Goto, AllLocalStates, LocalState, AllRowStates, RowState, Unmarked, Creates
<1>3. ASSUME NEW r \in Requests, BeginOther(r) PROVE RowState(q)'
  BY <1>3, Domains, OpShape
     DEF BeginOther, Goto, AllLocalStates, LocalState, AllRowStates, RowState, Unmarked, Creates
<1>4. ASSUME NEW r \in Requests, LookupKey(r) PROVE RowState(q)'
  BY <1>4, Domains, OpShape
     DEF LookupKey, Reply, Goto, AllLocalStates, LocalState, AllRowStates, RowState, Unmarked, Creates
<1>5. ASSUME NEW r \in Requests, Insert(r) PROVE RowState(q)'
  BY <1>5, Domains, OpShape
     DEF Insert, Reply, Goto, Rows, AllLocalStates, LocalState, AllRowStates, RowState, Unmarked, Creates
<1>6. ASSUME NEW r \in Requests, PaymentError(r) PROVE RowState(q)'
  BY <1>6, Domains, OpShape
     DEF PaymentError, Goto, Statuses, AllLocalStates, LocalState, AllRowStates, RowState, Unmarked, Creates
<1>7. ASSUME NEW r \in Requests, NEW s \in {"Authorized", "Declined"}, PaymentAnswered(r, s)
     PROVE RowState(q)'
  BY <1>7, Domains, OpShape
     DEF PaymentAnswered, Goto, Statuses, AllLocalStates, LocalState, AllRowStates, RowState, Unmarked, Creates
<1>8. ASSUME NEW r \in Requests, UpdateStatus(r) PROVE RowState(q)'
  <2>1. CASE q # op[r].id
    BY <1>8, <2>1, Domains, OpShape
       DEF UpdateStatus, UpdateFailed, Reply, Goto, AllRowStates, RowState, Unmarked, Creates
  <2>2. CASE q = op[r].id /\ orders' = orders
    BY <1>8, <2>2, Domains, OpShape
       DEF UpdateStatus, UpdateFailed, Reply, Goto, AllRowStates, RowState, Unmarked, Creates
  <2>3. CASE q = op[r].id /\ orders' # orders
    <3>1. orders[q] # None /\ orders'[q] = status[r]
      BY <1>8, <2>3, Domains, OpShape DEF UpdateStatus, Rows
    <3>2. status[r] # None
      BY <1>8, Domains, OpShape DEF UpdateStatus, AllLocalStates, LocalState, Closing, Creates, Outcome
    <3>3. CASE Creates(r)
      BY <1>8, <2>3, <3>1, <3>2, <3>3, Domains, OpShape
         DEF UpdateStatus, UpdateFailed, Reply, Goto, AllRowStates, RowState, Unmarked, Creates,
             AllLocalStates, LocalState, Closing, Outcome, Answers
    <3>4. CASE ~Creates(r)
      BY <1>8, <2>3, <3>1, <3>2, <3>4, Domains, OpShape
         DEF UpdateStatus, UpdateFailed, Reply, Goto, AllRowStates, RowState, Unmarked, Creates,
             AllLocalStates, LocalState, Closing
    <3> QED
      BY <3>3, <3>4
  <2> QED
    BY <2>1, <2>2, <2>3
<1>9. ASSUME NEW r \in Requests, Notify(r) PROVE RowState(q)'
  BY <1>9, Domains, OpShape
     DEF Notify, Goto, AllLocalStates, LocalState, AllRowStates, RowState, Unmarked, Creates
<1>10. ASSUME NEW r \in Requests, Fill(r) PROVE RowState(q)'
  BY <1>10, Domains, OpShape
     DEF Fill, Reply, Goto, AllLocalStates, LocalState, AllRowStates, RowState, Unmarked, Creates
<1>11. ASSUME NEW r \in Requests, Invalidate(r) PROVE RowState(q)'
  BY <1>11, Domains, OpShape
     DEF Invalidate, Reply, Goto, AllLocalStates, LocalState, AllRowStates, RowState, Unmarked, Creates
<1>12. ASSUME NEW r \in Requests, CacheGet(r) PROVE RowState(q)'
  BY <1>12, Domains, OpShape
     DEF CacheGet, Reply, Goto, AllLocalStates, LocalState, AllRowStates, RowState, Unmarked, Creates
<1>13. ASSUME NEW r \in Requests, Load(r) PROVE RowState(q)'
  BY <1>13, Domains, OpShape
     DEF Load, LoadedRow, Reply, Goto, Rows, AllLocalStates, LocalState, AllRowStates, RowState, Unmarked, Creates
<1>14. ASSUME NEW r \in Requests, Expire(r) PROVE RowState(q)'
  BY <1>14, Domains, OpShape
     DEF Expire, AllLocalStates, LocalState, AllRowStates, RowState, Unmarked, Creates
<1>15. ASSUME NEW r \in Requests, Disconnect(r) PROVE RowState(q)'
  BY <1>15, Domains, OpShape
     DEF Disconnect, AllLocalStates, LocalState, AllRowStates, RowState, Unmarked, Creates
<1>16. CASE Crash
  BY <1>16, Domains, OpShape
     DEF Crash, Active, AllLocalStates, LocalState, AllRowStates, RowState, Unmarked, Creates
<1>17. CASE UNCHANGED vars
  BY <1>17, Domains, OpShape
     DEF vars, AllLocalStates, LocalState, AllRowStates, RowState, Unmarked, Creates
<1> QED
  BY <1>1, <1>2, <1>3, <1>4, <1>5, <1>6, <1>7, <1>8, <1>9,
     <1>10, <1>11, <1>12, <1>13, <1>14, <1>15, <1>16, <1>17 DEF Next, Handler

-----------------------------------------------------------------------------
(* What may happen to a row *)

\* The cases of MayBecome.
LEMMA MayBecomeOrder ==
    /\ \A u \in Statuses : u \in MayBecome[u] /\ MayBecome[u] \subseteq Statuses
    /\ \A u \in Statuses : "Cancelled" \in MayBecome[u]
    /\ \A u \in {"Pending", "Cancelled"} : {"Paid", "Failed"} \subseteq MayBecome[u]
    /\ \A u \in {"Paid", "Failed", "Cancelled"} : "Pending" \notin MayBecome[u]
<1>1. \A u, v \in Statuses :
         v \in MayBecome[u] <=> \/ v \in {u, "Cancelled"}
                                \/ u = "Pending"
                                \/ u = "Cancelled" /\ v # "Pending"
  BY DEF MayBecome
<1>2. \A u \in Statuses : MayBecome[u] \subseteq Statuses
  BY DEF MayBecome
<1>3. \A u \in Statuses : u \in MayBecome[u] /\ "Cancelled" \in MayBecome[u]
  BY <1>1, Names
<1>4. \A u \in {"Pending", "Cancelled"} : {"Paid", "Failed"} \subseteq MayBecome[u]
  BY <1>1, Names
<1>5. \A u \in {"Paid", "Failed", "Cancelled"} : "Pending" \notin MayBecome[u]
  BY <1>1, Names
<1> QED
  BY <1>2, <1>3, <1>4, <1>5

\* Only an INSERT and an UPDATE change the table.
LEMMA TableWrites ==
    ASSUME [Next]_vars
    PROVE  \/ orders' = orders
           \/ \E r \in Requests : Insert(r) \/ UpdateStatus(r)
BY DEF Next, Handler, vars, RejectAmount, BeginCreate, BeginOther, LookupKey, PaymentError,
       PaymentAnswered, Notify, Fill, Invalidate, CacheGet, Load, Expire, Disconnect, Crash

RowKeepsOutcome(id) ==
    orders[id] # None =>
        /\ orders'[id] \notin {None, "Pending"} \ {orders[id]}
        /\ id \in Unmarked => orders'[id] \in MayBecome[orders[id]]

\* No step loses the outcome of an order.
LEMMA RowStep ==
    ASSUME TypeOK, AllLocalStates, AllRowStates, [Next]_vars
    PROVE  \A id \in Requests : RowKeepsOutcome(id)
<1> SUFFICES ASSUME NEW id \in Requests PROVE RowKeepsOutcome(id)
  OBVIOUS
<1>1. CASE orders' = orders
  BY <1>1, Domains, MayBecomeOrder DEF RowKeepsOutcome
<1>2. ASSUME NEW r \in Requests, Insert(r) PROVE RowKeepsOutcome(id)
  <2>1. orders[r] = None
    BY <1>2 DEF Insert, AllRowStates, RowState
  <2> QED
    BY <1>2, <2>1, Domains, MayBecomeOrder DEF Insert, RowKeepsOutcome
<1>3. ASSUME NEW r \in Requests, UpdateStatus(r), orders' # orders, id = op[r].id, orders[id] # None
      PROVE  RowKeepsOutcome(id)
  <2>1. orders'[id] = status[r]
    BY <1>3, Domains DEF UpdateStatus
  <2>2. CASE Creates(r)
    <3>1. status[r] \in {"Paid", "Failed"}
      BY <1>3, <2>2 DEF UpdateStatus, AllLocalStates, LocalState, Closing, Outcome
    <3>2. id = r /\ (r \in Unmarked => orders[id] \in {"Pending", "Cancelled"})
      BY <1>3, <2>2, OpShape DEF UpdateStatus, AllRowStates, RowState
    <3> QED
      BY <2>1, <3>1, <3>2, MayBecomeOrder DEF RowKeepsOutcome
  <2>3. CASE op[r].kind = "markPaid"
    <3>1. status[r] = "Paid" /\ id \notin Unmarked
      BY <1>3, <2>3 DEF UpdateStatus, AllLocalStates, LocalState, Closing, Unmarked
    <3> QED
      BY <2>1, <3>1 DEF RowKeepsOutcome
  <2>4. CASE op[r].kind = "cancel"
    <3>1. status[r] = "Cancelled"
      BY <1>3, <2>4 DEF UpdateStatus, AllLocalStates, LocalState, Closing
    <3> QED
      BY <1>3, <2>1, <3>1, Domains, MayBecomeOrder DEF RowKeepsOutcome
  <2>5. op[r].kind # "get"
    BY <1>3 DEF UpdateStatus, AllLocalStates, LocalState
  <2> QED
    BY <2>2, <2>3, <2>4, <2>5, OpShape DEF Creates
<1>4. ASSUME NEW r \in Requests, UpdateStatus(r), orders' # orders, id # op[r].id
      PROVE  RowKeepsOutcome(id)
  <2>1. orders'[id] = orders[id]
    BY <1>4, Domains, OpShape DEF UpdateStatus
  <2> QED
    BY <2>1, Domains, MayBecomeOrder DEF RowKeepsOutcome
<1>5. CASE orders[id] = None
  BY <1>5 DEF RowKeepsOutcome
<1> QED
  BY <1>1, <1>2, <1>3, <1>4, <1>5, TableWrites

Control == TypeOK /\ AllLocalStates /\ AllRowStates

\* What a request holds at each control point of its handler, and what the row of
\* the order it creates may be by then (CreateOrder, GetOrder, CancelOrder).
THEOREM ControlInvariant == Spec => []Control
<1>1. Init => AllLocalStates /\ AllRowStates
  BY DEF Init, AllLocalStates, AllRowStates, LocalState, RowState, Closing, Creates
<1>2. TypeOK /\ AllLocalStates /\ AllRowStates /\ [Next]_vars
        => AllLocalStates' /\ AllRowStates'
  BY LocalStateStep, RowStateStep
<1> QED
  BY <1>1, <1>2, TypeInvariant, PTL DEF Spec, Control

\* A settled order keeps its outcome, whatever requests race: Paid and Failed
\* are left only for Cancelled, and no row goes back to Pending or disappears.
THEOREM OutcomeStays == Spec => OutcomeIsFinal
<1>1. Control /\ [Next]_vars =>
        \A id \in Requests : orders[id] # None =>
              /\ orders'[id] \notin {None, "Pending"} \ {orders[id]}
              /\ id \in Unmarked => orders'[id] \in MayBecome[orders[id]]
  BY RowStep DEF Control, RowKeepsOutcome
<1> QED
  BY <1>1, ControlInvariant, PTL DEF Spec, OutcomeIsFinal

-----------------------------------------------------------------------------
(* Idempotency keys *)

\* No step gives two rows one key: INSERT is refused while the key is taken.
LEMMA KeyStep ==
    ASSUME Control, RowsDifferInKey, [Next]_vars
    PROVE  RowsDifferInKey'
<1> SUFFICES ASSUME NEW r \in Requests, NEW s \in Requests,
                    SameKey(r, s)', orders'[r] # None, orders'[s] # None
             PROVE  r = s
  BY DEF RowsDifferInKey
<1>1. op' = op
  BY DEF Next, Handler, vars, RejectAmount, BeginCreate, BeginOther, LookupKey, Insert,
         PaymentError, PaymentAnswered, UpdateStatus, Notify, Fill, Invalidate, CacheGet,
         Load, Expire, Disconnect, Crash
<1>2. SameKey(r, s)
  BY <1>1 DEF SameKey, Creates
<1>3. CASE orders' = orders
  BY <1>2, <1>3 DEF RowsDifferInKey
<1>4. ASSUME NEW q \in Requests, UpdateStatus(q) PROVE r = s
  <2>1. orders[r] # None /\ orders[s] # None
    BY <1>4, Domains, OpShape DEF UpdateStatus, Rows, Control
  <2> QED
    BY <1>2, <2>1 DEF RowsDifferInKey
<1>5. ASSUME NEW q \in Requests, Insert(q), orders' # orders PROVE r = s
  <2>1. ~KeyTaken(q) /\ orders' = [orders EXCEPT ![q] = "Pending"]
    BY <1>5 DEF Insert
  <2>2. \A id \in Requests : orders[id] # None /\ op[id].key = op[q].key => op[q].key = NoKey
    BY <2>1 DEF KeyTaken, RowsWithKey, Rows
  <2> QED
    BY <1>2, <2>1, <2>2, Domains DEF SameKey, RowsDifferInKey, Control
<1> QED
  BY <1>3, <1>4, <1>5, TableWrites

\* No two rows of the orders table share an idempotency key (the UNIQUE
\* constraint of the migration).
THEOREM KeyInvariant == Spec => []RowsDifferInKey
<1>1. Init => RowsDifferInKey
  BY DEF Init, RowsDifferInKey
<1>2. Control /\ RowsDifferInKey /\ [Next]_vars => RowsDifferInKey'
  BY KeyStep
<1> QED
  BY <1>1, <1>2, ControlInvariant, PTL DEF Spec

\* Of all requests with one idempotency key, at any time and in any number, at
\* most one has its order charged.
THEOREM OneCharge == Spec => []OneChargePerKey
<1>1. Control /\ RowsDifferInKey => OneChargePerKey
  BY DEF Control, AllRowStates, RowState, Charging, RowsDifferInKey, OneChargePerKey
<1> QED
  BY <1>1, ControlInvariant, KeyInvariant, PTL

-----------------------------------------------------------------------------
(* What anybody is shown of an order *)

\* What was asked does not change, and an answered payment stays answered.
LEMMA AnswerStep ==
    ASSUME TypeOK, AllRowStates, [Next]_vars
    PROVE  /\ op' = op
           /\ \A id \in Requests : answer[id] # None => answer'[id] = answer[id]
<1> DEFINE Goal == /\ op' = op
                   /\ \A id \in Requests : answer[id] # None => answer'[id] = answer[id]
<1>1. CASE op' = op /\ answer' = answer
  BY <1>1
<1>2. ASSUME NEW r \in Requests, PaymentError(r) PROVE Goal
  BY <1>2, Domains DEF PaymentError, AllRowStates, RowState
<1>3. ASSUME NEW r \in Requests, NEW s \in {"Authorized", "Declined"}, PaymentAnswered(r, s)
      PROVE  Goal
  BY <1>3, Domains DEF PaymentAnswered, AllRowStates, RowState
<1>4. \/ op' = op /\ answer' = answer
      \/ \E r \in Requests : PaymentError(r) \/ \E s \in {"Authorized", "Declined"} : PaymentAnswered(r, s)
  BY DEF Next, Handler, vars, RejectAmount, BeginCreate, BeginOther, LookupKey, Insert,
         UpdateStatus, Notify, Fill, Invalidate, CacheGet, Load, Expire, Disconnect, Crash
<1> QED
  BY <1>1, <1>2, <1>3, <1>4

\* What was rightly shown stays right.
LEMMA SupportStays ==
    ASSUME Control, [Next]_vars, NEW id \in Requests, NEW v, Supported(id, v)
    PROVE  Supported(id, v)'
<1>1. RowKeepsOutcome(id)
  BY RowStep DEF Control
<1>2. Unmarked' = Unmarked
  BY AnswerStep DEF Unmarked, Control
<1> QED
  BY <1>1, <1>2, AnswerStep DEF Control, Supported, RowKeepsOutcome

\* The row itself is the first of the views.
LEMMA RowSupported ==
    ASSUME Control, NEW id \in Requests, orders[id] # None
    PROVE  Supported(id, orders[id])
BY DEF Control, AllRowStates, RowState, Supported

\* What a closing step has just written to the row is a status the gateway, or a
\* cancellation, accounts for.
LEMMA WrittenSupported ==
    ASSUME Control, [Next]_vars, NEW r \in Requests, UpdateStatus(r), pc'[r] = "notify"
    PROVE  Supported(op[r].id, status[r])'
<1>1. orders'[op[r].id] = status[r] /\ op[r].id \in Requests
  BY Domains, OpShape DEF Control, UpdateStatus, UpdateFailed, Reply, Goto, Rows, Applied
<1>2. status[r] # None
  BY OpShape DEF Control, UpdateStatus, AllLocalStates, LocalState, Closing, Creates, Outcome
<1>3. AllRowStates'
  BY RowStateStep DEF Control
<1>4. op' = op /\ status' = status
  BY DEF UpdateStatus
<1> QED
  BY <1>1, <1>2, <1>3, <1>4 DEF AllRowStates, RowState, Supported

\* A status that is read or committed in a step, and passed on later, is rightly
\* held from then on.
LEMMA FlightStep ==
    ASSUME Control, FlightSupported, [Next]_vars
    PROVE  FlightSupported'
<1> SUFFICES ASSUME NEW q \in Requests, InFlight(q)' PROVE Supported(op[q].id, status[q])'
  BY DEF FlightSupported
<1>a. op' = op /\ op[q].id \in Requests
  BY AnswerStep, OpShape DEF Control
<1>b. ASSUME InFlight(q), status'[q] = status[q] PROVE Supported(op[q].id, status[q])'
  BY <1>a, <1>b, SupportStays DEF FlightSupported
<1>c. ASSUME orders[op[q].id] # None, status'[q] = orders[op[q].id]
      PROVE  Supported(op[q].id, status[q])'
  BY <1>a, <1>c, SupportStays, RowSupported
<1>d. TypeOK
  BY DEF Control
<1>1. ASSUME NEW r \in Requests, RejectAmount(r) PROVE Supported(op[q].id, status[q])'
  BY <1>1, <1>b, <1>d, Domains
     DEF RejectAmount, Reply, Goto, InFlight
<1>2. ASSUME NEW r \in Requests, BeginCreate(r) PROVE Supported(op[q].id, status[q])'
  BY <1>2, <1>b, <1>d, Domains
     DEF BeginCreate, Goto, InFlight
<1>3. ASSUME NEW r \in Requests, BeginOther(r) PROVE Supported(op[q].id, status[q])'
  BY <1>3, <1>b, <1>d, Domains
     DEF BeginOther, Goto, InFlight
<1>4. ASSUME NEW r \in Requests, LookupKey(r) PROVE Supported(op[q].id, status[q])'
  BY <1>4, <1>b, <1>d, Domains
     DEF LookupKey, Reply, Goto, InFlight
<1>5. ASSUME NEW r \in Requests, Insert(r) PROVE Supported(op[q].id, status[q])'
  BY <1>5, <1>b, <1>d, Domains
     DEF Insert, Reply, Goto, InFlight
<1>6. ASSUME NEW r \in Requests, PaymentError(r) PROVE Supported(op[q].id, status[q])'
  BY <1>6, <1>b, <1>d, Domains
     DEF PaymentError, Goto, InFlight
<1>7. ASSUME NEW r \in Requests, NEW s \in {"Authorized", "Declined"}, PaymentAnswered(r, s)
     PROVE Supported(op[q].id, status[q])'
  BY <1>7, <1>b, <1>d, Domains
     DEF PaymentAnswered, Goto, InFlight
<1>8. ASSUME NEW r \in Requests, UpdateStatus(r) PROVE Supported(op[q].id, status[q])'
  <2>1. CASE q = r /\ pc'[r] = "notify"
    BY <1>8, <2>1, WrittenSupported
  <2>2. CASE q = r /\ pc'[r] # "notify"
    BY <1>8, <2>2, <1>d, Domains DEF UpdateStatus, UpdateFailed, Reply, Goto, InFlight
  <2>3. CASE q # r
    BY <1>8, <2>3, <1>b, <1>d, Domains DEF UpdateStatus, UpdateFailed, Reply, Goto, InFlight
  <2> QED
    BY <2>1, <2>2, <2>3
<1>9. ASSUME NEW r \in Requests, Notify(r) PROVE Supported(op[q].id, status[q])'
  BY <1>9, <1>b, <1>d, Domains
     DEF Notify, Goto, InFlight
<1>10. ASSUME NEW r \in Requests, Fill(r) PROVE Supported(op[q].id, status[q])'
  BY <1>10, <1>b, <1>d, Domains
     DEF Fill, Reply, Goto, InFlight
<1>11. ASSUME NEW r \in Requests, Invalidate(r) PROVE Supported(op[q].id, status[q])'
  BY <1>11, <1>b, <1>d, Domains
     DEF Invalidate, Reply, Goto, InFlight
<1>12. ASSUME NEW r \in Requests, CacheGet(r) PROVE Supported(op[q].id, status[q])'
  BY <1>12, <1>b, <1>d, Domains
     DEF CacheGet, Reply, Goto, InFlight
<1>13. ASSUME NEW r \in Requests, Load(r) PROVE Supported(op[q].id, status[q])'
  <2>1. CASE q = r
    BY <1>13, <2>1, <1>c, <1>d, Domains DEF Load, LoadedRow, Reply, Goto, Rows, InFlight
  <2>2. CASE q # r
    BY <1>13, <2>2, <1>b, <1>d, Domains DEF Load, LoadedRow, Reply, Goto, InFlight
  <2> QED
    BY <2>1, <2>2
<1>14. ASSUME NEW r \in Requests, Expire(r) PROVE Supported(op[q].id, status[q])'
  BY <1>14, <1>b, <1>d, Domains
     DEF Expire, InFlight
<1>15. ASSUME NEW r \in Requests, Disconnect(r) PROVE Supported(op[q].id, status[q])'
  BY <1>15, <1>b, <1>d, Domains
     DEF Disconnect, InFlight
<1>16. CASE Crash
  BY <1>16, <1>b, <1>d, Domains
     DEF Crash, Active, InFlight
<1>17. CASE UNCHANGED vars
  BY <1>17, <1>b, <1>d, Domains
     DEF vars, InFlight
<1> QED
  BY <1>1, <1>2, <1>3, <1>4, <1>5, <1>6, <1>7, <1>8, <1>9,
     <1>10, <1>11, <1>12, <1>13, <1>14, <1>15, <1>16, <1>17 DEF Next, Handler

\* Whatever a step leaves in Redis was rightly held by the request that wrote it.
LEMMA CacheStep ==
    ASSUME Control, FlightSupported, CacheSupported, [Next]_vars
    PROVE  CacheSupported'
<1> SUFFICES ASSUME NEW id \in Requests, cache'[id] # None PROVE Supported(id, cache[id])'
  BY DEF CacheSupported
<1>1. CASE cache'[id] = cache[id]
  BY <1>1, SupportStays DEF CacheSupported
<1>2. ASSUME NEW r \in Requests, Fill(r), cache'[id] # cache[id] PROVE Supported(id, cache[id])'
  <2>1. id = op[r].id /\ cache'[id] = status[r]
    BY <1>2, Domains DEF Fill, Control, AllLocalStates, LocalState
  <2>2. Supported(id, status[r])
    BY <1>2, <2>1 DEF Fill, FlightSupported, InFlight
  <2> QED
    BY <2>1, <2>2, SupportStays
<1>3. ASSUME NEW r \in Requests, Invalidate(r) \/ Expire(r) PROVE cache'[id] = cache[id]
  BY <1>3, Domains, OpShape DEF Invalidate, Expire, Control
<1>4. \/ cache' = cache
      \/ \E r \in Requests : Fill(r) \/ Invalidate(r) \/ Expire(r)
  BY DEF Next, Handler, vars, RejectAmount, BeginCreate, BeginOther, LookupKey, Insert,
         PaymentError, PaymentAnswered, UpdateStatus, Notify, CacheGet, Load, Disconnect, Crash
<1> QED
  BY <1>1, <1>2, <1>3, <1>4

\* Whatever a step notifies was committed by the UPDATE before it.
LEMMA NotifiedStep ==
    ASSUME Control, FlightSupported, NotifiedSupported, [Next]_vars
    PROVE  NotifiedSupported'
<1> SUFFICES ASSUME NEW id \in Requests, NEW i \in DOMAIN notified'[id]
             PROVE  Supported(id, notified[id][i])'
  BY DEF NotifiedSupported
<1>1. CASE notified'[id] = notified[id]
  BY <1>1, SupportStays DEF NotifiedSupported
<1>2. ASSUME NEW r \in Requests, Notify(r), notified'[id] # notified[id]
      PROVE  Supported(id, notified[id][i])'
  <2>1. id = op[r].id /\ notified'[id] = Append(notified[id], status[r])
    BY <1>2 DEF Notify, Control, TypeOK
  <2>2. notified[id] \in Seq(Statuses)
    BY DEF Control, TypeOK
  <2>3. CASE i \in DOMAIN notified[id]
    <3>1. notified'[id][i] = notified[id][i]
      BY <2>1, <2>2, <2>3
    <3> QED
      BY <2>3, <3>1, SupportStays DEF NotifiedSupported
  <2>4. CASE i \notin DOMAIN notified[id]
    <3>1. notified'[id][i] = status[r]
      BY <2>1, <2>2, <2>4
    <3>2. Supported(id, status[r])
      BY <1>2, <2>1 DEF Notify, FlightSupported, InFlight
    <3> QED
      BY <3>1, <3>2, SupportStays
  <2> QED
    BY <2>3, <2>4
<1>3. \/ notified' = notified
      \/ \E r \in Requests : Notify(r)
  BY DEF Next, Handler, vars, RejectAmount, BeginCreate, BeginOther, LookupKey, Insert, Fill,
         Invalidate, PaymentError, PaymentAnswered, UpdateStatus, Expire, CacheGet, Load,
         Disconnect, Crash
<1> QED
  BY <1>1, <1>2, <1>3

\* Whatever a step shows in a reply was rightly held, read from the table or read
\* from a cache that was rightly filled.
LEMMA RepliesStep ==
    ASSUME Control, FlightSupported, CacheSupported, RepliesSupported, [Next]_vars
    PROVE  RepliesSupported'
<1> SUFFICES ASSUME NEW q \in Requests, ShowsOrder(q)' PROVE Supported(subject[q], status[q])'
  BY DEF RepliesSupported
<1>a. TypeOK /\ LocalState(q)
  BY DEF Control, AllLocalStates
<1>b. ASSUME ShowsOrder(q) PROVE subject'[q] = subject[q] /\ status'[q] = status[q]
  <2>1. pc[q] = "done"
    BY <1>a, <1>b DEF LocalState, ShowsOrder
  <2> QED
    BY <2>1, <1>a, Domains
       DEF Next, Handler, vars, RejectAmount, BeginCreate, BeginOther, LookupKey, Insert,
           PaymentError, PaymentAnswered, UpdateStatus, Notify, Fill, Invalidate, CacheGet, Load,
           LoadedRow, Expire, Disconnect, Crash
<1>c. CASE ShowsOrder(q)
  BY <1>a, <1>b, <1>c, SupportStays, Domains DEF RepliesSupported
<1>d. ASSUME ~ShowsOrder(q), LookupKey(q) PROVE Supported(subject[q], status[q])'
  <2>1. PICK id \in RowsWithKey(op[q].key) : subject'[q] = id /\ status'[q] = orders[id]
    BY <1>a, <1>d, Domains DEF LookupKey, Reply, Goto, ShowsOrder
  <2>2. id \in Requests /\ orders[id] # None
    BY DEF RowsWithKey, Rows
  <2> QED
    BY <2>1, <2>2, RowSupported, SupportStays
<1>e. ASSUME ~ShowsOrder(q), CacheGet(q) PROVE Supported(subject[q], status[q])'
  <2>1. cache[op[q].id] # None /\ subject'[q] = op[q].id /\ status'[q] = cache[op[q].id]
    BY <1>a, <1>e, Domains DEF CacheGet, Goto, ShowsOrder, LocalState
  <2> QED
    BY <2>1, <1>a, OpShape, SupportStays DEF CacheSupported
<1>f. ASSUME ~ShowsOrder(q), Fill(q) \/ Invalidate(q) PROVE Supported(subject[q], status[q])'
  <2>1. subject'[q] = op[q].id /\ status'[q] = status[q]
    BY <1>a, <1>f DEF Fill, Invalidate, LocalState
  <2>2. InFlight(q)
    <3>1. CASE Fill(q)
      BY <3>1 DEF Fill, InFlight
    <3>2. CASE Invalidate(q) /\ answer[q] = "error"
      <4>1. Creates(q)
        BY <3>2 DEF Control, AllRowStates, RowState
      <4>2. code'[q] = "ServiceUnavailable"
        BY <1>a, <3>2, <4>1, Domains DEF Invalidate, Reply, FinalCode
      <4> QED
        BY <4>2 DEF ShowsOrder
    <3>3. CASE Invalidate(q) /\ answer[q] # "error"
      BY <3>3 DEF Invalidate, InFlight
    <3> QED
      BY <1>f, <3>1, <3>2, <3>3
  <2> QED
    BY <2>1, <2>2, <1>a, OpShape, SupportStays DEF FlightSupported
<1>g. ASSUME ~ShowsOrder(q), ~LookupKey(q), ~CacheGet(q), ~Fill(q), ~Invalidate(q)
      PROVE  FALSE
  BY SMTT(30), <1>g, <1>a, Domains
     DEF Next, Handler, vars, RejectAmount, BeginCreate, BeginOther, LookupKey, Insert,
         PaymentError, PaymentAnswered, UpdateStatus, UpdateFailed, Notify, Fill, Invalidate,
         CacheGet, Load, LoadedRow, Expire, Disconnect, Crash, Reply, ShowsOrder
<1> QED
  BY <1>c, <1>d, <1>e, <1>f, <1>g

\* Every status in flight, in the cache, in a reply or in a notification is
\* supported by the row and by what the gateway answered.
THEOREM ViewsInvariant == Spec => []ViewsSupported
<1>1. Init => ViewsSupported
  BY DEF Init, ViewsSupported, FlightSupported, CacheSupported, RepliesSupported, NotifiedSupported,
         InFlight, ShowsOrder
<1>2. Control /\ ViewsSupported /\ [Next]_vars => ViewsSupported'
  BY FlightStep, CacheStep, RepliesStep, NotifiedStep DEF ViewsSupported
<1> QED
  BY <1>1, <1>2, ControlInvariant, PTL DEF Spec

\* A supported status is one the row may have turned from.
LEMMA SupportedConsistent ==
    ASSUME Control, NEW id \in Requests, NEW v \in Statuses, Supported(id, v)
    PROVE  Consistent(id, v)
<1> SUFFICES ASSUME id \in Unmarked PROVE orders[id] \in MayBecome[v]
  BY DEF Consistent
<1>1. orders[id] \in Statuses
  BY Domains DEF Control, Supported
<1> QED
  BY <1>1 DEF Control, AllRowStates, RowState, Supported, MayBecome, Statuses

\* An outcome that was shown by a reply, the cache or a notification was committed
\* and holds: Paid stays Paid and Failed stays Failed until a cancellation.  A
\* Cancelled that was shown only says that the order is not Pending.
THEOREM OutcomesStayShown == Spec => []OutcomesShownHold
<1>1. Control /\ ViewsSupported => OutcomesShownHold
  <2> SUFFICES ASSUME Control, ViewsSupported PROVE OutcomesShownHold
    OBVIOUS
  <2>a. TypeOK
    BY DEF Control
  <2>1. ASSUME NEW id \in Requests, cache[id] # None PROVE Consistent(id, cache[id])
    BY <2>a, <2>1, Domains, SupportedConsistent DEF ViewsSupported, CacheSupported
  <2>2. ASSUME NEW r \in Requests, ShowsOrder(r) PROVE Consistent(subject[r], status[r])
    <3>1. Supported(subject[r], status[r]) /\ subject[r] \in Requests
      BY <2>a, <2>2, Domains DEF ViewsSupported, RepliesSupported
    <3>2. CASE status[r] \in Statuses
      BY <3>1, <3>2, SupportedConsistent
    <3>3. CASE status[r] = None
      BY <3>1, <3>3 DEF Supported
    <3> QED
      BY <2>a, <3>2, <3>3, Domains
  <2>3. ASSUME NEW id \in Requests, NEW i \in DOMAIN notified[id]
        PROVE  Consistent(id, notified[id][i])
    <3>1. notified[id][i] \in Statuses
      BY <2>a, <2>3 DEF TypeOK
    <3> QED
      BY <2>3, <3>1, SupportedConsistent DEF ViewsSupported, NotifiedSupported
  <2> QED
    BY <2>1, <2>2, <2>3 DEF OutcomesShownHold
<1> QED
  BY <1>1, ControlInvariant, ViewsInvariant, PTL

-----------------------------------------------------------------------------
(* Replies *)

AllReplyStates == \A r \in Requests : ReplyState(r)

\* A request that is answered this way had not been answered before: only its
\* own closing step, or the replay of an earlier order, writes the reply.
LEMMA ReplyStep ==
    ASSUME Control, AllReplyStates, [Next]_vars
    PROVE  AllReplyStates'
<1> SUFFICES ASSUME NEW q \in Requests PROVE ReplyState(q)'
  BY DEF AllReplyStates
<1>a. TypeOK /\ LocalState(q) /\ RowState(q) /\ ReplyState(q)
  BY DEF Control, AllLocalStates, AllRowStates, AllReplyStates
<1>b. op' = op /\ \A id \in Requests : orders[id] # None => orders'[id] # None
  BY AnswerStep, RowStep DEF Control, RowKeepsOutcome
<1>c. subject[q] \in Requests
  BY <1>a, Domains
<1>d. CASE code'[q] = code[q] /\ subject'[q] = subject[q] /\ (status'[q] = status[q] \/ code[q] = None)
  BY <1>a, <1>b, <1>c, <1>d DEF ReplyState, SameKey, Creates
<1>e. CASE code'[q] \notin {"OK", "Created", "UnprocessableEntity"}
  BY <1>e DEF ReplyState
<1>f. ASSUME LookupKey(q), code'[q] \in {"OK", "Created", "UnprocessableEntity"}, code'[q] # code[q]
      PROVE  ReplyState(q)'
  <2>1. PICK id \in RowsWithKey(op[q].key) : subject'[q] = id
    BY <1>a, <1>f, Domains DEF LookupKey, Reply, Goto
  <2>2. /\ id \in Requests /\ orders[id] # None /\ op[id].key = op[q].key
        /\ Creates(q) /\ op[q].key # NoKey /\ orders[q] = None /\ code'[q] = "Created"
    BY <1>a, <1>f, <2>1, Domains
       DEF LookupKey, Reply, Goto, RowsWithKey, Rows, LocalState, RowState
  <2>3. Creates(id)
    BY <2>2 DEF Control, AllRowStates, RowState
  <2> QED
    BY <1>b, <2>1, <2>2, <2>3 DEF ReplyState, SameKey, Creates
<1>g. ASSUME CacheGet(q), code'[q] \in {"OK", "Created", "UnprocessableEntity"}, code'[q] # code[q]
      PROVE  ReplyState(q)'
  <2>1. code'[q] = "OK" /\ ~Creates(q)
    BY <1>a, <1>g, Domains DEF CacheGet, Reply, Goto, LocalState
  <2> QED
    BY <1>b, <2>1 DEF ReplyState, Creates
<1>h. ASSUME Fill(q) \/ Invalidate(q) PROVE ReplyState(q)'
  <2>1. code'[q] = FinalCode(q) /\ subject'[q] = op[q].id /\ status'[q] = status[q]
    BY <1>a, <1>h, Domains DEF Fill, Invalidate, Reply, LocalState
  <2>2. CASE Creates(q)
    <3>1. subject'[q] = q /\ FinalCode(q) # "OK"
      BY <1>a, <2>1, <2>2, OpShape DEF FinalCode
    <3>2. answer[q] # None /\ status[q] \in {"Paid", "Failed"}
      BY <1>a, <1>h, <2>2 DEF Fill, Invalidate, LocalState, Closing, Outcome
    <3>3. orders[q] # None
      BY <1>a, <3>2 DEF RowState
    <3> QED
      BY <1>b, <2>1, <2>2, <3>1, <3>2, <3>3 DEF ReplyState, Creates
  <2>3. CASE ~Creates(q)
    BY <1>b, <2>1, <2>3 DEF FinalCode, ReplyState, Creates
  <2> QED
    BY <2>2, <2>3
<1>i. ASSUME ~LookupKey(q), ~CacheGet(q), ~Fill(q), ~Invalidate(q)
      PROVE  \/ code'[q] \notin {"OK", "Created", "UnprocessableEntity"}
             \/ /\ code'[q] = code[q] /\ subject'[q] = subject[q]
                /\ status'[q] = status[q] \/ code[q] = None
  BY SMTT(30), <1>a, <1>i, Domains
     DEF Next, Handler, vars, RejectAmount, BeginCreate, BeginOther, LookupKey, Insert,
         PaymentError, PaymentAnswered, UpdateStatus, UpdateFailed, Notify, Fill, Invalidate,
         CacheGet, Load, LoadedRow, Expire, Disconnect, Crash, Reply, LocalState
<1>j. ASSUME LookupKey(q) \/ CacheGet(q), code'[q] = code[q] PROVE ReplyState(q)'
  <2>1. code[q] = None
    BY <1>a, <1>j DEF LookupKey, CacheGet, LocalState
  <2> QED
    BY <1>j, <2>1 DEF ReplyState
<1> QED
  BY <1>d, <1>e, <1>f, <1>g, <1>h, <1>i, <1>j

\* A 201 shows the creator's own order, or one with its key, and that order is in
\* the table.
THEOREM ReplyInvariant == Spec => []AllReplyStates
<1>1. Init => AllReplyStates
  BY DEF Init, AllReplyStates, ReplyState
<1>2. Control /\ AllReplyStates /\ [Next]_vars => AllReplyStates'
  BY ReplyStep
<1> QED
  BY <1>1, <1>2, ControlInvariant, PTL DEF Spec

\* However often a request is repeated with its idempotency key, every 201 shows
\* one and the same order.
THEOREM SameOrderForKey == Spec => []IdempotentReplies
<1>1. Control /\ RowsDifferInKey /\ AllReplyStates => IdempotentReplies
  <2> SUFFICES ASSUME Control, RowsDifferInKey, AllReplyStates,
                      NEW r \in Requests, NEW s \in Requests, SameKey(r, s),
                      code[r] = "Created", code[s] = "Created"
               PROVE  subject[r] = subject[s]
    BY DEF IdempotentReplies
  <2>1. subject[r] \in Requests /\ subject[s] \in Requests
    BY Domains DEF Control
  <2>2. orders[subject[r]] # None /\ orders[subject[s]] # None
    BY DEF AllReplyStates, ReplyState
  <2>3. SameKey(subject[r], subject[s])
    BY DEF AllReplyStates, ReplyState, SameKey
  <2> QED
    BY <2>1, <2>2, <2>3 DEF RowsDifferInKey
<1> QED
  BY <1>1, ControlInvariant, KeyInvariant, ReplyInvariant, PTL

\* The table agrees with the payment gateway, and a creator that was told how
\* its payment ended has left no Pending row behind.
THEOREM RowFollowsGateway == Spec => []RowAgreesWithGateway
<1>1. Control /\ AllReplyStates /\ ViewsSupported => RowAgreesWithGateway
  <2> SUFFICES ASSUME Control, AllReplyStates, ViewsSupported, NEW r \in Unmarked
               PROVE  /\ orders[r] = "Paid" => answer[r] = "Authorized"
                      /\ orders[r] = "Failed" => answer[r] \in {"Declined", "error"}
                      /\ code[r] \in {"Created", "UnprocessableEntity"} /\ subject[r] = r
                            => orders[r] # "Pending"
    BY DEF RowAgreesWithGateway
  <2>1. r \in Requests
    BY DEF Unmarked
  <2>2. ASSUME code[r] \in {"Created", "UnprocessableEntity"}, subject[r] = r
        PROVE  orders[r] # "Pending"
    <3>1. status[r] \in {"Paid", "Failed"}
      BY <2>1, <2>2 DEF AllReplyStates, ReplyState
    <3>2. Supported(r, status[r])
      BY <2>1, <2>2 DEF ViewsSupported, RepliesSupported, ShowsOrder
    <3> QED
      BY <3>1, <3>2 DEF Supported
  <2> QED
    BY <2>1, <2>2 DEF Control, AllRowStates, RowState
<1> QED
  BY <1>1, ControlInvariant, ReplyInvariant, ViewsInvariant, PTL

-----------------------------------------------------------------------------
(* What the creator of a row is told *)

Unsettled == {"InternalServerError", "ServiceUnavailable"}
Settled == {"Created", "UnprocessableEntity"}

\* The creator of a row never shows another one, has it settled before it goes on
\* with an answer of the gateway, and ends with a reply of either sort.
Told(r) ==
    Creates(r) /\ orders[r] # None =>
        /\ subject[r] = r
        /\ pc[r] \in {"notify", "fill"} \/ (pc[r] = "invalidate" /\ answer[r] # "error")
              => orders[r] # "Pending"
        /\ pc[r] = "done" => code[r] \in Settled \cup Unsettled
        /\ pc[r] = "done" /\ code[r] \in Settled => orders[r] # "Pending"

AllTold == \A r \in Requests : Told(r)

\* What other requests do leaves a creator as it was told.
LEMMA ToldStays ==
    ASSUME Control, AllTold, [Next]_vars, NEW r \in Requests, op' = op, orders[r] # None,
           subject'[r] = subject[r], pc'[r] = pc[r], answer'[r] = answer[r], code'[r] = code[r]
    PROVE  Told(r)'
<1>1. orders'[r] = "Pending" => orders[r] = "Pending"
  BY RowStep DEF Control, RowKeepsOutcome
<1> QED
  BY <1>1 DEF AllTold, Told, Creates

LEMMA ToldStep ==
    ASSUME Control, AllTold, [Next]_vars
    PROVE  AllTold'
<1> USE Domains, OpShape DEF Goto, Reply, Settled, Unsettled
<1> SUFFICES ASSUME NEW r \in Requests, Creates(r)', orders'[r] # None PROVE Told(r)'
  BY DEF AllTold, Told
<1>0. TypeOK /\ LocalState(r) /\ RowState(r) /\ Told(r) /\ op' = op
  BY AnswerStep DEF Control, AllLocalStates, AllRowStates, AllTold
<1>1. Creates(r) /\ op[r].id = r
  BY <1>0 DEF Creates
<1>2. orders'[r] = "Pending" => orders[r] \in {None, "Pending"}
  BY RowStep DEF Control, RowKeepsOutcome
<1>3. ASSUME Insert(r) PROVE Told(r)'
  <2>1. pc[r] = "insert" /\ subject[r] = r /\ subject' = subject
    BY <1>0, <1>1, <1>3 DEF Insert, LocalState
  <2>2. pc' = [pc EXCEPT ![r] = "authorize"] \/
          (pc' = [pc EXCEPT ![r] = "done"] /\ code' = [code EXCEPT ![r] = "InternalServerError"])
    BY <1>3 DEF Insert
  <2> QED
    BY <1>0, <2>1, <2>2 DEF Told
<1>4. ASSUME UpdateStatus(r) PROVE Told(r)'
  <2>1. /\ orders[r] # None /\ subject[r] = r /\ subject' = subject /\ answer' = answer
        /\ status[r] \in {"Paid", "Failed"}
    <3>1. answer[r] # None
      BY <1>0, <1>1, <1>4 DEF UpdateStatus, LocalState, Closing
    <3> QED
      BY <1>0, <1>1, <1>4, <3>1 DEF UpdateStatus, LocalState, RowState, Closing, Outcome
  <2>2. CASE pc' = [pc EXCEPT ![r] = "notify"]
    <3>1. orders'[r] = status[r]
      BY <1>0, <1>1, <1>4, <2>1, <2>2 DEF UpdateStatus, UpdateFailed, Applied, Rows
    <3> QED
      BY <1>0, <2>1, <2>2, <3>1 DEF Told
  <2>3. CASE answer[r] = "error" /\ pc' = [pc EXCEPT ![r] = "invalidate"]
    BY <1>0, <2>1, <2>3 DEF Told
  <2>4. CASE pc' = [pc EXCEPT ![r] = "done"] /\ code' = [code EXCEPT ![r] = "InternalServerError"]
    BY <1>0, <2>1, <2>4 DEF Told
  <2> QED
    BY <1>1, <1>4, <2>1, <2>2, <2>3, <2>4 DEF UpdateStatus, UpdateFailed, Rows
<1>5. ASSUME Notify(r) PROVE Told(r)'
  BY <1>0, <1>1, <1>5 DEF Notify, Told
<1>6. ASSUME Fill(r) \/ Invalidate(r) PROVE Told(r)'
  <2>1. /\ orders[r] # None /\ orders' = orders /\ subject' = subject /\ answer' = answer
        /\ pc' = [pc EXCEPT ![r] = "done"] /\ code' = [code EXCEPT ![r] = FinalCode(r)]
        /\ answer[r] # None /\ (answer[r] # "error" => orders[r] # "Pending")
        /\ subject[r] = r
    BY <1>0, <1>1, <1>6 DEF Fill, Invalidate, LocalState, RowState, Closing, Told
  <2>2. FinalCode(r) \in Settled \cup Unsettled /\ (FinalCode(r) \in Settled => answer[r] # "error")
    BY <1>0, <1>1, <2>1 DEF FinalCode, Answers
  <2> QED
    BY <1>0, <2>1, <2>2 DEF Told
<1>7. ASSUME PaymentError(r) \/ \E s \in {"Authorized", "Declined"} : PaymentAnswered(r, s)
      PROVE  Told(r)'
  BY <1>0, <1>1, <1>7 DEF PaymentError, PaymentAnswered, Told
<1>8. ASSUME RejectAmount(r) \/ BeginCreate(r) \/ LookupKey(r) PROVE FALSE
  <2>1. pc[r] \in {"idle", "lookup"} /\ orders' = orders
    BY <1>8 DEF RejectAmount, BeginCreate, LookupKey
  <2> QED
    BY <1>0, <2>1 DEF RowState
<1>9. ~BeginOther(r) /\ ~CacheGet(r) /\ ~Load(r)
  BY <1>0, <1>1 DEF BeginOther, CacheGet, Load, LocalState
<1>10. ASSUME Crash PROVE Told(r)'
  <2>1. (pc'[r] = "dead" \/ pc'[r] = pc[r]) /\ UNCHANGED <<op, subject, answer, code, orders>>
    BY <1>10 DEF Crash
  <2>2. CASE pc'[r] = pc[r]
    BY <1>0, <2>1, <2>2, ToldStays
  <2>3. CASE pc'[r] = "dead"
    BY <1>0, <1>1, <2>1, <2>3 DEF Told
  <2> QED
    BY <2>1, <2>2, <2>3
<1>11. ASSUME NEW q \in Requests, q # r,
              \/ RejectAmount(q) \/ BeginCreate(q) \/ BeginOther(q) \/ Handler(q)
              \/ \E s \in {"Authorized", "Declined"} : PaymentAnswered(q, s)
       PROVE  Told(r)'
  <2>1. /\ subject'[r] = subject[r] /\ pc'[r] = pc[r] /\ answer'[r] = answer[r]
        /\ code'[r] = code[r]
    BY SMTT(30), <1>0, <1>11
       DEF RejectAmount, BeginCreate, BeginOther, PaymentAnswered, Handler, LookupKey, Insert,
           PaymentError, UpdateStatus, UpdateFailed, Notify, Fill, Invalidate, CacheGet, Load, LoadedRow
  <2>2. orders[r] # None
    <3>1. ASSUME Insert(q) PROVE orders'[r] = orders[r]
      BY <1>0, <1>11, <3>1 DEF Insert
    <3>2. ASSUME UpdateStatus(q) PROVE orders[r] # None
      BY <1>0, <1>11, <3>2 DEF UpdateStatus, Rows
    <3> QED
      BY <1>11, <3>1, <3>2
         DEF RejectAmount, BeginCreate, BeginOther, PaymentAnswered, Handler, LookupKey,
             PaymentError, Notify, Fill, Invalidate, CacheGet, Load
  <2> QED
    BY <1>0, <2>1, <2>2, ToldStays
<1>12. ASSUME UNCHANGED vars \/ \E q \in Requests : Expire(q) \/ Disconnect(q) PROVE Told(r)'
  <2>1. UNCHANGED <<subject, pc, answer, code, orders>>
    BY <1>12 DEF vars, Expire, Disconnect
  <2> QED
    BY <1>0, <2>1, ToldStays
<1> QED
  BY <1>3, <1>4, <1>5, <1>6, <1>7, <1>8, <1>9, <1>10, <1>11, <1>12 DEF Next, Handler

\* Whoever creates a row is told how it was settled (201, 422), and then it is, or
\* that it may not be (500, 503): no other reply leaves a row behind.
THEOREM CreatorsAreTold == Spec => []AllTold
<1>1. Init => AllTold
  BY DEF Init, AllTold, Told
<1> QED
  BY <1>1, ToldStep, ControlInvariant, PTL DEF Spec

\* The invariant that carries all of the above: control, keys, views and replies.
THEOREM Invariant == Spec => []IndInv
<1>1. Control /\ RowsDifferInKey /\ AllReplyStates /\ ViewsSupported => IndInv
  BY DEF Control, AllLocalStates, AllRowStates, AllReplyStates, IndInv
<1> QED
  BY <1>1, ControlInvariant, KeyInvariant, ReplyInvariant, ViewsInvariant, PTL

=============================================================================
